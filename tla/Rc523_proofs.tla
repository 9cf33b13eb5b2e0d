---------------------------- MODULE Rc523_proofs ----------------------------
(***************************************************************************)
(* What is proved of the RC523's HAL for every size of FIFO and buffers,   *)
(* every set of configurations and every sequence of calls and faults: a   *)
(* host that waits is woken, a frame goes out as it was composed, and an   *)
(* answer is handed over as the peer sent it.                              *)
(***************************************************************************)
EXTENDS Rc523, SequenceTheorems, TLAPS

-----------------------------------------------------------------------------
(* The records.                                                            *)

ChipFields == {"cmd", "modem", "fifo", "irq", "err", "auto", "timer", "activated", "crypto"}
CallFields == {"op", "opt", "pc", "data", "got", "irq", "modem", "status"}
PeerFields == {"frame", "out", "answer", "quality", "count"}
HalFields == {"txLen", "rxLen", "start", "dep"}

IsChip(c) == c = [f \in ChipFields |-> c[f]] /\ c.fifo \in Seq(Int) /\ Len(c.fifo) <= FifoSize
IsCall(k) == k = [f \in CallFields |-> k[f]] /\ k.data \in Seq(Int) /\ k.got \in Seq(Int)
IsPeer(p) == p = [f \in PeerFields |-> p[f]] /\ p.frame \in Seq(Int) /\ p.out \in Seq(Int) /\ p.count \in Nat
IsHal(h) == h = [f \in HalFields |-> h[f]] /\ h.txLen \in Nat /\ h.start \in 0 .. BufSize
IsMem(m) == m = [b \in {"rx", "tx"} |-> m[b]] /\ \A b \in {"rx", "tx"} : m[b] \in [1 .. BufSize -> Int]
IsComposed(d) == d = [f \in {"bytes", "open"} |-> d[f]] /\ d.bytes \in Seq(Int)

Typed ==
  /\ cfg \in Setups /\ IsChip(chip) /\ IsCall(call) /\ IsPeer(peer) /\ IsHal(hal) /\ IsMem(mem)
  /\ IsComposed(composed) /\ calls \in Nat /\ TxBase + hal.txLen <= BufSize

LEMMA ToIdleIs ==
  ASSUME NEW c, IsChip(c)
  PROVE  LET s == ToIdle(c) IN
         /\ IsChip(s) /\ s.cmd = "idle" /\ s.modem = "idle" /\ s.fifo = c.fifo /\ s.irq = c.irq /\ s.err = c.err
         /\ s.auto = c.auto /\ s.timer = c.timer /\ s.activated = c.activated
  BY DEF IsChip, ChipFields, ToIdle

LEMMA ClearedIs ==
  ASSUME NEW c, IsChip(c)
  PROVE  LET s == Cleared(c) IN
         /\ IsChip(s) /\ s.cmd = c.cmd /\ s.modem = c.modem /\ s.fifo = <<>> /\ s.irq = {} /\ s.err = {}
         /\ s.auto = c.auto /\ s.timer = c.timer /\ s.activated = c.activated
<1>1. <<>> \in Seq(Int) /\ Len(<<>>) <= FifoSize
  BY SizeAssumption
<1> QED
  BY <1>1 DEF IsChip, ChipFields, Cleared

LEMMA RaiseIs ==
  ASSUME NEW c, IsChip(c), NEW flags
  PROVE  LET s == Raise(c, flags) IN
         /\ IsChip(s) /\ s.cmd = c.cmd /\ s.modem = c.modem /\ s.fifo = c.fifo /\ s.irq = c.irq \cup flags /\ s.err = c.err
         /\ s.auto = c.auto /\ s.timer = c.timer /\ s.activated = c.activated
  BY DEF IsChip, ChipFields, Raise

LEMMA ListenIs ==
  ASSUME NEW c, IsChip(c), NEW cmd
  PROVE  LET s == Listen(c, cmd) IN
         /\ IsChip(s) /\ s.cmd = cmd /\ s.modem = (IF cmd = "receive" THEN "wait" ELSE "start")
         /\ s.fifo = c.fifo /\ s.irq = c.irq /\ s.err = c.err /\ s.auto = c.auto /\ s.timer = c.timer /\ s.activated = c.activated
  BY DEF IsChip, ChipFields, Listen

LEMMA EmptiedIs ==
  ASSUME NEW c, IsChip(c)
  PROVE  LET s == [c EXCEPT !.fifo = <<>>] IN
         /\ IsChip(s) /\ s.cmd = c.cmd /\ s.modem = c.modem /\ s.fifo = <<>> /\ s.irq = c.irq /\ s.err = c.err
         /\ s.auto = c.auto /\ s.timer = c.timer /\ s.activated = c.activated
<1>1. <<>> \in Seq(Int) /\ Len(<<>>) <= FifoSize
  BY SizeAssumption
<1> QED
  BY <1>1 DEF IsChip, ChipFields

\* Bytes that fit are in the FIFO behind the others, and no error is flagged.
LEMMA FillIs ==
  ASSUME NEW c, IsChip(c), NEW bytes \in Seq(Int)
  PROVE  LET s == Fill(c, bytes) IN
         /\ IsChip(s) /\ s.cmd = c.cmd /\ s.modem = c.modem /\ s.auto = c.auto /\ s.timer = c.timer /\ s.activated = c.activated
         /\ c.irq \subseteq s.irq /\ s.irq \subseteq c.irq \cup {"HIALERT", "ERR"} /\ c.err \subseteq s.err
         /\ \/ /\ Len(c.fifo) + Len(bytes) <= FifoSize /\ s.fifo = c.fifo \o bytes /\ s.irq \subseteq c.irq \cup {"HIALERT"}
               /\ s.err = c.err
            \/ Len(c.fifo) + Len(bytes) > FifoSize /\ "ERR" \in s.irq /\ "BUFFEROVFL" \in s.err
<1> DEFINE all == c.fifo \o bytes
           n == Smaller(Len(all), FifoSize)
           over == Len(all) > n
           f == SubSeq(all, 1, n)
           e == c.err \cup IF over THEN {"BUFFEROVFL"} ELSE {}
           flags == (IF n >= AlertLevel THEN {"HIALERT"} ELSE {}) \cup (IF over THEN {"ERR"} ELSE {})
           t == [c EXCEPT !.fifo = f, !.err = e]
<1>1. Len(c.fifo) \in Nat /\ Len(bytes) \in Nat /\ all \in Seq(Int) /\ Len(all) = Len(c.fifo) + Len(bytes)
  BY DEF IsChip
<1>2. n \in Nat /\ n <= Len(all) /\ n <= FifoSize /\ (over \/ n = Len(all)) /\ (over => Len(all) > FifoSize)
  <2>1. Len(all) \in Nat
    BY <1>1
  <2> HIDE DEF all
  <2> QED
    BY <2>1, SizeAssumption DEF Smaller
<1>3. f \in Seq(Int) /\ Len(f) <= FifoSize /\ (n = Len(all) => f = all)
  <2> HIDE DEF all, n
  <2> QED
    BY <1>1, <1>2
<1> HIDE DEF f
<1>4. Fill(c, bytes) = Raise(t, flags)
  BY DEF Fill, f
<1>5. IsChip(t) /\ t.cmd = c.cmd /\ t.modem = c.modem /\ t.auto = c.auto /\ t.timer = c.timer /\ t.irq = c.irq
      /\ t.fifo = f /\ t.err = e /\ t.activated = c.activated
  <2> HIDE DEF e
  <2> QED
    BY <1>3 DEF IsChip, ChipFields
<1> HIDE DEF t
<1>6. LET s == Fill(c, bytes) IN
      /\ IsChip(s) /\ s.cmd = c.cmd /\ s.modem = c.modem /\ s.auto = c.auto /\ s.timer = c.timer /\ s.activated = c.activated
      /\ s.irq = c.irq \cup flags /\ s.err = e /\ s.fifo = f
  <2> HIDE DEF flags, e
  <2> QED
    BY <1>4, <1>5, RaiseIs
<1>7. flags \subseteq {"HIALERT", "ERR"} /\ c.err \subseteq e /\ (over => "ERR" \in flags /\ "BUFFEROVFL" \in e)
      /\ (~over => flags \subseteq {"HIALERT"} /\ e = c.err)
  <2> HIDE DEF over, n
  <2> QED
    OBVIOUS
<1>8. IF over THEN Len(c.fifo) + Len(bytes) > FifoSize
      ELSE Len(c.fifo) + Len(bytes) <= FifoSize /\ f = c.fifo \o bytes
  BY <1>1, <1>2, <1>3
<1> HIDE DEF flags, e, over
<1> QED
  BY <1>6, <1>7, <1>8

LEMMA NoCallIs ==
  /\ IsCall(NoCall) /\ NoCall.op = "none" /\ NoCall.opt = {} /\ NoCall.pc = "idle" /\ NoCall.data = <<>>
  /\ NoCall.got = <<>> /\ NoCall.status = "success"
<1>1. <<>> \in Seq(Int)
  OBVIOUS
<1> QED
  BY <1>1 DEF IsCall, CallFields, NoCall

LEMMA BeginIs ==
  ASSUME NEW op, NEW opt, NEW pc, NEW data \in Seq(Int), Begin(op, opt, pc, data)
  PROVE  /\ IsCall(call') /\ call'.op = op /\ call'.opt = opt /\ call'.pc = pc /\ call'.data = data
         /\ call'.status = "success" /\ call'.got = <<>>
<1>1. <<>> \in Seq(Int)
  OBVIOUS
<1> QED
  BY <1>1 DEF IsCall, CallFields, NoCall, Begin

LEMMA GotoIs ==
  ASSUME NEW pc, IsCall(call), Goto(pc)
  PROVE  /\ IsCall(call') /\ call'.op = call.op /\ call'.opt = call.opt /\ call'.pc = pc /\ call'.data = call.data
         /\ call'.status = call.status /\ call'.got = call.got
  BY DEF IsCall, CallFields, Goto

LEMMA ReturnIs ==
  ASSUME NEW status, NEW data, Return(status, data)
  PROVE  /\ IsCall(call') /\ call' = NoCall /\ call'.op = "none" /\ call'.opt = {} /\ call'.pc = "idle"
         /\ ret'.op = call.op /\ ret'.status = status /\ ret'.data = data
  BY NoCallIs DEF Return

LEMMA ReturnAtOnceIs ==
  ASSUME NEW op, NEW status, ReturnAtOnce(op, status)
  PROVE  /\ IsCall(call') /\ call' = NoCall /\ call'.op = "none" /\ call'.opt = {} /\ call'.pc = "idle"
         /\ ret'.op = op /\ ret'.status = status
  BY NoCallIs DEF ReturnAtOnce

LEMMA MayCallIs ==
  ASSUME NEW op, Typed, MayCall(op)
  PROVE  call.pc = "idle" /\ op \in cfg.calls /\ ret.status # "interface" /\ calls' \in Nat
  BY DEF Typed, MayCall, At

LEMMA UnheardIs ==
  ASSUME NEW p, IsPeer(p)
  PROVE  LET q == Unheard(p) IN
         /\ IsPeer(q) /\ q.frame = p.frame /\ q.answer = p.answer /\ q.quality = p.quality
         /\ IF chip.modem = "rx" THEN q.out = <<>> ELSE q = p
<1>1. <<>> \in Seq(Int)
  OBVIOUS
<1> QED
  BY <1>1 DEF IsPeer, PeerFields, Unheard

LEMMA SilencedIs ==
  ASSUME NEW p, IsPeer(p)
  PROVE  LET q == [p EXCEPT !.out = <<>>] IN
         IsPeer(q) /\ q.frame = p.frame /\ q.answer = p.answer /\ q.quality = p.quality /\ q.out = <<>>
<1>1. <<>> \in Seq(Int)
  OBVIOUS
<1> QED
  BY <1>1 DEF IsPeer, PeerFields

-----------------------------------------------------------------------------
(* The memory.                                                             *)

\* w is u with the bytes d behind its first b bytes.
HasPut(w, u, b, d) ==
  \A i \in 1 .. BufSize : w[i] = IF i > b /\ i <= b + Len(d) THEN d[i - b] ELSE u[i]

\* the n bytes of w behind its first b bytes
Slice(w, b, n) == [i \in 1 .. n |-> w[b + i]]

LEMMA PutIs ==
  ASSUME IsMem(mem), NEW buf \in {"rx", "tx"}, NEW base \in Nat, NEW data \in Seq(Int)
  PROVE  LET m == Put(buf, base, data) IN
         /\ IsMem(m) /\ \A b \in {"rx", "tx"} : b # buf => m[b] = mem[b]
         /\ HasPut(m[buf], mem[buf], base, data)
<1> DEFINE g == [i \in 1 .. BufSize |-> IF i > base /\ i <= base + Len(data) THEN data[i - base] ELSE mem[buf][i]]
<1>1. \A i \in 1 .. BufSize : i > base /\ i <= base + Len(data) => data[i - base] \in Int
  BY SizeAssumption
<1>2. \A i \in 1 .. BufSize : mem[buf][i] \in Int
  BY DEF IsMem
<1>3. g \in [1 .. BufSize -> Int]
  BY <1>1, <1>2
<1>4. Put(buf, base, data) = [mem EXCEPT ![buf] = g]
  BY DEF Put
<1>5. \A i \in 1 .. BufSize : g[i] = IF i > base /\ i <= base + Len(data) THEN data[i - base] ELSE mem[buf][i]
  OBVIOUS
<1> HIDE DEF g
<1>6. LET m == Put(buf, base, data) IN IsMem(m) /\ m[buf] = g /\ \A b \in {"rx", "tx"} : b # buf => m[b] = mem[b]
  BY <1>3, <1>4 DEF IsMem
<1> QED
  BY <1>5, <1>6 DEF HasPut

LEMMA SliceIs ==
  ASSUME NEW w, NEW b \in Nat, NEW n \in Nat, \A i \in 1 .. n : w[b + i] \in Int
  PROVE  /\ Slice(w, b, n) \in Seq(Int) /\ Len(Slice(w, b, n)) = n
         /\ \A i \in 1 .. n : Slice(w, b, n)[i] = w[b + i]
<1>1. Slice(w, b, n) \in [1 .. n -> Int]
  BY DEF Slice
<1>2. Slice(w, b, n) \in Seq(Int) /\ Len(Slice(w, b, n)) = n
  BY <1>1
<1>3. \A i \in 1 .. n : Slice(w, b, n)[i] = w[b + i]
  BY DEF Slice
<1> QED
  BY <1>2, <1>3

LEMMA Part ==
  ASSUME NEW s \in Seq(Int), NEW n \in 0 .. Len(s)
  PROVE  /\ SubSeq(s, 1, n) \in Seq(Int) /\ Len(SubSeq(s, 1, n)) = n /\ From(s, n) \in Seq(Int)
         /\ SubSeq(s, 1, n) \o From(s, n) = s /\ Len(From(s, n)) = Len(s) - n
<1>1. Len(s) \in Nat /\ n \in 0 .. Len(s) /\ n \in Nat
  OBVIOUS
<1>2. \A i \in 1 .. Len(s) : s[i] \in Int
  OBVIOUS
<1>3. SubSeq(s, 1, n) \in Seq(Int) /\ Len(SubSeq(s, 1, n)) = n
  <2>1. \A i \in 1 .. n : s[i] \in Int
    BY <1>1, <1>2
  <2>2. Len(SubSeq(s, 1, n)) = IF 1 <= n THEN n - 1 + 1 ELSE 0
    BY <1>1, <2>1, SubSeqProperties
  <2>3. SubSeq(s, 1, n) \in Seq(Int)
    BY <1>1, <2>1, SubSeqProperties
  <2> QED
    BY <1>1, <2>2, <2>3
<1>4. SubSeq(s, n + 1, Len(s)) \in Seq(Int) /\ Len(SubSeq(s, n + 1, Len(s))) = Len(s) - n
  <2>1. n + 1 \in Int /\ Len(s) \in Int /\ \A i \in n + 1 .. Len(s) : s[i] \in Int
    BY <1>1, <1>2
  <2>2. Len(SubSeq(s, n + 1, Len(s))) = IF n + 1 <= Len(s) THEN Len(s) - (n + 1) + 1 ELSE 0
    BY <2>1, SubSeqProperties
  <2>3. SubSeq(s, n + 1, Len(s)) \in Seq(Int)
    BY <2>1, SubSeqProperties
  <2> QED
    BY <1>1, <2>2, <2>3
<1>5. SubSeq(s, 1, n) \o SubSeq(s, n + 1, Len(s)) = s
  <2>1. 1 \in 1 .. Len(s) + 1 /\ n \in 1 - 1 .. Len(s) /\ Len(s) \in n .. Len(s)
    BY <1>1
  <2>2. SubSeq(s, 1, n) \o SubSeq(s, n + 1, Len(s)) = SubSeq(s, 1, Len(s))
    BY <2>1, ConcatAdjacentSubSeq
  <2> QED
    BY <2>2, SubSeqFull
<1> QED
  BY <1>3, <1>4, <1>5 DEF From

LEMMA Associates == \A a, b, c \in Seq(Int) : (a \o b) \o c = a \o (b \o c)
<1> TAKE a, b, c \in Seq(Int)
<1> QED
  BY ConcatAssociative

LEMMA FreshIs ==
  ASSUME NEW n \in Nat, calls \in Nat
  PROVE  Fresh(n) \in Seq(Int) /\ Len(Fresh(n)) = n
<1>1. \A i \in 1 .. n : 10 * (calls + 1) + i \in Int
  OBVIOUS
<1> QED
  BY <1>1 DEF Fresh

LEMMA TxBaseIs ==
  ASSUME IsHal(hal)
  PROVE  TxBase \in 0 .. BufSize /\ TxMem \in {"rx", "tx"}
  BY SizeAssumption DEF IsHal, TxBase, TxMem

LEMMA BufferedIs ==
  ASSUME Typed
  PROVE  Buffered \in Seq(Int) /\ Len(Buffered) = hal.txLen
<1>1. TxBase \in 0 .. BufSize /\ TxMem \in {"rx", "tx"} /\ hal.txLen \in Nat /\ TxBase + hal.txLen <= BufSize
      /\ mem[TxMem] \in [1 .. BufSize -> Int]
  BY TxBaseIs DEF Typed, IsHal, IsMem
<1> DEFINE l == hal.txLen
           b == TxBase
           m == mem[TxMem]
<1>2. Buffered = [i \in 1 .. l |-> m[b + i]]
  BY DEF Buffered
<1>3. l \in Nat /\ b \in Nat /\ b + l <= BufSize /\ m \in [1 .. BufSize -> Int]
  BY <1>1
<1> HIDE DEF l, b, m
<1>4. \A i \in 1 .. l : m[b + i] \in Int
  BY <1>3, SizeAssumption
<1>5. Buffered \in Seq(Int) /\ Len(Buffered) = l
  BY <1>2, <1>3, <1>4
<1> QED
  BY <1>5 DEF l

-----------------------------------------------------------------------------
(* Putting a request together.                                             *)

\* What is put behind a part of the memory follows the bytes of that part.
LEMMA Behind ==
  ASSUME NEW k \in Nat, NEW b \in Nat, NEW m \in [1 .. BufSize -> Int], NEW w \in [1 .. BufSize -> Int],
         NEW d \in Seq(Int), b + k + Len(d) <= BufSize,
         HasPut(w, m, b + k, d)
  PROVE  Slice(w, b, k + Len(d)) = Slice(m, b, k) \o d
<1> DEFINE s == Slice(m, b, k)
           t == Slice(w, b, k + Len(d))
<1>1. Len(d) \in Nat
  OBVIOUS
<1>2. \A i \in 1 .. k : b + i \in 1 .. BufSize /\ m[b + i] \in Int
  BY <1>1, SizeAssumption
<1>3. \A i \in 1 .. k + Len(d) : b + i \in 1 .. BufSize /\ w[b + i] \in Int
  BY <1>1, SizeAssumption
<1>4. s \in Seq(Int) /\ Len(s) = k /\ \A i \in 1 .. k : s[i] = m[b + i]
  BY <1>2, SliceIs
<1>5. t \in Seq(Int) /\ Len(t) = k + Len(d) /\ \A i \in 1 .. k + Len(d) : t[i] = w[b + i]
  <2>1. k + Len(d) \in Nat
    BY <1>1
  <2> QED
    BY <1>3, <2>1, SliceIs
<1> HIDE DEF s, t
<1>6. /\ s \o d \in Seq(Int) /\ Len(s \o d) = k + Len(d)
      /\ \A i \in 1 .. k + Len(d) : (s \o d)[i] = IF i <= k THEN s[i] ELSE d[i - k]
  BY <1>4, ConcatProperties
<1>7. \A i \in 1 .. k + Len(d) : t[i] = (s \o d)[i]
  <2> TAKE i \in 1 .. k + Len(d)
  <2>1. b + i \in 1 .. BufSize /\ t[i] = w[b + i] /\ i \in Nat
    BY <1>1, <1>3, <1>5
  <2>2. w[b + i] = IF b + i > b + k /\ b + i <= b + k + Len(d) THEN d[(b + i) - (b + k)] ELSE m[b + i]
    BY <2>1 DEF HasPut
  <2>3. CASE i <= k
    <3>1. ~(b + i > b + k) /\ i \in 1 .. k
      BY <1>1, <2>1, <2>3
    <3> QED
      BY <1>4, <1>6, <2>1, <2>2, <2>3, <3>1
  <2>4. CASE ~(i <= k)
    <3>1. b + i > b + k /\ b + i <= b + k + Len(d) /\ (b + i) - (b + k) = i - k
      BY <1>1, <2>1, <2>4
    <3> QED
      BY <1>6, <2>1, <2>2, <2>4, <3>1
  <2> QED
    BY <2>3, <2>4
<1>8. t = s \o d
  BY <1>5, <1>6, <1>7, SeqEqual
<1> QED
  BY <1>8 DEF s, t

LEMMA ComposedIs ==
  ASSUME NEW b \in Seq(Int), NEW o
  PROVE  LET d == [bytes |-> b, open |-> o] IN IsComposed(d) /\ d.bytes = b /\ d.open = o
  BY DEF IsComposed

LEMMA ClosedIs ==
  ASSUME NEW d, IsComposed(d)
  PROVE  LET e == [d EXCEPT !.open = FALSE] IN IsComposed(e) /\ e.bytes = d.bytes /\ e.open = FALSE
  BY DEF IsComposed

LEMMA OldIs ==
  ASSUME Typed, NEW opt
  PROVE  /\ OldLength(opt) \in {0, hal.txLen} /\ OldLength(opt) \in Nat /\ OldBytes(opt) \in Seq(Int)
         /\ ("leave" \in opt => Buffered = composed.bytes) => OldBytes(opt) = Slice(mem[TxMem], TxBase, OldLength(opt))
<1>1. hal.txLen \in Nat /\ composed.bytes \in Seq(Int) /\ <<>> \in Seq(Int)
  BY DEF Typed, IsHal, IsComposed
<1>2. Slice(mem[TxMem], TxBase, 0) = <<>> /\ Slice(mem[TxMem], TxBase, hal.txLen) = Buffered
  BY DEF Slice, Buffered
<1> QED
  BY <1>1, <1>2 DEF OldLength, OldBytes

LEMMA HalLenIs ==
  ASSUME IsHal(hal), NEW n \in Nat
  PROVE  LET h == [hal EXCEPT !.txLen = n] IN IsHal(h) /\ h.txLen = n /\ h.start = hal.start /\ h.dep = hal.dep
  BY DEF IsHal, HalFields

LEMMA StoreIs ==
  ASSUME Typed, NEW op, NEW opt, NEW n \in Nat, NEW next, Store(op, opt, Fresh(n), next), cfg' = cfg
  PROVE  /\ IsCall(call') /\ IsHal(hal') /\ IsMem(mem') /\ IsComposed(composed') /\ (TxBase + hal.txLen <= BufSize)'
         /\ \/ call' = NoCall /\ ret'.op = op /\ ret'.status = "overflow" /\ ~composed'.open
            \/ /\ call' = NoCall /\ ret'.op = op /\ ret'.status = "success" /\ composed'.open
               /\ ("leave" \in opt => Buffered = composed.bytes) => Buffered' = composed'.bytes
            \/ /\ "buffered" \notin opt /\ call'.op = op /\ call'.opt = opt /\ call'.pc = next /\ ret' = ret
               /\ ~composed'.open
               /\ ("leave" \in opt => Buffered = composed.bytes) => (Buffered \o call.data)' = composed'.bytes
<1> DEFINE d == Fresh(n)
           old == OldLength(opt)
           full == Len(d) > TxRoom - old
           m == Put(TxMem, TxBase + old, d)
<1>1. d \in Seq(Int) /\ Len(d) = n
  BY FreshIs DEF Typed
<1>2. old \in Nat /\ OldBytes(opt) \in Seq(Int) /\ OldBytes(opt) \o d \in Seq(Int) /\ <<>> \in Seq(Int)
  BY <1>1, OldIs
<1>3. TxBase \in Nat /\ TxMem \in {"rx", "tx"} /\ TxBase <= BufSize /\ hal.start \in Nat
  BY TxBaseIs, SizeAssumption DEF Typed, IsHal
<1>4. TxBase' = TxBase /\ TxMem' = TxMem /\ hal'.start = hal.start /\ IsHal(hal')
      /\ hal'.txLen = (IF full THEN 0 ELSE old + Len(d))
  <2>1. hal' = [hal EXCEPT !.txLen = IF full THEN 0 ELSE old + Len(d)] /\ cfg' = cfg
    BY DEF Store
  <2>2. (IF full THEN 0 ELSE old + Len(d)) \in Nat
    <3> HIDE DEF full, old, d
    <3> QED
      BY <1>1, <1>2
  <2>3. IsHal(hal') /\ hal'.txLen = (IF full THEN 0 ELSE old + Len(d)) /\ hal'.start = hal.start
    <3> HIDE DEF full, old, d
    <3> QED
      BY <2>1, <2>2, HalLenIs DEF Typed
  <2> QED
    BY <2>1, <2>3 DEF TxBase, TxMem
<1>5. mem' = IF full THEN mem ELSE m
  BY DEF Store
<1>6. /\ IsMem(m)
      /\ HasPut(m[TxMem], mem[TxMem], TxBase + old, d)
  <2> HIDE DEF d, old
  <2>1. TxBase + old \in Nat
    BY <1>2, <1>3
  <2> QED
    BY <1>1, <1>3, <2>1, PutIs DEF Typed
<1>7. composed' = IF full THEN [bytes |-> <<>>, open |-> FALSE]
                  ELSE [bytes |-> OldBytes(opt) \o d, open |-> "buffered" \in opt]
  BY DEF Store
<1>8. /\ IsComposed(composed') /\ (full => composed'.open = FALSE)
      /\ ~full => composed'.bytes = OldBytes(opt) \o d /\ composed'.open = ("buffered" \in opt)
  <2> HIDE DEF full, d
  <2> QED
    BY <1>2, <1>7, ComposedIs
<1>9. ~full => TxBase + old + Len(d) <= BufSize
  <2> HIDE DEF d, old
  <2> QED
    BY <1>1, <1>2, <1>3, SizeAssumption DEF TxRoom
<1>10. ~full /\ ("leave" \in opt => Buffered = composed.bytes) => Buffered' = composed'.bytes
  <2> SUFFICES ASSUME ~full, "leave" \in opt => Buffered = composed.bytes
               PROVE  Buffered' = composed'.bytes
    OBVIOUS
  <2>1. OldBytes(opt) = Slice(mem[TxMem], TxBase, old)
    BY OldIs
  <2>2. Buffered' = Slice(m[TxMem], TxBase, old + Len(d))
    <3> HIDE DEF full, old, d, m
    <3> QED
      BY <1>4, <1>5 DEF Buffered, Slice
  <2>3. mem[TxMem] \in [1 .. BufSize -> Int] /\ m[TxMem] \in [1 .. BufSize -> Int]
    <3> HIDE DEF m
    <3> QED
      BY <1>3, <1>6 DEF Typed, IsMem
  <2>4. Slice(m[TxMem], TxBase, old + Len(d)) = Slice(mem[TxMem], TxBase, old) \o d
    <3> DEFINE u == mem[TxMem]
               w == m[TxMem]
               b == TxBase
    <3>1. HasPut(w, u, b + old, d) /\ b \in Nat /\ old \in Nat /\ d \in Seq(Int) /\ b + old + Len(d) <= BufSize
      BY <1>1, <1>2, <1>3, <1>6, <1>9
    <3>2. u \in [1 .. BufSize -> Int] /\ w \in [1 .. BufSize -> Int]
      BY <2>3
    <3> HIDE DEF u, w, b, m, old, d, full
    <3>3. Slice(w, b, old + Len(d)) = Slice(u, b, old) \o d
      BY <3>1, <3>2, Behind
    <3> QED
      BY <3>3 DEF u, w, b
  <2> QED
    BY <1>8, <2>1, <2>2, <2>4
<1>11. IsMem(mem')
  <2> HIDE DEF m, full
  <2> QED
    BY <1>5, <1>6 DEF Typed
<1>12. (TxBase + hal.txLen <= BufSize)'
  <2> HIDE DEF full, old, d
  <2> QED
    BY <1>1, <1>2, <1>3, <1>4, <1>9
<1>13. CASE full \/ "buffered" \in opt
  <2>1. ReturnAtOnce(op, IF full THEN "overflow" ELSE "success")
    BY <1>13 DEF Store
  <2>2. IsCall(call') /\ call' = NoCall /\ ret'.op = op /\ ret'.status = (IF full THEN "overflow" ELSE "success")
    BY <2>1, ReturnAtOnceIs
  <2> HIDE DEF full
  <2> QED
    BY <1>4, <1>8, <1>10, <1>11, <1>12, <1>13, <2>2
<1>14. CASE ~(full \/ "buffered" \in opt)
  <2>1. Begin(op, opt, next, <<>>) /\ ret' = ret
    BY <1>14 DEF Store
  <2>2. IsCall(call') /\ call'.op = op /\ call'.opt = opt /\ call'.pc = next /\ call'.data = <<>>
    BY <1>2, <2>1, BeginIs
  <2>3. ("leave" \in opt => Buffered = composed.bytes) => (Buffered \o call.data)' = composed'.bytes
    <3>1. composed'.bytes \in Seq(Int)
      BY <1>8 DEF IsComposed
    <3>2. composed'.bytes \o <<>> = composed'.bytes
      BY <3>1, ConcatEmptySeq
    <3> HIDE DEF full
    <3> QED
      BY <1>10, <1>14, <2>2, <3>2
  <2> HIDE DEF full
  <2> QED
    BY <1>4, <1>8, <1>11, <1>12, <1>14, <2>1, <2>2, <2>3
<1> QED
  BY <1>13, <1>14

LEMMA PassThroughIs ==
  ASSUME Typed, NEW op, NEW opt, NEW n \in Nat, NEW next, PassThrough(op, opt, Fresh(n), next), cfg' = cfg
  PROVE  /\ IsCall(call') /\ IsHal(hal') /\ IsMem(mem') /\ IsComposed(composed') /\ (TxBase + hal.txLen <= BufSize)'
         /\ call'.op = op /\ call'.opt = opt /\ call'.pc = next /\ ret' = ret /\ ~composed'.open
         /\ ("leave" \in opt => Buffered = composed.bytes) => (Buffered \o call.data)' = composed'.bytes
<1> DEFINE d == Fresh(n)
           old == OldLength(opt)
<1>1. d \in Seq(Int) /\ Len(d) = n
  BY FreshIs DEF Typed
<1>2. old \in Nat /\ old \in {0, hal.txLen} /\ OldBytes(opt) \in Seq(Int) /\ OldBytes(opt) \o d \in Seq(Int)
  <2>1. old \in Nat /\ old \in {0, hal.txLen} /\ OldBytes(opt) \in Seq(Int)
    BY OldIs
  <2> QED
    BY <1>1, <2>1
<1>3. TxBase \in Nat /\ TxBase <= BufSize /\ hal.txLen \in Nat /\ TxBase + hal.txLen <= BufSize /\ IsHal(hal) /\ IsMem(mem)
  BY TxBaseIs, SizeAssumption DEF Typed, IsHal
<1>4. hal' = [hal EXCEPT !.txLen = old] /\ mem' = mem /\ ret' = ret /\ Begin(op, opt, next, d)
      /\ composed' = [bytes |-> OldBytes(opt) \o d, open |-> FALSE]
  BY DEF PassThrough
<1> HIDE DEF d, old
<1>5. IsHal(hal') /\ hal'.txLen = old /\ hal'.start = hal.start
  BY <1>2, <1>3, <1>4, HalLenIs
<1>6. TxBase' = TxBase /\ TxMem' = TxMem
  BY <1>5 DEF TxBase, TxMem
<1>7. (TxBase + hal.txLen <= BufSize)'
  BY <1>2, <1>3, <1>5, <1>6, SizeAssumption
<1>8. IsComposed(composed') /\ composed'.bytes = OldBytes(opt) \o d /\ composed'.open = FALSE
  BY <1>2, <1>4, ComposedIs
<1>9. IsCall(call') /\ call'.op = op /\ call'.opt = opt /\ call'.pc = next /\ call'.data = d
  BY <1>1, <1>4, BeginIs
<1>10. Buffered' = Slice(mem[TxMem], TxBase, old)
  BY <1>4, <1>5, <1>6 DEF Buffered, Slice
<1>11. ("leave" \in opt => Buffered = composed.bytes) => OldBytes(opt) = Slice(mem[TxMem], TxBase, old)
  BY OldIs DEF old
<1> QED
  BY <1>3, <1>4, <1>5, <1>7, <1>8, <1>9, <1>10, <1>11

-----------------------------------------------------------------------------
(* What each step of the host does, field by field.                        *)

\* Either the call is over, or it goes on at next with the whole request.
Began(op, opt, next) ==
  \/ /\ call' = NoCall /\ ret'.op = op /\ ret'.status \in {"overflow", "use_condition"} /\ ~composed'.open
  \/ /\ call' = NoCall /\ ret'.op = op /\ ret'.status = "success" /\ composed'.open
     /\ ("leave" \in opt => Buffered = composed.bytes) => Buffered' = composed'.bytes
  \/ /\ call'.op = op /\ call'.opt = opt /\ call'.pc = next /\ ret' = ret /\ ~composed'.open
     /\ ("leave" \in opt => Buffered = composed.bytes) => (Buffered \o call.data)' = composed'.bytes

LEMMA TypedNext ==
  ASSUME Typed, cfg' = cfg, IsChip(chip'), IsCall(call'), IsPeer(peer'), IsHal(hal'), IsMem(mem'),
         IsComposed(composed'), calls' \in Nat, hal'.txLen = hal.txLen, hal'.start = hal.start
  PROVE  Typed' /\ TxBase' = TxBase /\ TxMem' = TxMem /\ (mem' = mem => Buffered' = Buffered)
<1>1. TxBase' = TxBase /\ TxMem' = TxMem
  BY DEF TxBase, TxMem
<1>2. (TxBase + hal.txLen <= BufSize)'
  BY <1>1 DEF Typed
<1>3. mem' = mem => Buffered' = Buffered
  BY <1>1 DEF Buffered
<1> QED
  BY <1>1, <1>2, <1>3 DEF Typed

LEMMA ExchangeDoes ==
  ASSUME Typed, NEW opt, NEW n \in Nat, Exchange(opt, n)
  PROVE  /\ Typed' /\ MayCall("exchange") /\ MayCompose(opt, n) /\ Began("exchange", opt, "clear")
         /\ UNCHANGED <<cfg, chip, peer>>
         /\ cfg.target /\ cfg.shared /\ Copies(opt) => ~composed'.open
<1>1. MayCall("exchange") /\ MayCompose(opt, n) /\ cfg' = cfg /\ chip' = chip /\ peer' = peer
  BY DEF Exchange
<1>2. calls' \in Nat
  BY <1>1, MayCallIs
<1>3. /\ IsCall(call') /\ IsHal(hal') /\ IsMem(mem') /\ IsComposed(composed') /\ (TxBase + hal.txLen <= BufSize)'
      /\ Began("exchange", opt, "clear")
      /\ cfg.target /\ cfg.shared /\ Copies(opt) => ~composed'.open
  <2>1. CASE Copies(opt) /\ ~(cfg.target /\ cfg.shared)
    <3>1. Store("exchange", opt, Fresh(n), "clear")
      BY <2>1 DEF Exchange
    <3> QED
      BY <1>1, <2>1, <3>1, StoreIs DEF Began
  <2>2. CASE ~Copies(opt)
    <3>1. PassThrough("exchange", opt, Fresh(n), "clear")
      BY <2>2 DEF Exchange
    <3> QED
      BY <1>1, <2>2, <3>1, PassThroughIs DEF Began
  <2>3. CASE Copies(opt) /\ cfg.target /\ cfg.shared
    <3>1. /\ ReturnAtOnce("exchange", "use_condition") /\ hal' = [hal EXCEPT !.txLen = OldLength(opt)]
          /\ composed' = [composed EXCEPT !.open = FALSE] /\ mem' = mem
      BY <2>3 DEF Exchange
    <3>2. OldLength(opt) \in Nat /\ OldLength(opt) \in {0, hal.txLen} /\ IsHal(hal) /\ IsComposed(composed) /\ IsMem(mem)
      BY OldIs DEF Typed
    <3>3. IsHal(hal') /\ hal'.txLen = OldLength(opt) /\ hal'.start = hal.start
      BY <3>1, <3>2, HalLenIs
    <3>4. TxBase' = TxBase /\ TxBase \in Nat /\ TxBase <= BufSize /\ TxBase + hal.txLen <= BufSize
      BY <1>1, <3>2, <3>3, TxBaseIs, SizeAssumption DEF TxBase, Typed
    <3>5. (TxBase + hal.txLen <= BufSize)'
      BY <3>2, <3>3, <3>4, SizeAssumption
    <3>6. IsComposed(composed') /\ composed'.open = FALSE
      BY <3>1, <3>2, ClosedIs
    <3>7. IsCall(call') /\ call' = NoCall /\ ret'.op = "exchange" /\ ret'.status = "use_condition"
      BY <3>1, ReturnAtOnceIs
    <3> QED
      BY <3>1, <3>2, <3>3, <3>5, <3>6, <3>7 DEF Began
  <2> QED
    BY <2>1, <2>2, <2>3
<1>4. Typed'
  BY <1>1, <1>2, <1>3 DEF Typed
<1> QED
  BY <1>1, <1>3, <1>4

LEMMA AutoIs ==
  ASSUME NEW c, IsChip(c), NEW v
  PROVE  LET s == [c EXCEPT !.auto = v] IN
         /\ IsChip(s) /\ s.cmd = c.cmd /\ s.modem = c.modem /\ s.fifo = c.fifo /\ s.irq = c.irq /\ s.err = c.err
         /\ s.auto = v /\ s.timer = c.timer
  BY DEF IsChip, ChipFields

LEMMA TransmitDoes ==
  ASSUME Typed, NEW opt, NEW n \in Nat, Transmit(opt, n)
  PROVE  /\ Typed' /\ MayCall("transmit") /\ MayCompose(opt \ {"timer"}, n) /\ Began("transmit", opt, "feed")
         /\ "buffered" \in opt => "transmit_buffered" \in cfg.calls
         /\ ~Copies(opt) => call'.op = "transmit"
         /\ chip'.cmd = "idle" /\ chip'.modem = "idle" /\ chip'.irq = {} /\ chip'.err = {} /\ chip'.fifo = <<>>
         /\ ("timer" \in opt => chip'.auto = chip.auto) /\ chip'.timer = chip.timer
         /\ cfg' = cfg /\ peer'.frame = peer.frame
<1>1. MayCall("transmit") /\ MayCompose(opt \ {"timer"}, n) /\ cfg' = cfg /\ peer' = Unheard(peer)
  BY DEF Transmit
<1>2. calls' \in Nat
  BY <1>1, MayCallIs
<1>3. /\ IsCall(call') /\ IsHal(hal') /\ IsMem(mem') /\ IsComposed(composed') /\ (TxBase + hal.txLen <= BufSize)'
      /\ Began("transmit", opt, "feed") /\ (~Copies(opt) => call'.op = "transmit")
  <2>1. CASE Copies(opt)
    <3>1. Store("transmit", opt, Fresh(n), "feed")
      BY <2>1 DEF Transmit
    <3> QED
      BY <1>1, <2>1, <3>1, StoreIs DEF Began
  <2>2. CASE ~Copies(opt)
    <3>1. PassThrough("transmit", opt, Fresh(n), "feed")
      BY <2>2 DEF Transmit
    <3> QED
      BY <1>1, <3>1, PassThroughIs DEF Began
  <2> QED
    BY <2>1, <2>2
<1>4. IsPeer(peer') /\ peer'.frame = peer.frame
  BY <1>1, UnheardIs DEF Typed
<1>5. /\ IsChip(chip') /\ chip'.cmd = "idle" /\ chip'.modem = "idle" /\ chip'.irq = {} /\ chip'.err = {} /\ chip'.fifo = <<>>
      /\ ("timer" \in opt => chip'.auto = chip.auto) /\ chip'.timer = chip.timer
  <2> DEFINE c == ToIdle(chip)
             d == Cleared(c)
  <2>1. IsChip(c) /\ c.cmd = "idle" /\ c.modem = "idle" /\ c.auto = chip.auto /\ c.timer = chip.timer
    BY ToIdleIs DEF Typed
  <2> HIDE DEF c
  <2>2. /\ IsChip(d) /\ d.cmd = "idle" /\ d.modem = "idle" /\ d.auto = chip.auto /\ d.timer = chip.timer
        /\ d.irq = {} /\ d.err = {} /\ d.fifo = <<>>
    BY <2>1, ClearedIs
  <2> DEFINE v == IF "timer" \in opt THEN d.auto ELSE FALSE
  <2>3. chip' = [d EXCEPT !.auto = v]
    BY DEF Transmit, c
  <2>4. "timer" \in opt => v = d.auto
    OBVIOUS
  <2> HIDE DEF d, v
  <2>5. /\ IsChip(chip') /\ chip'.cmd = d.cmd /\ chip'.modem = d.modem /\ chip'.fifo = d.fifo /\ chip'.irq = d.irq
        /\ chip'.err = d.err /\ chip'.auto = v /\ chip'.timer = d.timer
    BY <2>2, <2>3, AutoIs
  <2> QED
    BY <2>2, <2>4, <2>5
<1>6. Typed'
  BY <1>1, <1>2, <1>3, <1>4, <1>5 DEF Typed
<1> QED
  BY <1>1, <1>3, <1>4, <1>5, <1>6 DEF Transmit

LEMMA ClearDoes ==
  ASSUME Typed, Clear
  PROVE  /\ Typed' /\ call.pc = "clear" /\ call'.pc = "feed" /\ call'.op = call.op /\ call'.opt = call.opt
         /\ call'.data = call.data /\ Buffered' = Buffered
         /\ chip'.irq = {} /\ chip'.err = {} /\ chip'.fifo = <<>> /\ chip'.auto = chip.auto /\ chip'.timer = chip.timer
         /\ (cfg.target => chip'.cmd = chip.cmd /\ chip'.modem = chip.modem /\ peer' = peer)
         /\ (~cfg.target => chip'.cmd = "idle" /\ chip'.modem = "idle")
         /\ peer'.frame = peer.frame /\ UNCHANGED <<cfg, hal, ret, composed>>
<1> DEFINE c == IF cfg.target THEN chip ELSE ToIdle(chip)
<1>1. /\ call.pc = "clear" /\ cfg' = cfg /\ hal' = hal /\ mem' = mem /\ ret' = ret /\ composed' = composed /\ calls' = calls
      /\ chip' = Cleared(c) /\ peer' = (IF cfg.target THEN peer ELSE Unheard(peer)) /\ Goto("feed")
  BY DEF Clear, At
<1>2. /\ IsChip(c) /\ c.auto = chip.auto /\ c.timer = chip.timer
      /\ (cfg.target => c.cmd = chip.cmd /\ c.modem = chip.modem) /\ (~cfg.target => c.cmd = "idle" /\ c.modem = "idle")
  BY ToIdleIs DEF Typed
<1> HIDE DEF c
<1>3. /\ IsChip(chip') /\ chip'.cmd = c.cmd /\ chip'.modem = c.modem /\ chip'.fifo = <<>> /\ chip'.irq = {}
      /\ chip'.err = {} /\ chip'.auto = c.auto /\ chip'.timer = c.timer
  BY <1>1, <1>2, ClearedIs
<1>4. IsPeer(peer') /\ peer'.frame = peer.frame /\ (cfg.target => peer' = peer)
  BY <1>1, UnheardIs DEF Typed
<1>5. /\ IsCall(call') /\ call'.op = call.op /\ call'.opt = call.opt /\ call'.pc = "feed" /\ call'.data = call.data
  BY <1>1, GotoIs DEF Typed
<1>6. Typed' /\ Buffered' = Buffered
  BY <1>1, <1>3, <1>4, <1>5, TypedNext DEF Typed
<1> QED
  BY <1>1, <1>2, <1>3, <1>4, <1>5, <1>6

\* The bytes the chip is fed with are the first of the request, and the rest waits.
LEMMA FeedDoes ==
  ASSUME Typed, Feed
  PROVE  LET cmd == IF cfg.target THEN chip.cmd ELSE IF call.op = "exchange" THEN "transceive" ELSE "transmit" IN
         /\ Typed' /\ call.pc = "feed" /\ call'.pc \in {"sent", "check"} /\ (call'.pc = "sent" => call'.data = <<>>)
         /\ call'.op = call.op /\ call'.opt = call.opt
         /\ chip'.auto = chip.auto /\ chip'.timer = chip.timer /\ chip'.cmd = cmd
         /\ chip'.modem = (IF cmd \in {"transceive", "transmit"} THEN "tx" ELSE chip.modem)
         /\ chip'.irq \subseteq chip.irq \cup {"HIALERT", "ERR"}
         /\ \/ "ERR" \in chip'.irq /\ "BUFFEROVFL" \in chip'.err
            \/ /\ chip'.irq \subseteq chip.irq \cup {"HIALERT"}
               /\ chip.fifo = <<>> => chip'.fifo \o call'.data = Buffered \o call.data
         /\ peer'.frame = <<>> /\ peer'.out = <<>> /\ UNCHANGED <<cfg, hal, mem, ret, composed>>
<1> DEFINE all == Buffered \o call.data
           n == Smaller(cfg.precache, Len(all))
           cmd == IF cfg.target THEN chip.cmd ELSE IF call.op = "exchange" THEN "transceive" ELSE "transmit"
           part == SubSeq(all, 1, n)
           rest == From(all, n)
           c == Fill(chip, part)
           modem == IF cmd \in {"transceive", "transmit"} THEN "tx" ELSE c.modem
<1>1. /\ call.pc = "feed" /\ chip' = [c EXCEPT !.cmd = cmd, !.modem = modem]
      /\ peer' = [peer EXCEPT !.frame = <<>>, !.out = <<>>]
      /\ call' = [call EXCEPT !.data = rest, !.pc = AfterBytes(rest)]
      /\ cfg' = cfg /\ hal' = hal /\ mem' = mem /\ ret' = ret /\ composed' = composed /\ calls' = calls
  BY DEF Feed, At
<1>2. all \in Seq(Int) /\ Len(all) \in Nat
  <2>1. Buffered \in Seq(Int) /\ call.data \in Seq(Int)
    BY BufferedIs DEF Typed, IsCall
  <2> QED
    BY <2>1
<1>3. n \in 0 .. Len(all)
  <2>1. cfg.precache \in Nat
    BY SetupAssumption DEF Typed
  <2> HIDE DEF all
  <2> QED
    BY <1>2, <2>1 DEF Smaller
<1>4. part \in Seq(Int) /\ rest \in Seq(Int) /\ part \o rest = all
  <2> HIDE DEF all, n
  <2> QED
    BY <1>2, <1>3, Part
<1> HIDE DEF part, rest, n, all
<1>5. /\ IsChip(c) /\ c.cmd = chip.cmd /\ c.modem = chip.modem /\ c.auto = chip.auto /\ c.timer = chip.timer
      /\ c.irq \subseteq chip.irq \cup {"HIALERT", "ERR"}
      /\ \/ c.fifo = chip.fifo \o part /\ c.irq \subseteq chip.irq \cup {"HIALERT"}
         \/ "ERR" \in c.irq /\ "BUFFEROVFL" \in c.err
  BY <1>4, FillIs DEF Typed
<1> HIDE DEF c
<1>6. modem = IF cmd \in {"transceive", "transmit"} THEN "tx" ELSE chip.modem
  BY <1>5
<1> HIDE DEF modem, cmd
<1>7. /\ IsChip(chip') /\ chip'.cmd = cmd /\ chip'.modem = modem /\ chip'.fifo = c.fifo /\ chip'.irq = c.irq
      /\ chip'.err = c.err /\ chip'.auto = c.auto /\ chip'.timer = c.timer
  BY <1>1, <1>5 DEF IsChip, ChipFields
<1>8. IsPeer(peer') /\ peer'.frame = <<>> /\ peer'.out = <<>>
  <2>1. <<>> \in Seq(Int)
    OBVIOUS
  <2> QED
    BY <1>1, <2>1 DEF Typed, IsPeer, PeerFields
<1>9. IsCall(call') /\ call'.op = call.op /\ call'.opt = call.opt /\ call'.pc = AfterBytes(rest) /\ call'.data = rest
  BY <1>1, <1>4 DEF Typed, IsCall, CallFields
<1>10. Typed'
  BY <1>1, <1>7, <1>8, <1>9, TypedNext DEF Typed
<1>11. AfterBytes(rest) \in {"sent", "check"} /\ (AfterBytes(rest) = "sent" => rest = <<>>)
  BY DEF AfterBytes
<1>12. chip.fifo = <<>> => chip.fifo \o part = part
  BY <1>4, ConcatEmptySeq
<1>13. chip.fifo = <<>> /\ c.fifo = chip.fifo \o part => chip'.fifo \o call'.data = all
  BY <1>4, <1>7, <1>9, <1>12
<1> QED
  BY <1>1, <1>5, <1>6, <1>7, <1>8, <1>9, <1>10, <1>11, <1>13 DEF cmd, all

LEMMA CheckUnderflowDoes ==
  ASSUME Typed, CheckUnderflow
  PROVE  /\ Typed' /\ call.pc = "check" /\ UNCHANGED <<cfg, hal, mem>> /\ peer'.frame = peer.frame
         /\ \/ /\ chip.irq \intersect {"IDLE", "TX"} = {} /\ call'.pc = "write" /\ call'.op = call.op
               /\ call'.opt = call.opt /\ call'.data = call.data /\ UNCHANGED <<chip, peer, ret, composed>>
            \/ /\ chip'.cmd = "idle" /\ chip'.modem = "idle" /\ chip'.auto = chip.auto /\ chip'.timer = chip.timer
               /\ chip'.irq = chip.irq /\ composed'.open = FALSE
               /\ \/ /\ call.op = "transmit" /\ call'.pc = "restore" /\ call'.op = call.op /\ call'.opt = call.opt
                     /\ call'.status = "underrun" /\ ret' = ret
                  \/ call.op # "transmit" /\ call' = NoCall /\ ret'.op = call.op /\ ret'.status = "underrun"
<1>1. /\ call.pc = "check" /\ cfg' = cfg /\ hal' = hal /\ mem' = mem /\ calls' = calls
  BY DEF CheckUnderflow, At
<1>2. CASE chip.irq \intersect {"IDLE", "TX"} = {}
  <2>1. Goto("write") /\ UNCHANGED <<chip, peer, ret, composed>>
    BY <1>2 DEF CheckUnderflow
  <2>2. IsCall(call') /\ call'.op = call.op /\ call'.opt = call.opt /\ call'.pc = "write" /\ call'.data = call.data
    BY <2>1, GotoIs DEF Typed
  <2>3. Typed'
    BY <1>1, <2>1, <2>2, TypedNext DEF Typed
  <2> QED
    BY <1>1, <1>2, <2>1, <2>2, <2>3
<1>3. CASE chip.irq \intersect {"IDLE", "TX"} # {}
  <2>1. /\ chip' = [ToIdle(chip) EXCEPT !.fifo = <<>>] /\ peer' = Unheard(peer)
        /\ composed' = [composed EXCEPT !.open = FALSE]
    BY <1>3 DEF CheckUnderflow
  <2>2. /\ IsChip(chip') /\ chip'.cmd = "idle" /\ chip'.modem = "idle" /\ chip'.auto = chip.auto /\ chip'.timer = chip.timer
        /\ chip'.irq = chip.irq
    BY <2>1, ToIdleIs, EmptiedIs DEF Typed
  <2>3. IsPeer(peer') /\ peer'.frame = peer.frame
    BY <2>1, UnheardIs DEF Typed
  <2>4. IsComposed(composed') /\ composed'.open = FALSE
    BY <2>1, ClosedIs DEF Typed
  <2>5. IsCall(call') /\
        \/ /\ call.op = "transmit" /\ call'.pc = "restore" /\ call'.op = call.op /\ call'.opt = call.opt
           /\ call'.status = "underrun" /\ ret' = ret
        \/ call.op # "transmit" /\ call' = NoCall /\ ret'.op = call.op /\ ret'.status = "underrun"
    <3>1. CASE call.op = "transmit"
      <4>1. call' = [call EXCEPT !.pc = "restore", !.status = "underrun"] /\ ret' = ret
        BY <1>3, <3>1 DEF CheckUnderflow
      <4> QED
        BY <3>1, <4>1 DEF Typed, IsCall, CallFields
    <3>2. CASE call.op # "transmit"
      <4>1. Return("underrun", <<>>)
        BY <1>3, <3>2 DEF CheckUnderflow
      <4> QED
        BY <3>2, <4>1, ReturnIs
    <3> QED
      BY <3>1, <3>2
  <2>6. Typed'
    BY <1>1, <2>2, <2>3, <2>4, <2>5, TypedNext DEF Typed
  <2> QED
    BY <1>1, <2>2, <2>3, <2>4, <2>5, <2>6
<1> QED
  BY <1>2, <1>3

LEMMA WriteFifoDoes ==
  ASSUME Typed, WriteFifo
  PROVE  /\ Typed' /\ call.pc = "write" /\ call'.pc \in {"sent", "check"} /\ (call'.pc = "sent" => call'.data = <<>>)
         /\ call'.op = call.op /\ call'.opt = call.opt
         /\ chip'.auto = chip.auto /\ chip'.timer = chip.timer /\ chip'.cmd = chip.cmd /\ chip'.modem = chip.modem
         /\ chip.irq \subseteq chip'.irq /\ chip'.irq \subseteq chip.irq \cup {"HIALERT", "ERR"} /\ chip.err \subseteq chip'.err
         /\ \/ "ERR" \in chip'.irq /\ "BUFFEROVFL" \in chip'.err
            \/ /\ chip'.irq \subseteq chip.irq \cup {"HIALERT"}
               /\ chip'.fifo \o call'.data = chip.fifo \o call.data
         /\ UNCHANGED <<cfg, hal, mem, ret, peer, composed>>
<1> DEFINE n == Smaller(FifoSize - Len(chip.fifo), Len(call.data))
           part == SubSeq(call.data, 1, n)
           rest == From(call.data, n)
<1>1. /\ call.pc = "write" /\ chip' = Fill(chip, part) /\ peer' = peer
      /\ call' = [call EXCEPT !.data = rest, !.pc = AfterBytes(rest)]
      /\ cfg' = cfg /\ hal' = hal /\ mem' = mem /\ ret' = ret /\ composed' = composed /\ calls' = calls
  <2>1. call' = [call EXCEPT !.data = From(@, n), !.pc = AfterBytes(rest)]
    BY DEF WriteFifo
  <2> QED
    BY <2>1 DEF WriteFifo, At
<1>2. call.data \in Seq(Int) /\ chip.fifo \in Seq(Int) /\ Len(chip.fifo) \in Nat /\ Len(chip.fifo) <= FifoSize
  BY DEF Typed, IsCall, IsChip
<1>3. n \in 0 .. Len(call.data)
  BY <1>2, SizeAssumption DEF Smaller
<1>4. part \in Seq(Int) /\ rest \in Seq(Int) /\ part \o rest = call.data
  <2> HIDE DEF n
  <2> QED
    BY <1>2, <1>3, Part
<1> HIDE DEF part, rest, n
<1>5. /\ IsChip(chip') /\ chip'.cmd = chip.cmd /\ chip'.modem = chip.modem /\ chip'.auto = chip.auto /\ chip'.timer = chip.timer
      /\ chip.irq \subseteq chip'.irq /\ chip'.irq \subseteq chip.irq \cup {"HIALERT", "ERR"} /\ chip.err \subseteq chip'.err
      /\ \/ chip'.fifo = chip.fifo \o part /\ chip'.irq \subseteq chip.irq \cup {"HIALERT"}
         \/ "ERR" \in chip'.irq /\ "BUFFEROVFL" \in chip'.err
  BY <1>1, <1>4, FillIs DEF Typed
<1>6. IsCall(call') /\ call'.op = call.op /\ call'.opt = call.opt /\ call'.pc = AfterBytes(rest) /\ call'.data = rest
  BY <1>1, <1>4 DEF Typed, IsCall, CallFields
<1>7. Typed'
  BY <1>1, <1>5, <1>6, TypedNext DEF Typed
<1>8. AfterBytes(rest) \in {"sent", "check"} /\ (AfterBytes(rest) = "sent" => rest = <<>>)
  BY DEF AfterBytes
<1>9. (chip.fifo \o part) \o rest = chip.fifo \o call.data
  <2> DEFINE a == chip.fifo
  <2>1. a \in Seq(Int)
    BY <1>2
  <2> HIDE DEF a
  <2>2. (a \o part) \o rest = a \o (part \o rest)
    BY <1>4, <2>1, Associates
  <2> QED
    BY <1>4, <2>2 DEF a
<1>10. chip'.fifo = chip.fifo \o part => chip'.fifo \o call'.data = chip.fifo \o call.data
  BY <1>6, <1>9
<1> QED
  BY <1>1, <1>5, <1>6, <1>7, <1>8, <1>10

LEMMA SentDoes ==
  ASSUME Typed, Sent
  PROVE  /\ Typed' /\ call.pc = "sent" /\ chip.irq \intersect {"TX", "IDLE", "ERR"} # {}
         /\ composed'.open = FALSE /\ composed'.bytes = composed.bytes /\ UNCHANGED <<cfg, mem, chip, peer>>
         /\ \/ /\ call.op = "transmit" /\ call'.pc = "restore" /\ call'.op = call.op /\ call'.opt = call.opt
               /\ call'.status = SentStatus /\ ret' = ret
            \/ /\ call.op # "transmit" /\ call'.pc = "await" /\ call'.op = call.op /\ call'.opt = call.opt
               /\ SentStatus = "success" /\ ret' = ret
            \/ call.op # "transmit" /\ call' = NoCall /\ ret'.op = call.op /\ ret'.status = SentStatus
<1>1. /\ call.pc = "sent" /\ chip.irq \intersect {"TX", "IDLE", "ERR"} # {}
      /\ hal' = [hal EXCEPT !.txLen = 0] /\ composed' = [composed EXCEPT !.open = FALSE]
      /\ cfg' = cfg /\ mem' = mem /\ chip' = chip /\ peer' = peer /\ calls' = calls
  BY DEF Sent, At
<1>2. IsHal(hal') /\ hal'.txLen = 0 /\ hal'.start = hal.start
  BY <1>1, HalLenIs DEF Typed
<1>3. IsComposed(composed') /\ composed'.open = FALSE /\ composed'.bytes = composed.bytes
  BY <1>1, ClosedIs DEF Typed
<1>4. (TxBase + hal.txLen <= BufSize)'
  <2>1. TxBase' = TxBase /\ TxBase \in Nat /\ TxBase <= BufSize
    BY <1>1, <1>2, TxBaseIs, SizeAssumption DEF TxBase, Typed
  <2> QED
    BY <1>2, <2>1, SizeAssumption
<1>5. IsCall(call') /\
      \/ /\ call.op = "transmit" /\ call'.pc = "restore" /\ call'.op = call.op /\ call'.opt = call.opt
         /\ call'.status = SentStatus /\ ret' = ret
      \/ /\ call.op # "transmit" /\ call'.pc = "await" /\ call'.op = call.op /\ call'.opt = call.opt
         /\ SentStatus = "success" /\ ret' = ret
      \/ call.op # "transmit" /\ call' = NoCall /\ ret'.op = call.op /\ ret'.status = SentStatus
  <2> DEFINE go == SentStatus = "success" /\ (cfg.target => "listen" \in call.opt)
  <2>1. CASE call.op = "transmit"
    <3>1. call' = [call EXCEPT !.pc = "restore", !.status = SentStatus] /\ ret' = ret
      BY <2>1 DEF Sent
    <3> QED
      BY <2>1, <3>1 DEF Typed, IsCall, CallFields
  <2>2. CASE call.op # "transmit" /\ go
    <3>1. Goto("await") /\ ret' = ret
      BY <2>2 DEF Sent
    <3> QED
      BY <2>2, <3>1, GotoIs DEF Typed
  <2>3. CASE call.op # "transmit" /\ ~go
    <3>1. Return(SentStatus, <<>>)
      BY <2>3 DEF Sent
    <3> QED
      BY <2>3, <3>1, ReturnIs
  <2> QED
    BY <2>1, <2>2, <2>3
<1>6. Typed'
  BY <1>1, <1>2, <1>3, <1>4, <1>5 DEF Typed
<1> QED
  BY <1>1, <1>3, <1>5, <1>6

LEMMA RestoreDoes ==
  ASSUME Typed, Restore
  PROVE  /\ Typed' /\ call.pc = "restore" /\ call' = NoCall /\ ret'.op = call.op /\ ret'.status = call.status
         /\ chip'.cmd = chip.cmd /\ chip'.modem = chip.modem /\ chip'.fifo = chip.fifo /\ chip'.irq = chip.irq
         /\ chip'.timer = chip.timer /\ ("timer" \notin call.opt => chip'.auto) /\ ("timer" \in call.opt => chip'.auto = chip.auto)
         /\ UNCHANGED <<cfg, hal, mem, peer, composed>>
<1> DEFINE v == IF "timer" \in call.opt THEN chip.auto ELSE TRUE
<1>1. /\ call.pc = "restore" /\ chip' = [chip EXCEPT !.auto = v] /\ Return(call.status, <<>>)
      /\ cfg' = cfg /\ hal' = hal /\ mem' = mem /\ peer' = peer /\ composed' = composed /\ calls' = calls
  BY DEF Restore, At
<1>2. ("timer" \notin call.opt => v = TRUE) /\ ("timer" \in call.opt => v = chip.auto)
  OBVIOUS
<1> HIDE DEF v
<1>3. /\ IsChip(chip') /\ chip'.cmd = chip.cmd /\ chip'.modem = chip.modem /\ chip'.fifo = chip.fifo
      /\ chip'.irq = chip.irq /\ chip'.err = chip.err /\ chip'.auto = v /\ chip'.timer = chip.timer
  BY <1>1, AutoIs DEF Typed
<1>4. IsCall(call') /\ call' = NoCall /\ ret'.op = call.op /\ ret'.status = call.status
  BY <1>1, ReturnIs
<1>5. Typed'
  BY <1>1, <1>3, <1>4, TypedNext DEF Typed
<1> QED
  BY <1>1, <1>2, <1>3, <1>4, <1>5

\* The host hears for a new answer, or reads on in the one that has begun.
LEMMA ReceiveDoes ==
  ASSUME Typed, NEW opt, Receive(opt)
  PROVE  /\ Typed' /\ MayCall(IF "fifo" \in opt THEN "fifo" ELSE "receive") /\ UNCHANGED <<cfg, mem, composed>>
         /\ Buffered' = Buffered /\ hal'.txLen = hal.txLen /\ TxBase' = TxBase
         /\ peer'.frame = peer.frame /\ ("timer" \in opt => chip'.timer \/ "fifo" \in opt)
         /\ \/ /\ "fifo" \in opt /\ chip.irq \intersect {"RX", "ERR", "HIALERT"} # {} /\ chip' = chip
               /\ call'.op = "receive" /\ call'.pc = "irq" /\ call'.opt = opt /\ ret' = ret
            \/ /\ "fifo" \notin opt /\ chip'.irq = {} /\ chip'.auto = chip.auto /\ (chip.timer => chip'.timer)
               /\ chip'.fifo = <<>>
               /\ \/ "transceive" \in opt /\ chip'.cmd = "transceive" /\ chip'.modem = "start"
                  \/ "transceive" \notin opt /\ chip'.cmd = "receive" /\ chip'.modem = "wait"
               /\ \/ "start" \in opt /\ call' = NoCall /\ ret'.op = "start" /\ ret'.status = "success"
                  \/ call'.op = "receive" /\ call'.pc = "await" /\ call'.opt = opt /\ ret' = ret /\ "start" \notin opt
<1>1. MayCall(IF "fifo" \in opt THEN "fifo" ELSE "receive") /\ cfg' = cfg /\ mem' = mem /\ composed' = composed
  BY DEF Receive
<1>2. calls' \in Nat
  BY <1>1, MayCallIs
<1>3. <<>> \in Seq(Int)
  OBVIOUS
<1>4. CASE "fifo" \in opt
  <2>1. /\ chip.irq \intersect {"RX", "ERR", "HIALERT"} # {} /\ hal' = [hal EXCEPT !.rxLen = 0]
        /\ Begin("receive", opt, "irq", <<>>) /\ ret' = ret /\ chip' = chip /\ peer' = peer
    BY <1>4 DEF Receive
  <2>2. IsHal(hal') /\ hal'.txLen = hal.txLen /\ hal'.start = hal.start
    BY <2>1 DEF Typed, IsHal, HalFields
  <2>3. IsCall(call') /\ call'.op = "receive" /\ call'.opt = opt /\ call'.pc = "irq"
    BY <1>3, <2>1, BeginIs
  <2>4. Typed' /\ Buffered' = Buffered /\ TxBase' = TxBase
    BY <1>1, <1>2, <2>1, <2>2, <2>3, TypedNext DEF Typed
  <2> QED
    BY <1>1, <1>4, <2>1, <2>2, <2>3, <2>4
<1>5. CASE "fifo" \notin opt
  <2> DEFINE cmd == IF "transceive" \in opt THEN "transceive" ELSE "receive"
             c == ToIdle(chip)
             d == Cleared(c)
             e == Listen(d, cmd)
  <2>1. chip' = [e EXCEPT !.timer = e.timer \/ "timer" \in opt] /\ peer' = Unheard(peer) /\ hal' = hal
    BY <1>5 DEF Receive
  <2>2. IsChip(c) /\ c.auto = chip.auto /\ c.timer = chip.timer
    BY ToIdleIs DEF Typed
  <2> HIDE DEF c
  <2>3. IsChip(d) /\ d.auto = chip.auto /\ d.timer = chip.timer /\ d.irq = {} /\ d.fifo = <<>>
    BY <2>2, ClearedIs
  <2> HIDE DEF d
  <2>4. /\ IsChip(e) /\ e.auto = chip.auto /\ e.timer = chip.timer /\ e.irq = {} /\ e.fifo = <<>>
        /\ \/ "transceive" \in opt /\ e.cmd = "transceive" /\ e.modem = "start"
           \/ "transceive" \notin opt /\ e.cmd = "receive" /\ e.modem = "wait"
    BY <2>3, ListenIs
  <2> HIDE DEF e
  <2>5. /\ IsChip(chip') /\ chip'.auto = chip.auto /\ chip'.timer = (chip.timer \/ "timer" \in opt)
        /\ chip'.irq = {} /\ chip'.fifo = <<>> /\ chip'.cmd = e.cmd /\ chip'.modem = e.modem
    <3>1. /\ IsChip(chip') /\ chip'.auto = e.auto /\ chip'.timer = (e.timer \/ "timer" \in opt)
          /\ chip'.irq = e.irq /\ chip'.fifo = e.fifo /\ chip'.cmd = e.cmd /\ chip'.modem = e.modem
      BY <2>1, <2>4 DEF IsChip, ChipFields
    <3> QED
      BY <2>4, <3>1
  <2>6. IsPeer(peer') /\ peer'.frame = peer.frame
    BY <2>1, UnheardIs DEF Typed
  <2>7. IsCall(call') /\
        \/ "start" \in opt /\ call' = NoCall /\ ret'.op = "start" /\ ret'.status = "success"
        \/ call'.op = "receive" /\ call'.pc = "await" /\ call'.opt = opt /\ ret' = ret /\ "start" \notin opt
    <3>1. CASE "start" \in opt
      <4>1. ReturnAtOnce("start", "success")
        BY <1>5, <3>1 DEF Receive
      <4> QED
        BY <3>1, <4>1, ReturnAtOnceIs
    <3>2. CASE "start" \notin opt
      <4>1. Begin("receive", opt, "await", <<>>) /\ ret' = ret
        BY <1>5, <3>2 DEF Receive
      <4> QED
        BY <1>3, <3>2, <4>1, BeginIs
    <3> QED
      BY <3>1, <3>2
  <2>8. Typed' /\ Buffered' = Buffered /\ TxBase' = TxBase
    BY <1>1, <1>2, <2>1, <2>5, <2>6, <2>7, TypedNext DEF Typed
  <2> QED
    BY <1>1, <1>5, <2>1, <2>4, <2>5, <2>6, <2>7, <2>8
<1> QED
  BY <1>4, <1>5

LEMMA AwaitDoes ==
  ASSUME Typed, Await
  PROVE  /\ Typed' /\ call.pc = "await" /\ chip.irq \intersect WaitedFor # {} /\ UNCHANGED <<cfg, mem, composed>>
         /\ Buffered' = Buffered /\ hal'.txLen = hal.txLen /\ TxBase' = TxBase
         /\ peer'.frame = peer.frame
         /\ \/ chip' = chip
            \/ chip'.cmd = "idle" /\ chip'.modem = "idle" /\ chip'.auto = chip.auto
         /\ \/ call' = NoCall /\ ret'.op = call.op /\ ret'.status = "use_condition"
            \/ call'.op = call.op /\ call'.opt = call.opt /\ call'.pc \in {"irq", "finish"} /\ ret' = ret
<1> DEFINE late == "TIMER" \in chip.irq
           reset == late /\ cfg.rfReset
<1>1. /\ call.pc = "await" /\ chip.irq \intersect WaitedFor # {} /\ cfg' = cfg /\ mem' = mem /\ composed' = composed
      /\ calls' = calls /\ chip' = (IF reset THEN FieldIsReset(chip) ELSE chip)
      /\ peer' = (IF reset THEN [peer EXCEPT !.out = <<>>] ELSE peer)
  BY DEF Await, At
<1>2. IsChip(chip') /\ (\/ chip' = chip
                        \/ chip'.cmd = "idle" /\ chip'.modem = "idle" /\ chip'.auto = chip.auto)
  <2> HIDE DEF reset
  <2>1. LET f == FieldIsReset(chip) IN IsChip(f) /\ f.cmd = "idle" /\ f.modem = "idle" /\ f.auto = chip.auto
    <3> DEFINE c == ToIdle(chip)
    <3>1. IsChip(c) /\ c.cmd = "idle" /\ c.modem = "idle" /\ c.auto = chip.auto
      BY ToIdleIs DEF Typed
    <3>2. FieldIsReset(chip) = [c EXCEPT !.irq = {}, !.timer = FALSE, !.crypto = FALSE]
      BY DEF FieldIsReset
    <3> HIDE DEF c
    <3> DEFINE f == [c EXCEPT !.irq = {}, !.timer = FALSE, !.crypto = FALSE]
    <3>3. IsChip(f) /\ f.cmd = c.cmd /\ f.modem = c.modem /\ f.auto = c.auto
      BY <3>1 DEF IsChip, ChipFields
    <3> HIDE DEF f
    <3> QED
      BY <3>1, <3>2, <3>3 DEF f
  <2> QED
    BY <1>1, <2>1 DEF Typed
<1>3. IsPeer(peer') /\ peer'.frame = peer.frame
  <2> HIDE DEF reset
  <2> QED
    BY <1>1, SilencedIs DEF Typed
<1>4. IsCall(call') /\ IsHal(hal') /\ hal'.txLen = hal.txLen /\ hal'.start = hal.start /\
      \/ call' = NoCall /\ ret'.op = call.op /\ ret'.status = "use_condition"
      \/ call'.op = call.op /\ call'.opt = call.opt /\ call'.pc \in {"irq", "finish"} /\ ret' = ret
  <2>1. CASE reset /\ cfg.target
    <3>1. Return("use_condition", <<>>) /\ hal' = hal
      BY <2>1 DEF Await
    <3> QED
      BY <3>1, ReturnIs DEF Typed
  <2>2. CASE ~(reset /\ cfg.target)
    <3>1. hal' = [hal EXCEPT !.rxLen = 0] /\ ret' = ret
          /\ \/ call' = [call EXCEPT !.pc = "finish", !.status = "timeout"]
             \/ call' = [call EXCEPT !.pc = "irq"]
      BY <2>2 DEF Await
    <3>2. IsHal(hal') /\ hal'.txLen = hal.txLen /\ hal'.start = hal.start
      BY <3>1 DEF Typed, IsHal, HalFields
    <3>3. IsCall(call') /\ call'.op = call.op /\ call'.opt = call.opt /\ call'.pc \in {"irq", "finish"}
      BY <3>1 DEF Typed, IsCall, CallFields
    <3> QED
      BY <3>1, <3>2, <3>3
  <2> QED
    BY <2>1, <2>2
<1>5. Typed' /\ Buffered' = Buffered /\ TxBase' = TxBase
  BY <1>1, <1>2, <1>3, <1>4, TypedNext DEF Typed
<1> HIDE DEF reset, late
<1> QED
  BY <1>1, <1>2, <1>3, <1>4, <1>5

LEMMA ReadIrqDoes ==
  ASSUME Typed, ReadIrq
  PROVE  /\ Typed' /\ call.pc = "irq" /\ call'.pc = "modem" /\ call'.op = call.op /\ call'.opt = call.opt
         /\ UNCHANGED <<cfg, hal, mem, ret, chip, peer, composed>>
<1>1. /\ call.pc = "irq" /\ call' = [call EXCEPT !.irq = chip.irq, !.pc = "modem"] /\ calls' = calls
      /\ UNCHANGED <<cfg, hal, mem, ret, chip, peer, composed>>
  BY DEF ReadIrq, At
<1>2. IsCall(call') /\ call'.pc = "modem" /\ call'.op = call.op /\ call'.opt = call.opt
  BY <1>1 DEF Typed, IsCall, CallFields
<1>3. Typed'
  BY <1>1, <1>2, TypedNext DEF Typed
<1> QED
  BY <1>1, <1>2, <1>3

LEMMA ReadModemDoes ==
  ASSUME Typed, ReadModem
  PROVE  /\ Typed' /\ call.pc = "modem" /\ call'.pc \in {"irq", "fifo"} /\ call'.op = call.op /\ call'.opt = call.opt
         /\ UNCHANGED <<cfg, hal, mem, ret, chip, peer, composed>>
<1>1. /\ call.pc = "modem" /\ calls' = calls /\ UNCHANGED <<cfg, hal, mem, ret, chip, peer, composed>>
      /\ \E p \in {"irq", "fifo"} : call' = [call EXCEPT !.modem = chip.modem, !.pc = p]
  BY DEF ReadModem, At
<1>2. IsCall(call') /\ call'.pc \in {"irq", "fifo"} /\ call'.op = call.op /\ call'.opt = call.opt
  BY <1>1 DEF Typed, IsCall, CallFields
<1>3. Typed'
  BY <1>1, <1>2, TypedNext DEF Typed
<1> QED
  BY <1>1, <1>2, <1>3

LEMMA RxLenIs ==
  ASSUME IsHal(hal), NEW n
  PROVE  LET h == [hal EXCEPT !.rxLen = n] IN IsHal(h) /\ h.txLen = hal.txLen /\ h.start = hal.start
  BY DEF IsHal, HalFields

\* Any number of leading bytes: none of them for a number below one.
LEMMA LeadingIs ==
  ASSUME NEW s \in Seq(Int), NEW n \in Int, n <= Len(s)
  PROVE  SubSeq(s, 1, n) \in Seq(Int)
<1>1. CASE n < 1
  <2>1. SubSeq(s, 1, n) = <<>>
    BY <1>1, SubSeqEmpty
  <2>2. <<>> \in Seq(Int)
    OBVIOUS
  <2> QED
    BY <2>1, <2>2
<1>2. CASE ~(n < 1)
  <2>1. n \in 0 .. Len(s)
    BY <1>2
  <2> QED
    BY <2>1, Part
<1> QED
  BY <1>1, <1>2

LEMMA ReadFifoDoes ==
  ASSUME Typed, ReadFifo
  PROVE  /\ Typed' /\ call.pc = "fifo" /\ hal' = hal
         /\ chip'.cmd = chip.cmd /\ chip'.modem = chip.modem /\ chip'.irq = chip.irq
         /\ chip'.auto = chip.auto /\ chip'.timer = chip.timer
         /\ \/ call' = NoCall /\ ret'.op = call.op /\ ret'.status = "overflow"
            \/ call'.op = call.op /\ call'.opt = call.opt /\ call'.pc \in {"irq", "finish"} /\ ret' = ret
         /\ (~cfg.shared => Buffered' = Buffered) /\ UNCHANGED <<cfg, peer, composed>>
<1> DEFINE over == call.irq \intersect (WaitedFor \ {"HIALERT"}) # {} \/ call.modem = "idle"
           room == BufSize - hal.start - Len(call.got)
           n == Smaller(Len(chip.fifo), room)
           part == SubSeq(chip.fifo, 1, n)
           base == hal.start + Len(call.got)
           pc == IF over /\ chip.fifo = <<>> THEN "finish" ELSE "irq"
<1>1. /\ call.pc = "fifo" /\ hal' = hal /\ calls' = calls /\ cfg' = cfg /\ peer' = peer /\ composed' = composed
      /\ mem' = Put("rx", base, part) /\ chip' = [chip EXCEPT !.fifo = <<>>]
      /\ IF Len(chip.fifo) > room THEN Return("overflow", <<>>)
         ELSE call' = [call EXCEPT !.got = @ \o chip.fifo, !.pc = pc] /\ ret' = ret
  BY DEF ReadFifo, TakeFifo, At
<1>2. /\ chip.fifo \in Seq(Int) /\ call.got \in Seq(Int) /\ hal.start \in Nat
      /\ Len(chip.fifo) \in Nat /\ Len(call.got) \in Nat
  <2>1. chip.fifo \in Seq(Int) /\ call.got \in Seq(Int) /\ hal.start \in Nat
    BY SizeAssumption DEF Typed, IsChip, IsCall, IsHal
  <2> QED
    BY <2>1
<1>3. n \in Int /\ n <= Len(chip.fifo)
  BY <1>2, SizeAssumption DEF Smaller
<1>4. part \in Seq(Int)
  <2> HIDE DEF n
  <2> QED
    BY <1>2, <1>3, LeadingIs
<1>5. base \in Nat
  BY <1>2
<1> HIDE DEF part, base, over
<1>6. IsMem(mem') /\ mem'["tx"] = mem["tx"]
  BY <1>1, <1>4, <1>5, PutIs DEF Typed
<1>7. /\ IsChip(chip') /\ chip'.cmd = chip.cmd /\ chip'.modem = chip.modem /\ chip'.irq = chip.irq
      /\ chip'.auto = chip.auto /\ chip'.timer = chip.timer
  BY <1>1, EmptiedIs DEF Typed
<1>8. IsCall(call') /\
      \/ call' = NoCall /\ ret'.op = call.op /\ ret'.status = "overflow"
      \/ call'.op = call.op /\ call'.opt = call.opt /\ call'.pc \in {"irq", "finish"} /\ ret' = ret
  <2>1. CASE Len(chip.fifo) > room
    <3>1. Return("overflow", <<>>)
      BY <1>1, <2>1
    <3> QED
      BY <3>1, ReturnIs
  <2>2. CASE ~(Len(chip.fifo) > room)
    <3> DEFINE g == call.got \o chip.fifo
    <3>1. call' = [call EXCEPT !.got = g, !.pc = pc] /\ ret' = ret
      BY <1>1, <2>2
    <3>2. g \in Seq(Int)
      BY <1>2
    <3>3. pc \in {"irq", "finish"}
      OBVIOUS
    <3> HIDE DEF g, pc
    <3>4. IsCall(call') /\ call'.op = call.op /\ call'.opt = call.opt /\ call'.pc = pc
      BY <3>1, <3>2 DEF Typed, IsCall, CallFields
    <3> QED
      BY <3>1, <3>3, <3>4
  <2> QED
    BY <2>1, <2>2
<1>9. Typed' /\ TxBase' = TxBase /\ TxMem' = TxMem
  BY <1>1, <1>6, <1>7, <1>8, TypedNext DEF Typed
<1>10. ~cfg.shared => Buffered' = Buffered
  <2> SUFFICES ASSUME ~cfg.shared PROVE Buffered' = Buffered
    OBVIOUS
  <2>1. TxMem = "tx" /\ mem'[TxMem] = mem[TxMem]
    BY <1>6 DEF TxMem
  <2> QED
    BY <1>1, <1>9, <2>1 DEF Buffered
<1> QED
  BY <1>1, <1>7, <1>8, <1>9, <1>10

LEMMA FinishDoes ==
  ASSUME Typed, Finish
  PROVE  /\ Typed' /\ call.pc = "finish" /\ call' = NoCall /\ ret'.op = call.op /\ ret'.status = AnswerStatus
         /\ \/ chip' = chip
            \/ /\ chip'.auto = chip.auto /\ chip'.timer = chip.timer /\ chip'.irq = chip.irq
               /\ \/ chip'.cmd = "idle" /\ chip'.modem = "idle"
                  \/ chip'.cmd = "transceive" /\ chip'.modem = "start"
         /\ Buffered' = Buffered /\ hal'.txLen = hal.txLen /\ TxBase' = TxBase
         /\ peer'.frame = peer.frame /\ UNCHANGED <<cfg, mem, composed>>
<1> DEFINE failed == AnswerStatus \notin {"success", "incomplete"}
           c == ToIdle(chip)
           idle == [c EXCEPT !.fifo = <<>>]
           l == Listen(idle, "transceive")
<1>1. /\ call.pc = "finish" /\ calls' = calls /\ cfg' = cfg /\ mem' = mem /\ composed' = composed
      /\ chip' = (IF ~failed THEN chip ELSE IF cfg.target THEN l ELSE idle)
      /\ peer' = (IF failed THEN Unheard(peer) ELSE peer)
      /\ \E n : hal' = [hal EXCEPT !.rxLen = n]
      /\ \E d : Return(AnswerStatus, d)
  BY DEF Finish, At
<1> HIDE DEF failed
<1>2. IsChip(c) /\ c.cmd = "idle" /\ c.modem = "idle" /\ c.auto = chip.auto /\ c.timer = chip.timer /\ c.irq = chip.irq
  BY ToIdleIs DEF Typed
<1> HIDE DEF c
<1>3. /\ IsChip(idle) /\ idle.cmd = "idle" /\ idle.modem = "idle" /\ idle.auto = chip.auto /\ idle.timer = chip.timer
      /\ idle.irq = chip.irq
  BY <1>2, EmptiedIs
<1> HIDE DEF idle
<1>4. /\ IsChip(l) /\ l.cmd = "transceive" /\ l.modem = "start" /\ l.auto = chip.auto /\ l.timer = chip.timer
      /\ l.irq = chip.irq
  BY <1>3, ListenIs
<1> HIDE DEF l
<1>5. IsPeer(peer') /\ peer'.frame = peer.frame
  BY <1>1, UnheardIs DEF Typed
<1>6. IsHal(hal') /\ hal'.txLen = hal.txLen /\ hal'.start = hal.start
  BY <1>1, RxLenIs DEF Typed
<1>7. IsCall(call') /\ call' = NoCall /\ ret'.op = call.op /\ ret'.status = AnswerStatus
  BY <1>1, ReturnIs
<1>8. IsChip(chip')
  BY <1>1, <1>3, <1>4 DEF Typed
<1>9. Typed' /\ Buffered' = Buffered /\ TxBase' = TxBase
  BY <1>1, <1>5, <1>6, <1>7, <1>8, TypedNext DEF Typed
<1> QED
  BY <1>1, <1>3, <1>4, <1>5, <1>6, <1>7, <1>9

\* What goes through the scratch area leaves the request that waits alone.
LEMMA ScratchIs ==
  ASSUME Typed, NEW data \in Seq(Int), mem' = Put(Scratch.buf, Scratch.base, data), hal' = hal, cfg' = cfg
  PROVE  IsMem(mem') /\ Buffered' = Buffered
<1>1. TxBase \in Nat /\ TxMem \in {"rx", "tx"} /\ hal.txLen \in Nat /\ hal.start \in Nat /\ TxBase + hal.txLen <= BufSize
  BY TxBaseIs, SizeAssumption DEF Typed, IsHal
<1>2. /\ Scratch.buf \in {"rx", "tx"} /\ Scratch.base \in Nat
      /\ Scratch.buf # TxMem \/ Scratch.base = TxBase + hal.txLen
  <2>1. CASE cfg.shared
    <3>1. Scratch = [buf |-> "rx", base |-> hal.start + hal.txLen] /\ TxBase = hal.start
      BY <2>1 DEF Scratch, TxBase
    <3> QED
      BY <1>1, <3>1
  <2>2. CASE ~cfg.shared
    <3>1. TxBase = 0 /\ TxMem = "tx"
      BY <2>2 DEF TxBase, TxMem
    <3>2. Scratch \in {[buf |-> "tx", base |-> hal.txLen], [buf |-> "rx", base |-> hal.start]}
      BY <2>2 DEF Scratch
    <3> QED
      BY <1>1, <3>1, <3>2
  <2> QED
    BY <2>1, <2>2
<1>3. /\ IsMem(mem') /\ \A b \in {"rx", "tx"} : b # Scratch.buf => mem'[b] = mem[b]
      /\ HasPut(mem'[Scratch.buf], mem[Scratch.buf], Scratch.base, data)
  BY <1>2, PutIs DEF Typed
<1>4. TxBase' = TxBase /\ TxMem' = TxMem
  BY DEF TxBase, TxMem
<1>5. \A i \in 1 .. hal.txLen : mem'[TxMem][TxBase + i] = mem[TxMem][TxBase + i]
  <2>1. CASE Scratch.buf # TxMem
    BY <1>1, <1>3, <2>1
  <2>2. CASE Scratch.buf = TxMem
    <3> DEFINE b == TxBase
               k == hal.txLen
               w == mem'[TxMem]
               u == mem[TxMem]
    <3>1. b \in Nat /\ k \in Nat /\ b + k <= BufSize /\ HasPut(w, u, b + k, data)
      BY <1>1, <1>2, <1>3, <2>2
    <3> HIDE DEF b, k, w, u
    <3>2. ASSUME NEW i \in 1 .. k PROVE w[b + i] = u[b + i]
      <4>1. b + i \in 1 .. BufSize /\ ~(b + i > b + k)
        BY <3>1, SizeAssumption
      <4> QED
        BY <3>1, <4>1 DEF HasPut
    <3> QED
      BY <3>2 DEF b, k, w, u
  <2> QED
    BY <2>1, <2>2
<1>6. Buffered' = Buffered
  <2>1. Buffered' = [i \in 1 .. hal.txLen |-> mem'[TxMem][TxBase + i]]
    BY <1>4 DEF Buffered
  <2> QED
    BY <1>5, <2>1 DEF Buffered
<1> QED
  BY <1>3, <1>6

LEMMA SetStartDoes ==
  ASSUME Typed, NEW p \in 0 .. BufSize, SetStart(p)
  PROVE  /\ Typed' /\ call' = NoCall /\ ret'.op = "start_pos" /\ MayCall("start_pos")
         /\ Buffered' = Buffered /\ UNCHANGED <<cfg, chip, peer, composed>>
<1>1. /\ MayCall("start_pos") /\ hal.txLen = 0 /\ p < BufSize /\ hal' = [hal EXCEPT !.start = p]
      /\ ReturnAtOnce("start_pos", "success") /\ UNCHANGED <<cfg, mem, chip, peer, composed>>
  BY DEF SetStart
<1>2. IsHal(hal') /\ hal'.txLen = 0 /\ hal'.start = p
  BY <1>1 DEF Typed, IsHal, HalFields
<1>3. IsCall(call') /\ call' = NoCall /\ ret'.op = "start_pos"
  BY <1>1, ReturnAtOnceIs
<1>4. (TxBase + hal.txLen <= BufSize)'
  <2> DEFINE b == TxBase'
             l == hal'.txLen
  <2>1. b \in Nat /\ b <= BufSize /\ l = 0
    BY <1>2, SizeAssumption DEF TxBase
  <2> HIDE DEF b, l
  <2>2. b + l <= BufSize
    BY <2>1, SizeAssumption
  <2> QED
    BY <2>2 DEF b, l
<1>5. Buffered' = Buffered
  BY <1>1, <1>2 DEF Buffered
<1>6. calls' \in Nat
  BY <1>1, MayCallIs
<1>7. Typed'
  BY <1>1, <1>2, <1>3, <1>4, <1>6 DEF Typed
<1> QED
  BY <1>1, <1>3, <1>5, <1>7

LEMMA CalcCrcDoes ==
  ASSUME Typed, NEW n \in Nat, CalcCrc(n)
  PROVE  /\ Typed' /\ MayCall("crc") /\ hal' = hal /\ Buffered' = Buffered
         /\ chip'.auto = chip.auto /\ chip'.timer = chip.timer
         /\ \/ /\ call' = NoCall /\ ret'.op = "crc" /\ ret'.status = "overflow"
               /\ chip'.cmd = chip.cmd /\ chip'.modem = chip.modem /\ chip'.irq = chip.irq
            \/ call'.op = "crc" /\ call'.pc = "crc" /\ ret' = ret /\ chip'.cmd = "calccrc" /\ chip'.modem = "idle"
         /\ peer'.frame = peer.frame /\ UNCHANGED <<cfg, composed>>
<1> DEFINE data == [i \in 1 .. n |-> -9]
           room == BufSize - Scratch.base
           e == [chip EXCEPT !.fifo = <<>>]
           f == Fill(e, data)
<1>1. MayCall("crc") /\ peer' = Unheard(peer) /\ hal' = hal /\ cfg' = cfg /\ composed' = composed
  BY DEF CalcCrc
<1>2. calls' \in Nat
  BY <1>1, MayCallIs
<1>3. data \in Seq(Int)
  OBVIOUS
<1>4. /\ IsChip(e) /\ e.cmd = chip.cmd /\ e.modem = chip.modem /\ e.irq = chip.irq /\ e.auto = chip.auto
      /\ e.timer = chip.timer
  BY EmptiedIs DEF Typed
<1>5. CASE n > room
  <2>1. ReturnAtOnce("crc", "overflow") /\ chip' = e /\ mem' = mem
    BY <1>5 DEF CalcCrc
  <2>2. IsCall(call') /\ call' = NoCall /\ ret'.op = "crc" /\ ret'.status = "overflow"
    BY <2>1, ReturnAtOnceIs
  <2>3. IsPeer(peer') /\ peer'.frame = peer.frame
    BY <1>1, UnheardIs DEF Typed
  <2> HIDE DEF e
  <2>4. Typed' /\ Buffered' = Buffered
    BY <1>1, <1>2, <1>4, <2>1, <2>2, <2>3, TypedNext DEF Typed
  <2> QED
    BY <1>1, <1>4, <2>1, <2>2, <2>3, <2>4
<1>6. CASE ~(n > room)
  <2>1. /\ mem' = Put(Scratch.buf, Scratch.base, data) /\ chip' = [f EXCEPT !.cmd = "calccrc", !.modem = "idle"]
        /\ Begin("crc", {}, "crc", data) /\ ret' = ret
    BY <1>6 DEF CalcCrc
  <2> HIDE DEF e, data
  <2>2. IsChip(f) /\ f.auto = chip.auto /\ f.timer = chip.timer
    BY <1>3, <1>4, FillIs
  <2> HIDE DEF f
  <2>3. IsChip(chip') /\ chip'.cmd = "calccrc" /\ chip'.modem = "idle" /\ chip'.auto = f.auto /\ chip'.timer = f.timer
    BY <2>1, <2>2 DEF IsChip, ChipFields
  <2>4. IsMem(mem') /\ Buffered' = Buffered
    BY <1>1, <1>3, <2>1, ScratchIs
  <2>5. IsCall(call') /\ call'.op = "crc" /\ call'.pc = "crc"
    BY <1>3, <2>1, BeginIs
  <2>6. IsPeer(peer') /\ peer'.frame = peer.frame
    BY <1>1, UnheardIs DEF Typed
  <2>7. Typed'
    BY <1>1, <1>2, <2>3, <2>4, <2>5, <2>6, TypedNext DEF Typed
  <2> QED
    BY <1>1, <2>1, <2>2, <2>3, <2>4, <2>5, <2>6, <2>7
<1> QED
  BY <1>5, <1>6

LEMMA CrcDoneDoes ==
  ASSUME Typed, CrcDone
  PROVE  /\ Typed' /\ call.pc = "crc" /\ call' = NoCall /\ ret'.op = call.op /\ ret'.status # "interface"
         /\ UNCHANGED <<cfg, hal, mem, chip, peer, composed>>
<1>1. /\ call.pc = "crc" /\ calls' = calls /\ UNCHANGED <<cfg, hal, mem, chip, peer, composed>>
      /\ \E s \in {"success", "internal"}, d \in {<<>>, call.data} : Return(s, d)
  BY DEF CrcDone, At
<1>2. IsCall(call') /\ call' = NoCall /\ ret'.op = call.op /\ ret'.status \in {"success", "internal"}
  BY <1>1, ReturnIs
<1>3. Typed'
  BY <1>1, <1>2, TypedNext DEF Typed
<1> QED
  BY <1>1, <1>2, <1>3

LEMMA MemDoes ==
  ASSUME Typed, Mem
  PROVE  /\ Typed' /\ MayCall("mem") /\ call'.op = "mem" /\ call'.pc = "mem"
         /\ chip'.cmd = "mem" /\ chip'.modem = "idle" /\ chip'.auto = chip.auto /\ chip'.timer = chip.timer
         /\ peer'.frame = peer.frame /\ UNCHANGED <<cfg, hal, mem, ret, composed>>
<1>1. /\ MayCall("mem") /\ chip' = [chip EXCEPT !.fifo = <<>>, !.cmd = "mem", !.modem = "idle"]
      /\ peer' = Unheard(peer) /\ Begin("mem", {}, "mem", <<>>) /\ UNCHANGED <<cfg, hal, mem, ret, composed>>
  BY DEF Mem
<1>2. <<>> \in Seq(Int) /\ Len(<<>>) <= FifoSize
  BY SizeAssumption
<1>3. IsChip(chip') /\ chip'.cmd = "mem" /\ chip'.modem = "idle" /\ chip'.auto = chip.auto /\ chip'.timer = chip.timer
  BY <1>1, <1>2 DEF Typed, IsChip, ChipFields
<1>4. IsCall(call') /\ call'.op = "mem" /\ call'.pc = "mem"
  BY <1>1, <1>2, BeginIs
<1>5. IsPeer(peer') /\ peer'.frame = peer.frame
  BY <1>1, UnheardIs DEF Typed
<1>6. calls' \in Nat
  BY <1>1, MayCallIs
<1>7. Typed'
  BY <1>1, <1>3, <1>4, <1>5, <1>6, TypedNext DEF Typed
<1> QED
  BY <1>1, <1>3, <1>4, <1>5, <1>7

LEMMA MemDoneDoes ==
  ASSUME Typed, MemDone
  PROVE  /\ Typed' /\ call.pc = "mem" /\ call' = NoCall /\ ret'.op = call.op /\ ret'.status # "interface"
         /\ hal' = hal /\ Buffered' = Buffered
         /\ chip'.cmd = chip.cmd /\ chip'.modem = chip.modem /\ chip'.irq = chip.irq /\ chip'.auto = chip.auto
         /\ chip'.timer = chip.timer /\ UNCHANGED <<cfg, peer, composed>>
<1> DEFINE n == Smaller(Len(chip.fifo), BufSize - Scratch.base)
           part == SubSeq(chip.fifo, 1, n)
<1>1. /\ call.pc = "mem" /\ calls' = calls /\ mem' = Put(Scratch.buf, Scratch.base, part)
      /\ chip' = [chip EXCEPT !.fifo = <<>>] /\ UNCHANGED <<cfg, hal, peer, composed>>
      /\ \E s \in {"overflow", "internal", "success"}, d \in {<<>>, chip.fifo} : Return(s, d)
  BY DEF MemDone, At
<1>2. Scratch.base \in Nat /\ chip.fifo \in Seq(Int) /\ Len(chip.fifo) \in Nat
  <2>1. hal.start \in Nat /\ hal.txLen \in Nat /\ chip.fifo \in Seq(Int)
    BY SizeAssumption DEF Typed, IsHal, IsChip
  <2>2. Scratch.base \in {hal.start + hal.txLen, hal.txLen, hal.start}
    BY DEF Scratch
  <2> QED
    BY <2>1, <2>2
<1>3. n \in Int /\ n <= Len(chip.fifo)
  <2> DEFINE b == Scratch.base
  <2>1. b \in Nat
    BY <1>2
  <2>2. n = Smaller(Len(chip.fifo), BufSize - b)
    OBVIOUS
  <2> HIDE DEF b, n
  <2> QED
    BY <1>2, <2>1, <2>2, SizeAssumption DEF Smaller
<1> HIDE DEF n
<1>4. part \in Seq(Int)
  BY <1>2, <1>3, LeadingIs
<1> HIDE DEF part
<1>5. IsMem(mem') /\ Buffered' = Buffered
  BY <1>1, <1>4, ScratchIs
<1>6. /\ IsChip(chip') /\ chip'.cmd = chip.cmd /\ chip'.modem = chip.modem /\ chip'.irq = chip.irq
      /\ chip'.auto = chip.auto /\ chip'.timer = chip.timer
  BY <1>1, EmptiedIs DEF Typed
<1>7. IsCall(call') /\ call' = NoCall /\ ret'.op = call.op /\ ret'.status \in {"overflow", "internal", "success"}
  BY <1>1, ReturnIs
<1>8. Typed'
  BY <1>1, <1>5, <1>6, <1>7, TypedNext DEF Typed
<1> QED
  BY <1>1, <1>5, <1>6, <1>7, <1>8

LEMMA MfcAuthenticateDoes ==
  ASSUME Typed, NEW op, MayCall(op), NEW type \in Int, NEW key \in Int, MfcAuthenticate(type, key)
  PROVE  /\ Typed' /\ chip'.auto = chip.auto /\ chip'.timer = chip.timer
         /\ \/ call' = NoCall /\ ret'.op = "auth" /\ ret'.status = "overflow" /\ chip' = chip
            \/ /\ call'.op = "auth" /\ call'.pc = "auth" /\ ret' = ret
               /\ chip'.cmd = "authent" /\ chip'.modem = "idle" /\ chip'.fifo # <<>>
         /\ peer'.frame = peer.frame /\ UNCHANGED <<cfg, hal, mem, composed>>
<1>1. UNCHANGED <<cfg, hal, mem, composed>>
  BY DEF MfcAuthenticate
<1>2. calls' \in Nat
  BY MayCallIs
<1>3. <<type, key>> \in Seq(Int) /\ Len(<<type, key>>) = 2 /\ <<>> \in Seq(Int)
  OBVIOUS
<1>4. CASE Len(chip.fifo) + 2 > FifoSize
  <2>1. ReturnAtOnce("auth", "overflow") /\ UNCHANGED <<chip, peer>>
    BY <1>4 DEF MfcAuthenticate
  <2>2. IsCall(call') /\ call' = NoCall /\ ret'.op = "auth" /\ ret'.status = "overflow"
    BY <2>1, ReturnAtOnceIs
  <2>3. Typed'
    BY <1>1, <1>2, <2>1, <2>2, TypedNext DEF Typed
  <2> QED
    BY <1>1, <2>1, <2>2, <2>3
<1>5. CASE ~(Len(chip.fifo) + 2 > FifoSize)
  <2> DEFINE data == <<type, key>>
             f == Fill(chip, data)
             all == chip.fifo \o data
  <2>1. /\ chip' = [f EXCEPT !.irq = {}, !.cmd = "authent", !.modem = "idle"] /\ peer' = Unheard(peer)
        /\ Begin("auth", {type}, "auth", <<>>) /\ ret' = ret
    BY <1>5 DEF MfcAuthenticate
  <2>2. IsChip(f) /\ f.auto = chip.auto /\ f.timer = chip.timer
    <3> HIDE DEF data
    <3> QED
      BY <1>3, FillIs DEF Typed, data
  <2>3. f.fifo # <<>>
    <3>1. chip.fifo \in Seq(Int) /\ Len(chip.fifo) \in Nat
      BY DEF Typed, IsChip
    <3>2. all \in Seq(Int) /\ Len(all) = Len(chip.fifo) + 2
      BY <1>3, <3>1, ConcatProperties
    <3>3. Smaller(Len(all), FifoSize) = Len(all)
      <4> HIDE DEF all
      <4> QED
        BY <1>5, <3>1, <3>2, SizeAssumption DEF Smaller
    <3>4. f.fifo = all
      <4> HIDE DEF data
      <4>1. f.fifo = SubSeq(all, 1, Smaller(Len(all), FifoSize))
        BY DEF f, Fill, Raise, Typed, IsChip, ChipFields
      <4> HIDE DEF all, f
      <4>2. SubSeq(all, 1, Len(all)) = all
        BY <3>2, SubSeqFull
      <4> QED
        BY <3>3, <4>1, <4>2
    <3> HIDE DEF all, f
    <3> QED
      BY <3>1, <3>2, <3>4
  <2> HIDE DEF f
  <2>4. /\ IsChip(chip') /\ chip'.cmd = "authent" /\ chip'.modem = "idle" /\ chip'.fifo = f.fifo
        /\ chip'.auto = f.auto /\ chip'.timer = f.timer
    BY <2>1, <2>2 DEF IsChip, ChipFields
  <2>5. IsCall(call') /\ call'.op = "auth" /\ call'.pc = "auth"
    BY <1>3, <2>1, BeginIs
  <2>6. IsPeer(peer') /\ peer'.frame = peer.frame
    BY <2>1, UnheardIs DEF Typed
  <2>7. Typed'
    BY <1>1, <1>2, <2>4, <2>5, <2>6, TypedNext DEF Typed
  <2> QED
    BY <1>1, <2>1, <2>2, <2>3, <2>4, <2>5, <2>6, <2>7
<1> QED
  BY <1>4, <1>5

LEMMA AuthDoneDoes ==
  ASSUME Typed, AuthDone
  PROVE  /\ Typed' /\ call.pc = "auth" /\ call' = NoCall /\ ret'.op = call.op /\ ret'.status # "interface"
         /\ chip'.cmd = "idle" /\ chip'.modem = "idle" /\ chip'.auto = chip.auto
         /\ UNCHANGED <<cfg, hal, mem, peer, composed>>
<1> DEFINE c == ToIdle(chip)
<1>1. /\ call.pc = "auth" /\ calls' = calls /\ chip' = [c EXCEPT !.fifo = <<>>]
      /\ UNCHANGED <<cfg, hal, mem, peer, composed>>
      /\ \E s \in {"timeout", "success", "auth"} : Return(s, <<>>)
  BY DEF AuthDone, At
<1>2. IsChip(c) /\ c.cmd = "idle" /\ c.modem = "idle" /\ c.auto = chip.auto
  BY ToIdleIs DEF Typed
<1> HIDE DEF c
<1>3. IsChip(chip') /\ chip'.cmd = "idle" /\ chip'.modem = "idle" /\ chip'.auto = chip.auto
  BY <1>1, <1>2, EmptiedIs
<1>4. IsCall(call') /\ call' = NoCall /\ ret'.op = call.op /\ ret'.status \in {"timeout", "success", "auth"}
  BY <1>1, ReturnIs
<1>5. Typed'
  BY <1>1, <1>3, <1>4, TypedNext DEF Typed
<1> QED
  BY <1>1, <1>3, <1>4, <1>5

LEMMA WaitDoes ==
  ASSUME Typed, NEW op, Wait(op)
  PROVE  /\ Typed' /\ MayCall(op) /\ call'.op = op /\ call'.pc = "wait"
         /\ chip'.cmd = "idle" /\ chip'.modem = "idle" /\ chip'.auto = chip.auto
         /\ peer'.frame = peer.frame /\ UNCHANGED <<cfg, hal, mem, ret, composed>>
<1> DEFINE c == ToIdle(chip)
<1>1. /\ MayCall(op) /\ UNCHANGED <<cfg, hal, mem, ret, composed>> /\ Begin(op, {}, "wait", <<>>)
      /\ chip' = [c EXCEPT !.irq = {}, !.timer = TRUE, !.crypto = c.crypto /\ op = "wait"]
      /\ peer' = IF op = "reset" THEN [peer EXCEPT !.out = <<>>] ELSE Unheard(peer)
  BY DEF Wait
<1>2. IsChip(c) /\ c.cmd = "idle" /\ c.modem = "idle" /\ c.auto = chip.auto
  BY ToIdleIs DEF Typed
<1> HIDE DEF c
<1>3. IsChip(chip') /\ chip'.cmd = "idle" /\ chip'.modem = "idle" /\ chip'.auto = chip.auto
  BY <1>1, <1>2 DEF IsChip, ChipFields
<1>4. <<>> \in Seq(Int)
  OBVIOUS
<1>5. IsCall(call') /\ call'.op = op /\ call'.pc = "wait"
  BY <1>1, <1>4, BeginIs
<1>6. IsPeer(peer') /\ peer'.frame = peer.frame
  BY <1>1, UnheardIs, SilencedIs DEF Typed
<1>7. calls' \in Nat
  BY <1>1, MayCallIs
<1>8. Typed'
  BY <1>1, <1>3, <1>5, <1>6, <1>7, TypedNext DEF Typed
<1> QED
  BY <1>1, <1>3, <1>5, <1>6, <1>8

LEMMA WaitedDoes ==
  ASSUME Typed, Waited
  PROVE  /\ Typed' /\ call.pc = "wait" /\ call' = NoCall /\ ret'.op = call.op /\ ret'.status # "interface"
         /\ chip'.cmd = chip.cmd /\ chip'.modem = chip.modem /\ chip'.auto = chip.auto
         /\ UNCHANGED <<cfg, hal, mem, peer, composed>>
<1>1. /\ call.pc = "wait" /\ calls' = calls /\ chip' = [chip EXCEPT !.irq = {}]
      /\ UNCHANGED <<cfg, hal, mem, peer, composed>>
      /\ \E s \in {"use_condition", "success"} : Return(s, <<>>)
  BY DEF Waited, At
<1>2. IsChip(chip') /\ chip'.cmd = chip.cmd /\ chip'.modem = chip.modem /\ chip'.auto = chip.auto
  BY <1>1 DEF Typed, IsChip, ChipFields
<1>3. IsCall(call') /\ call' = NoCall /\ ret'.op = call.op /\ ret'.status \in {"use_condition", "success"}
  BY <1>1, ReturnIs
<1>4. Typed'
  BY <1>1, <1>2, <1>3, TypedNext DEF Typed
<1> QED
  BY <1>1, <1>2, <1>3, <1>4

LEMMA AutocollDoes ==
  ASSUME Typed, NEW op, Autocoll(op)
  PROVE  /\ Typed' /\ MayCall(op) /\ cfg.target /\ call'.op = op /\ call'.pc = "autocoll"
         /\ chip'.cmd = "autocoll" /\ chip'.modem = "idle" /\ chip'.auto = chip.auto
         /\ Buffered' = Buffered /\ hal'.txLen = hal.txLen /\ TxBase' = TxBase
         /\ peer'.frame = peer.frame /\ UNCHANGED <<cfg, mem, ret, composed>>
<1> DEFINE c == ToIdle(chip)
           d == Cleared(c)
<1>1. /\ MayCall(op) /\ cfg.target /\ UNCHANGED <<cfg, mem, ret, composed>> /\ Begin(op, {}, "autocoll", <<>>)
      /\ chip' = [d EXCEPT !.cmd = "autocoll", !.activated = "no",
                           !.timer = d.timer \/ (op = "autocoll" /\ cfg.collTimer)]
      /\ peer' = Unheard(peer) /\ hal' = [hal EXCEPT !.dep = FALSE]
  BY DEF Autocoll
<1>2. IsChip(c) /\ c.modem = "idle" /\ c.auto = chip.auto
  BY ToIdleIs DEF Typed
<1> HIDE DEF c
<1>3. IsChip(d) /\ d.modem = "idle" /\ d.auto = chip.auto
  BY <1>2, ClearedIs
<1> HIDE DEF d
<1>4. IsChip(chip') /\ chip'.cmd = "autocoll" /\ chip'.modem = "idle" /\ chip'.auto = chip.auto
  BY <1>1, <1>3 DEF IsChip, ChipFields
<1>5. <<>> \in Seq(Int)
  OBVIOUS
<1>6. IsCall(call') /\ call'.op = op /\ call'.pc = "autocoll"
  BY <1>1, <1>5, BeginIs
<1>7. IsPeer(peer') /\ peer'.frame = peer.frame
  BY <1>1, UnheardIs DEF Typed
<1>8. IsHal(hal') /\ hal'.txLen = hal.txLen /\ hal'.start = hal.start
  BY <1>1 DEF Typed, IsHal, HalFields
<1>9. calls' \in Nat
  BY <1>1, MayCallIs
<1>10. Typed' /\ Buffered' = Buffered /\ TxBase' = TxBase
  BY <1>1, <1>4, <1>6, <1>7, <1>8, <1>9, TypedNext DEF Typed
<1> QED
  BY <1>1, <1>4, <1>6, <1>7, <1>8, <1>10

\* The steps of a target that is polled.
LEMMA PolledDoes ==
  ASSUME Typed, AutocollWait \/ CmdAutocollWait
  PROVE  /\ Typed' /\ call.pc = "autocoll" /\ UNCHANGED <<cfg, mem, chip, peer, composed>>
         /\ Buffered' = Buffered /\ hal'.txLen = hal.txLen /\ TxBase' = TxBase
         /\ \/ call' = NoCall /\ ret'.op = call.op /\ ret'.status = "timeout"
            \/ call'.op = call.op /\ call'.pc \in {"atr", "target"} /\ ret' = ret
<1>1. call.pc = "autocoll" /\ UNCHANGED <<cfg, mem, chip, peer, composed>> /\ calls' = calls
  BY DEF AutocollWait, CmdAutocollWait, At
<1>2. IsCall(call') /\
      \/ call' = NoCall /\ ret'.op = call.op /\ ret'.status = "timeout"
      \/ call'.op = call.op /\ call'.pc \in {"atr", "target"} /\ ret' = ret
  <2>1. \/ Return("timeout", <<>>)
        \/ Goto("atr") /\ ret' = ret
        \/ call' = [call EXCEPT !.pc = "target", !.status = "timeout"] /\ ret' = ret
    BY DEF AutocollWait, CmdAutocollWait
  <2>2. CASE Return("timeout", <<>>)
    BY <2>2, ReturnIs
  <2>3. CASE Goto("atr") /\ ret' = ret
    BY <2>3, GotoIs DEF Typed
  <2>4. CASE call' = [call EXCEPT !.pc = "target", !.status = "timeout"] /\ ret' = ret
    BY <2>4 DEF Typed, IsCall, CallFields
  <2> QED
    BY <2>1, <2>2, <2>3, <2>4
<1>3. IsHal(hal') /\ hal'.txLen = hal.txLen /\ hal'.start = hal.start
  <2>1. hal' = hal \/ hal' = [hal EXCEPT !.rxLen = 0]
    BY DEF AutocollWait, CmdAutocollWait
  <2> QED
    BY <2>1, RxLenIs DEF Typed
<1>4. Typed' /\ Buffered' = Buffered /\ TxBase' = TxBase
  BY <1>1, <1>2, <1>3, TypedNext DEF Typed
<1> QED
  BY <1>1, <1>2, <1>3, <1>4

LEMMA ReadAtrDoes ==
  ASSUME Typed, ReadAtr
  PROVE  /\ Typed' /\ call.pc = "atr" /\ UNCHANGED <<cfg, hal, peer, composed>>
         /\ (~cfg.shared => Buffered' = Buffered)
         /\ chip'.cmd = chip.cmd /\ chip'.modem = chip.modem /\ chip'.irq = chip.irq /\ chip'.auto = chip.auto
         /\ chip'.timer = chip.timer
         /\ \/ call' = NoCall /\ ret'.op = call.op /\ ret'.status = "overflow"
            \/ call'.op = call.op /\ call'.pc = "target" /\ ret' = ret
<1>1. /\ call.pc = "atr" /\ UNCHANGED <<cfg, hal, peer, composed>> /\ calls' = calls
      /\ mem' = Put("rx", hal.start, chip.fifo) /\ chip' = [chip EXCEPT !.fifo = <<>>]
      /\ \/ Return("overflow", <<>>)
         \/ call' = [call EXCEPT !.got = chip.fifo, !.irq = chip.irq, !.pc = "target"] /\ ret' = ret
  BY DEF ReadAtr, At
<1>2. chip.fifo \in Seq(Int) /\ hal.start \in Nat
  BY SizeAssumption DEF Typed, IsChip, IsHal
<1>3. IsMem(mem') /\ mem'["tx"] = mem["tx"]
  BY <1>1, <1>2, PutIs DEF Typed
<1>4. /\ IsChip(chip') /\ chip'.cmd = chip.cmd /\ chip'.modem = chip.modem /\ chip'.irq = chip.irq
      /\ chip'.auto = chip.auto /\ chip'.timer = chip.timer
  BY <1>1, EmptiedIs DEF Typed
<1>5. IsCall(call') /\
      \/ call' = NoCall /\ ret'.op = call.op /\ ret'.status = "overflow"
      \/ call'.op = call.op /\ call'.pc = "target" /\ ret' = ret
  <2>1. CASE Return("overflow", <<>>)
    BY <2>1, ReturnIs
  <2>2. CASE call' = [call EXCEPT !.got = chip.fifo, !.irq = chip.irq, !.pc = "target"] /\ ret' = ret
    BY <1>2, <2>2 DEF Typed, IsCall, CallFields
  <2> QED
    BY <1>1, <2>1, <2>2
<1>6. Typed' /\ TxBase' = TxBase /\ TxMem' = TxMem
  BY <1>1, <1>3, <1>4, <1>5, TypedNext DEF Typed
<1>7. ~cfg.shared => Buffered' = Buffered
  <2> SUFFICES ASSUME ~cfg.shared PROVE Buffered' = Buffered
    OBVIOUS
  <2>1. TxMem = "tx" /\ mem'[TxMem] = mem[TxMem]
    BY <1>3 DEF TxMem
  <2> QED
    BY <1>1, <1>6, <2>1 DEF Buffered
<1> QED
  BY <1>1, <1>4, <1>5, <1>6, <1>7

LEMMA AutocollDoneDoes ==
  ASSUME Typed, AutocollDone
  PROVE  /\ Typed' /\ call.pc = "target" /\ call' = NoCall /\ ret'.op = call.op /\ ret'.status = AtrStatus
         /\ chip'.cmd = chip.cmd /\ chip'.modem = chip.modem /\ chip'.irq = chip.irq /\ chip'.auto = chip.auto
         /\ Buffered' = Buffered /\ hal'.txLen = hal.txLen /\ TxBase' = TxBase
         /\ UNCHANGED <<cfg, mem, peer, composed>>
<1>1. /\ call.pc = "target" /\ UNCHANGED <<cfg, mem, peer, composed>> /\ calls' = calls
      /\ chip' \in {chip, [chip EXCEPT !.fifo = <<>>]}
      /\ \E n : hal' = [hal EXCEPT !.rxLen = n, !.dep = (AtrStatus = "success")]
      /\ \E d : Return(AtrStatus, d)
  BY DEF AutocollDone, At
<1>2. /\ IsChip(chip') /\ chip'.cmd = chip.cmd /\ chip'.modem = chip.modem /\ chip'.irq = chip.irq
      /\ chip'.auto = chip.auto
  BY <1>1, EmptiedIs DEF Typed
<1>3. IsHal(hal') /\ hal'.txLen = hal.txLen /\ hal'.start = hal.start
  <2>1. PICK n : hal' = [hal EXCEPT !.rxLen = n, !.dep = (AtrStatus = "success")]
    BY <1>1
  <2> DEFINE b == AtrStatus = "success"
  <2>2. hal' = [hal EXCEPT !.rxLen = n, !.dep = b]
    BY <2>1
  <2> HIDE DEF b
  <2> QED
    BY <2>2 DEF Typed, IsHal, HalFields
<1>4. IsCall(call') /\ call' = NoCall /\ ret'.op = call.op /\ ret'.status = AtrStatus
  BY <1>1, ReturnIs
<1>5. Typed' /\ Buffered' = Buffered /\ TxBase' = TxBase
  BY <1>1, <1>2, <1>3, <1>4, TypedNext DEF Typed
<1> QED
  BY <1>1, <1>2, <1>3, <1>4, <1>5

LEMMA BusFailsDoes ==
  ASSUME Typed, BusFails
  PROVE  /\ Typed' /\ call.pc # "idle" /\ call' = NoCall /\ ret'.op = call.op /\ ret'.status = "interface"
         /\ composed'.open = FALSE /\ UNCHANGED <<cfg, hal, mem, chip, peer>>
<1>1. /\ call.pc # "idle" /\ calls' = calls /\ UNCHANGED <<cfg, hal, mem, chip, peer>>
      /\ Return("interface", <<>>) /\ composed' = [composed EXCEPT !.open = FALSE]
  BY DEF BusFails, At
<1>2. IsCall(call') /\ call' = NoCall /\ ret'.op = call.op /\ ret'.status = "interface"
  BY <1>1, ReturnIs
<1>3. IsComposed(composed') /\ composed'.open = FALSE
  BY <1>1, ClosedIs DEF Typed
<1>4. Typed'
  BY <1>1, <1>2, <1>3, TypedNext DEF Typed
<1> QED
  BY <1>1, <1>2, <1>3, <1>4

LEMMA ReapplyDoes ==
  ASSUME Typed, Reapply
  PROVE  /\ Typed' /\ call.pc = "idle" /\ ret.status = "interface" /\ ret'.op = "init" /\ ret'.status = "success"
         /\ chip'.cmd = chip.cmd /\ chip'.modem = chip.modem /\ chip'.irq = chip.irq /\ chip'.timer = chip.timer
         /\ chip'.fifo = chip.fifo /\ chip'.auto = ~cfg.target
         /\ composed'.open = FALSE /\ UNCHANGED <<cfg, call, peer>>
<1>1. /\ call.pc = "idle" /\ ret.status = "interface" /\ UNCHANGED <<cfg, mem, call, peer>> /\ calls' = calls
      /\ hal' = [txLen |-> 0, rxLen |-> 0, start |-> 0, dep |-> FALSE]
      /\ chip' = [chip EXCEPT !.auto = ~cfg.target, !.crypto = FALSE]
      /\ composed' = [bytes |-> <<>>, open |-> FALSE]
      /\ ret' = [op |-> "init", status |-> "success", data |-> <<>>]
  BY DEF Reapply, At
<1>2. /\ IsChip(chip') /\ chip'.cmd = chip.cmd /\ chip'.modem = chip.modem /\ chip'.irq = chip.irq
      /\ chip'.timer = chip.timer /\ chip'.fifo = chip.fifo /\ chip'.auto = ~cfg.target
  BY <1>1 DEF Typed, IsChip, ChipFields
<1>3. IsHal(hal') /\ hal'.txLen = 0 /\ hal'.start = 0
  BY <1>1, SizeAssumption DEF IsHal, HalFields
<1>4. IsComposed(composed') /\ composed'.open = FALSE
  <2>1. <<>> \in Seq(Int)
    OBVIOUS
  <2> QED
    BY <1>1, <2>1, ComposedIs
<1>5. (TxBase + hal.txLen <= BufSize)'
  BY <1>3, SizeAssumption DEF TxBase
<1>6. Typed'
  BY <1>1, <1>2, <1>3, <1>4, <1>5 DEF Typed
<1> QED
  BY <1>1, <1>2, <1>4, <1>6

-----------------------------------------------------------------------------
(* What each step of the chip and of the peer does.                        *)

LEMMA Moves1 ==
  ASSUME NEW f \in Seq(Int), NEW s \in Seq(Int), s # <<>>
  PROVE  /\ Append(f, Head(s)) \in Seq(Int) /\ Tail(s) \in Seq(Int) /\ Len(Tail(s)) = Len(s) - 1
         /\ Append(f, Head(s)) \o Tail(s) = f \o s
<1> DEFINE a == Append(f, Head(s))
           t == Tail(s)
           b == a \o t
           c == f \o s
<1>1. Head(s) \in Int /\ Head(s) = s[1] /\ Len(s) \in Nat /\ Len(s) > 0 /\ Len(f) \in Nat
  OBVIOUS
<1>2. t \in Seq(Int) /\ Len(t) = Len(s) - 1 /\ \A i \in 1 .. Len(t) : t[i] = s[i + 1]
  BY HeadTailProperties
<1>3. /\ a \in Seq(Int) /\ Len(a) = Len(f) + 1 /\ (\A i \in 1 .. Len(f) : a[i] = f[i]) /\ a[Len(f) + 1] = s[1]
  BY <1>1, AppendProperties
<1> HIDE DEF a, t
<1>4. /\ b \in Seq(Int) /\ Len(b) = Len(a) + Len(t)
      /\ \A i \in 1 .. Len(a) + Len(t) : b[i] = IF i <= Len(a) THEN a[i] ELSE t[i - Len(a)]
  BY <1>2, <1>3, ConcatProperties
<1>5. /\ c \in Seq(Int) /\ Len(c) = Len(f) + Len(s)
      /\ \A i \in 1 .. Len(f) + Len(s) : c[i] = IF i <= Len(f) THEN f[i] ELSE s[i - Len(f)]
  BY ConcatProperties
<1> HIDE DEF b, c
<1>6. Len(b) = Len(c)
  BY <1>1, <1>2, <1>3, <1>4, <1>5
<1>7. ASSUME NEW i \in 1 .. Len(b) PROVE b[i] = c[i]
  <2>1. i \in 1 .. Len(f) + Len(s) /\ i \in 1 .. Len(a) + Len(t) /\ i \in Nat
    BY <1>1, <1>4, <1>5, <1>6
  <2>2. CASE i <= Len(f)
    <3>1. i \in 1 .. Len(f) /\ i <= Len(a)
      BY <1>1, <1>3, <2>1, <2>2
    <3> QED
      BY <1>3, <1>4, <1>5, <2>1, <2>2, <3>1
  <2>3. CASE i = Len(f) + 1
    <3>1. i - Len(f) = 1 /\ i <= Len(a) /\ ~(i <= Len(f))
      BY <1>1, <1>3, <2>1, <2>3
    <3>2. c[i] = s[1]
      BY <1>5, <2>1, <3>1
    <3>3. b[i] = a[i]
      BY <1>4, <2>1, <3>1
    <3> QED
      BY <1>3, <2>3, <3>2, <3>3
  <2>4. CASE i > Len(f) + 1
    <3>1. /\ ~(i <= Len(a)) /\ ~(i <= Len(f)) /\ i - Len(a) \in 1 .. Len(t) /\ (i - Len(a)) + 1 = i - Len(f)
      BY <1>1, <1>2, <1>3, <2>1, <2>4
    <3>2. b[i] = t[i - Len(a)] /\ c[i] = s[i - Len(f)]
      BY <1>4, <1>5, <2>1, <3>1
    <3> QED
      BY <1>2, <3>1, <3>2
  <2> QED
    BY <1>1, <2>1, <2>2, <2>3, <2>4
<1>8. b = c
  BY <1>4, <1>5, <1>6, <1>7, SeqEqual
<1> QED
  BY <1>2, <1>3, <1>8 DEF a, b, c, t

HostRests == UNCHANGED <<cfg, hal, mem, call, ret, composed, kept, calls>>

LEMMA HostRestsIs ==
  ASSUME Typed, HostRests, IsChip(chip'), IsPeer(peer')
  PROVE  Typed' /\ Buffered' = Buffered /\ TxBase' = TxBase
  BY TypedNext DEF Typed, HostRests

LEMMA ChipSendsDoes ==
  ASSUME Typed, ChipSends
  PROVE  /\ Typed' /\ HostRests /\ chip.modem = "tx" /\ chip.fifo # <<>> /\ (FifoHolds \/ Len(chip.fifo) > 1)
         /\ chip'.cmd = chip.cmd /\ chip'.modem = chip.modem /\ chip'.irq = chip.irq /\ chip'.err = chip.err
         /\ chip'.auto = chip.auto /\ chip'.timer = chip.timer
         /\ peer'.frame \o chip'.fifo = peer.frame \o chip.fifo
         /\ peer'.out = peer.out /\ peer'.answer = peer.answer /\ peer'.quality = peer.quality
<1>1. /\ HostRests /\ chip.modem = "tx" /\ chip.fifo # <<>> /\ (FifoHolds \/ Len(chip.fifo) > 1)
      /\ chip' = [chip EXCEPT !.fifo = Tail(chip.fifo)]
      /\ peer' = [peer EXCEPT !.frame = Append(peer.frame, Head(chip.fifo))]
  BY DEF ChipSends, HostRests
<1> DEFINE t == Tail(chip.fifo)
           a == Append(peer.frame, Head(chip.fifo))
<1>2. chip.fifo \in Seq(Int) /\ peer.frame \in Seq(Int) /\ Len(chip.fifo) <= FifoSize /\ Len(chip.fifo) \in Nat
  BY DEF Typed, IsChip, IsPeer
<1>3. a \in Seq(Int) /\ t \in Seq(Int) /\ Len(t) <= FifoSize /\ a \o t = peer.frame \o chip.fifo
  <2>1. a \in Seq(Int) /\ t \in Seq(Int) /\ Len(t) = Len(chip.fifo) - 1 /\ a \o t = peer.frame \o chip.fifo
    BY <1>1, <1>2, Moves1
  <2> HIDE DEF a, t
  <2> QED
    BY <1>2, <2>1, SizeAssumption
<1> HIDE DEF a, t
<1>4. /\ IsChip(chip') /\ chip'.cmd = chip.cmd /\ chip'.modem = chip.modem /\ chip'.irq = chip.irq /\ chip'.err = chip.err
      /\ chip'.auto = chip.auto /\ chip'.timer = chip.timer /\ chip'.fifo = t
  BY <1>1, <1>3 DEF Typed, IsChip, ChipFields, t
<1>5. /\ IsPeer(peer') /\ peer'.frame = a
      /\ peer'.out = peer.out /\ peer'.answer = peer.answer /\ peer'.quality = peer.quality
  BY <1>1, <1>3 DEF Typed, IsPeer, PeerFields, a
<1>6. Typed'
  BY <1>1, <1>4, <1>5, HostRestsIs
<1> QED
  BY <1>1, <1>3, <1>4, <1>5, <1>6

LEMMA AnswersIs ==
  ASSUME IsPeer(peer), NEW n \in Nat, NEW quality
  PROVE  LET p == Answers(n, quality) IN IsPeer(p) /\ p.frame = peer.frame /\ p.answer \in Seq(Int) /\ p.out = p.answer
                                         /\ Len(p.answer) = n /\ p.quality = quality
<1> DEFINE frame == [i \in 1 .. n |-> 100 * (peer.count + 1) + i]
<1>1. peer.count \in Nat
  BY DEF IsPeer
<1>2. \A i \in 1 .. n : 100 * (peer.count + 1) + i \in Int
  BY <1>1
<1>3. frame \in Seq(Int) /\ Len(frame) = n
  BY <1>2
<1> HIDE DEF frame
<1> DEFINE k == peer.count + 1
           p == [peer EXCEPT !.answer = frame, !.out = frame, !.quality = quality, !.count = k]
<1>4. Answers(n, quality) = p
  BY DEF Answers, frame
<1>5. k \in Nat
  BY <1>1
<1> HIDE DEF k
<1>6. IsPeer(p) /\ p.frame = peer.frame /\ p.answer = frame /\ p.out = frame /\ p.quality = quality
  BY <1>3, <1>5 DEF IsPeer, PeerFields
<1> HIDE DEF p
<1> QED
  BY <1>3, <1>4, <1>6

LEMMA ChipHasSentDoes ==
  ASSUME Typed, NEW n \in Nat, NEW quality, ChipHasSent(n, quality)
  PROVE  /\ Typed' /\ HostRests /\ chip.modem = "tx" /\ chip.fifo = <<>> /\ FifoHolds
         /\ chip'.fifo = <<>> /\ chip'.err = chip.err /\ chip'.auto = chip.auto /\ (chip.timer \/ chip.auto => chip'.timer)
         /\ \/ /\ chip.cmd = "transmit" /\ chip'.cmd = "idle" /\ chip'.modem = "idle"
               /\ chip'.irq = chip.irq \cup {"TX", "IDLE"}
            \/ /\ chip.cmd # "transmit" /\ chip'.cmd = chip.cmd /\ chip'.irq = chip.irq \cup {"TX"}
               /\ chip'.modem = (IF cfg.target THEN "start" ELSE "wait")
         /\ peer'.frame = peer.frame /\ peer'.out = peer'.answer /\ peer'.quality = quality
<1> DEFINE t == [chip EXCEPT !.timer = chip.timer \/ chip.auto]
           c == Raise(t, {"TX"})
           i == ToIdle(c)
           m == IF cfg.target THEN "start" ELSE "wait"
<1>1. /\ HostRests /\ chip.modem = "tx" /\ chip.fifo = <<>> /\ FifoHolds /\ peer' = Answers(n, quality)
      /\ chip' = (IF c.cmd = "transmit" THEN Raise(i, {"IDLE"}) ELSE [c EXCEPT !.modem = m])
  BY DEF ChipHasSent, HostRests
<1>2. /\ IsChip(t) /\ t.cmd = chip.cmd /\ t.modem = chip.modem /\ t.fifo = chip.fifo /\ t.irq = chip.irq
      /\ t.err = chip.err /\ t.auto = chip.auto /\ t.timer = (chip.timer \/ chip.auto)
  BY DEF Typed, IsChip, ChipFields
<1> HIDE DEF t
<1>3. /\ IsChip(c) /\ c.cmd = t.cmd /\ c.modem = t.modem /\ c.fifo = t.fifo /\ c.irq = t.irq \cup {"TX"}
      /\ c.err = t.err /\ c.auto = t.auto /\ c.timer = t.timer
  BY <1>2, RaiseIs
<1> HIDE DEF c
<1>4. /\ IsChip(i) /\ i.cmd = "idle" /\ i.modem = "idle" /\ i.fifo = c.fifo /\ i.irq = c.irq
      /\ i.err = c.err /\ i.auto = c.auto /\ i.timer = c.timer
  BY <1>3, ToIdleIs
<1> HIDE DEF i, m
<1>5. IsChip(chip') /\ chip'.fifo = c.fifo /\ chip'.err = c.err /\ chip'.auto = c.auto /\ chip'.timer = c.timer
      /\ \/ /\ c.cmd = "transmit" /\ chip'.cmd = "idle" /\ chip'.modem = "idle" /\ chip'.irq = c.irq \cup {"IDLE"}
         \/ /\ c.cmd # "transmit" /\ chip'.cmd = c.cmd /\ chip'.irq = c.irq /\ chip'.modem = m
  <2>1. CASE c.cmd = "transmit"
    BY <1>1, <1>4, <2>1, RaiseIs
  <2>2. CASE c.cmd # "transmit"
    BY <1>1, <1>3, <2>2 DEF IsChip, ChipFields
  <2> QED
    BY <2>1, <2>2
<1>6. IsPeer(peer') /\ peer'.frame = peer.frame /\ peer'.out = peer'.answer /\ peer'.quality = quality
  BY <1>1, AnswersIs DEF Typed
<1>7. Typed'
  BY <1>1, <1>5, <1>6, HostRestsIs
<1>8. chip.irq \cup {"TX"} \cup {"IDLE"} = chip.irq \cup {"TX", "IDLE"}
  OBVIOUS
<1> QED
  BY <1>1, <1>2, <1>3, <1>5, <1>6, <1>7, <1>8 DEF m

LEMMA AnswerBeginsDoes ==
  ASSUME Typed, AnswerBegins
  PROVE  /\ Typed' /\ HostRests /\ Hears /\ chip'.modem = "rx" /\ chip'.cmd = chip.cmd /\ chip'.fifo = chip.fifo
         /\ chip'.irq = chip.irq /\ chip'.err = chip.err /\ chip'.auto = chip.auto /\ peer' = peer
         /\ peer.out # <<>> /\ (ret.op = "start" => "TIMER" \notin chip.irq) /\ (chip.auto => ~chip'.timer)
<1>1. /\ peer.out # <<>> /\ (ret.op = "start" => "TIMER" \notin chip.irq)
      /\ HostRests /\ Hears /\ chip' = [chip EXCEPT !.modem = "rx", !.timer = chip.timer /\ ~chip.auto] /\ peer' = peer
  BY DEF AnswerBegins, HostRests
<1>2. /\ IsChip(chip') /\ chip'.modem = "rx" /\ chip'.cmd = chip.cmd /\ chip'.fifo = chip.fifo
      /\ chip'.irq = chip.irq /\ chip'.err = chip.err /\ chip'.auto = chip.auto /\ (chip.auto => ~chip'.timer)
  BY <1>1 DEF Typed, IsChip, ChipFields
<1>3. Typed'
  BY <1>1, <1>2, HostRestsIs DEF Typed
<1> QED
  BY <1>1, <1>2, <1>3

LEMMA HeadTailIs ==
  ASSUME NEW s \in Seq(Int), s # <<>>
  PROVE  <<Head(s)>> \o Tail(s) = s
  OBVIOUS

LEMMA ChipReceivesDoes ==
  ASSUME Typed, ChipReceives
  PROVE  /\ Typed' /\ HostRests /\ chip.modem = "rx" /\ chip'.modem = "rx" /\ chip'.cmd = chip.cmd
         /\ chip.irq \subseteq chip'.irq /\ chip.err \subseteq chip'.err /\ chip'.auto = chip.auto
         /\ chip'.timer = chip.timer /\ peer'.frame = peer.frame
         /\ peer.out # <<>> /\ peer'.answer = peer.answer /\ peer'.quality = peer.quality /\ RoundHolds
         /\ chip'.irq \subseteq chip.irq \cup {"HIALERT", "ERR"}
         /\ \/ /\ chip'.fifo \o peer'.out = chip.fifo \o peer.out /\ chip'.irq \subseteq chip.irq \cup {"HIALERT"}
            \/ "ERR" \in chip'.irq /\ "BUFFEROVFL" \in chip'.err
<1>1. /\ RoundHolds
      /\ HostRests /\ chip.modem = "rx" /\ peer.out # <<>> /\ chip' = Fill(chip, <<Head(peer.out)>>)
      /\ peer' = [peer EXCEPT !.out = Tail(peer.out)]
  BY DEF ChipReceives, HostRests
<1>2. <<Head(peer.out)>> \in Seq(Int) /\ Tail(peer.out) \in Seq(Int) /\ peer.out \in Seq(Int) /\ chip.fifo \in Seq(Int)
  BY <1>1 DEF Typed, IsPeer, IsChip
<1>3. /\ IsChip(chip') /\ chip'.modem = chip.modem /\ chip'.cmd = chip.cmd
      /\ chip.irq \subseteq chip'.irq /\ chip.err \subseteq chip'.err /\ chip'.auto = chip.auto
      /\ chip'.timer = chip.timer
      /\ chip'.irq \subseteq chip.irq \cup {"HIALERT", "ERR"}
      /\ \/ chip'.fifo = chip.fifo \o <<Head(peer.out)>> /\ chip'.irq \subseteq chip.irq \cup {"HIALERT"}
         \/ "ERR" \in chip'.irq /\ "BUFFEROVFL" \in chip'.err
  BY <1>1, <1>2, FillIs DEF Typed
<1>4. /\ IsPeer(peer') /\ peer'.frame = peer.frame /\ peer'.out = Tail(peer.out)
      /\ peer'.answer = peer.answer /\ peer'.quality = peer.quality
  BY <1>1, <1>2 DEF Typed, IsPeer, PeerFields
<1>5. Typed'
  BY <1>1, <1>3, <1>4, HostRestsIs
<1>6. (chip.fifo \o <<Head(peer.out)>>) \o Tail(peer.out) = chip.fifo \o peer.out
  <2>1. <<Head(peer.out)>> \o Tail(peer.out) = peer.out
    BY <1>1, <1>2, HeadTailIs
  <2> DEFINE h == <<Head(peer.out)>>
             t == Tail(peer.out)
  <2>2. h \in Seq(Int) /\ t \in Seq(Int) /\ h \o t = peer.out
    BY <1>2, <2>1
  <2> HIDE DEF h, t
  <2>3. (chip.fifo \o h) \o t = chip.fifo \o (h \o t)
    BY <1>2, <2>2, Associates
  <2> QED
    BY <2>2, <2>3 DEF h, t
<1> QED
  BY <1>1, <1>3, <1>4, <1>5, <1>6

LEMMA ChipHasReceivedDoes ==
  ASSUME Typed, ChipHasReceived
  PROVE  /\ Typed' /\ HostRests /\ chip.modem = "rx" /\ chip.irq \cup {"RX"} \subseteq chip'.irq
         /\ chip.err \subseteq chip'.err /\ chip'.auto = chip.auto /\ chip'.timer = chip.timer /\ peer' = peer
         /\ peer.out = <<>> /\ chip'.fifo = chip.fifo /\ chip'.irq \subseteq chip.irq \cup {"RX", "ERR", "IDLE"}
         /\ peer.quality = "crc" => "ERR" \in chip'.irq /\ "CRCERR" \in chip'.err
         /\ peer.quality = "coll" => "ERR" \in chip'.irq /\ "COLLERR" \in chip'.err
         /\ \/ chip'.cmd = "idle" /\ chip'.modem = "idle" /\ chip.cmd = "receive"
            \/ /\ chip'.cmd = chip.cmd /\ chip'.modem = "start" /\ chip.cmd # "receive"
               /\ "IDLE" \in chip'.irq => "IDLE" \in chip.irq
<1>1. PICK flagged :
        /\ peer.out = <<>>
        /\ peer.quality = "crc" => flagged = {"CRCERR"}
        /\ peer.quality = "coll" => flagged = {"COLLERR"}
        /\ HostRests /\ chip.modem = "rx" /\ peer' = peer
        /\ LET c == Raise([chip EXCEPT !.err = @ \union flagged], {"RX"} \union IF flagged = {} THEN {} ELSE {"ERR"})
           IN chip' = IF c.cmd = "receive" THEN Raise(ToIdle(c), {"IDLE"}) ELSE [c EXCEPT !.modem = "start"]
  BY DEF ChipHasReceived, HostRests
<1> DEFINE e == [chip EXCEPT !.err = chip.err \cup flagged]
           flags == {"RX"} \cup IF flagged = {} THEN {} ELSE {"ERR"}
           c == Raise(e, flags)
           i == ToIdle(c)
<1>2. chip' = IF c.cmd = "receive" THEN Raise(i, {"IDLE"}) ELSE [c EXCEPT !.modem = "start"]
  BY <1>1
<1>3. /\ IsChip(e) /\ e.fifo = chip.fifo /\ e.cmd = chip.cmd /\ e.modem = chip.modem /\ e.irq = chip.irq /\ e.err = chip.err \cup flagged
      /\ e.auto = chip.auto /\ e.timer = chip.timer
  BY DEF Typed, IsChip, ChipFields
<1>4. "RX" \in flags /\ flags \subseteq {"RX", "ERR"} /\ (flagged # {} => "ERR" \in flags)
  OBVIOUS
<1> HIDE DEF e, flags
<1>5. /\ IsChip(c) /\ c.fifo = e.fifo /\ c.cmd = e.cmd /\ c.modem = e.modem /\ c.irq = e.irq \cup flags /\ c.err = e.err
      /\ c.auto = e.auto /\ c.timer = e.timer
  BY <1>3, RaiseIs
<1> HIDE DEF c
<1>6. /\ IsChip(i) /\ i.fifo = c.fifo /\ i.cmd = "idle" /\ i.modem = "idle" /\ i.irq = c.irq /\ i.err = c.err
      /\ i.auto = c.auto /\ i.timer = c.timer
  BY <1>5, ToIdleIs
<1> HIDE DEF i
<1>7. /\ IsChip(chip') /\ chip'.fifo = c.fifo /\ c.irq \subseteq chip'.irq /\ chip'.irq \subseteq c.irq \cup {"IDLE"} /\ chip'.err = c.err /\ chip'.auto = c.auto /\ chip'.timer = c.timer
      /\ \/ chip'.cmd = "idle" /\ chip'.modem = "idle" /\ c.cmd = "receive"
         \/ chip'.cmd = c.cmd /\ chip'.modem = "start" /\ c.cmd # "receive" /\ chip'.irq = c.irq
  <2>1. CASE c.cmd = "receive"
    BY <1>2, <1>6, <2>1, RaiseIs
  <2>2. CASE c.cmd # "receive"
    BY <1>2, <1>5, <2>2 DEF IsChip, ChipFields
  <2> QED
    BY <2>1, <2>2
<1>8. Typed'
  BY <1>1, <1>7, HostRestsIs DEF Typed
<1> QED
  <2>1. chip'.irq \subseteq chip.irq \cup {"RX", "ERR", "IDLE"} /\ chip.irq \cup {"RX"} \subseteq chip'.irq
    BY <1>3, <1>4, <1>5, <1>7
  <2>2. /\ peer.quality = "crc" => "ERR" \in chip'.irq /\ "CRCERR" \in chip'.err
        /\ peer.quality = "coll" => "ERR" \in chip'.irq /\ "COLLERR" \in chip'.err
    BY <1>1, <1>3, <1>4, <1>5, <1>7
  <2>3. chip'.irq = c.irq => ("IDLE" \in chip'.irq => "IDLE" \in chip.irq)
    BY <1>3, <1>4, <1>5
  <2>4. chip'.err = chip.err \cup flagged /\ chip'.fifo = chip.fifo
    BY <1>3, <1>5, <1>7
  <2> QED
    BY <1>1, <1>3, <1>5, <1>7, <1>8, <2>1, <2>2, <2>3, <2>4

LEMMA AnswerIsLostDoes ==
  ASSUME Typed, AnswerIsLost
  PROVE  /\ Typed' /\ HostRests /\ chip.modem = "idle" /\ chip' = chip /\ peer'.frame = peer.frame
         /\ peer'.out = <<>> /\ peer'.answer = peer.answer /\ peer'.quality = peer.quality
<1>1. HostRests /\ chip.modem = "idle" /\ chip' = chip /\ peer' = [peer EXCEPT !.out = <<>>]
  BY DEF AnswerIsLost, HostRests
<1>2. /\ IsPeer(peer') /\ peer'.frame = peer.frame
      /\ peer'.out = <<>> /\ peer'.answer = peer.answer /\ peer'.quality = peer.quality
  BY <1>1, SilencedIs DEF Typed
<1>3. Typed'
  BY <1>1, <1>2, HostRestsIs DEF Typed
<1> QED
  BY <1>1, <1>2, <1>3

LEMMA TimerExpiresDoes ==
  ASSUME Typed, TimerExpires
  PROVE  /\ Typed' /\ HostRests /\ chip'.cmd = chip.cmd /\ chip'.modem = chip.modem /\ chip'.fifo = chip.fifo
         /\ chip'.irq = chip.irq \cup {"TIMER"} /\ chip'.err = chip.err /\ chip'.auto = chip.auto /\ peer' = peer
         /\ chip.timer /\ ~chip'.timer /\ chip'.activated = chip.activated
<1> DEFINE c == [chip EXCEPT !.timer = FALSE]
<1>1. chip.timer /\ HostRests /\ chip' = Raise(c, {"TIMER"}) /\ peer' = peer
  BY DEF TimerExpires, HostRests
<1>2. /\ IsChip(c) /\ c.cmd = chip.cmd /\ c.modem = chip.modem /\ c.fifo = chip.fifo /\ c.irq = chip.irq
      /\ c.err = chip.err /\ c.auto = chip.auto /\ ~c.timer /\ c.activated = chip.activated
  BY DEF Typed, IsChip, ChipFields
<1> HIDE DEF c
<1>3. /\ IsChip(chip') /\ chip'.cmd = chip.cmd /\ chip'.modem = chip.modem /\ chip'.fifo = chip.fifo
      /\ chip'.irq = chip.irq \cup {"TIMER"} /\ chip'.err = chip.err /\ chip'.auto = chip.auto
      /\ ~chip'.timer /\ chip'.activated = chip.activated
  BY <1>1, <1>2, RaiseIs
<1>4. Typed'
  BY <1>1, <1>3, HostRestsIs DEF Typed
<1> QED
  BY <1>1, <1>3, <1>4

LEMMA ChipAuthenticatesDoes ==
  ASSUME Typed, ChipAuthenticates
  PROVE  /\ Typed' /\ HostRests /\ chip.cmd = "authent" /\ chip'.cmd = chip.cmd /\ chip'.modem = chip.modem
         /\ chip'.auto = chip.auto /\ chip'.err = chip.err
         /\ peer'.out = peer.out /\ peer'.answer = peer.answer /\ peer'.quality = peer.quality
         /\ \/ chip'.irq = chip.irq \cup {"IDLE"}
            \/ chip'.irq = chip.irq /\ (chip.timer \/ chip.auto => chip'.timer)
<1>1. PICK right :
        /\ HostRests /\ chip.cmd = "authent" /\ peer' = [peer EXCEPT !.frame = chip.fifo]
        /\ LET c == [chip EXCEPT !.fifo = <<>>, !.crypto = right]
           IN chip' = IF right THEN Raise(c, {"IDLE"}) ELSE [c EXCEPT !.timer = @ \/ chip.auto]
  BY DEF ChipAuthenticates, HostRests
<1> DEFINE c == [chip EXCEPT !.fifo = <<>>, !.crypto = right]
<1>2. chip' = IF right THEN Raise(c, {"IDLE"}) ELSE [c EXCEPT !.timer = c.timer \/ chip.auto]
  BY <1>1
<1>3. <<>> \in Seq(Int) /\ Len(<<>>) <= FifoSize
  BY SizeAssumption
<1>4. /\ IsChip(c) /\ c.cmd = chip.cmd /\ c.modem = chip.modem /\ c.irq = chip.irq /\ c.auto = chip.auto
      /\ c.timer = chip.timer /\ c.err = chip.err
  BY <1>3 DEF Typed, IsChip, ChipFields
<1> HIDE DEF c
<1>5. /\ IsChip(chip') /\ chip'.cmd = c.cmd /\ chip'.modem = c.modem /\ chip'.auto = c.auto /\ chip'.err = c.err
      /\ \/ chip'.irq = c.irq \cup {"IDLE"}
         \/ chip'.irq = c.irq /\ chip'.timer = (c.timer \/ chip.auto)
  <2>1. CASE right
    BY <1>2, <1>4, <2>1, RaiseIs
  <2>2. CASE ~right
    BY <1>2, <1>4, <2>2 DEF IsChip, ChipFields
  <2> QED
    BY <2>1, <2>2
<1>6. IsPeer(peer') /\ peer'.out = peer.out /\ peer'.answer = peer.answer /\ peer'.quality = peer.quality
  BY <1>1 DEF Typed, IsPeer, PeerFields, IsChip
<1>7. Typed'
  BY <1>1, <1>5, <1>6, HostRestsIs
<1> QED
  BY <1>1, <1>4, <1>5, <1>6, <1>7

LEMMA ChipCalculatesDoes ==
  ASSUME Typed, ChipCalculates
  PROVE  /\ Typed' /\ HostRests /\ chip.cmd \in {"calccrc", "mem"} /\ chip'.cmd = "idle" /\ chip'.modem = chip.modem
         /\ chip.irq \subseteq chip'.irq /\ chip'.auto = chip.auto /\ chip'.timer = chip.timer /\ peer' = peer
         /\ chip'.irq \subseteq chip.irq \cup {"CRC", "HIALERT", "ERR", "IDLE"} /\ chip'.irq # {}
         /\ chip.err \subseteq chip'.err
<1> DEFINE c == [chip EXCEPT !.fifo = <<>>, !.cmd = "idle"]
           d == [chip EXCEPT !.cmd = "idle"]
           data == <<-8, -8>>
           f == Fill(d, data)
<1>1. HostRests /\ chip.cmd \in {"calccrc", "mem"} /\ peer' = peer /\ chip' \in {Raise(c, {"CRC"}), Raise(f, {"IDLE"})}
  BY DEF ChipCalculates, HostRests
<1>2. <<>> \in Seq(Int) /\ Len(<<>>) <= FifoSize /\ data \in Seq(Int)
  BY SizeAssumption
<1>3. /\ IsChip(c) /\ c.err = chip.err /\ c.cmd = "idle" /\ c.modem = chip.modem /\ c.irq = chip.irq /\ c.auto = chip.auto
      /\ c.timer = chip.timer
  BY <1>2 DEF Typed, IsChip, ChipFields
<1>4. /\ IsChip(d) /\ d.err = chip.err /\ d.cmd = "idle" /\ d.modem = chip.modem /\ d.irq = chip.irq /\ d.auto = chip.auto
      /\ d.timer = chip.timer
  BY DEF Typed, IsChip, ChipFields
<1> HIDE DEF c, d, data
<1>5. /\ IsChip(f) /\ chip.err \subseteq f.err /\ f.cmd = "idle" /\ f.modem = chip.modem /\ chip.irq \subseteq f.irq /\ f.auto = chip.auto
      /\ f.timer = chip.timer /\ f.irq \subseteq chip.irq \cup {"HIALERT", "ERR"}
  BY <1>2, <1>4, FillIs
<1> HIDE DEF f
<1>6. /\ IsChip(chip') /\ chip.err \subseteq chip'.err /\ chip'.cmd = "idle" /\ chip'.modem = chip.modem
      /\ chip.irq \subseteq chip'.irq /\ chip'.auto = chip.auto /\ chip'.timer = chip.timer
      /\ chip'.irq \subseteq chip.irq \cup {"CRC", "HIALERT", "ERR", "IDLE"} /\ chip'.irq # {}
  <2>1. CASE chip' = Raise(c, {"CRC"})
    BY <1>3, <2>1, RaiseIs
  <2>2. CASE chip' = Raise(f, {"IDLE"})
    BY <1>5, <2>2, RaiseIs
  <2> QED
    BY <1>1, <2>1, <2>2
<1>7. Typed'
  BY <1>1, <1>6, HostRestsIs DEF Typed
<1> QED
  BY <1>1, <1>6, <1>7

LEMMA ChipIsActivatedDoes ==
  ASSUME Typed, NEW n \in Nat, NEW quality, NEW field, ChipIsActivated(n, quality, field)
  PROVE  /\ Typed' /\ HostRests /\ chip.cmd = "autocoll" /\ chip'.cmd = "transceive" /\ chip'.modem = "start"
         /\ chip'.auto = chip.auto /\ peer'.frame = peer.frame /\ peer'.out = <<>> /\ peer'.quality = quality
         /\ quality \in {"whole", "crc", "other"} /\ chip'.activated = field
         /\ n <= FifoSize => /\ chip'.fifo = peer'.answer
                            /\ IF quality = "crc" THEN "ERR" \in chip'.irq /\ chip'.err = {"CRCERR"} ELSE chip'.err = chip.err
<1> DEFINE a == Answers(n, quality)
           b == [chip EXCEPT !.cmd = "transceive", !.modem = "start", !.activated = field]
           c == Fill(b, a.answer)
           d == [c EXCEPT !.err = {"CRCERR"}]
<1>1. /\ HostRests /\ chip.cmd = "autocoll" /\ chip.fifo = <<>> /\ quality \in {"whole", "crc", "other"}
      /\ peer' = [a EXCEPT !.out = <<>>]
      /\ chip' = (IF quality = "crc" THEN Raise(d, {"IDLE", "ERR"}) ELSE Raise(c, {"IDLE"}))
  BY DEF ChipIsActivated, HostRests
<1>2. IsPeer(a) /\ a.frame = peer.frame /\ a.answer \in Seq(Int) /\ Len(a.answer) = n /\ a.quality = quality
  BY AnswersIs DEF Typed
<1> HIDE DEF a
<1>3. /\ IsPeer(peer') /\ peer'.frame = peer.frame /\ peer'.out = <<>> /\ peer'.quality = quality
      /\ peer'.answer = a.answer
  BY <1>1, <1>2, SilencedIs
<1>4. /\ b.fifo = <<>> /\ b.err = chip.err /\ b.activated = field
      /\ IsChip(b) /\ b.cmd = "transceive" /\ b.modem = "start" /\ b.auto = chip.auto
  BY <1>1 DEF Typed, IsChip, ChipFields
<1> HIDE DEF b
<1>5. /\ IsChip(c) /\ c.cmd = "transceive" /\ c.modem = "start" /\ c.auto = chip.auto /\ c.activated = field
      /\ n <= FifoSize => c.fifo = a.answer /\ c.err = chip.err
  <2>1. Len(b.fifo) + Len(a.answer) = n /\ b.fifo \o a.answer = a.answer
    <3>1. Len(b.fifo) = 0
      BY <1>4
    <3> QED
      BY <1>2, <1>4, <3>1, ConcatEmptySeq
  <2>2. /\ IsChip(c) /\ c.cmd = b.cmd /\ c.modem = b.modem /\ c.auto = b.auto /\ c.activated = b.activated
        /\ \/ c.fifo = b.fifo \o a.answer /\ c.err = b.err
           \/ Len(b.fifo) + Len(a.answer) > FifoSize
    BY <1>2, <1>4, FillIs
  <2> HIDE DEF c
  <2>3. Len(b.fifo) + Len(a.answer) > FifoSize => ~(n <= FifoSize)
    <3> DEFINE l == Len(b.fifo) + Len(a.answer)
    <3>1. l = n
      BY <2>1
    <3> HIDE DEF l
    <3>2. l > FifoSize => ~(n <= FifoSize)
      BY <3>1, SizeAssumption
    <3> QED
      BY <3>2 DEF l
  <2> QED
    BY <1>4, <2>1, <2>2, <2>3
<1> HIDE DEF c
<1>6. /\ IsChip(d) /\ d.cmd = "transceive" /\ d.modem = "start" /\ d.auto = chip.auto /\ d.activated = c.activated
      /\ d.fifo = c.fifo /\ d.err = {"CRCERR"}
  BY <1>5 DEF IsChip, ChipFields
<1> HIDE DEF d
<1>7. /\ IsChip(chip') /\ chip'.cmd = "transceive" /\ chip'.modem = "start" /\ chip'.auto = chip.auto
      /\ chip'.activated = field /\ chip'.fifo = c.fifo
      /\ IF quality = "crc" THEN "ERR" \in chip'.irq /\ chip'.err = {"CRCERR"} ELSE chip'.err = c.err
  BY <1>1, <1>5, <1>6, RaiseIs
<1>8. Typed'
  BY <1>1, <1>3, <1>7, HostRestsIs
<1> QED
  BY <1>1, <1>3, <1>5, <1>7, <1>8

LEMMA ChipIsLeftDoes ==
  ASSUME Typed, ChipIsLeft
  PROVE  /\ Typed' /\ HostRests /\ chip.cmd = "autocoll" /\ chip'.cmd = "idle" /\ chip'.modem = "idle"
         /\ chip'.auto = chip.auto /\ peer' = peer /\ chip'.fifo = chip.fifo /\ chip'.irq = chip.irq \cup {"IDLE"}
         /\ chip'.activated = chip.activated
<1> DEFINE i == ToIdle(chip)
<1>1. HostRests /\ chip.cmd = "autocoll" /\ chip' = Raise(i, {"IDLE"}) /\ peer' = peer
  BY DEF ChipIsLeft, HostRests
<1>2. /\ IsChip(i) /\ i.cmd = "idle" /\ i.modem = "idle" /\ i.auto = chip.auto /\ i.fifo = chip.fifo
      /\ i.irq = chip.irq /\ i.activated = chip.activated
  BY ToIdleIs DEF Typed
<1> HIDE DEF i
<1>3. /\ IsChip(chip') /\ chip'.cmd = "idle" /\ chip'.modem = "idle" /\ chip'.auto = chip.auto /\ chip'.fifo = chip.fifo
      /\ chip'.irq = chip.irq \cup {"IDLE"} /\ chip'.activated = chip.activated
  BY <1>1, <1>2, RaiseIs
<1>4. Typed'
  BY <1>1, <1>3, HostRestsIs DEF Typed
<1> QED
  BY <1>1, <1>3, <1>4

-----------------------------------------------------------------------------
(* The first invariant: a host that waits has something to wait for.       *)

Sending == {"clear", "feed", "check", "write", "sent"}
Receiving == {"await", "irq", "modem", "fifo", "finish"}

\* where a call may be, and nothing fails unseen while it is under way
Places ==
  /\ call.pc \in Sending => call.op \in {"exchange", "transmit"}
  /\ call.pc = "clear" => call.op = "exchange"
  /\ call.pc = "restore" => call.op = "transmit"
  /\ call.pc \in Receiving => call.op \in {"exchange", "receive"}
  /\ call.pc \in {"autocoll", "atr", "target"} => call.op \in {"autocoll", "cmd_autocoll"}
  /\ call.pc \in {"crc", "mem", "auth"} => call.op = call.pc
  /\ call.pc = "wait" => call.op \in {"wait", "reset"}
  /\ call.pc = "idle" => call = NoCall
  /\ call.pc \in Sending \cup Receiving \cup
                 {"idle", "restore", "autocoll", "atr", "target", "crc", "mem", "auth", "wait"}
  /\ call.pc # "idle" => ret.status # "interface"

\* the modem works only for the commands that use it
Modems ==
  /\ chip.modem = "start" => chip.cmd = "transceive"
  /\ chip.modem = "tx" => chip.cmd \in {"transceive", "transmit"}
  /\ chip.modem \in {"wait", "rx"} => chip.cmd \in {"transceive", "receive"}
  /\ ~cfg.target => chip.cmd # "autocoll"

\* a reader's timer starts by itself behind a frame, except in a Transmit
AutoOn ==
  /\ chip.auto \/ call.op = "transmit" \/ ret.status = "interface"
  /\ call.op = "transmit" /\ "timer" \in call.opt => chip.auto

Woken == chip.irq \intersect WaitedFor # {} \/ chip.timer \/ chip.modem = "rx"

\* the card has still to be asked, or the timer runs, or something is flagged
Busy == chip.irq # {} \/ chip.timer \/ chip.fifo # <<>>

Reads == ~cfg.target /\ TransmitsDirectly(Setups)

Wakes ==
  Reads =>
    /\ AutoOn
    /\ call.pc = "feed" => chip.modem = "idle" /\ "TX" \notin chip.irq
    /\ call.pc \in {"check", "write", "sent"} =>
          IF chip.modem = "tx" THEN "TX" \notin chip.irq
          ELSE chip.irq \intersect {"TX", "IDLE", "ERR"} # {} /\ (call.op = "exchange" => Woken)
    /\ call.pc = "await" => Woken
    /\ call.pc \in {"irq", "modem", "fifo"} => Woken \/ chip.modem = "idle"
    /\ call.pc = "auth" => chip.modem = "idle" /\ Busy

Awake == Places /\ Modems /\ Wakes

LEMMA CallsAuto ==
  ASSUME Typed, Awake, NEW op, MayCall(op)
  PROVE  call.pc = "idle" /\ call = NoCall /\ ret.status # "interface" /\ (Reads => chip.auto)
<1>1. call.pc = "idle" /\ ret.status # "interface"
  BY MayCallIs
<1>2. call = NoCall /\ call.op = "none"
  BY <1>1, NoCallIs DEF Awake, Places
<1> QED
  BY <1>1, <1>2 DEF Awake, Wakes, Reads, AutoOn

LEMMA UnderWayAuto ==
  ASSUME Awake, call.pc # "idle", call.op # "transmit", Reads
  PROVE  chip.auto
  BY DEF Awake, Places, Wakes, Reads, AutoOn

LEMMA IdleAwake ==
  ASSUME cfg' = cfg, call' = NoCall, Reads => chip'.auto \/ ret'.status = "interface"
  PROVE  Places' /\ Wakes'
<1>1. call'.pc = "idle" /\ call'.op = "none"
  BY NoCallIs
<1>2. Places'
  BY <1>1 DEF Places, Sending, Receiving
<1>3. Wakes'
  BY <1>1 DEF Wakes, Reads, AutoOn
<1> QED
  BY <1>2, <1>3

\* A call that has begun, somewhere where it does not wait yet.
LEMMA BegunAwake ==
  ASSUME cfg' = cfg, ret' = ret, ret.status # "interface", Reads => chip'.auto,
         \/ call'.pc = "clear" /\ call'.op = "exchange"
         \/ call'.pc \in {"crc", "mem"} /\ call'.op = call'.pc
         \/ call'.pc = "wait" /\ call'.op \in {"wait", "reset"}
         \/ call'.pc = "autocoll" /\ call'.op \in {"autocoll", "cmd_autocoll"}
  PROVE  Places' /\ Wakes'
<1>1. Places'
  BY DEF Places, Sending, Receiving
<1>2. Wakes'
  BY DEF Wakes, Reads, AutoOn
<1> QED
  BY <1>1, <1>2

LEMMA ExchangeAwake ==
  ASSUME Typed, Awake, NEW opt, NEW n \in Nat, Exchange(opt, n)
  PROVE  Awake'
<1>1. MayCall("exchange") /\ Began("exchange", opt, "clear") /\ cfg' = cfg /\ chip' = chip
  BY ExchangeDoes
<1>2. ret.status # "interface" /\ (Reads => chip.auto)
  BY <1>1, CallsAuto
<1>3. Modems'
  BY <1>1 DEF Awake, Modems
<1>4. CASE call' = NoCall
  BY <1>1, <1>2, <1>3, <1>4, IdleAwake DEF Awake
<1>5. CASE call'.op = "exchange" /\ call'.pc = "clear" /\ ret' = ret
  BY <1>1, <1>2, <1>3, <1>5, BegunAwake DEF Awake
<1> QED
  BY <1>1, <1>4, <1>5 DEF Began

LEMMA TransmitAwake ==
  ASSUME Typed, Awake, NEW opt, NEW n \in Nat, Transmit(opt, n)
  PROVE  Awake'
<1>1. /\ MayCall("transmit") /\ Began("transmit", opt, "feed") /\ cfg' = cfg
      /\ "buffered" \in opt => "transmit_buffered" \in cfg.calls
      /\ ~Copies(opt) => call'.op = "transmit"
      /\ chip'.cmd = "idle" /\ chip'.modem = "idle" /\ chip'.irq = {}
      /\ ("timer" \in opt => chip'.auto = chip.auto)
  BY TransmitDoes
<1>2. ret.status # "interface" /\ (Reads => chip.auto) /\ "transmit" \in cfg.calls
  BY <1>1, CallsAuto, MayCallIs
<1>3. Modems'
  BY <1>1 DEF Modems
<1>4. Reads => call'.op = "transmit"
  BY <1>1, <1>2 DEF Reads, Typed, TransmitsDirectly, Copies
<1>5. CASE call' = NoCall
  <2>1. ~Reads
    BY <1>4, <1>5, NoCallIs
  <2> QED
    BY <1>1, <1>3, <1>5, <2>1, IdleAwake DEF Awake
<1>6. CASE call'.op = "transmit" /\ call'.opt = opt /\ call'.pc = "feed" /\ ret' = ret
  <2>1. Places'
    BY <1>2, <1>6 DEF Places, Sending, Receiving
  <2>2. Wakes'
    BY <1>1, <1>2, <1>6 DEF Wakes, Reads, AutoOn
  <2> QED
    BY <1>3, <2>1, <2>2 DEF Awake
<1> QED
  BY <1>1, <1>5, <1>6 DEF Began

LEMMA ClearAwake ==
  ASSUME Typed, Awake, Clear
  PROVE  Awake'
<1>1. /\ call.pc = "clear" /\ call'.pc = "feed" /\ call'.op = call.op /\ call'.opt = call.opt
      /\ chip'.irq = {} /\ chip'.auto = chip.auto /\ cfg' = cfg /\ ret' = ret
      /\ (cfg.target => chip'.cmd = chip.cmd /\ chip'.modem = chip.modem)
      /\ (~cfg.target => chip'.cmd = "idle" /\ chip'.modem = "idle")
  BY ClearDoes
<1>2. Places'
  BY <1>1 DEF Awake, Places, Sending, Receiving
<1>3. Modems'
  BY <1>1 DEF Awake, Modems
<1>4. Wakes'
  BY <1>1 DEF Awake, Wakes, Reads, AutoOn
<1> QED
  BY <1>2, <1>3, <1>4 DEF Awake

LEMMA FeedAwake ==
  ASSUME Typed, Awake, Feed
  PROVE  Awake'
<1> DEFINE cmd == IF cfg.target THEN chip.cmd ELSE IF call.op = "exchange" THEN "transceive" ELSE "transmit"
<1>1. /\ call.pc = "feed" /\ call'.pc \in {"sent", "check"} /\ call'.op = call.op /\ call'.opt = call.opt
      /\ chip'.auto = chip.auto /\ chip'.cmd = cmd
      /\ chip'.modem = (IF cmd \in {"transceive", "transmit"} THEN "tx" ELSE chip.modem)
      /\ chip'.irq \subseteq chip.irq \cup {"HIALERT", "ERR"} /\ cfg' = cfg /\ ret' = ret
  BY FeedDoes
<1>2. ~cfg.target => cmd \in {"transceive", "transmit"}
  OBVIOUS
<1>3. cfg.target => cmd = chip.cmd
  OBVIOUS
<1> HIDE DEF cmd
<1>4. Places'
  BY <1>1 DEF Awake, Places, Sending, Receiving
<1>5. Modems'
  BY <1>1, <1>2, <1>3 DEF Awake, Modems
<1>6. Wakes'
  BY <1>1, <1>2 DEF Awake, Wakes, Reads, AutoOn
<1> QED
  BY <1>4, <1>5, <1>6 DEF Awake

LEMMA CheckUnderflowAwake ==
  ASSUME Typed, Awake, CheckUnderflow
  PROVE  Awake'
<1>1. CASE /\ call'.pc = "write" /\ call'.op = call.op /\ call'.opt = call.opt /\ chip' = chip /\ ret' = ret
  <2>1. call.pc = "check" /\ cfg' = cfg
    BY CheckUnderflowDoes
  <2>2. Places'
    BY <1>1, <2>1 DEF Awake, Places, Sending, Receiving
  <2>3. Modems'
    BY <1>1, <2>1 DEF Awake, Modems
  <2>4. Wakes'
    BY <1>1, <2>1 DEF Awake, Wakes, Reads, AutoOn, Woken
  <2> QED
    BY <2>2, <2>3, <2>4 DEF Awake
<1>2. CASE /\ chip'.cmd = "idle" /\ chip'.modem = "idle" /\ chip'.auto = chip.auto
           /\ \/ call.op = "transmit" /\ call'.pc = "restore" /\ call'.op = call.op /\ call'.opt = call.opt /\ ret' = ret
              \/ call.op # "transmit" /\ call' = NoCall
  <2>1. call.pc = "check" /\ cfg' = cfg
    BY CheckUnderflowDoes
  <2>2. Modems'
    BY <1>2 DEF Modems
  <2>3. CASE call.op = "transmit" /\ call'.pc = "restore" /\ call'.op = call.op /\ call'.opt = call.opt /\ ret' = ret
    <3>1. Places'
      BY <2>1, <2>3 DEF Awake, Places, Sending, Receiving
    <3>2. Wakes'
      BY <1>2, <2>1, <2>3 DEF Awake, Wakes, Reads, AutoOn
    <3> QED
      BY <2>2, <3>1, <3>2 DEF Awake
  <2>4. CASE call.op # "transmit" /\ call' = NoCall
    BY <1>2, <2>1, <2>2, <2>4, UnderWayAuto, IdleAwake DEF Awake
  <2> QED
    BY <1>2, <2>3, <2>4
<1> QED
  BY <1>1, <1>2, CheckUnderflowDoes

LEMMA WriteFifoAwake ==
  ASSUME Typed, Awake, WriteFifo
  PROVE  Awake'
<1>1. /\ call.pc = "write" /\ call'.pc \in {"sent", "check"} /\ call'.op = call.op /\ call'.opt = call.opt
      /\ chip'.auto = chip.auto /\ chip'.timer = chip.timer /\ chip'.cmd = chip.cmd /\ chip'.modem = chip.modem
      /\ chip.irq \subseteq chip'.irq /\ chip'.irq \subseteq chip.irq \cup {"HIALERT", "ERR"}
      /\ cfg' = cfg /\ ret' = ret
  BY WriteFifoDoes
<1>2. Places'
  BY <1>1 DEF Awake, Places, Sending, Receiving
<1>3. Modems'
  BY <1>1 DEF Awake, Modems
<1>4. Woken => Woken'
  BY <1>1 DEF Woken
<1>5. Wakes'
  BY <1>1, <1>4 DEF Awake, Wakes, Reads, AutoOn
<1> QED
  BY <1>2, <1>3, <1>5 DEF Awake

LEMMA SentAwake ==
  ASSUME Typed, Awake, Sent
  PROVE  Awake'
<1>1. /\ call.pc = "sent" /\ chip.irq \intersect {"TX", "IDLE", "ERR"} # {} /\ cfg' = cfg /\ chip' = chip
      /\ \/ call.op = "transmit" /\ call'.pc = "restore" /\ call'.op = call.op /\ call'.opt = call.opt /\ ret' = ret
         \/ call.op # "transmit" /\ call'.pc = "await" /\ call'.op = call.op /\ call'.opt = call.opt /\ ret' = ret
         \/ call.op # "transmit" /\ call' = NoCall
  BY SentDoes
<1>2. Modems'
  BY <1>1 DEF Awake, Modems
<1>3. CASE call.op = "transmit" /\ call'.pc = "restore" /\ call'.op = call.op /\ call'.opt = call.opt /\ ret' = ret
  <2>1. Places'
    BY <1>1, <1>3 DEF Awake, Places, Sending, Receiving
  <2>2. Wakes'
    BY <1>1, <1>3 DEF Awake, Wakes, Reads, AutoOn
  <2> QED
    BY <1>2, <2>1, <2>2 DEF Awake
<1>4. CASE call.op # "transmit" /\ call'.pc = "await" /\ call'.op = call.op /\ call'.opt = call.opt /\ ret' = ret
  <2>1. Places' /\ call.op = "exchange"
    BY <1>1, <1>4 DEF Awake, Places, Sending, Receiving
  <2>2. Reads => Woken
    BY <1>1, <2>1 DEF Awake, Wakes, Woken, WaitedFor
  <2>3. Woken => Woken'
    BY <1>1 DEF Woken
  <2>4. Wakes'
    BY <1>1, <1>4, <2>2, <2>3 DEF Awake, Wakes, Reads, AutoOn
  <2> QED
    BY <1>2, <2>1, <2>4 DEF Awake
<1>5. CASE call.op # "transmit" /\ call' = NoCall
  BY <1>1, <1>2, <1>5, UnderWayAuto, IdleAwake DEF Awake
<1> QED
  BY <1>1, <1>3, <1>4, <1>5

LEMMA RestoreAwake ==
  ASSUME Typed, Awake, Restore
  PROVE  Awake'
<1>1. /\ call.pc = "restore" /\ call' = NoCall /\ chip'.cmd = chip.cmd /\ chip'.modem = chip.modem
      /\ ("timer" \notin call.opt => chip'.auto) /\ ("timer" \in call.opt => chip'.auto = chip.auto) /\ cfg' = cfg
  BY RestoreDoes
<1>2. Modems'
  BY <1>1 DEF Awake, Modems
<1>3. Reads => chip'.auto
  BY <1>1 DEF Awake, Places, Wakes, Reads, AutoOn
<1> QED
  BY <1>1, <1>2, <1>3, IdleAwake DEF Awake

ReceiveOptions == {{"fifo"}, {"timer"}, {"start"}, {"timer", "transceive"}, {"start", "transceive"}}

LEMMA ReceiveAwake ==
  ASSUME Typed, Awake, NEW opt \in ReceiveOptions, Receive(opt)
  PROVE  Awake'
<1>1. /\ MayCall(IF "fifo" \in opt THEN "fifo" ELSE "receive") /\ cfg' = cfg
      /\ ("timer" \in opt => chip'.timer \/ "fifo" \in opt)
      /\ \/ /\ "fifo" \in opt /\ chip.irq \intersect {"RX", "ERR", "HIALERT"} # {} /\ chip' = chip
            /\ call'.op = "receive" /\ call'.pc = "irq" /\ ret' = ret
         \/ /\ "fifo" \notin opt /\ chip'.auto = chip.auto
            /\ \/ chip'.cmd = "transceive" /\ chip'.modem = "start"
               \/ chip'.cmd = "receive" /\ chip'.modem = "wait"
            /\ \/ call' = NoCall
               \/ call'.op = "receive" /\ call'.pc = "await" /\ ret' = ret /\ "start" \notin opt
  BY ReceiveDoes
<1>2. ret.status # "interface" /\ (Reads => chip.auto)
  BY <1>1, CallsAuto
<1>3. CASE /\ chip.irq \intersect {"RX", "ERR", "HIALERT"} # {} /\ chip' = chip
           /\ call'.op = "receive" /\ call'.pc = "irq" /\ ret' = ret
  <2>1. Places'
    BY <1>2, <1>3 DEF Places, Sending, Receiving
  <2>2. Modems'
    BY <1>1, <1>3 DEF Awake, Modems
  <2>3. Woken'
    BY <1>3 DEF Woken, WaitedFor
  <2>4. Wakes'
    BY <1>1, <1>2, <1>3, <2>3 DEF Wakes, Reads, AutoOn
  <2> QED
    BY <2>1, <2>2, <2>4 DEF Awake
<1>4. CASE /\ "fifo" \notin opt /\ chip'.auto = chip.auto
           /\ \/ chip'.cmd = "transceive" /\ chip'.modem = "start"
              \/ chip'.cmd = "receive" /\ chip'.modem = "wait"
           /\ \/ call' = NoCall
              \/ call'.op = "receive" /\ call'.pc = "await" /\ ret' = ret /\ "start" \notin opt
  <2>1. Modems'
    BY <1>4 DEF Modems
  <2>2. CASE call' = NoCall
    BY <1>1, <1>2, <1>4, <2>1, <2>2, IdleAwake DEF Awake
  <2>3. CASE call'.op = "receive" /\ call'.pc = "await" /\ ret' = ret /\ "start" \notin opt
    <3>1. chip'.timer
      BY <1>1, <1>4, <2>3 DEF ReceiveOptions
    <3>2. Places'
      BY <1>2, <2>3 DEF Places, Sending, Receiving
    <3>3. Wakes'
      BY <1>1, <1>2, <1>4, <2>3, <3>1 DEF Wakes, Reads, AutoOn, Woken
    <3> QED
      BY <2>1, <3>2, <3>3 DEF Awake
  <2> QED
    BY <1>4, <2>2, <2>3
<1> QED
  BY <1>1, <1>3, <1>4

LEMMA AwaitAwake ==
  ASSUME Typed, Awake, Await
  PROVE  Awake'
<1>1. /\ call.pc = "await" /\ chip.irq \intersect WaitedFor # {} /\ cfg' = cfg
      /\ \/ chip' = chip
         \/ chip'.cmd = "idle" /\ chip'.modem = "idle" /\ chip'.auto = chip.auto
      /\ \/ call' = NoCall
         \/ call'.op = call.op /\ call'.opt = call.opt /\ call'.pc \in {"irq", "finish"} /\ ret' = ret
  BY AwaitDoes
<1>2. Modems' /\ chip'.auto = chip.auto /\ (Woken' \/ chip'.modem = "idle")
  BY <1>1 DEF Awake, Modems, Woken
<1>3. call.op # "transmit"
  BY <1>1 DEF Awake, Places, Receiving
<1>4. CASE call' = NoCall
  BY <1>1, <1>2, <1>3, <1>4, UnderWayAuto, IdleAwake DEF Awake
<1>5. CASE call'.op = call.op /\ call'.opt = call.opt /\ call'.pc \in {"irq", "finish"} /\ ret' = ret
  <2>1. Places'
    BY <1>1, <1>5 DEF Awake, Places, Sending, Receiving
  <2>2. Wakes'
    BY <1>1, <1>2, <1>5 DEF Awake, Wakes, Reads, AutoOn
  <2> QED
    BY <1>2, <2>1, <2>2 DEF Awake
<1> QED
  BY <1>1, <1>4, <1>5

LEMMA PollAwake ==
  ASSUME Typed, Awake, ReadIrq \/ ReadModem \/ ReadFifo
  PROVE  Awake'
<1>1. /\ call.pc \in {"irq", "modem", "fifo"} /\ cfg' = cfg
      /\ chip'.cmd = chip.cmd /\ chip'.modem = chip.modem /\ chip'.irq = chip.irq
      /\ chip'.auto = chip.auto /\ chip'.timer = chip.timer
      /\ \/ call' = NoCall
         \/ call'.op = call.op /\ call'.opt = call.opt /\ call'.pc \in {"irq", "modem", "fifo", "finish"} /\ ret' = ret
  BY ReadIrqDoes, ReadModemDoes, ReadFifoDoes
<1>2. Modems' /\ (Woken => Woken')
  BY <1>1 DEF Awake, Modems, Woken
<1>3. call.op # "transmit"
  BY <1>1 DEF Awake, Places, Receiving
<1>4. CASE call' = NoCall
  BY <1>1, <1>2, <1>3, <1>4, UnderWayAuto, IdleAwake DEF Awake
<1>5. CASE call'.op = call.op /\ call'.opt = call.opt /\ call'.pc \in {"irq", "modem", "fifo", "finish"} /\ ret' = ret
  <2>1. Places'
    BY <1>1, <1>5 DEF Awake, Places, Sending, Receiving
  <2>2. Wakes'
    BY <1>1, <1>2, <1>5 DEF Awake, Wakes, Reads, AutoOn
  <2> QED
    BY <1>2, <2>1, <2>2 DEF Awake
<1> QED
  BY <1>1, <1>4, <1>5

LEMMA FinishAwake ==
  ASSUME Typed, Awake, Finish
  PROVE  Awake'
<1>1. /\ call.pc = "finish" /\ call' = NoCall /\ cfg' = cfg
      /\ \/ chip' = chip
         \/ /\ chip'.auto = chip.auto
            /\ \/ chip'.cmd = "idle" /\ chip'.modem = "idle"
               \/ chip'.cmd = "transceive" /\ chip'.modem = "start"
  BY FinishDoes
<1>2. Modems' /\ chip'.auto = chip.auto
  BY <1>1 DEF Awake, Modems
<1>3. call.op # "transmit"
  BY <1>1 DEF Awake, Places, Receiving
<1> QED
  BY <1>1, <1>2, <1>3, UnderWayAuto, IdleAwake DEF Awake

\* Calls that are over at once, or only begin.
LEMMA OtherCallsAwake ==
  ASSUME Typed, Awake,
         \/ \E p \in 0 .. BufSize : SetStart(p)
         \/ \E n \in Nat : CalcCrc(n)
         \/ Mem \/ Wait("wait") \/ Wait("reset") \/ Autocoll("autocoll") \/ Autocoll("cmd_autocoll")
  PROVE  Awake'
<1>1. CASE \E p \in 0 .. BufSize : SetStart(p)
  <2>1. MayCall("start_pos") /\ call' = NoCall /\ cfg' = cfg /\ chip' = chip
    BY <1>1, SetStartDoes
  <2>2. Modems'
    BY <2>1 DEF Awake, Modems
  <2> QED
    BY <2>1, <2>2, CallsAuto, IdleAwake DEF Awake
<1>2. CASE \E n \in Nat : CalcCrc(n)
  <2>1. /\ MayCall("crc") /\ cfg' = cfg /\ chip'.auto = chip.auto
        /\ \/ call' = NoCall /\ chip'.cmd = chip.cmd /\ chip'.modem = chip.modem
           \/ call'.op = "crc" /\ call'.pc = "crc" /\ ret' = ret /\ chip'.cmd = "calccrc" /\ chip'.modem = "idle"
    BY <1>2, CalcCrcDoes
  <2>2. Modems'
    BY <2>1 DEF Awake, Modems
  <2>3. ret.status # "interface" /\ (Reads => chip'.auto)
    BY <2>1, CallsAuto
  <2>4. CASE call' = NoCall
    BY <2>1, <2>2, <2>3, <2>4, IdleAwake DEF Awake
  <2>5. CASE call'.op = "crc" /\ call'.pc = "crc" /\ ret' = ret
    BY <2>1, <2>2, <2>3, <2>5, BegunAwake DEF Awake
  <2> QED
    BY <2>1, <2>4, <2>5
<1>3. CASE Mem
  <2>1. /\ MayCall("mem") /\ cfg' = cfg /\ chip'.auto = chip.auto /\ ret' = ret
        /\ call'.op = "mem" /\ call'.pc = "mem" /\ chip'.cmd = "mem" /\ chip'.modem = "idle"
    BY <1>3, MemDoes
  <2>2. Modems'
    BY <2>1 DEF Modems
  <2>3. ret.status # "interface" /\ (Reads => chip'.auto)
    BY <2>1, CallsAuto
  <2> QED
    BY <2>1, <2>2, <2>3, BegunAwake DEF Awake
<1>4. ASSUME NEW op \in {"wait", "reset"}, Wait(op) PROVE Awake'
  <2>1. /\ MayCall(op) /\ cfg' = cfg /\ chip'.auto = chip.auto /\ ret' = ret
        /\ call'.op = op /\ call'.pc = "wait" /\ chip'.cmd = "idle" /\ chip'.modem = "idle"
    BY <1>4, WaitDoes
  <2>2. Modems'
    BY <2>1 DEF Modems
  <2>3. ret.status # "interface" /\ (Reads => chip'.auto)
    BY <2>1, CallsAuto
  <2> QED
    BY <2>1, <2>2, <2>3, BegunAwake DEF Awake
<1>5. ASSUME NEW op \in {"autocoll", "cmd_autocoll"}, Autocoll(op) PROVE Awake'
  <2>1. /\ MayCall(op) /\ cfg.target /\ cfg' = cfg /\ chip'.auto = chip.auto /\ ret' = ret
        /\ call'.op = op /\ call'.pc = "autocoll" /\ chip'.cmd = "autocoll" /\ chip'.modem = "idle"
    BY <1>5, AutocollDoes
  <2>2. Modems'
    BY <2>1 DEF Modems
  <2>3. ret.status # "interface" /\ (Reads => chip'.auto)
    BY <2>1, CallsAuto
  <2> QED
    BY <2>1, <2>2, <2>3, BegunAwake DEF Awake
<1> QED
  BY <1>1, <1>2, <1>3, <1>4, <1>5

LEMMA AuthenticateAwake ==
  ASSUME Typed, Awake, NEW op, MayCall(op), NEW type \in Int, NEW key \in Int, MfcAuthenticate(type, key)
  PROVE  Awake'
<1>1. /\ cfg' = cfg /\ chip'.auto = chip.auto
      /\ \/ call' = NoCall /\ chip' = chip
         \/ /\ call'.op = "auth" /\ call'.pc = "auth" /\ ret' = ret
            /\ chip'.cmd = "authent" /\ chip'.modem = "idle" /\ chip'.fifo # <<>>
  BY MfcAuthenticateDoes
<1>2. ret.status # "interface" /\ (Reads => chip'.auto)
  BY <1>1, CallsAuto
<1>3. Modems'
  BY <1>1 DEF Awake, Modems
<1>4. CASE call' = NoCall
  BY <1>1, <1>2, <1>3, <1>4, IdleAwake DEF Awake
<1>5. CASE /\ call'.op = "auth" /\ call'.pc = "auth" /\ ret' = ret
           /\ chip'.cmd = "authent" /\ chip'.modem = "idle" /\ chip'.fifo # <<>>
  <2>1. Places'
    BY <1>2, <1>5 DEF Places, Sending, Receiving
  <2>2. Wakes'
    BY <1>1, <1>2, <1>5 DEF Wakes, Reads, AutoOn, Busy
  <2> QED
    BY <1>3, <2>1, <2>2 DEF Awake
<1> QED
  BY <1>1, <1>4, <1>5

\* Steps that end a call, or go on where nothing is waited for.
LEMMA OtherStepsAwake ==
  ASSUME Typed, Awake,
         \/ CrcDone \/ MemDone \/ AuthDone \/ Waited \/ AutocollWait \/ CmdAutocollWait \/ ReadAtr \/ AutocollDone
  PROVE  Awake'
<1>1. /\ call.pc \in {"crc", "mem", "auth", "wait", "autocoll", "atr", "target"} /\ cfg' = cfg /\ chip'.auto = chip.auto
      /\ \/ chip'.cmd = chip.cmd /\ chip'.modem = chip.modem
         \/ chip'.cmd = "idle" /\ chip'.modem = "idle"
      /\ \/ call' = NoCall
         \/ /\ call'.op = call.op /\ call'.pc \in {"atr", "target"} /\ ret' = ret
            /\ call.pc \in {"autocoll", "atr"}
  <2>1. CASE CrcDone
    BY <2>1, CrcDoneDoes
  <2>2. CASE MemDone
    BY <2>2, MemDoneDoes
  <2>3. CASE AuthDone
    BY <2>3, AuthDoneDoes
  <2>4. CASE Waited
    BY <2>4, WaitedDoes
  <2>5. CASE AutocollWait \/ CmdAutocollWait
    BY <2>5, PolledDoes
  <2>6. CASE ReadAtr
    BY <2>6, ReadAtrDoes
  <2>7. CASE AutocollDone
    BY <2>7, AutocollDoneDoes
  <2> QED
    BY <2>1, <2>2, <2>3, <2>4, <2>5, <2>6, <2>7
<1>2. Modems'
  BY <1>1 DEF Awake, Modems
<1>3. call.op # "transmit" /\ call.pc # "idle" /\ ret.status # "interface"
  BY <1>1 DEF Awake, Places
<1>4. Reads => chip'.auto
  BY <1>1, <1>3, UnderWayAuto
<1>5. CASE call' = NoCall
  BY <1>1, <1>2, <1>4, <1>5, IdleAwake DEF Awake
<1>6. CASE call'.op = call.op /\ call'.pc \in {"atr", "target"} /\ ret' = ret /\ call.pc \in {"autocoll", "atr"}
  <2>1. Places'
    BY <1>3, <1>6 DEF Awake, Places, Sending, Receiving
  <2>2. Wakes'
    BY <1>1, <1>3, <1>4, <1>6 DEF Wakes, Reads, AutoOn
  <2> QED
    BY <1>2, <2>1, <2>2 DEF Awake
<1> QED
  BY <1>1, <1>5, <1>6

LEMMA FailureAwake ==
  ASSUME Typed, Awake, BusFails \/ Reapply
  PROVE  Awake'
<1>1. CASE BusFails
  <2>1. call' = NoCall /\ ret'.status = "interface" /\ cfg' = cfg /\ chip' = chip
    BY <1>1, BusFailsDoes
  <2>2. Modems'
    BY <2>1 DEF Awake, Modems
  <2> QED
    BY <2>1, <2>2, IdleAwake DEF Awake
<1>2. CASE Reapply
  <2>1. /\ call.pc = "idle" /\ call' = call /\ cfg' = cfg
        /\ chip'.cmd = chip.cmd /\ chip'.modem = chip.modem /\ chip'.auto = ~cfg.target
    BY <1>2, ReapplyDoes
  <2>2. Modems'
    BY <2>1 DEF Awake, Modems
  <2>3. call' = NoCall
    BY <2>1 DEF Awake, Places
  <2>4. Reads => chip'.auto
    BY <2>1 DEF Reads
  <2> QED
    BY <2>1, <2>2, <2>3, <2>4, IdleAwake DEF Awake
<1> QED
  BY <1>1, <1>2

-----------------------------------------------------------------------------
(* The chip's steps keep it.                                               *)

LEMMA RestsPlaces ==
  ASSUME Places, HostRests
  PROVE  Places'
  BY DEF Places, HostRests

\* A step of the chip that does not end a frame and forgets no flag.
LEMMA QuietlyAwake ==
  ASSUME Awake, HostRests, Modems', chip'.auto = chip.auto, chip.irq \subseteq chip'.irq,
         (chip.modem = "tx") <=> (chip'.modem = "tx"), chip.modem = "idle" => chip'.modem = "idle",
         "TX" \in chip'.irq => "TX" \in chip.irq,
         Woken => Woken', call.pc = "auth" /\ Reads => Busy'
  PROVE  Awake'
<1>1. Places'
  BY RestsPlaces DEF Awake
<1>2. Wakes'
  BY DEF Awake, Wakes, Reads, AutoOn, HostRests
<1> QED
  BY <1>1, <1>2 DEF Awake

LEMMA ChipSendsAwake ==
  ASSUME Typed, Awake, ChipSends
  PROVE  Awake'
<1>1. /\ HostRests /\ chip.modem = "tx" /\ chip'.cmd = chip.cmd /\ chip'.modem = chip.modem /\ chip'.irq = chip.irq
      /\ chip'.auto = chip.auto /\ chip'.timer = chip.timer
  BY ChipSendsDoes
<1>2. Modems' /\ (Woken => Woken')
  BY <1>1 DEF Awake, Modems, Woken, HostRests
<1>3. ~(call.pc = "auth" /\ Reads)
  BY <1>1 DEF Awake, Wakes
<1> QED
  BY <1>1, <1>2, <1>3, QuietlyAwake

LEMMA ChipHasSentAwake ==
  ASSUME Typed, Awake, NEW n \in Nat, NEW quality, ChipHasSent(n, quality)
  PROVE  Awake'
<1>1. /\ HostRests /\ chip.modem = "tx" /\ chip'.auto = chip.auto /\ (chip.timer \/ chip.auto => chip'.timer)
      /\ \/ chip.cmd = "transmit" /\ chip'.cmd = "idle" /\ chip'.modem = "idle" /\ chip'.irq = chip.irq \cup {"TX", "IDLE"}
         \/ /\ chip.cmd # "transmit" /\ chip'.cmd = chip.cmd /\ chip'.irq = chip.irq \cup {"TX"}
            /\ chip'.modem = (IF cfg.target THEN "start" ELSE "wait")
  BY ChipHasSentDoes
<1>2. Places'
  BY <1>1, RestsPlaces DEF Awake
<1>3. Modems'
  BY <1>1 DEF Awake, Modems, HostRests
<1>4. Woken => Woken'
  BY <1>1 DEF Woken
<1>5. Reads /\ call.pc \in {"check", "write", "sent"} /\ call.op = "exchange" => Woken'
  BY <1>1, UnderWayAuto DEF Woken
<1>6. Wakes'
  BY <1>1, <1>4, <1>5 DEF Awake, Wakes, Reads, AutoOn, HostRests
<1> QED
  BY <1>2, <1>3, <1>6 DEF Awake

LEMMA AnswerBeginsAwake ==
  ASSUME Typed, Awake, AnswerBegins
  PROVE  Awake'
<1>1. /\ HostRests /\ Hears /\ chip'.modem = "rx" /\ chip'.cmd = chip.cmd /\ chip'.irq = chip.irq /\ chip'.auto = chip.auto
  BY AnswerBeginsDoes
<1>2. Modems' /\ Woken'
  BY <1>1 DEF Awake, Modems, Woken, Hears, HostRests
<1>3. chip.modem \in {"wait", "start"}
  BY <1>1 DEF Hears
<1>4. ~(call.pc = "auth" /\ Reads)
  BY <1>3 DEF Awake, Wakes
<1> QED
  BY <1>1, <1>2, <1>3, <1>4, QuietlyAwake

LEMMA ReceptionAwake ==
  ASSUME Typed, Awake, ChipReceives \/ ChipHasReceived
  PROVE  Awake'
<1>1. /\ HostRests /\ chip.modem = "rx" /\ chip'.auto = chip.auto /\ chip'.timer = chip.timer
      /\ chip.irq \subseteq chip'.irq /\ ("RX" \in chip'.irq \/ chip'.modem = "rx")
      /\ \/ chip'.cmd = chip.cmd /\ chip'.modem = "rx"
         \/ chip'.cmd = "idle" /\ chip'.modem = "idle"
         \/ chip'.cmd = chip.cmd /\ chip'.modem = "start" /\ chip.cmd # "receive"
  BY ChipReceivesDoes, ChipHasReceivedDoes
<1>2. Modems'
  BY <1>1 DEF Awake, Modems, HostRests
<1>3. Places'
  BY <1>1, RestsPlaces DEF Awake
<1>4. Woken'
  BY <1>1 DEF Woken, WaitedFor
<1>5. Wakes'
  BY <1>1, <1>4 DEF Awake, Wakes, Reads, AutoOn, HostRests
<1> QED
  BY <1>2, <1>3, <1>5 DEF Awake

LEMMA AnswerIsLostAwake ==
  ASSUME Typed, Awake, AnswerIsLost
  PROVE  Awake'
<1>1. HostRests /\ chip' = chip
  BY AnswerIsLostDoes
<1> QED
  BY <1>1 DEF Awake, Places, Modems, Wakes, Reads, AutoOn, Woken, Busy, HostRests

LEMMA TimerExpiresAwake ==
  ASSUME Typed, Awake, TimerExpires
  PROVE  Awake'
<1>1. /\ HostRests /\ chip'.cmd = chip.cmd /\ chip'.modem = chip.modem /\ chip'.fifo = chip.fifo
      /\ chip'.irq = chip.irq \cup {"TIMER"} /\ chip'.auto = chip.auto
  BY TimerExpiresDoes
<1>2. Modems' /\ Woken' /\ Busy'
  BY <1>1 DEF Awake, Modems, Woken, WaitedFor, Busy, HostRests
<1>3. chip.irq \subseteq chip'.irq /\ ("TX" \in chip'.irq => "TX" \in chip.irq)
  BY <1>1
<1> QED
  BY <1>1, <1>2, <1>3, QuietlyAwake

LEMMA ChipAuthenticatesAwake ==
  ASSUME Typed, Awake, ChipAuthenticates
  PROVE  Awake'
<1>1. /\ HostRests /\ chip.cmd = "authent" /\ chip'.cmd = chip.cmd /\ chip'.modem = chip.modem /\ chip'.auto = chip.auto
      /\ \/ chip'.irq = chip.irq \cup {"IDLE"}
         \/ chip'.irq = chip.irq /\ (chip.timer \/ chip.auto => chip'.timer)
  BY ChipAuthenticatesDoes
<1>2. Modems' /\ (Woken => Woken')
  BY <1>1 DEF Awake, Modems, Woken, WaitedFor, HostRests
<1>3. call.pc = "auth" /\ Reads => Busy'
  <2> SUFFICES ASSUME call.pc = "auth", Reads PROVE Busy'
    OBVIOUS
  <2>1. call.op # "transmit"
    BY DEF Awake, Places
  <2> QED
    BY <1>1, <2>1, UnderWayAuto DEF Busy
<1> QED
  BY <1>1, <1>2, <1>3, QuietlyAwake

LEMMA ChipCalculatesAwake ==
  ASSUME Typed, Awake, ChipCalculates
  PROVE  Awake'
<1>1. /\ HostRests /\ chip.cmd \in {"calccrc", "mem"} /\ chip'.cmd = "idle" /\ chip'.modem = chip.modem
      /\ chip.irq \subseteq chip'.irq /\ chip'.auto = chip.auto /\ chip'.timer = chip.timer
      /\ chip'.irq \subseteq chip.irq \cup {"CRC", "HIALERT", "ERR", "IDLE"} /\ chip'.irq # {}
  BY ChipCalculatesDoes
<1>2. Modems' /\ (Woken => Woken') /\ Busy'
  BY <1>1 DEF Awake, Modems, Woken, Busy, HostRests
<1>3. "TX" \in chip'.irq => "TX" \in chip.irq
  BY <1>1
<1> QED
  BY <1>1, <1>2, <1>3, QuietlyAwake

LEMMA ActivationAwake ==
  ASSUME Typed, Awake, ChipIsLeft \/ \E n \in Nat : \E quality, field : ChipIsActivated(n, quality, field)
  PROVE  Awake'
<1>1. /\ HostRests /\ chip.cmd = "autocoll"
      /\ \/ chip'.cmd = "idle" /\ chip'.modem = "idle"
         \/ chip'.cmd = "transceive" /\ chip'.modem = "start"
  <2>1. CASE ChipIsLeft
    BY <2>1, ChipIsLeftDoes
  <2>2. CASE \E n \in Nat : \E quality, field : ChipIsActivated(n, quality, field)
    BY <2>2, ChipIsActivatedDoes
  <2> QED
    BY <2>1, <2>2
<1>2. cfg.target
  BY <1>1 DEF Awake, Modems
<1>3. Places' /\ Modems' /\ Wakes'
  BY <1>1, <1>2, RestsPlaces DEF Awake, Modems, Wakes, Reads, HostRests
<1> QED
  BY <1>3 DEF Awake

-----------------------------------------------------------------------------
(* Every step, one after the other.                                        *)

\* The steps that Next allows, with what is known of their inputs.
LEMMA Steps ==
  ASSUME Next
  PROVE  \/ \E opt : \E n \in Nat : Exchange(opt, n)
         \/ \E opt : \E n \in Nat : Transmit(opt, n)
         \/ Clear \/ Feed \/ CheckUnderflow \/ WriteFifo \/ Sent \/ Restore
         \/ \E opt \in ReceiveOptions : Receive(opt)
         \/ Await \/ ReadIrq \/ ReadModem \/ ReadFifo \/ Finish
         \/ \E p \in 0 .. BufSize : SetStart(p)
         \/ \E n \in Nat : CalcCrc(n)
         \/ CrcDone \/ Mem \/ MemDone
         \/ \E op : \E type \in Int, key \in Int : MayCall(op) /\ MfcAuthenticate(type, key)
         \/ AuthDone
         \/ Wait("wait") \/ Wait("reset") \/ Waited
         \/ Autocoll("autocoll") \/ Autocoll("cmd_autocoll")
         \/ AutocollWait \/ CmdAutocollWait \/ ReadAtr \/ AutocollDone
         \/ BusFails \/ Reapply
         \/ ChipSends \/ AnswerBegins \/ ChipReceives \/ ChipHasReceived
         \/ \E n \in Nat : \E q \in Qualities : ChipHasSent(n, q)
         \/ AnswerIsLost \/ TimerExpires \/ ChipAuthenticates \/ ChipCalculates
         \/ \E n \in Nat : \E q : \E f \in {"passive", "active"} : n <= FifoSize /\ ChipIsActivated(n, q, f)
         \/ ChipIsLeft
<1>1. CASE \E opt \in Options, n \in Lengths :
             \/ Exchange(opt, n)
             \/ cfg.target /\ Exchange(opt \union {"listen"}, n)
             \/ Transmit(opt, n)
             \/ Transmit(opt \union {"timer"}, n)
  <2>1. PICK opt \in Options, n \in Lengths :
             \/ Exchange(opt, n)
             \/ cfg.target /\ Exchange(opt \union {"listen"}, n)
             \/ Transmit(opt, n)
             \/ Transmit(opt \union {"timer"}, n)
    BY <1>1
  <2>2. n \in Nat
    BY LengthAssumption
  <2> QED
    BY <2>1, <2>2
<1>2. CASE \E opt \in {{"fifo"}, {"timer"}, {"start"}, {"timer", "transceive"}, {"start", "transceive"}} : Receive(opt)
  BY <1>2 DEF ReceiveOptions
<1>3. CASE \E n \in Lengths \ {0} : n <= FifoSize /\ CalcCrc(n)
  BY <1>3, LengthAssumption
<1>4. CASE \E type \in {AuthA, AuthB} : MfcAuthenticateKey(type) \/ MfcAuthenticateKeyNo(type)
  <2>1. PICK type \in {AuthA, AuthB} : MfcAuthenticateKey(type) \/ MfcAuthenticateKeyNo(type)
    BY <1>4
  <2>2. type \in Int /\ KeyOf(type) \in Int /\ KeyOf(AuthA) \in Int
    BY <2>1 DEF AuthA, AuthB, KeyOf
  <2>3. \/ MayCall("auth") /\ MfcAuthenticate(type, KeyOf(type))
        \/ MayCall("auth_key_no") /\ MfcAuthenticate(type, KeyOf(AuthA))
    BY <2>1 DEF MfcAuthenticateKey, MfcAuthenticateKeyNo
  <2> QED
    BY <2>2, <2>3
<1>5. CASE \E n \in AnswerLengths \union {0}, q \in Qualities : ChipHasSent(n, q)
  <2>1. PICK n \in AnswerLengths \union {0}, q \in Qualities : ChipHasSent(n, q)
    BY <1>5
  <2>2. n \in Nat
    BY LengthAssumption
  <2> QED
    BY <2>1, <2>2
<1>6. CASE \E n \in AnswerLengths, q \in {"whole", "crc", "other"}, f \in {"passive", "active"} :
             n <= FifoSize /\ ChipIsActivated(n, q, f)
  <2>1. PICK n \in AnswerLengths, q \in {"whole", "crc", "other"}, f \in {"passive", "active"} :
             n <= FifoSize /\ ChipIsActivated(n, q, f)
    BY <1>6
  <2>2. n \in Nat
    BY LengthAssumption
  <2> QED
    BY <2>1, <2>2
<1>7. CASE \/ Clear \/ Feed \/ CheckUnderflow \/ WriteFifo \/ Sent \/ Restore
           \/ Await \/ ReadIrq \/ ReadModem \/ ReadFifo \/ Finish
           \/ \E p \in 0..BufSize : SetStart(p)
           \/ CrcDone \/ Mem \/ MemDone \/ AuthDone
           \/ Wait("wait") \/ Wait("reset") \/ Waited
           \/ Autocoll("autocoll") \/ Autocoll("cmd_autocoll")
           \/ AutocollWait \/ CmdAutocollWait \/ ReadAtr \/ AutocollDone
           \/ BusFails \/ Reapply
           \/ ChipSends \/ AnswerBegins \/ ChipReceives \/ ChipHasReceived
           \/ AnswerIsLost \/ TimerExpires \/ ChipAuthenticates \/ ChipCalculates
           \/ ChipIsLeft
  BY <1>7
<1> QED
  BY <1>1, <1>2, <1>3, <1>4, <1>5, <1>6, <1>7 DEF Next, Host, Chip

LEMMA StutterKeeps ==
  ASSUME UNCHANGED vars
  PROVE  (Typed => Typed') /\ (Awake => Awake')
<1>1. UNCHANGED <<cfg, hal, mem, call, ret, chip, peer, composed, calls>>
  BY DEF vars
<1>2. (Typed => Typed')
  BY <1>1 DEF Typed, TxBase
<1>3. (Awake => Awake')
  BY <1>1 DEF Awake, Places, Modems, Wakes, Reads, AutoOn, Woken, Busy
<1> QED
  BY <1>2, <1>3

LEMMA NextTyped ==
  ASSUME Typed, Next
  PROVE  Typed'
<1>1. CASE \/ \E opt : \E n \in Nat : Exchange(opt, n)
           \/ \E opt : \E n \in Nat : Transmit(opt, n)
           \/ Clear \/ Feed \/ CheckUnderflow \/ WriteFifo \/ Sent \/ Restore
           \/ \E opt \in ReceiveOptions : Receive(opt)
  BY <1>1, ExchangeDoes, TransmitDoes, ClearDoes, FeedDoes, CheckUnderflowDoes, WriteFifoDoes, SentDoes, RestoreDoes,
     ReceiveDoes
<1>2. CASE \/ Await \/ ReadIrq \/ ReadModem \/ ReadFifo \/ Finish
           \/ \E p \in 0 .. BufSize : SetStart(p)
           \/ \E n \in Nat : CalcCrc(n)
           \/ CrcDone \/ Mem \/ MemDone
  BY <1>2, AwaitDoes, ReadIrqDoes, ReadModemDoes, ReadFifoDoes, FinishDoes, SetStartDoes, CalcCrcDoes, CrcDoneDoes,
     MemDoes, MemDoneDoes
<1>3. CASE \/ \E op : \E type \in Int, key \in Int : MayCall(op) /\ MfcAuthenticate(type, key)
           \/ AuthDone \/ Wait("wait") \/ Wait("reset") \/ Waited
           \/ Autocoll("autocoll") \/ Autocoll("cmd_autocoll")
           \/ AutocollWait \/ CmdAutocollWait \/ ReadAtr \/ AutocollDone \/ BusFails \/ Reapply
  BY <1>3, MfcAuthenticateDoes, AuthDoneDoes, WaitDoes, WaitedDoes, AutocollDoes, PolledDoes, ReadAtrDoes,
     AutocollDoneDoes, BusFailsDoes, ReapplyDoes
<1>4. CASE \/ ChipSends \/ AnswerBegins \/ ChipReceives \/ ChipHasReceived
           \/ \E n \in Nat : \E q \in Qualities : ChipHasSent(n, q)
           \/ AnswerIsLost \/ TimerExpires \/ ChipAuthenticates \/ ChipCalculates
           \/ \E n \in Nat : \E q : \E f \in {"passive", "active"} : n <= FifoSize /\ ChipIsActivated(n, q, f)
           \/ ChipIsLeft
  BY <1>4, ChipSendsDoes, AnswerBeginsDoes, ChipReceivesDoes, ChipHasReceivedDoes, ChipHasSentDoes, AnswerIsLostDoes,
     TimerExpiresDoes, ChipAuthenticatesDoes, ChipCalculatesDoes, ChipIsActivatedDoes, ChipIsLeftDoes
<1> QED
  BY <1>1, <1>2, <1>3, <1>4, Steps

LEMMA NextAwake ==
  ASSUME Typed, Awake, Next
  PROVE  Awake'
<1>1. CASE \/ \E opt : \E n \in Nat : Exchange(opt, n)
           \/ \E opt : \E n \in Nat : Transmit(opt, n)
           \/ Clear \/ Feed \/ CheckUnderflow \/ WriteFifo \/ Sent \/ Restore
           \/ \E opt \in ReceiveOptions : Receive(opt)
  BY <1>1, ExchangeAwake, TransmitAwake, ClearAwake, FeedAwake, CheckUnderflowAwake, WriteFifoAwake, SentAwake,
     RestoreAwake, ReceiveAwake
<1>2. CASE \/ Await \/ ReadIrq \/ ReadModem \/ ReadFifo \/ Finish
           \/ \E p \in 0 .. BufSize : SetStart(p)
           \/ \E n \in Nat : CalcCrc(n)
           \/ CrcDone \/ Mem \/ MemDone
  BY <1>2, AwaitAwake, PollAwake, FinishAwake, OtherCallsAwake, OtherStepsAwake
<1>3. CASE \/ \E op : \E type \in Int, key \in Int : MayCall(op) /\ MfcAuthenticate(type, key)
           \/ AuthDone \/ Wait("wait") \/ Wait("reset") \/ Waited
           \/ Autocoll("autocoll") \/ Autocoll("cmd_autocoll")
           \/ AutocollWait \/ CmdAutocollWait \/ ReadAtr \/ AutocollDone \/ BusFails \/ Reapply
  BY <1>3, AuthenticateAwake, OtherStepsAwake, OtherCallsAwake, FailureAwake
<1>4. CASE \/ ChipSends \/ AnswerBegins \/ ChipReceives \/ ChipHasReceived
           \/ \E n \in Nat : \E q \in Qualities : ChipHasSent(n, q)
           \/ AnswerIsLost \/ TimerExpires \/ ChipAuthenticates \/ ChipCalculates
           \/ \E n \in Nat : \E q : \E f \in {"passive", "active"} : n <= FifoSize /\ ChipIsActivated(n, q, f)
           \/ ChipIsLeft
  BY <1>4, ChipSendsAwake, AnswerBeginsAwake, ReceptionAwake, ChipHasSentAwake, AnswerIsLostAwake,
     TimerExpiresAwake, ChipAuthenticatesAwake, ChipCalculatesAwake, ActivationAwake
<1> QED
  BY <1>1, <1>2, <1>3, <1>4, Steps

LEMMA InitTyped ==
  ASSUME Init
  PROVE  Typed /\ Awake
<1>1. <<>> \in Seq(Int) /\ Len(<<>>) <= FifoSize
  BY SizeAssumption
<1>2. IsChip(chip) /\ chip.cmd = "idle" /\ chip.modem = "idle" /\ chip.auto = ~cfg.target
  BY <1>1 DEF Init, IsChip, ChipFields
<1>3. IsPeer(peer)
  BY <1>1 DEF Init, IsPeer, PeerFields
<1>4. IsHal(hal) /\ hal.txLen = 0 /\ hal.start = 0
  BY SizeAssumption DEF Init, IsHal, HalFields
<1>5. IsComposed(composed) /\ composed.open = FALSE
  BY <1>1, ComposedIs DEF Init
<1>6. IsMem(mem)
  BY DEF Init, IsMem
<1>7. IsCall(call) /\ call = NoCall /\ call.pc = "idle" /\ call.op = "none"
  BY NoCallIs DEF Init
<1>8. TxBase + hal.txLen <= BufSize
  BY <1>4, SizeAssumption DEF TxBase
<1>9. Typed
  BY <1>2, <1>3, <1>4, <1>5, <1>6, <1>7, <1>8 DEF Typed, Init
<1>10. Places
  BY <1>7 DEF Places, Sending, Receiving
<1>11. Modems
  BY <1>2 DEF Modems
<1>12. Wakes
  BY <1>2, <1>7 DEF Wakes, Reads, AutoOn
<1> QED
  BY <1>9, <1>10, <1>11, <1>12 DEF Awake

LEMMA AwakeWakesUp ==
  ASSUME Awake, TransmitsDirectly(Setups)
  PROVE  WakesUp
<1>1. CASE cfg.target
  BY <1>1 DEF WakesUp
<1>2. CASE ~cfg.target
  <2>1. Reads
    BY <1>2 DEF Reads
  <2>2. At("sent") => chip.modem = "tx" \/ chip.irq \intersect {"TX", "IDLE", "ERR"} # {}
    BY <2>1 DEF Awake, Wakes, At
  <2>3. At("await") => chip.irq \intersect WaitedFor # {} \/ chip.timer \/ chip.modem = "rx"
    BY <2>1 DEF Awake, Wakes, Woken, At
  <2>4. At("auth") => chip.irq # {} \/ chip.timer \/ chip.fifo # <<>>
    BY <2>1 DEF Awake, Wakes, Busy, At
  <2>5. call.pc \in {"irq", "modem"} =>
          chip.irq \intersect WaitedFor # {} \/ chip.timer \/ chip.modem \in {"rx", "idle"}
    BY <2>1 DEF Awake, Wakes, Woken
  <2> QED
    BY <2>2, <2>3, <2>4, <2>5 DEF WakesUp
<1> QED
  BY <1>1, <1>2

\* The records keep their shapes, no frame is longer than its FIFO or buffer,
\* and of every call it is known where it is and what the chip does for it.
THEOREM AwakeInvariant == Spec => [](Typed /\ Awake)
<1>1. Init => Typed /\ Awake
  BY InitTyped
<1>2. Typed /\ Awake /\ [Next]_vars => (Typed /\ Awake)'
  BY NextTyped, NextAwake, StutterKeeps
<1> QED
  BY <1>1, <1>2, PTL DEF Spec

\* A host that waits for a flag of the chip (Exchange, Receive and Mfc
\* Authenticate of phhalHw_Rc523.c) is never left waiting: the chip is still at
\* work on something that raises one, or the timer runs.
THEOREM WakesUpCorrect ==
  ASSUME TransmitsDirectly(Setups)
  PROVE  Spec => []WakesUp
<1>1. Typed /\ Awake => WakesUp
  BY AwakeWakesUp
<1> QED
  BY <1>1, AwakeInvariant, PTL

-----------------------------------------------------------------------------
(* A frame goes out as it was composed.                                    *)

Asked ==
  /\ call.op = "receive" => cfg.calls \intersect {"receive", "fifo"} # {}
  /\ call.pc \in {"autocoll", "atr", "target"} => cfg.target

\* the bytes of the next frame: while it is put together they wait in the
\* buffer, and a call that sends it holds those that did not go through it
Request ==
  /\ composed.open => /\ Buffered = composed.bytes /\ call.op \notin {"exchange", "transmit"}
                      /\ ~(cfg.shared /\ cfg.target)
  /\ call.pc \in {"clear", "feed"} => Buffered \o call.data = composed.bytes

\* bytes were lost in a full FIFO, and the call will see it
Spilt == "ERR" \in chip.irq /\ "BUFFEROVFL" \in chip.err

Quiet == chip.irq \intersect {"TX", "IDLE", "ERR"} = {}

\* the chip waits for the first bytes
Ready ==
  /\ chip.fifo = <<>> /\ Quiet
  /\ IF cfg.target /\ call.op = "exchange" THEN chip.modem = "start" /\ peer.out = <<>>
     ELSE chip.modem = "idle" /\ chip.cmd = "idle"

\* what is on the air, in the FIFO and left to the call is the whole frame
OnItsWay(left) ==
  /\ chip.modem \in {"tx", "idle"} /\ Quiet
  /\ (peer.frame \o chip.fifo) \o left = composed.bytes

\* the whole frame is on the air, and nothing follows it
Out == peer.frame = composed.bytes /\ chip.modem # "tx" /\ chip.cmd # "authent"

Moves ==
  /\ call.pc = "clear" /\ cfg.target => chip.modem = "start" /\ peer.out = <<>>
  /\ call.pc = "feed" => Ready
  /\ call.pc \in {"feed", "check", "write", "sent"} => chip.cmd \in {"transceive", "transmit", "idle"}
  /\ call.pc = "check" => Spilt \/ OnItsWay(call.data) \/ chip.irq \intersect {"TX", "IDLE"} # {}
  /\ call.pc = "write" => Spilt \/ OnItsWay(call.data)
  /\ call.pc = "sent" => Spilt \/ OnItsWay(<<>>) \/ Out
  /\ call.pc \in Receiving /\ call.op = "exchange" => Out
  /\ call.pc = "restore" /\ call.status = "success" => Out
  /\ call.pc = "idle" /\ Transmits /\ ret.status = "success" => Out

Faithful == Asked /\ Request /\ Moves

LEMMA OpenBefore ==
  ASSUME Faithful, NEW opt, NEW n, MayCompose(opt, n)
  PROVE  "leave" \in opt => Buffered = composed.bytes
  BY DEF MayCompose, Faithful, Request

\* A call that sends begins, or is over before it has begun.
LEMMA BegunFaithful ==
  ASSUME NEW op \in {"exchange", "transmit"}, NEW opt, NEW next \in {"clear", "feed"}, Began(op, opt, next),
         "leave" \in opt => Buffered = composed.bytes, cfg' = cfg, composed'.open => ~(cfg.shared /\ cfg.target),
         next = "clear" /\ cfg.target => chip'.modem = "start" /\ peer'.out = <<>>,
         next = "feed" => Ready' /\ chip'.cmd = "idle"
  PROVE  Faithful'
<1>1. CASE call' = NoCall /\ ret'.op = op /\ ret'.status \in {"overflow", "use_condition"} /\ ~composed'.open
  <2>1. Asked' /\ Request'
    BY <1>1, NoCallIs DEF Asked, Request
  <2>2. Moves'
    BY <1>1, NoCallIs DEF Moves, Receiving
  <2> QED
    BY <2>1, <2>2 DEF Faithful
<1>2. CASE call' = NoCall /\ ret'.op = op /\ composed'.open /\ Buffered' = composed'.bytes
  <2>1. Asked' /\ Request'
    BY <1>2, NoCallIs DEF Asked, Request
  <2>2. Moves'
    BY <1>2, NoCallIs DEF Moves, Receiving, Transmits
  <2> QED
    BY <2>1, <2>2 DEF Faithful
<1>3. CASE call'.op = op /\ call'.pc = next /\ ~composed'.open /\ (Buffered \o call.data)' = composed'.bytes
  <2>1. Asked' /\ Request'
    BY <1>3 DEF Asked, Request
  <2>2. Moves'
    BY <1>3 DEF Moves, Receiving
  <2> QED
    BY <2>1, <2>2 DEF Faithful
<1> QED
  BY <1>1, <1>2, <1>3 DEF Began

LEMMA ExchangeFaithful ==
  ASSUME Typed, Faithful, NEW opt, NEW n \in Nat, Exchange(opt, n), RequestsApart(Setups)
  PROVE  Faithful'
<1>1. MayCompose(opt, n) /\ Began("exchange", opt, "clear") /\ UNCHANGED <<cfg, chip, peer>>
  BY ExchangeDoes
<1>2. "leave" \in opt => Buffered = composed.bytes
  BY <1>1, OpenBefore
<1>3. composed'.open => ~(cfg.shared /\ cfg.target)
  <2>1. CASE Copies(opt)
    BY <2>1, ExchangeDoes
  <2>2. CASE ~Copies(opt)
    BY <2>2 DEF Exchange, PassThrough
  <2> QED
    BY <2>1, <2>2
<1>4. cfg.target => chip'.modem = "start" /\ peer'.out = <<>>
  BY <1>1 DEF MayCompose
<1> QED
  BY <1>1, <1>2, <1>3, <1>4, BegunFaithful

LEMMA TransmitFaithful ==
  ASSUME Typed, Faithful, NEW opt, NEW n \in Nat, Transmit(opt, n), RequestsApart(Setups)
  PROVE  Faithful'
<1>1. /\ MayCall("transmit") /\ MayCompose(opt \ {"timer"}, n) /\ Began("transmit", opt, "feed")
      /\ chip'.cmd = "idle" /\ chip'.modem = "idle" /\ chip'.irq = {} /\ chip'.fifo = <<>> /\ cfg' = cfg
  BY TransmitDoes
<1>2. "leave" \in opt => Buffered = composed.bytes
  <2>1. "leave" \in opt => "leave" \in opt \ {"timer"}
    OBVIOUS
  <2>2. "leave" \in opt \ {"timer"} => Buffered = composed.bytes
    BY <1>1, OpenBefore
  <2> QED
    BY <2>1, <2>2
<1>3. ~(cfg.shared /\ cfg.target)
  BY <1>1, MayCallIs DEF RequestsApart, Typed
<1>4. call'.op = "transmit" => Ready'
  BY <1>1 DEF Ready, Quiet
<1>5. CASE call' = NoCall
  <2>1. /\ composed'.open => Buffered' = composed'.bytes
        /\ ret'.op = "transmit" /\ (composed'.open \/ ret'.status \in {"overflow", "use_condition"})
    BY <1>1, <1>2, <1>5, NoCallIs DEF Began
  <2>2. Asked' /\ Request'
    BY <1>1, <1>3, <1>5, <2>1, NoCallIs DEF Asked, Request
  <2>3. Moves'
    BY <1>5, <2>1, NoCallIs DEF Moves, Receiving, Transmits
  <2> QED
    BY <2>2, <2>3 DEF Faithful
<1>6. CASE call' # NoCall
  <2>1. call'.op = "transmit"
    BY <1>1, <1>6 DEF Began
  <2> QED
    BY <1>1, <1>2, <1>3, <1>4, <2>1, BegunFaithful
<1> QED
  BY <1>5, <1>6

LEMMA ClearFaithful ==
  ASSUME Typed, Awake, Faithful, Clear
  PROVE  Faithful'
<1>1. /\ call.pc = "clear" /\ call'.pc = "feed" /\ call'.op = call.op /\ call'.data = call.data /\ Buffered' = Buffered
      /\ chip'.irq = {} /\ chip'.fifo = <<>>
      /\ (cfg.target => chip'.cmd = chip.cmd /\ chip'.modem = chip.modem /\ peer' = peer)
      /\ (~cfg.target => chip'.cmd = "idle" /\ chip'.modem = "idle") /\ UNCHANGED <<cfg, composed>>
  BY ClearDoes
<1>2. call.op = "exchange" /\ (cfg.target => chip.modem = "start" /\ peer.out = <<>>)
      /\ (chip.modem = "start" => chip.cmd = "transceive")
  BY <1>1 DEF Awake, Places, Modems, Faithful, Moves
<1>3. Asked' /\ Request'
  BY <1>1, <1>2 DEF Faithful, Asked, Request
<1>4. Ready' /\ chip'.cmd \in {"transceive", "transmit", "idle"}
  BY <1>1, <1>2 DEF Ready, Quiet
<1>5. Moves'
  BY <1>1, <1>4 DEF Moves, Receiving
<1> QED
  BY <1>3, <1>5 DEF Faithful

\* The bytes move from the call through the FIFO to the air.
LEMMA SendingFaithful ==
  ASSUME Faithful, call.pc \in {"feed", "check", "write", "sent"}, call'.pc \in {"check", "write", "sent"},
         call'.op = call.op, call.op \in {"exchange", "transmit"}, cfg' = cfg, composed' = composed,
         chip'.cmd \in {"transceive", "transmit", "idle"},
         \/ Spilt'
         \/ OnItsWay(call.data)' /\ (call'.pc = "sent" => call'.data = <<>>)
  PROVE  Faithful'
<1>1. Asked' /\ Request'
  BY DEF Faithful, Asked, Request
<1>2. call'.pc = "sent" /\ OnItsWay(call.data)' /\ call'.data = <<>> => OnItsWay(<<>>)'
  BY DEF OnItsWay
<1>3. call'.pc = "sent" => Spilt' \/ OnItsWay(<<>>)'
  BY <1>2
<1>4. Moves'
  BY <1>3 DEF Moves, Receiving
<1> QED
  BY <1>1, <1>4 DEF Faithful

LEMMA FeedFaithful ==
  ASSUME Typed, Awake, Faithful, Feed
  PROVE  Faithful'
<1> DEFINE cmd == IF cfg.target THEN chip.cmd ELSE IF call.op = "exchange" THEN "transceive" ELSE "transmit"
<1>1. /\ Typed' /\ call.pc = "feed" /\ call'.pc \in {"sent", "check"} /\ (call'.pc = "sent" => call'.data = <<>>)
      /\ call'.op = call.op /\ chip'.cmd = cmd
      /\ chip'.modem = (IF cmd \in {"transceive", "transmit"} THEN "tx" ELSE chip.modem)
      /\ \/ "ERR" \in chip'.irq /\ "BUFFEROVFL" \in chip'.err
         \/ /\ chip'.irq \subseteq chip.irq \cup {"HIALERT"}
            /\ chip.fifo = <<>> => chip'.fifo \o call'.data = Buffered \o call.data
      /\ peer'.frame = <<>> /\ UNCHANGED <<cfg, composed>>
  BY FeedDoes
<1>2. Ready /\ chip.cmd \in {"transceive", "transmit", "idle"} /\ Buffered \o call.data = composed.bytes
      /\ call.op \in {"exchange", "transmit"}
  BY <1>1 DEF Faithful, Moves, Request, Awake, Places, Sending
<1>3. chip.modem = "start" => chip.cmd = "transceive"
  BY DEF Awake, Modems
<1>4. chip'.cmd \in {"transceive", "transmit", "idle"} /\ chip'.modem \in {"tx", "idle"}
  BY <1>1, <1>2, <1>3 DEF Ready
<1>5. Spilt' \/ OnItsWay(call.data)'
  <2> SUFFICES ASSUME ~Spilt' PROVE OnItsWay(call.data)'
    OBVIOUS
  <2>1. chip'.irq \subseteq chip.irq \cup {"HIALERT"} /\ chip'.fifo \o call'.data = composed.bytes
    BY <1>1, <1>2 DEF Ready, Spilt
  <2>2. Quiet'
    BY <1>2, <2>1 DEF Ready, Quiet
  <2>3. chip'.fifo \in Seq(Int)
    BY <1>1 DEF Typed, IsChip
  <2>4. peer'.frame \o chip'.fifo = chip'.fifo
    BY <1>1, <2>3, ConcatEmptySeq
  <2> QED
    BY <1>1, <1>4, <2>1, <2>2, <2>4 DEF OnItsWay
<1> QED
  BY <1>1, <1>2, <1>4, <1>5, SendingFaithful

LEMMA WriteFifoFaithful ==
  ASSUME Typed, Awake, Faithful, WriteFifo
  PROVE  Faithful'
<1>1. /\ Typed' /\ call.pc = "write" /\ call'.pc \in {"sent", "check"} /\ (call'.pc = "sent" => call'.data = <<>>)
      /\ call'.op = call.op /\ chip'.cmd = chip.cmd /\ chip'.modem = chip.modem
      /\ chip.irq \subseteq chip'.irq /\ chip.err \subseteq chip'.err
      /\ \/ "ERR" \in chip'.irq /\ "BUFFEROVFL" \in chip'.err
         \/ /\ chip'.irq \subseteq chip.irq \cup {"HIALERT"}
            /\ chip'.fifo \o call'.data = chip.fifo \o call.data
      /\ UNCHANGED <<cfg, peer, composed>>
  BY WriteFifoDoes
<1>2. (Spilt \/ OnItsWay(call.data)) /\ chip.cmd \in {"transceive", "transmit", "idle"}
      /\ call.op \in {"exchange", "transmit"}
  BY <1>1 DEF Faithful, Moves, Awake, Places, Sending
<1>3. Spilt => Spilt'
  BY <1>1 DEF Spilt
<1>4. OnItsWay(call.data) => Spilt' \/ OnItsWay(call.data)'
  <2> SUFFICES ASSUME OnItsWay(call.data), ~Spilt' PROVE OnItsWay(call.data)'
    OBVIOUS
  <2>1. chip'.irq \subseteq chip.irq \cup {"HIALERT"} /\ chip'.fifo \o call'.data = chip.fifo \o call.data
    BY <1>1 DEF Spilt
  <2>2. Quiet' /\ chip'.modem \in {"tx", "idle"}
    BY <1>1, <2>1 DEF OnItsWay, Quiet
  <2>3. peer.frame \in Seq(Int) /\ chip.fifo \in Seq(Int) /\ chip'.fifo \in Seq(Int) /\ call.data \in Seq(Int) /\ call'.data \in Seq(Int)
    BY <1>1 DEF Typed, IsChip, IsCall, IsPeer
  <2>4. (peer.frame \o chip'.fifo) \o call'.data = (peer.frame \o chip.fifo) \o call.data
    <3>1. (peer.frame \o chip'.fifo) \o call'.data = peer.frame \o (chip'.fifo \o call'.data)
      BY <2>3, Associates
    <3>2. (peer.frame \o chip.fifo) \o call.data = peer.frame \o (chip.fifo \o call.data)
      BY <2>3, Associates
    <3> QED
      BY <2>1, <3>1, <3>2
  <2> QED
    BY <1>1, <2>2, <2>4 DEF OnItsWay
<1> QED
  BY <1>1, <1>2, <1>3, <1>4, SendingFaithful

LEMMA CheckUnderflowFaithful ==
  ASSUME Typed, Awake, Faithful, CheckUnderflow
  PROVE  Faithful'
<1>1. call.pc = "check" /\ cfg' = cfg
  BY CheckUnderflowDoes
<1>2. call.op \in {"exchange", "transmit"} /\ chip.cmd \in {"transceive", "transmit", "idle"}
  BY <1>1 DEF Faithful, Moves, Awake, Places, Sending
<1>3. CASE /\ chip.irq \intersect {"IDLE", "TX"} = {} /\ call'.pc = "write" /\ call'.op = call.op
           /\ call'.data = call.data /\ UNCHANGED <<chip, peer, composed>>
  <2>1. Spilt \/ OnItsWay(call.data)
    BY <1>1, <1>3 DEF Faithful, Moves
  <2>2. Spilt' \/ OnItsWay(call.data)'
    BY <1>3, <2>1 DEF Spilt, OnItsWay, Quiet
  <2> QED
    BY <1>1, <1>2, <1>3, <2>2, SendingFaithful
<1>4. CASE /\ composed'.open = FALSE
           /\ \/ /\ call'.pc = "restore" /\ call'.op = call.op /\ call'.status = "underrun"
              \/ call' = NoCall /\ ret'.status = "underrun"
  <2>1. Asked' /\ Request'
    BY <1>2, <1>4, NoCallIs DEF Asked, Request
  <2>2. Moves'
    BY <1>4, NoCallIs DEF Moves, Receiving
  <2> QED
    BY <2>1, <2>2 DEF Faithful
<1> QED
  BY <1>3, <1>4, CheckUnderflowDoes

LEMMA SentFaithful ==
  ASSUME Typed, Awake, Faithful, Sent
  PROVE  Faithful'
<1>1. /\ call.pc = "sent" /\ chip.irq \intersect {"TX", "IDLE", "ERR"} # {}
      /\ composed'.open = FALSE /\ composed'.bytes = composed.bytes /\ UNCHANGED <<cfg, chip, peer>>
      /\ \/ /\ call'.pc = "restore" /\ call'.op = call.op /\ call'.status = SentStatus
         \/ call'.pc = "await" /\ call'.op = call.op /\ SentStatus = "success"
         \/ call' = NoCall /\ ret'.status = SentStatus
  BY SentDoes
<1>2. call.op \in {"exchange", "transmit"}
  BY <1>1 DEF Awake, Places, Sending
<1>3. Spilt \/ Out
  BY <1>1 DEF Faithful, Moves, OnItsWay, Quiet
<1>4. SentStatus = "success" => Out'
  <2>1. Spilt => SentStatus = "overflow"
    BY DEF Spilt, SentStatus
  <2>2. Out => Out'
    BY <1>1 DEF Out
  <2> QED
    BY <1>3, <2>1, <2>2
<1>5. Asked' /\ Request'
  BY <1>1, <1>2, NoCallIs DEF Asked, Request
<1>6. Moves'
  BY <1>1, <1>4, NoCallIs DEF Moves, Receiving
<1> QED
  BY <1>5, <1>6 DEF Faithful

LEMMA RestoreFaithful ==
  ASSUME Typed, Faithful, Restore
  PROVE  Faithful'
<1>1. /\ call.pc = "restore" /\ call' = NoCall /\ ret'.status = call.status
      /\ chip'.cmd = chip.cmd /\ chip'.modem = chip.modem /\ Buffered' = Buffered
      /\ UNCHANGED <<cfg, peer, composed>>
  BY RestoreDoes DEF Buffered, TxBase, TxMem
<1>2. Asked' /\ Request'
  BY <1>1, NoCallIs DEF Faithful, Asked, Request
<1>3. ret'.status = "success" => Out'
  BY <1>1 DEF Faithful, Moves, Out
<1>4. Moves'
  BY <1>1, <1>3, NoCallIs DEF Moves, Receiving
<1> QED
  BY <1>2, <1>4 DEF Faithful

\* A call that does not send leaves what was sent, and the request that waits.
LEMMA OtherFaithful ==
  ASSUME Faithful, cfg' = cfg, composed' = composed, composed.open => Buffered' = Buffered,
         call'.pc \notin {"clear", "feed", "check", "write", "sent", "restore"},
         call'.op \in {"exchange", "transmit"} => call'.op = call.op,
         call'.op = "receive" => cfg.calls \intersect {"receive", "fifo"} # {},
         call'.pc \in {"autocoll", "atr", "target"} => cfg.target,
         call'.pc \in Receiving /\ call'.op = "exchange" => Out',
         call'.pc = "idle" => \/ ret'.op \notin {"exchange", "transmit"} \/ ret'.status # "success" \/ Out'
  PROVE  Faithful'
<1>1. Asked'
  BY DEF Asked
<1>2. Request'
  BY DEF Faithful, Request
<1>3. Moves'
  BY DEF Moves, Receiving, Transmits
<1> QED
  BY <1>1, <1>2, <1>3 DEF Faithful

LEMMA ReceiveFaithful ==
  ASSUME Typed, Faithful, NEW opt \in ReceiveOptions, Receive(opt)
  PROVE  Faithful'
<1>1. /\ MayCall(IF "fifo" \in opt THEN "fifo" ELSE "receive") /\ UNCHANGED <<cfg, composed>> /\ Buffered' = Buffered
      /\ \/ call'.op = "receive" /\ call'.pc \in {"irq", "await"}
         \/ call' = NoCall /\ ret'.op = "start"
  BY ReceiveDoes
<1>2. cfg.calls \intersect {"receive", "fifo"} # {}
  BY <1>1, MayCallIs
<1> QED
  BY <1>1, <1>2, NoCallIs, OtherFaithful

LEMMA AwaitFaithful ==
  ASSUME Typed, Awake, Faithful, Await
  PROVE  Faithful'
<1>1. /\ call.pc = "await" /\ UNCHANGED <<cfg, composed>> /\ Buffered' = Buffered /\ peer'.frame = peer.frame
      /\ chip' = chip \/ (chip'.cmd = "idle" /\ chip'.modem = "idle")
      /\ \/ call' = NoCall /\ ret'.status = "use_condition"
         \/ call'.op = call.op /\ call'.pc \in {"irq", "finish"}
  BY AwaitDoes
<1>2. call.op = "exchange" => Out
  BY <1>1 DEF Faithful, Moves, Receiving
<1>3. call.op = "exchange" => Out'
  BY <1>1, <1>2 DEF Out
<1>4. call.op = "receive" => cfg.calls \intersect {"receive", "fifo"} # {}
  BY DEF Faithful, Asked
<1> QED
  BY <1>1, <1>3, <1>4, NoCallIs, OtherFaithful

LEMMA PollFaithful ==
  ASSUME Typed, Awake, Faithful, ReadIrq \/ ReadModem \/ ReadFifo, RequestsApart(Setups)
  PROVE  Faithful'
<1>1. /\ call.pc \in {"irq", "modem", "fifo"} /\ UNCHANGED <<cfg, peer, composed>>
      /\ chip'.cmd = chip.cmd /\ chip'.modem = chip.modem /\ (~cfg.shared => Buffered' = Buffered)
      /\ \/ call' = NoCall /\ ret'.status = "overflow"
         \/ call'.op = call.op /\ call'.pc \in {"modem", "irq", "fifo", "finish"}
  <2>1. CASE ReadIrq \/ ReadModem
    BY <2>1, ReadIrqDoes, ReadModemDoes DEF Buffered, TxBase, TxMem
  <2>2. CASE ReadFifo
    BY <2>2, ReadFifoDoes
  <2> QED
    BY <2>1, <2>2
<1>2. call.op \in {"exchange", "receive"}
  BY <1>1 DEF Awake, Places, Receiving
<1>3. call.op = "receive" => cfg.calls \intersect {"receive", "fifo"} # {}
  BY DEF Faithful, Asked
<1>4. composed.open => ~cfg.shared
  <2>1. composed.open => call.op = "receive" /\ ~(cfg.shared /\ cfg.target)
    BY <1>2 DEF Faithful, Request
  <2>2. cfg.shared /\ ~cfg.target => cfg.calls \intersect {"receive", "fifo"} = {}
    BY DEF RequestsApart, Typed
  <2> QED
    BY <1>3, <2>1, <2>2
<1>5. call.op = "exchange" => Out
  BY <1>1 DEF Faithful, Moves, Receiving
<1>6. call.op = "exchange" => Out'
  BY <1>1, <1>5 DEF Out
<1> QED
  BY <1>1, <1>3, <1>4, <1>6, NoCallIs, OtherFaithful

LEMMA FinishFaithful ==
  ASSUME Typed, Awake, Faithful, Finish
  PROVE  Faithful'
<1>1. /\ call.pc = "finish" /\ UNCHANGED <<cfg, composed>> /\ Buffered' = Buffered /\ peer'.frame = peer.frame
      /\ chip' = chip \/ (chip'.cmd \in {"idle", "transceive"} /\ chip'.modem \in {"idle", "start"})
      /\ call' = NoCall /\ ret'.op = call.op
  BY FinishDoes
<1>2. call.op = "exchange" => Out
  BY <1>1 DEF Faithful, Moves, Receiving
<1>3. call.op = "exchange" => Out'
  BY <1>1, <1>2 DEF Out
<1>4. call.op # "transmit"
  BY <1>1 DEF Awake, Places, Receiving
<1> QED
  BY <1>1, <1>3, <1>4, NoCallIs, OtherFaithful

LEMMA OtherCallsFaithful ==
  ASSUME Typed, Faithful,
         \/ \E p \in 0 .. BufSize : SetStart(p)
         \/ \E n \in Nat : CalcCrc(n)
         \/ Mem \/ Wait("wait") \/ Wait("reset") \/ Autocoll("autocoll") \/ Autocoll("cmd_autocoll")
         \/ \E op : \E type \in Int, key \in Int : MayCall(op) /\ MfcAuthenticate(type, key)
  PROVE  Faithful'
<1>1. CASE \E p \in 0 .. BufSize : SetStart(p)
  BY <1>1, SetStartDoes, NoCallIs, OtherFaithful
<1>2. CASE \E n \in Nat : CalcCrc(n)
  BY <1>2, CalcCrcDoes, NoCallIs, OtherFaithful DEF Receiving
<1>3. CASE Mem \/ Wait("wait") \/ Wait("reset")
  <2>1. /\ UNCHANGED <<cfg, hal, mem, composed>> /\ call'.op \in {"mem", "wait", "reset"}
        /\ call'.pc \in {"mem", "wait"}
    BY <1>3, MemDoes, WaitDoes
  <2>2. Buffered' = Buffered
    BY <2>1 DEF Buffered, TxBase, TxMem
  <2> QED
    BY <2>1, <2>2, OtherFaithful DEF Receiving
<1>4. CASE Autocoll("autocoll") \/ Autocoll("cmd_autocoll")
  <2>1. /\ cfg.target /\ Buffered' = Buffered /\ UNCHANGED <<cfg, composed>>
        /\ call'.op \in {"autocoll", "cmd_autocoll"} /\ call'.pc = "autocoll"
    BY <1>4, AutocollDoes
  <2> QED
    BY <2>1, OtherFaithful DEF Receiving
<1>5. CASE \E op : \E type \in Int, key \in Int : MayCall(op) /\ MfcAuthenticate(type, key)
  <2>1. /\ UNCHANGED <<cfg, hal, mem, composed>>
        /\ \/ call' = NoCall /\ ret'.op = "auth"
           \/ call'.op = "auth" /\ call'.pc = "auth"
    BY <1>5, MfcAuthenticateDoes
  <2>2. Buffered' = Buffered
    BY <2>1 DEF Buffered, TxBase, TxMem
  <2> QED
    BY <2>1, <2>2, NoCallIs, OtherFaithful DEF Receiving
<1> QED
  BY <1>1, <1>2, <1>3, <1>4, <1>5

LEMMA OtherStepsFaithful ==
  ASSUME Typed, Awake, Faithful, RequestsApart(Setups),
         \/ CrcDone \/ MemDone \/ AuthDone \/ Waited \/ AutocollWait \/ CmdAutocollWait \/ ReadAtr \/ AutocollDone
  PROVE  Faithful'
<1>1. CASE CrcDone \/ AuthDone \/ Waited \/ MemDone
  <2>1. /\ call.pc \in {"crc", "auth", "wait", "mem"} /\ UNCHANGED <<cfg, composed>> /\ Buffered' = Buffered
        /\ call' = NoCall /\ ret'.op = call.op
    <3>1. CASE CrcDone \/ AuthDone \/ Waited
      BY <3>1, CrcDoneDoes, AuthDoneDoes, WaitedDoes DEF Buffered, TxBase, TxMem
    <3>2. CASE MemDone
      BY <3>2, MemDoneDoes
    <3> QED
      BY <1>1, <3>1, <3>2
  <2>2. call.op \notin {"exchange", "transmit"}
    BY <2>1 DEF Awake, Places
  <2> QED
    BY <2>1, <2>2, NoCallIs, OtherFaithful DEF Receiving
<1>2. CASE AutocollWait \/ CmdAutocollWait \/ ReadAtr \/ AutocollDone
  <2>1. /\ call.pc \in {"autocoll", "atr", "target"} /\ UNCHANGED <<cfg, composed>>
        /\ (~cfg.shared => Buffered' = Buffered)
        /\ \/ call' = NoCall /\ ret'.op = call.op
           \/ call'.op = call.op /\ call'.pc \in {"atr", "target"}
    BY <1>2, PolledDoes, ReadAtrDoes, AutocollDoneDoes
  <2>2. call.op \in {"autocoll", "cmd_autocoll"} /\ cfg.target
    BY <2>1 DEF Awake, Places, Faithful, Asked
  <2>3. composed.open => ~cfg.shared
    BY <2>2 DEF Faithful, Request
  <2> QED
    BY <2>1, <2>2, <2>3, NoCallIs, OtherFaithful DEF Receiving
<1> QED
  BY <1>1, <1>2

LEMMA FailureFaithful ==
  ASSUME Typed, Awake, Faithful, BusFails \/ Reapply
  PROVE  Faithful'
<1>1. CASE BusFails
  <2>1. call' = NoCall /\ ret'.status = "interface" /\ composed'.open = FALSE
    BY <1>1, BusFailsDoes
  <2>2. Asked' /\ Request'
    BY <2>1, NoCallIs DEF Asked, Request
  <2>3. Moves'
    BY <2>1, NoCallIs DEF Moves, Receiving
  <2> QED
    BY <2>2, <2>3 DEF Faithful
<1>2. CASE Reapply
  <2>1. call' = NoCall /\ ret'.op = "init" /\ composed'.open = FALSE
    BY <1>2, ReapplyDoes DEF Awake, Places
  <2>2. Asked' /\ Request'
    BY <2>1, NoCallIs DEF Asked, Request
  <2>3. Moves'
    BY <2>1, NoCallIs DEF Moves, Receiving, Transmits
  <2> QED
    BY <2>2, <2>3 DEF Faithful
<1> QED
  BY <1>1, <1>2

\* the commands that are under way while a frame is sent
SendCommands == {"transceive", "transmit", "idle"}

\* the step takes no byte away from a frame that is on its way
Carries ==
  /\ chip'.modem \in {"tx", "idle"} /\ Quiet'
  /\ peer'.frame \o chip'.fifo = peer.frame \o chip.fifo

\* the chip says that the frame is over
Ends ==
  /\ call.pc # "write" /\ "TX" \in chip'.irq /\ chip.fifo = <<>> /\ peer'.frame = peer.frame
  /\ chip'.modem # "tx" /\ chip'.cmd # "authent"

\* What a step of the chip must leave alone.
LEMMA RestsFaithful ==
  ASSUME Typed, Faithful, HostRests, Buffered' = Buffered,
         call.pc = "clear" /\ cfg.target /\ chip.modem = "start" /\ peer.out = <<>> =>
           chip'.modem = "start" /\ peer'.out = <<>>,
         call.pc = "feed" /\ Ready => Ready',
         chip.cmd \in SendCommands => /\ chip'.cmd \in SendCommands /\ chip.irq \subseteq chip'.irq
                                     /\ chip.err \subseteq chip'.err,
         chip.cmd \in SendCommands /\ chip.modem \in {"tx", "idle"} /\ Quiet /\ call.pc # "feed" => Carries \/ Ends,
         Out => Out'
  PROVE  Faithful'
<1>1. UNCHANGED <<cfg, hal, mem, call, ret, composed>>
  BY DEF HostRests
<1>2. Asked' /\ Request'
  BY <1>1 DEF Faithful, Asked, Request
<1>3. Moves
  BY DEF Faithful
<1>4. call.pc \in {"feed", "check", "write", "sent"} => chip.cmd \in SendCommands /\ chip'.cmd \in SendCommands
  BY <1>3 DEF Moves, SendCommands
<1>5. chip.cmd \in SendCommands /\ Spilt => Spilt'
  BY DEF Spilt
<1>6. call.pc = "check" => Spilt' \/ OnItsWay(call.data)' \/ chip'.irq \intersect {"TX", "IDLE"} # {}
  <2> SUFFICES ASSUME call.pc = "check", chip'.irq \intersect {"TX", "IDLE"} = {}
               PROVE  Spilt' \/ OnItsWay(call.data)'
    OBVIOUS
  <2>1. chip.cmd \in SendCommands
    BY <1>4
  <2>2. Spilt \/ OnItsWay(call.data)
    BY <1>3, <2>1 DEF Moves
  <2>3. OnItsWay(call.data) => Carries
    BY <2>1 DEF OnItsWay, Ends
  <2>4. OnItsWay(call.data) => OnItsWay(call.data)'
    BY <1>1, <2>3 DEF OnItsWay, Carries
  <2> QED
    BY <1>5, <2>1, <2>2, <2>4
<1>7. call.pc = "write" => Spilt' \/ OnItsWay(call.data)'
  <2> SUFFICES ASSUME call.pc = "write"
               PROVE  Spilt' \/ OnItsWay(call.data)'
    OBVIOUS
  <2>1. chip.cmd \in SendCommands /\ (Spilt \/ OnItsWay(call.data))
    BY <1>3, <1>4 DEF Moves
  <2>2. OnItsWay(call.data) => Carries
    BY <2>1 DEF OnItsWay, Ends
  <2>3. OnItsWay(call.data) => OnItsWay(call.data)'
    BY <1>1, <2>2 DEF OnItsWay, Carries
  <2> QED
    BY <1>5, <2>1, <2>3
<1>8. call.pc = "sent" => Spilt' \/ OnItsWay(<<>>)' \/ Out'
  <2> SUFFICES ASSUME call.pc = "sent"
               PROVE  Spilt' \/ OnItsWay(<<>>)' \/ Out'
    OBVIOUS
  <2>1. chip.cmd \in SendCommands /\ (Spilt \/ OnItsWay(<<>>) \/ Out)
    BY <1>3, <1>4 DEF Moves
  <2>2. OnItsWay(<<>>) => Carries \/ Ends
    BY <2>1 DEF OnItsWay
  <2>3. OnItsWay(<<>>) /\ Carries => OnItsWay(<<>>)'
    BY <1>1 DEF OnItsWay, Carries
  <2>4. OnItsWay(<<>>) /\ Ends => Out'
    <3> SUFFICES ASSUME OnItsWay(<<>>), Ends
                 PROVE  Out'
      OBVIOUS
    <3>1. peer.frame \in Seq(Int)
      BY DEF Typed, IsPeer
    <3>2. peer.frame \o <<>> = peer.frame
      BY <3>1, ConcatEmptySeq
    <3>3. (peer.frame \o <<>>) \o <<>> = composed.bytes
      BY DEF OnItsWay, Ends
    <3> QED
      BY <1>1, <3>2, <3>3 DEF Ends, Out
  <2> QED
    BY <1>5, <2>1, <2>2, <2>3, <2>4
<1>9. /\ call.pc = "clear" /\ cfg.target => chip'.modem = "start" /\ peer'.out = <<>>
      /\ call.pc = "feed" => Ready'
      /\ call.pc \in Receiving /\ call.op = "exchange" => Out'
      /\ call.pc = "restore" /\ call.status = "success" => Out'
      /\ call.pc = "idle" /\ Transmits /\ ret.status = "success" => Out'
  BY <1>3 DEF Moves
<1>10. Transmits' = Transmits
  BY <1>1 DEF Transmits
<1>11. Moves'
  BY <1>1, <1>4, <1>6, <1>7, <1>8, <1>9, <1>10 DEF Moves, SendCommands
<1> QED
  BY <1>2, <1>11 DEF Faithful

LEMMA ChipSendsFaithful ==
  ASSUME Typed, Faithful, ChipSends
  PROVE  Faithful'
<1>1. /\ HostRests /\ chip.modem = "tx" /\ chip'.cmd = chip.cmd /\ chip'.modem = chip.modem /\ chip'.irq = chip.irq
      /\ chip'.err = chip.err /\ peer'.frame \o chip'.fifo = peer.frame \o chip.fifo
  BY ChipSendsDoes
<1>2. Buffered' = Buffered
  BY <1>1 DEF HostRests, Buffered, TxBase, TxMem
<1>3. ~Ready /\ ~Out
  BY <1>1 DEF Ready, Out
<1>4. Quiet => Carries
  BY <1>1 DEF Quiet, Carries
<1> QED
  BY <1>1, <1>2, <1>3, <1>4, RestsFaithful

\* Without preemption the FIFO does not run empty before the next bytes.
LEMMA ChipHasSentFaithful ==
  ASSUME Typed, Faithful, NEW n \in Nat, NEW quality, ChipHasSent(n, quality), ~Preempted
  PROVE  Faithful'
<1>1. /\ HostRests /\ chip.modem = "tx" /\ chip.fifo = <<>> /\ FifoHolds /\ chip'.err = chip.err
      /\ chip.irq \cup {"TX"} \subseteq chip'.irq /\ peer'.frame = peer.frame
      /\ chip'.cmd \in {chip.cmd, "idle"} /\ chip'.modem \in {"idle", "start", "wait"}
  BY ChipHasSentDoes
<1>2. Buffered' = Buffered /\ call.pc # "write"
  BY <1>1 DEF HostRests, Buffered, TxBase, TxMem, FifoHolds, At
<1>3. ~Ready /\ ~Out
  BY <1>1 DEF Ready, Out
<1>4. chip.cmd \in SendCommands => Ends
  BY <1>1, <1>2 DEF Ends, SendCommands
<1>5. chip.cmd \in SendCommands => chip'.cmd \in SendCommands
  BY <1>1 DEF SendCommands
<1> QED
  BY <1>1, <1>2, <1>3, <1>4, <1>5, RestsFaithful

\* The answer comes in through a modem that does not send.
LEMMA AnswerBeginsFaithful ==
  ASSUME Typed, Faithful, AnswerBegins
  PROVE  Faithful'
<1>1. /\ HostRests /\ Hears /\ chip'.modem = "rx" /\ chip'.cmd = chip.cmd /\ chip'.irq = chip.irq /\ chip'.err = chip.err
      /\ peer' = peer /\ peer.out # <<>>
  BY AnswerBeginsDoes DEF AnswerBegins
<1>2. Buffered' = Buffered /\ chip.modem \notin {"tx", "idle"}
  BY <1>1 DEF HostRests, Buffered, TxBase, TxMem, Hears
<1>3. ~Ready
  BY <1>1, <1>2 DEF Ready
<1>4. Out => Out'
  BY <1>1 DEF HostRests, Out
<1> QED
  BY <1>1, <1>2, <1>3, <1>4, RestsFaithful

LEMMA ReceptionFaithful ==
  ASSUME Typed, Faithful, ChipReceives \/ ChipHasReceived
  PROVE  Faithful'
<1>1. /\ HostRests /\ chip.modem = "rx" /\ chip'.modem # "tx" /\ chip'.cmd \in {chip.cmd, "idle"}
      /\ chip.irq \subseteq chip'.irq /\ chip.err \subseteq chip'.err /\ peer'.frame = peer.frame
  BY ChipReceivesDoes, ChipHasReceivedDoes
<1>2. Buffered' = Buffered /\ ~Ready
  BY <1>1 DEF HostRests, Buffered, TxBase, TxMem, Ready
<1>3. Out => Out'
  BY <1>1 DEF HostRests, Out
<1>4. chip.cmd \in SendCommands => chip'.cmd \in SendCommands
  BY <1>1 DEF SendCommands
<1> QED
  BY <1>1, <1>2, <1>3, <1>4, RestsFaithful

LEMMA AnswerIsLostFaithful ==
  ASSUME Typed, Faithful, AnswerIsLost
  PROVE  Faithful'
<1>1. HostRests /\ chip.modem = "idle" /\ chip' = chip /\ peer'.frame = peer.frame
  BY AnswerIsLostDoes
<1>2. Buffered' = Buffered
  BY <1>1 DEF HostRests, Buffered, TxBase, TxMem
<1>3. (Ready => Ready') /\ (Out => Out')
  BY <1>1 DEF HostRests, Ready, Quiet, Out
<1>4. Quiet => Carries
  BY <1>1 DEF Quiet, Carries
<1> QED
  BY <1>1, <1>2, <1>3, <1>4, RestsFaithful

LEMMA TimerExpiresFaithful ==
  ASSUME Typed, Faithful, TimerExpires
  PROVE  Faithful'
<1>1. /\ HostRests /\ chip'.cmd = chip.cmd /\ chip'.modem = chip.modem /\ chip'.fifo = chip.fifo
      /\ chip'.irq = chip.irq \cup {"TIMER"} /\ chip'.err = chip.err /\ peer' = peer
  BY TimerExpiresDoes
<1>2. Buffered' = Buffered
  BY <1>1 DEF HostRests, Buffered, TxBase, TxMem
<1>3. Quiet => Quiet'
  BY <1>1 DEF Quiet
<1>4. (Ready => Ready') /\ (Out => Out')
  BY <1>1, <1>3 DEF HostRests, Ready, Out
<1>5. chip.modem \in {"tx", "idle"} /\ Quiet => Carries
  BY <1>1, <1>3 DEF Carries
<1> QED
  BY <1>1, <1>2, <1>4, <1>5, RestsFaithful

\* The other commands of the chip do not run while a frame is sent.
LEMMA OtherCommandsFaithful ==
  ASSUME Typed, Awake, Faithful,
         \/ ChipAuthenticates \/ ChipCalculates \/ ChipIsLeft
         \/ \E n \in Nat : \E quality, field : ChipIsActivated(n, quality, field)
  PROVE  Faithful'
<1>1. /\ HostRests /\ chip.cmd \in {"authent", "calccrc", "mem", "autocoll"}
      /\ chip.cmd # "authent" => /\ peer'.frame = peer.frame /\ chip'.cmd # "authent"
                                 /\ (chip'.modem = "tx" => chip.modem = "tx")
  BY ChipAuthenticatesDoes, ChipCalculatesDoes, ChipIsLeftDoes, ChipIsActivatedDoes
<1>2. Buffered' = Buffered /\ chip.cmd \notin SendCommands
  BY <1>1 DEF HostRests, Buffered, TxBase, TxMem, SendCommands
<1>3. chip.modem # "start" /\ call.pc # "feed"
  BY <1>2 DEF Awake, Modems, Faithful, Moves, SendCommands
<1>4. Out => Out'
  BY <1>1 DEF HostRests, Out
<1> QED
  BY <1>1, <1>2, <1>3, <1>4, RestsFaithful

LEMMA NextFaithful ==
  ASSUME Typed, Awake, Faithful, Next, RequestsApart(Setups), ~Preempted
  PROVE  Faithful'
<1>1. CASE \/ \E opt : \E n \in Nat : Exchange(opt, n)
           \/ \E opt : \E n \in Nat : Transmit(opt, n)
           \/ Clear \/ Feed \/ CheckUnderflow \/ WriteFifo \/ Sent \/ Restore
           \/ \E opt \in ReceiveOptions : Receive(opt)
  BY <1>1, ExchangeFaithful, TransmitFaithful, ClearFaithful, FeedFaithful, CheckUnderflowFaithful, WriteFifoFaithful,
     SentFaithful, RestoreFaithful, ReceiveFaithful
<1>2. CASE \/ Await \/ ReadIrq \/ ReadModem \/ ReadFifo \/ Finish
           \/ \E p \in 0 .. BufSize : SetStart(p)
           \/ \E n \in Nat : CalcCrc(n)
           \/ CrcDone \/ Mem \/ MemDone
  BY <1>2, AwaitFaithful, PollFaithful, FinishFaithful, OtherCallsFaithful, OtherStepsFaithful
<1>3. CASE \/ \E op : \E type \in Int, key \in Int : MayCall(op) /\ MfcAuthenticate(type, key)
           \/ AuthDone \/ Wait("wait") \/ Wait("reset") \/ Waited
           \/ Autocoll("autocoll") \/ Autocoll("cmd_autocoll")
           \/ AutocollWait \/ CmdAutocollWait \/ ReadAtr \/ AutocollDone \/ BusFails \/ Reapply
  BY <1>3, OtherCallsFaithful, OtherStepsFaithful, FailureFaithful
<1>4. CASE \/ ChipSends \/ AnswerBegins \/ ChipReceives \/ ChipHasReceived
           \/ \E n \in Nat : \E q \in Qualities : ChipHasSent(n, q)
           \/ AnswerIsLost \/ TimerExpires \/ ChipAuthenticates \/ ChipCalculates
           \/ \E n \in Nat : \E q : \E f \in {"passive", "active"} : n <= FifoSize /\ ChipIsActivated(n, q, f)
           \/ ChipIsLeft
  BY <1>4, ChipSendsFaithful, AnswerBeginsFaithful, ReceptionFaithful, ChipHasSentFaithful, AnswerIsLostFaithful,
     TimerExpiresFaithful, OtherCommandsFaithful
<1> QED
  BY <1>1, <1>2, <1>3, <1>4, Steps

LEMMA StutterFaithful ==
  ASSUME UNCHANGED vars, Faithful
  PROVE  Faithful'
<1>1. UNCHANGED <<cfg, hal, mem, call, ret, chip, peer, composed>>
  BY DEF vars
<1>2. Buffered' = Buffered
  BY <1>1 DEF Buffered, TxBase, TxMem
<1>3. Asked' /\ Request'
  BY <1>1, <1>2 DEF Faithful, Asked, Request
<1>4. Moves
  BY DEF Faithful
<1>5. (Ready => Ready') /\ (Spilt => Spilt') /\ (Out => Out') /\ Transmits' = Transmits
  BY <1>1 DEF Ready, Quiet, Spilt, Out, Transmits
<1>6. (OnItsWay(call.data) => OnItsWay(call.data)') /\ (OnItsWay(<<>>) => OnItsWay(<<>>)')
  BY <1>1 DEF OnItsWay, Quiet
<1>7. Moves'
  BY <1>1, <1>4, <1>5, <1>6 DEF Moves
<1> QED
  BY <1>3, <1>7 DEF Faithful

LEMMA InitFaithful ==
  ASSUME Init
  PROVE  Faithful
<1>1. call = NoCall /\ ret.op = "init" /\ composed.open = FALSE
  BY DEF Init
<1>2. Asked /\ Request
  BY <1>1, NoCallIs DEF Asked, Request
<1>3. Moves
  BY <1>1, NoCallIs DEF Moves, Receiving, Transmits
<1> QED
  BY <1>2, <1>3 DEF Faithful

\* Of every request it is known where its bytes are: in the buffer, with the
\* call, in the FIFO or on the air, in the order in which they were composed.
THEOREM FaithfulInvariant ==
  ASSUME ~Preempted, RequestsApart(Setups)
  PROVE  Spec => [](Typed /\ Awake /\ Faithful)
<1>1. Init => Typed /\ Awake /\ Faithful
  BY InitTyped, InitFaithful
<1>2. Typed /\ Awake /\ Faithful /\ [Next]_vars => (Typed /\ Awake /\ Faithful)'
  BY NextTyped, NextAwake, NextFaithful, StutterKeeps, StutterFaithful
<1> QED
  BY <1>1, <1>2, PTL DEF Spec

\* A call that says it has sent (Exchange and Cmd Transmit of phhalHw_Rc523.c)
\* has put on the air exactly the bytes the caller composed, whatever the size
\* of the FIFO, of the buffers and of the part written before the command.
THEOREM SentAsComposedCorrect ==
  ASSUME ~Preempted, RequestsApart(Setups)
  PROVE  Spec => []SentAsComposed
<1>1. Typed /\ Awake /\ Faithful => SentAsComposed
  BY DEF Faithful, Moves, Out, SentAsComposed, At
<1> QED
  BY <1>1, FaithfulInvariant, PTL

-----------------------------------------------------------------------------
(* An answer is handed over as it came.                                    *)

\* the bytes in front of RXBUFFER_STARTPOS are those that were to be kept
Held == kept = Slice(mem["rx"], 0, hal.start)

\* what a call has read of the answer lies behind them
Filled == {"irq", "modem", "fifo", "finish", "target"}

Taken ==
  /\ hal.start + Len(call.got) <= BufSize
  /\ call.got = Slice(mem["rx"], hal.start, Len(call.got))
  /\ call.pc \notin Filled => call.got = <<>>

MemRests ==
  kept' = kept /\ hal'.start = hal.start /\ \A i \in 1 .. hal.start : mem'["rx"][i] = mem["rx"][i]

PeerRests ==
  /\ peer'.answer = peer.answer /\ peer'.quality = peer.quality /\ peer'.out \in {peer.out, <<>>}
  /\ chip.modem = "rx" => chip'.modem = "rx" \/ peer'.out = <<>>

LEMMA SliceEmpty ==
  ASSUME NEW w, NEW b \in Nat
  PROVE  Slice(w, b, 0) = <<>>
<1>1. Slice(w, b, 0) \in Seq(Int) /\ Len(Slice(w, b, 0)) = 0
  <2>1. 0 \in Nat /\ \A i \in 1 .. 0 : w[b + i] \in Int
    OBVIOUS
  <2> QED
    BY <2>1, SliceIs
<1> QED
  BY <1>1, EmptySeq

LEMMA HeldStays ==
  ASSUME Held, MemRests
  PROVE  Held'
  BY DEF Held, MemRests, Slice

LEMMA EmptyTaken ==
  ASSUME Typed', call'.got = <<>>
  PROVE  Taken'
<1>1. hal'.start \in Nat /\ hal'.start <= BufSize /\ Len(<<>>) = 0
  BY SizeAssumption DEF Typed, IsHal
<1>2. Slice(mem'["rx"], hal'.start, 0) = <<>>
  BY <1>1, SliceEmpty
<1> QED
  BY <1>1, <1>2, SizeAssumption DEF Taken

LEMMA SameTaken ==
  ASSUME Taken, MemRests, mem' = mem, call'.got = call.got, call.pc \notin Filled \/ call'.pc \in Filled
  PROVE  Taken'
  BY DEF Taken, MemRests

\* The first bytes of the buffer from the kept ones on are those that were read.
LEMMA HandsOver ==
  ASSUME Typed, Held, Taken, NEW n \in 0 .. Len(call.got)
  PROVE  SubSeq(mem["rx"], 1, hal.start + n) = kept \o SubSeq(call.got, 1, n)
<1> DEFINE w == mem["rx"]
           s == hal.start
           g == call.got
           d == SubSeq(g, 1, n)
<1>1. w \in [1 .. BufSize -> Int] /\ s \in Nat /\ g \in Seq(Int) /\ n \in Nat /\ n \in 0 .. Len(g) /\ s + Len(g) <= BufSize
      /\ g = Slice(w, s, Len(g)) /\ kept = Slice(w, 0, s)
  BY SizeAssumption DEF Typed, IsMem, IsHal, IsCall, Taken, Held
<1> HIDE DEF w, s, g
<1>2. d \in Seq(Int) /\ Len(d) = n
  BY <1>1, Part
<1>3. Len(g) \in Nat /\ s + n \in Nat /\ s + n <= BufSize /\ n <= Len(g)
  BY <1>1, SizeAssumption
<1>4. \A i \in 1 .. n : d[i] = w[s + i]
  <2> TAKE i \in 1 .. n
  <2>1. i \in 1 .. Len(g) /\ d[i] = g[i]
    BY <1>1, <1>2, <1>3
  <2>2. g[i] = w[s + i]
    BY <1>1, <2>1 DEF Slice
  <2> QED
    BY <2>1, <2>2
<1> HIDE DEF d
<1>5. HasPut(w, w, s, d)
  <2> SUFFICES ASSUME NEW i \in 1 .. BufSize, i > s, i <= s + n PROVE w[i] = d[i - s]
    BY <1>2 DEF HasPut
  <2>1. i - s \in 1 .. n /\ s + (i - s) = i
    BY <1>1, SizeAssumption
  <2> QED
    BY <1>4, <2>1
<1>6. Slice(w, 0, s + n) = Slice(w, 0, s) \o d
  <2> DEFINE z == 0
  <2>1. /\ z \in Nat /\ s \in Nat /\ w \in [1 .. BufSize -> Int] /\ d \in Seq(Int)
        /\ z + s + Len(d) <= BufSize /\ HasPut(w, w, z + s, d)
    BY <1>1, <1>2, <1>3, <1>5
  <2> HIDE DEF z
  <2>2. Slice(w, z, s + Len(d)) = Slice(w, z, s) \o d
    BY <2>1, Behind
  <2> QED
    BY <1>2, <2>2 DEF z
<1>7. SubSeq(w, 1, s + n) = Slice(w, 0, s + n)
  BY <1>1, <1>3, SizeAssumption DEF Slice
<1> QED
  BY <1>1, <1>6, <1>7 DEF w, s, g, d

LEMMA PutRests ==
  ASSUME Typed, NEW buf \in {"rx", "tx"}, NEW base \in Nat, NEW data \in Seq(Int), mem' = Put(buf, base, data),
         buf = "rx" => hal.start <= base
  PROVE  \A i \in 1 .. hal.start : mem'["rx"][i] = mem["rx"][i]
<1>1. /\ \A b \in {"rx", "tx"} : b # buf => mem'[b] = mem[b]
      /\ HasPut(mem'[buf], mem[buf], base, data)
  BY PutIs DEF Typed
<1>2. hal.start \in Nat /\ hal.start <= BufSize
  BY SizeAssumption DEF Typed, IsHal
<1>3. CASE buf = "tx"
  BY <1>1, <1>3
<1>4. CASE buf = "rx"
  <2> TAKE i \in 1 .. hal.start
  <2>1. i \in 1 .. BufSize /\ ~(i > base)
    BY <1>2, <1>4, SizeAssumption
  <2> QED
    BY <1>1, <1>4, <2>1 DEF HasPut
<1> QED
  BY <1>3, <1>4

LEMMA UnheardRests ==
  ASSUME Typed, peer' = Unheard(peer)
  PROVE  PeerRests
  BY UnheardIs DEF Typed, PeerRests

LEMMA SameRests ==
  ASSUME peer' = peer, chip.modem = "rx" => chip'.modem = "rx"
  PROVE  PeerRests
  BY DEF PeerRests

LEMMA SilencedRests ==
  ASSUME Typed, peer' = [peer EXCEPT !.out = <<>>]
  PROVE  PeerRests
  BY SilencedIs DEF Typed, PeerRests

LEMMA BuffersRest ==
  ASSUME mem' = mem, kept' = kept, hal'.start = hal.start
  PROVE  MemRests
  BY DEF MemRests

\* nothing is read, and of the peer no more than its frame is cut off
Aside == MemRests /\ call'.got = <<>> /\ (~cfg.target => PeerRests)

LEMMA StartIs ==
  ASSUME IsHal(hal), NEW n
  PROVE  [hal EXCEPT !.txLen = n].start = hal.start /\ [hal EXCEPT !.rxLen = n].start = hal.start
  BY DEF IsHal, HalFields

LEMMA StoreAside ==
  ASSUME Typed, NEW op, NEW opt, NEW n \in Nat, NEW next, Store(op, opt, Fresh(n), next)
  PROVE  /\ hal'.start = hal.start /\ \A i \in 1 .. hal.start : mem'["rx"][i] = mem["rx"][i]
         /\ call'.got = <<>>
<1> DEFINE d == Fresh(n)
           old == OldLength(opt)
           base == TxBase + old
           full == Len(d) > TxRoom - old
           s == IF full THEN "overflow" ELSE "success"
<1>1. d \in Seq(Int) /\ old \in Nat /\ TxBase \in Nat /\ TxMem \in {"rx", "tx"} /\ hal.start \in Nat
  BY FreshIs, OldIs, TxBaseIs, SizeAssumption DEF Typed, IsHal
<1>2. TxMem = "rx" => TxBase = hal.start
  BY DEF TxMem, TxBase
<1>3. \E k : hal' = [hal EXCEPT !.txLen = k]
  BY DEF Store
<1>4. mem' = mem \/ mem' = Put(TxMem, base, d)
  BY DEF Store
<1>5. ReturnAtOnce(op, s) \/ Begin(op, opt, next, <<>>)
  BY DEF Store
<1>6. base \in Nat /\ (TxMem = "rx" => hal.start <= base)
  BY <1>1, <1>2
<1> HIDE DEF d, base, s
<1>7. \A i \in 1 .. hal.start : mem'["rx"][i] = mem["rx"][i]
  BY <1>1, <1>4, <1>6, PutRests
<1>8. call'.got = <<>>
  <2>1. <<>> \in Seq(Int)
    OBVIOUS
  <2> QED
    BY <1>5, <2>1, ReturnAtOnceIs, NoCallIs, BeginIs
<1> QED
  BY <1>3, <1>7, <1>8, StartIs DEF Typed

LEMMA PassThroughAside ==
  ASSUME Typed, NEW op, NEW opt, NEW n \in Nat, NEW next, PassThrough(op, opt, Fresh(n), next)
  PROVE  hal'.start = hal.start /\ mem' = mem /\ call'.got = <<>>
<1>1. /\ \E k : hal' = [hal EXCEPT !.txLen = k]
      /\ mem' = mem /\ Begin(op, opt, next, Fresh(n)) /\ Fresh(n) \in Seq(Int)
  BY FreshIs DEF PassThrough, Typed
<1> QED
  BY <1>1, StartIs, BeginIs DEF Typed

LEMMA ExchangeAside ==
  ASSUME Typed, NEW opt, NEW n \in Nat, Exchange(opt, n)
  PROVE  Aside
<1>1. kept' = kept /\ PeerRests
  BY SameRests DEF Exchange
<1>2. CASE Store("exchange", opt, Fresh(n), "clear")
  BY <1>1, <1>2, StoreAside DEF Aside, MemRests
<1>3. CASE PassThrough("exchange", opt, Fresh(n), "clear")
  BY <1>1, <1>3, PassThroughAside, BuffersRest DEF Aside
<1>4. CASE /\ ReturnAtOnce("exchange", "use_condition") /\ mem' = mem
           /\ hal' = [hal EXCEPT !.txLen = OldLength(opt)]
  BY <1>1, <1>4, StartIs, ReturnAtOnceIs, NoCallIs, BuffersRest DEF Aside, Typed
<1> QED
  BY <1>2, <1>3, <1>4 DEF Exchange

LEMMA TransmitAside ==
  ASSUME Typed, NEW opt, NEW n \in Nat, Transmit(opt, n)
  PROVE  Aside
<1>1. kept' = kept /\ PeerRests
  BY UnheardRests DEF Transmit
<1>2. CASE Store("transmit", opt, Fresh(n), "feed")
  BY <1>1, <1>2, StoreAside DEF Aside, MemRests
<1>3. CASE PassThrough("transmit", opt, Fresh(n), "feed")
  BY <1>1, <1>3, PassThroughAside, BuffersRest DEF Aside
<1> QED
  BY <1>2, <1>3 DEF Transmit

LEMMA ClearAside ==
  ASSUME Typed, Taken, Clear
  PROVE  Aside
<1>1. /\ call.pc = "clear" /\ Goto("feed") /\ kept' = kept /\ hal' = hal /\ mem' = mem
      /\ ~cfg.target => peer' = Unheard(peer)
  BY DEF Clear, At
<1>2. call'.got = <<>>
  BY <1>1, GotoIs DEF Typed, Taken, Filled
<1> QED
  BY <1>1, <1>2, UnheardRests, BuffersRest DEF Aside

LEMMA FeedAside ==
  ASSUME Typed, Taken, Feed
  PROVE  Aside
<1>1. /\ call.pc = "feed" /\ kept' = kept /\ hal' = hal /\ mem' = mem
      /\ peer' = [peer EXCEPT !.frame = <<>>, !.out = <<>>]
      /\ \E d, p : call' = [call EXCEPT !.data = d, !.pc = p]
  BY DEF Feed, At
<1>2. call'.got = <<>>
  BY <1>1 DEF Typed, IsCall, CallFields, Taken, Filled
<1>3. PeerRests
  BY <1>1 DEF Typed, IsPeer, PeerFields, PeerRests
<1> QED
  BY <1>1, <1>2, <1>3, BuffersRest DEF Aside

LEMMA CheckUnderflowAside ==
  ASSUME Typed, Taken, CheckUnderflow
  PROVE  Aside
<1>1. /\ call.pc = "check" /\ kept' = kept /\ hal' = hal /\ mem' = mem
      /\ (peer' = peer /\ chip' = chip) \/ peer' = Unheard(peer)
      /\ \/ \E p : Goto(p)
         \/ \E p, s : call' = [call EXCEPT !.pc = p, !.status = s]
         \/ Return("underrun", <<>>)
  BY DEF CheckUnderflow, At
<1>2. call'.got = <<>>
  <2>1. call.got = <<>>
    BY <1>1 DEF Taken, Filled
  <2>2. CASE \E p : Goto(p)
    BY <2>1, <2>2, GotoIs DEF Typed
  <2>3. CASE \E p, s : call' = [call EXCEPT !.pc = p, !.status = s]
    BY <2>1, <2>3 DEF Typed, IsCall, CallFields
  <2>4. CASE Return("underrun", <<>>)
    BY <2>4, ReturnIs, NoCallIs
  <2> QED
    BY <1>1, <2>2, <2>3, <2>4
<1> QED
  BY <1>1, <1>2, UnheardRests, SameRests, BuffersRest DEF Aside

LEMMA WriteFifoAside ==
  ASSUME Typed, Taken, WriteFifo
  PROVE  Aside
<1>1. /\ call.pc = "write" /\ kept' = kept /\ hal' = hal /\ mem' = mem /\ peer' = peer
      /\ \E d, p : call' = [call EXCEPT !.data = d, !.pc = p]
  BY DEF WriteFifo, At
<1>2. call'.got = <<>>
  BY <1>1 DEF Typed, IsCall, CallFields, Taken, Filled
<1>3. chip'.modem = chip.modem
  BY WriteFifoDoes
<1> QED
  BY <1>1, <1>2, <1>3, SameRests, BuffersRest DEF Aside

LEMMA SentAside ==
  ASSUME Typed, Taken, Sent
  PROVE  Aside
<1>1. /\ call.pc = "sent" /\ kept' = kept /\ hal' = [hal EXCEPT !.txLen = 0] /\ mem' = mem /\ peer' = peer /\ chip' = chip
      /\ \/ \E p : Goto(p)
         \/ \E p, s : call' = [call EXCEPT !.pc = p, !.status = s]
         \/ Return(SentStatus, <<>>)
  BY DEF Sent, At
<1>2. call'.got = <<>>
  <2>1. call.got = <<>>
    BY <1>1 DEF Taken, Filled
  <2>2. CASE \E p : Goto(p)
    BY <2>1, <2>2, GotoIs DEF Typed
  <2>3. CASE \E p, s : call' = [call EXCEPT !.pc = p, !.status = s]
    BY <2>1, <2>3 DEF Typed, IsCall, CallFields
  <2>4. CASE Return(SentStatus, <<>>)
    BY <2>4, ReturnIs, NoCallIs
  <2> QED
    BY <1>1, <2>2, <2>3, <2>4
<1> QED
  BY <1>1, <1>2, SameRests, BuffersRest, StartIs DEF Aside, Typed

LEMMA RestoreAside ==
  ASSUME Typed, Restore
  PROVE  Aside
<1>1. kept' = kept /\ hal' = hal /\ mem' = mem /\ peer' = peer /\ Return(call.status, <<>>)
  BY DEF Restore
<1>2. chip'.modem = chip.modem
  BY RestoreDoes
<1> QED
  BY <1>1, <1>2, ReturnIs, NoCallIs, SameRests, BuffersRest DEF Aside

LEMMA ReceiveAside ==
  ASSUME Typed, NEW opt, Receive(opt)
  PROVE  Aside
<1>1. /\ kept' = kept /\ mem' = mem
      /\ hal' = hal \/ hal' = [hal EXCEPT !.rxLen = 0]
      /\ (peer' = peer /\ chip' = chip) \/ peer' = Unheard(peer)
      /\ ReturnAtOnce("start", "success") \/ \E p : Begin("receive", opt, p, <<>>)
  BY DEF Receive
<1>2. <<>> \in Seq(Int)
  OBVIOUS
<1>3. call'.got = <<>>
  BY <1>1, <1>2, ReturnAtOnceIs, NoCallIs, BeginIs
<1> QED
  BY <1>1, <1>3, UnheardRests, SameRests, BuffersRest, StartIs DEF Aside, Typed

LEMMA AwaitAside ==
  ASSUME Typed, Taken, Await
  PROVE  Aside
<1>1. /\ call.pc = "await" /\ kept' = kept /\ mem' = mem
      /\ hal' = hal \/ hal' = [hal EXCEPT !.rxLen = 0]
      /\ (peer' = peer /\ chip' = chip) \/ peer' = [peer EXCEPT !.out = <<>>]
      /\ \/ Return("use_condition", <<>>)
         \/ call' = [call EXCEPT !.pc = "finish", !.status = "timeout"]
         \/ call' = [call EXCEPT !.pc = "irq"]
  BY DEF Await, At
<1>2. call.got = <<>>
  BY <1>1 DEF Taken, Filled
<1>3. call'.got = <<>>
  <2>1. CASE Return("use_condition", <<>>)
    BY <2>1, ReturnIs, NoCallIs
  <2>2. CASE \/ call' = [call EXCEPT !.pc = "finish", !.status = "timeout"]
             \/ call' = [call EXCEPT !.pc = "irq"]
    BY <1>2, <2>2 DEF Typed, IsCall, CallFields
  <2> QED
    BY <1>1, <2>1, <2>2
<1> QED
  BY <1>1, <1>3, SilencedRests, SameRests, BuffersRest, StartIs DEF Aside, Typed

LEMMA FinishAside ==
  ASSUME Typed, Finish
  PROVE  Aside
<1>1. /\ kept' = kept /\ mem' = mem
      /\ \E n : hal' = [hal EXCEPT !.rxLen = n]
      /\ (peer' = peer /\ chip' = chip) \/ peer' = Unheard(peer)
      /\ \E s, d : Return(s, d)
  BY DEF Finish
<1> QED
  BY <1>1, ReturnIs, NoCallIs, UnheardRests, SameRests, BuffersRest, StartIs DEF Aside, Typed

\* The scratch area lies behind the bytes that are kept.
LEMMA ScratchRests ==
  ASSUME Typed, NEW data \in Seq(Int), mem' = Put(Scratch.buf, Scratch.base, data)
  PROVE  \A i \in 1 .. hal.start : mem'["rx"][i] = mem["rx"][i]
<1>1. hal.txLen \in Nat /\ hal.start \in Nat
  BY SizeAssumption DEF Typed, IsHal
<1>2. \/ Scratch.buf = "rx" /\ Scratch.base = hal.start + hal.txLen
      \/ Scratch.buf = "tx" /\ Scratch.base = hal.txLen
      \/ Scratch.buf = "rx" /\ Scratch.base = hal.start
  BY DEF Scratch
<1>3. Scratch.buf \in {"rx", "tx"} /\ Scratch.base \in Nat /\ (Scratch.buf = "rx" => hal.start <= Scratch.base)
  BY <1>1, <1>2
<1> QED
  BY <1>3, PutRests

LEMMA CalcCrcAside ==
  ASSUME Typed, NEW n \in Nat, CalcCrc(n)
  PROVE  Aside
<1> DEFINE data == [i \in 1 .. n |-> -9]
<1>1. /\ kept' = kept /\ hal' = hal /\ peer' = Unheard(peer)
      /\ mem' = mem \/ mem' = Put(Scratch.buf, Scratch.base, data)
      /\ ReturnAtOnce("crc", "overflow") \/ Begin("crc", {}, "crc", data)
  BY DEF CalcCrc
<1>2. data \in Seq(Int)
  OBVIOUS
<1> HIDE DEF data
<1>3. call'.got = <<>>
  BY <1>1, <1>2, ReturnAtOnceIs, NoCallIs, BeginIs
<1>4. \A i \in 1 .. hal.start : mem'["rx"][i] = mem["rx"][i]
  BY <1>1, <1>2, ScratchRests
<1> QED
  BY <1>1, <1>3, <1>4, UnheardRests DEF Aside, MemRests

LEMMA MemDoneAside ==
  ASSUME Typed, MemDone
  PROVE  Aside
<1> DEFINE room == BufSize - Scratch.base
           n == Smaller(Len(chip.fifo), room)
           part == SubSeq(chip.fifo, 1, n)
<1>1. /\ kept' = kept /\ hal' = hal /\ peer' = peer
      /\ mem' = Put(Scratch.buf, Scratch.base, part)
      /\ \E s, d : Return(s, d)
  BY DEF MemDone
<1>2. chip.fifo \in Seq(Int) /\ room \in Int /\ Len(chip.fifo) \in Nat
  <2>1. hal.start \in Nat /\ hal.txLen \in Nat /\ chip.fifo \in Seq(Int)
    BY SizeAssumption DEF Typed, IsHal, IsChip
  <2>2. Scratch.base \in {hal.start + hal.txLen, hal.txLen, hal.start}
    BY DEF Scratch
  <2>3. Scratch.base \in Nat
    BY <2>1, <2>2
  <2> QED
    BY <2>1, <2>3, SizeAssumption
<1>3. n \in Int /\ n <= Len(chip.fifo)
  <2> HIDE DEF room
  <2> QED
    BY <1>2 DEF Smaller
<1> HIDE DEF n
<1>4. part \in Seq(Int)
  BY <1>2, <1>3, LeadingIs
<1> HIDE DEF part
<1>5. \A i \in 1 .. hal.start : mem'["rx"][i] = mem["rx"][i]
  BY <1>1, <1>4, ScratchRests
<1>6. chip'.modem = chip.modem
  BY MemDoneDoes
<1> QED
  BY <1>1, <1>5, <1>6, ReturnIs, NoCallIs, SameRests DEF Aside, MemRests

LEMMA QuietAside ==
  ASSUME Typed, CrcDone \/ Waited \/ BusFails
  PROVE  Aside
<1>1. /\ kept' = kept /\ hal' = hal /\ mem' = mem /\ peer' = peer
      /\ \E s, d : Return(s, d)
  BY DEF CrcDone, Waited, BusFails
<1>2. chip'.modem = chip.modem
  BY CrcDoneDoes, WaitedDoes, BusFailsDoes
<1> QED
  BY <1>1, <1>2, ReturnIs, NoCallIs, SameRests, BuffersRest DEF Aside

LEMMA MemAside ==
  ASSUME Typed, Mem
  PROVE  Aside
<1>1. /\ kept' = kept /\ hal' = hal /\ mem' = mem /\ peer' = Unheard(peer) /\ Begin("mem", {}, "mem", <<>>)
      /\ <<>> \in Seq(Int)
  BY DEF Mem
<1> QED
  BY <1>1, BeginIs, UnheardRests, BuffersRest DEF Aside

LEMMA MfcAuthenticateAside ==
  ASSUME Typed, NEW type, NEW key, MfcAuthenticate(type, key)
  PROVE  Aside
<1>1. /\ kept' = kept /\ hal' = hal /\ mem' = mem
      /\ (peer' = peer /\ chip' = chip) \/ peer' = Unheard(peer)
      /\ ReturnAtOnce("auth", "overflow") \/ Begin("auth", {type}, "auth", <<>>)
  BY DEF MfcAuthenticate
<1>2. <<>> \in Seq(Int)
  OBVIOUS
<1>3. call'.got = <<>>
  BY <1>1, <1>2, ReturnAtOnceIs, NoCallIs, BeginIs
<1> QED
  BY <1>1, <1>3, UnheardRests, SameRests, BuffersRest DEF Aside

LEMMA AuthDoneAside ==
  ASSUME Typed, Awake, TransmitsDirectly(Setups), AuthDone
  PROVE  Aside
<1>1. /\ call.pc = "auth" /\ kept' = kept /\ hal' = hal /\ mem' = mem /\ peer' = peer
      /\ \E s, d : Return(s, d)
  BY DEF AuthDone, At
<1>2. ~cfg.target => chip.modem # "rx"
  BY <1>1 DEF Awake, Wakes, Reads
<1> QED
  BY <1>1, <1>2, ReturnIs, NoCallIs, BuffersRest, SameRests DEF Aside

LEMMA WaitAside ==
  ASSUME Typed, NEW op, Wait(op)
  PROVE  Aside
<1>1. /\ kept' = kept /\ hal' = hal /\ mem' = mem
      /\ peer' = [peer EXCEPT !.out = <<>>] \/ peer' = Unheard(peer)
      /\ Begin(op, {}, "wait", <<>>) /\ <<>> \in Seq(Int)
  BY DEF Wait
<1> QED
  BY <1>1, BeginIs, UnheardRests, SilencedRests, BuffersRest DEF Aside

LEMMA AutocollAside ==
  ASSUME Typed, NEW op, Autocoll(op)
  PROVE  Aside
<1>1. /\ kept' = kept /\ hal' = [hal EXCEPT !.dep = FALSE] /\ mem' = mem /\ peer' = Unheard(peer)
      /\ Begin(op, {}, "autocoll", <<>>) /\ <<>> \in Seq(Int)
  BY DEF Autocoll
<1>2. hal'.start = hal.start
  BY <1>1 DEF Typed, IsHal, HalFields
<1> QED
  BY <1>1, <1>2, BeginIs, UnheardRests, BuffersRest DEF Aside

LEMMA PolledAside ==
  ASSUME Typed, Taken, AutocollWait \/ CmdAutocollWait
  PROVE  Aside
<1>1. /\ call.pc = "autocoll" /\ kept' = kept /\ mem' = mem /\ peer' = peer /\ chip' = chip
      /\ hal' = hal \/ hal' = [hal EXCEPT !.rxLen = 0]
      /\ \/ Return("timeout", <<>>)
         \/ call' = [call EXCEPT !.pc = "target", !.status = "timeout"]
         \/ Goto("atr")
  BY DEF AutocollWait, CmdAutocollWait, At
<1>2. call.got = <<>>
  BY <1>1 DEF Taken, Filled
<1>3. call'.got = <<>>
  <2>1. CASE Return("timeout", <<>>)
    BY <2>1, ReturnIs, NoCallIs
  <2>2. CASE call' = [call EXCEPT !.pc = "target", !.status = "timeout"]
    BY <1>2, <2>2 DEF Typed, IsCall, CallFields
  <2>3. CASE Goto("atr")
    BY <1>2, <2>3, GotoIs DEF Typed
  <2> QED
    BY <1>1, <2>1, <2>2, <2>3
<1> QED
  BY <1>1, <1>3, SameRests, BuffersRest, StartIs DEF Aside, Typed

LEMMA AutocollDoneAside ==
  ASSUME Typed, AutocollDone
  PROVE  Aside
<1>1. /\ kept' = kept /\ mem' = mem /\ peer' = peer
      /\ \E n, d : hal' = [hal EXCEPT !.rxLen = n, !.dep = d]
      /\ \E s, d : Return(s, d)
  BY DEF AutocollDone
<1>2. hal'.start = hal.start
  BY <1>1 DEF Typed, IsHal, HalFields
<1>3. chip'.modem = chip.modem
  BY AutocollDoneDoes
<1> QED
  BY <1>1, <1>2, <1>3, ReturnIs, NoCallIs, SameRests, BuffersRest DEF Aside

Readable == {"success", "incomplete", "collision"}
Loop == {"irq", "modem", "fifo"}
Reader == ~cfg.target /\ ~cfg.rxMultiple

\* what disturbs the frame is flagged, of the first frame of an initiator too
Flags(irq) ==
  \/ peer.quality \in {"whole", "bits"}
  \/ "ERR" \in irq /\ peer.quality = "crc" /\ "CRCERR" \in chip.err
  \/ "ERR" \in irq /\ peer.quality = "coll" /\ "COLLERR" \in chip.err

Peers ==
  /\ chip.modem # "rx" => peer.out \in {<<>>, peer.answer}
  /\ peer.quality \in {"whole", "bits", "crc", "coll"}

\* the request is still on the air
OnAir ==
  /\ chip.modem = "tx" /\ chip.cmd = "transceive" /\ peer.out = <<>>
  /\ chip.irq \intersect {"TX", "IDLE", "RX", "ERR"} = {}

\* the answer: not begun, coming in, come, or lost in a full FIFO
NotYet ==
  /\ chip.modem \in {"wait", "start"} /\ chip.fifo = <<>> /\ chip.irq \intersect {"RX", "ERR"} = {}
  /\ peer.out \in {<<>>, peer.answer}

Coming(got) ==
  /\ chip.modem = "rx" /\ ~chip.timer /\ chip.irq \intersect {"RX", "ERR"} = {}
  /\ (got \o chip.fifo) \o peer.out = peer.answer

Over(got) ==
  /\ chip.modem = "start" /\ ~chip.timer /\ "RX" \in chip.irq /\ peer.out = <<>>
  /\ got \o chip.fifo = peer.answer /\ Flags(chip.irq)

Lost == Spilt /\ ~chip.timer /\ chip.modem \in {"rx", "start"}

Comes(got) ==
  /\ chip.cmd = "transceive" /\ "IDLE" \notin chip.irq
  /\ (NotYet /\ got = <<>>) \/ Coming(got) \/ Over(got) \/ Lost

\* nothing of the answer has been heard
Silent ==
  /\ call.got = <<>> /\ chip.fifo = <<>> /\ chip.irq \intersect {"RX", "ERR"} = {}
  /\ chip.modem = "rx" => peer.out # <<>>

\* what a polling round knows of the flags
Seen ==
  /\ call.irq \subseteq chip.irq
  /\ "RX" \in call.irq /\ "ERR" \in chip.irq => "ERR" \in call.irq
  /\ "ERR" \in call.irq => "RX" \in call.irq \/ Spilt

Goes ==
  call.op = "exchange" =>
    /\ call.pc = "feed" => chip.irq \subseteq {"TIMER"} /\ chip.modem = "idle" /\ chip.cmd = "idle"
    /\ call.pc = "check" => Spilt \/ OnAir \/ "TX" \in chip.irq
    /\ call.pc = "write" => Spilt \/ OnAir
    /\ call.pc = "sent" => Spilt \/ OnAir \/ Comes(<<>>)

Started ==
  /\ ret.status = "success" /\ Comes(<<>>)
  /\ NotYet => "HIALERT" \notin chip.irq
  /\ "TIMER" \in chip.irq => NotYet

Listens ==
  /\ call.pc = "await" => Comes(<<>>)
  /\ call.pc \in Loop => Comes(call.got) /\ ("TIMER" \in chip.irq => Silent)
  /\ call.pc \in {"modem", "fifo"} => Seen
  /\ call.pc = "fifo" => call.modem # "idle"
  /\ call.pc = "idle" /\ ret.op = "start" => Started

Concludes ==
  call.pc = "finish" =>
    /\ chip.modem # "tx"
    /\ \/ call.status = "timeout" \/ call.got = <<>>
       \/ "ERR" \in call.irq /\ "BUFFEROVFL" \in chip.err
       \/ call.got = peer.answer /\ Flags(call.irq)

Reading == Reader => Peers /\ Goes /\ Listens /\ Concludes

\* a target whose field has stayed empty, or has been left
Nobody == chip.activated = "no" /\ chip.fifo = <<>> /\ chip.modem = "idle" /\ "ERR" \notin chip.irq

Activated(bytes, irq) ==
  /\ chip.activated # "no" /\ chip.cmd = "transceive" /\ chip.modem = "start" /\ peer.out = <<>>
  /\ chip.err \subseteq {"CRCERR"} /\ bytes = peer.answer
  /\ peer.quality \in {"whole", "other"} \/ (peer.quality = "crc" /\ "ERR" \in irq /\ "CRCERR" \in chip.err)

Polling ==
  /\ cfg.target => call.op # "receive"
  /\ call.pc \in {"autocoll", "atr", "target"} => cfg.target
  /\ call.pc = "autocoll" =>
       \/ Nobody /\ chip.cmd = "autocoll" /\ "IDLE" \notin chip.irq /\ chip.err = {}
       \/ Nobody /\ chip.cmd = "idle"
       \/ Activated(chip.fifo, chip.irq)
  /\ call.pc = "atr" =>
       \/ Nobody /\ chip.cmd = "idle" /\ call.op = "autocoll"
       \/ Activated(chip.fifo, chip.irq)
  /\ call.pc = "target" =>
       \/ call.status = "timeout"
       \/ Nobody /\ chip.cmd = "idle" /\ call.op = "autocoll"
       \/ Activated(call.got, call.irq)

\* a call under way has not failed, but for the timer
Sound == call.pc # "restore" => call.status \in {"success", "timeout"}

Handed ==
  /\ call.pc = "idle" /\ Receives /\ ~cfg.rxMultiple /\ ret.status \in Readable =>
       chip.modem # "tx" /\ chip.cmd # "autocoll"
  /\ ReceivedAsSent

Whole == Held /\ Taken /\ Reading /\ Polling /\ Handed

LEMMA PeersStay ==
  ASSUME Peers, PeerRests
  PROVE  Peers'
  BY DEF Peers, PeerRests

\* A call is at work on something else, or over without an answer.
Leaves ==
  \/ call'.pc \in {"clear", "restore", "crc", "mem", "auth", "wait"} /\ call'.op # "receive"
  \/ call'.pc \in Sending /\ call'.op = "transmit"
  \/ /\ call'.pc = "idle" /\ call'.op # "receive" /\ (ret'.op # "start" \/ cfg.target)
     /\ ret'.status \notin Readable \/ ~Receives'

LEMMA ElsewhereWhole ==
  ASSUME Typed', Whole, Aside, Leaves, cfg' = cfg
  PROVE  Whole'
<1>1. Held' /\ Taken'
  BY HeldStays, EmptyTaken DEF Whole, Aside
<1>2. Reading'
  <2> SUFFICES ASSUME Reader PROVE (Peers /\ Goes /\ Listens /\ Concludes)'
    BY DEF Reading, Reader
  <2>1. Peers'
    BY PeersStay DEF Whole, Reading, Aside, Reader
  <2>2. Goes'
    BY DEF Goes, Leaves, Sending
  <2>3. Listens' /\ Concludes'
    BY DEF Listens, Concludes, Leaves, Sending, Loop, Reader
  <2> QED
    BY <2>1, <2>2, <2>3
<1>3. Polling'
  BY DEF Polling, Leaves, Sending
<1>4. Handed'
  <2>1. call'.pc # "idle" \/ ret'.status \notin Readable \/ ~Receives'
    BY DEF Leaves, Sending
  <2> QED
    BY <2>1 DEF Handed, ReceivedAsSent, At, Readable
<1> QED
  BY <1>1, <1>2, <1>3, <1>4 DEF Whole

LEMMA OnwardWhole ==
  ASSUME Typed', Whole, Aside, cfg' = cfg,
         \/ call'.pc \in {"feed", "check", "write", "sent", "await", "irq", "finish"}
         \/ call'.pc = "idle" /\ ret'.op = "start",
         cfg.target => call'.op # "receive",
         Reader => (Goes /\ Listens /\ Concludes)'
  PROVE  Whole'
<1>1. Held' /\ Taken'
  BY HeldStays, EmptyTaken DEF Whole, Aside
<1>2. Reading'
  <2> SUFFICES ASSUME Reader PROVE (Peers /\ Goes /\ Listens /\ Concludes)'
    BY DEF Reading, Reader
  <2>1. Peers'
    BY PeersStay DEF Whole, Reading, Aside, Reader
  <2> QED
    BY <2>1
<1>3. Polling'
  BY DEF Polling
<1>4. Handed'
  BY DEF Handed, ReceivedAsSent, At, Receives
<1> QED
  BY <1>1, <1>2, <1>3, <1>4 DEF Whole

LEMMA CallsWhole ==
  ASSUME Typed, Awake, Whole, NEW opt, NEW n \in Nat, Exchange(opt, n) \/ Transmit(opt, n)
  PROVE  Whole'
<1>1. CASE Exchange(opt, n)
  <2>1. /\ Typed' /\ cfg' = cfg /\ Began("exchange", opt, "clear") /\ Aside
    BY <1>1, ExchangeDoes, ExchangeAside
  <2>2. Leaves
    BY <2>1, NoCallIs DEF Began, Leaves, Receives, Readable
  <2> QED
    BY <2>1, <2>2, ElsewhereWhole
<1>2. CASE Transmit(opt, n)
  <2>1. /\ Typed' /\ cfg' = cfg /\ Began("transmit", opt, "feed") /\ Aside
    BY <1>2, TransmitDoes, TransmitAside
  <2>2. Leaves
    BY <2>1, NoCallIs DEF Began, Leaves, Receives, Readable, Sending
  <2> QED
    BY <2>1, <2>2, ElsewhereWhole
<1> QED
  BY <1>1, <1>2

LEMMA OtherCallsWhole ==
  ASSUME Typed, Awake, Whole,
         \/ \E n \in Nat : CalcCrc(n)
         \/ Mem \/ Wait("wait") \/ Wait("reset")
         \/ \E op : \E type \in Int, key \in Int : MayCall(op) /\ MfcAuthenticate(type, key)
  PROVE  Whole'
<1>1. CASE \E n \in Nat : CalcCrc(n)
  <2>1. /\ Typed' /\ cfg' = cfg /\ Aside
        /\ \/ call' = NoCall /\ ret'.op = "crc"
           \/ call'.op = "crc" /\ call'.pc = "crc"
    BY <1>1, CalcCrcDoes, CalcCrcAside
  <2>2. Leaves
    BY <2>1, NoCallIs DEF Leaves, Receives
  <2> QED
    BY <2>1, <2>2, ElsewhereWhole
<1>2. CASE Mem
  <2>1. Typed' /\ cfg' = cfg /\ Aside /\ call'.op = "mem" /\ call'.pc = "mem"
    BY <1>2, MemDoes, MemAside
  <2>2. Leaves
    BY <2>1 DEF Leaves
  <2> QED
    BY <2>1, <2>2, ElsewhereWhole
<1>3. ASSUME NEW op \in {"wait", "reset"}, Wait(op) PROVE Whole'
  <2>1. Typed' /\ cfg' = cfg /\ Aside /\ call'.op = op /\ call'.pc = "wait"
    BY <1>3, WaitDoes, WaitAside
  <2>2. Leaves
    BY <1>3, <2>1 DEF Leaves
  <2> QED
    BY <2>1, <2>2, ElsewhereWhole
<1>4. CASE \E op : \E type \in Int, key \in Int : MayCall(op) /\ MfcAuthenticate(type, key)
  <2>1. /\ Typed' /\ cfg' = cfg /\ Aside
        /\ \/ call' = NoCall /\ ret'.op = "auth"
           \/ call'.op = "auth" /\ call'.pc = "auth"
    BY <1>4, MfcAuthenticateDoes, MfcAuthenticateAside
  <2>2. Leaves
    BY <2>1, NoCallIs DEF Leaves, Receives
  <2> QED
    BY <2>1, <2>2, ElsewhereWhole
<1> QED
  BY <1>1, <1>2, <1>3, <1>4

LEMMA EndsWhole ==
  ASSUME Typed, Awake, Whole, TransmitsDirectly(Setups),
         CrcDone \/ MemDone \/ AuthDone \/ Waited \/ Restore
  PROVE  Whole'
<1>1. Typed' /\ cfg' = cfg /\ call' = NoCall /\ ret'.op = call.op /\ call.pc \in {"crc", "mem", "auth", "wait", "restore"}
  BY CrcDoneDoes, MemDoneDoes, AuthDoneDoes, WaitedDoes, RestoreDoes
<1>2. Aside
  BY QuietAside, MemDoneAside, AuthDoneAside, RestoreAside DEF Whole
<1>3. call.op \in {"crc", "mem", "auth", "wait", "reset", "transmit"}
  BY <1>1 DEF Awake, Places
<1>4. Leaves
  BY <1>1, <1>3, NoCallIs DEF Leaves, Receives
<1> QED
  BY <1>1, <1>2, <1>4, ElsewhereWhole

LEMMA BusFailsWhole ==
  ASSUME Typed, Awake, Whole, BusFails
  PROVE  Whole'
<1>1. Typed' /\ cfg' = cfg /\ call.pc # "idle" /\ call' = NoCall /\ ret'.op = call.op /\ ret'.status = "interface"
  BY BusFailsDoes
<1>2. Aside
  BY QuietAside
<1>3. call.op # "start"
  BY <1>1 DEF Awake, Places, Sending, Receiving
<1>4. Leaves
  BY <1>1, <1>3, NoCallIs DEF Leaves, Readable
<1> QED
  BY <1>1, <1>2, <1>4, ElsewhereWhole

LEMMA ClearWhole ==
  ASSUME Typed, Awake, Whole, Clear
  PROVE  Whole'
<1>1. /\ Typed' /\ cfg' = cfg /\ call.pc = "clear" /\ call'.pc = "feed" /\ call'.op = call.op /\ chip'.irq = {}
      /\ (~cfg.target => chip'.cmd = "idle" /\ chip'.modem = "idle")
  BY ClearDoes
<1>2. Aside
  BY ClearAside DEF Whole
<1>3. call.op = "exchange"
  BY <1>1 DEF Awake, Places
<1>4. Reader => (Goes /\ Listens /\ Concludes)'
  BY <1>1 DEF Reader, Goes, Listens, Concludes, Loop
<1> QED
  BY <1>1, <1>2, <1>3, <1>4, OnwardWhole

LEMMA FeedWhole ==
  ASSUME Typed, Awake, Whole, Feed
  PROVE  Whole'
<1> DEFINE cmd == IF cfg.target THEN chip.cmd ELSE IF call.op = "exchange" THEN "transceive" ELSE "transmit"
<1>1. /\ Typed' /\ cfg' = cfg /\ call.pc = "feed" /\ call'.pc \in {"sent", "check"} /\ call'.op = call.op
      /\ chip'.cmd = cmd /\ chip'.modem = (IF cmd \in {"transceive", "transmit"} THEN "tx" ELSE chip.modem)
      /\ \/ "ERR" \in chip'.irq /\ "BUFFEROVFL" \in chip'.err
         \/ chip'.irq \subseteq chip.irq \cup {"HIALERT"}
      /\ peer'.out = <<>>
  BY FeedDoes
<1>2. Aside
  BY FeedAside DEF Whole
<1>3. call.op \in {"exchange", "transmit"}
  BY <1>1 DEF Awake, Places, Sending
<1>4. CASE call.op = "transmit"
  <2>1. Leaves
    BY <1>1, <1>4 DEF Leaves, Sending
  <2> QED
    BY <1>1, <1>2, <2>1, ElsewhereWhole
<1>5. CASE call.op = "exchange"
  <2>1. Reader => (Spilt \/ OnAir)'
    BY <1>1, <1>5 DEF Whole, Reading, Reader, Goes, Spilt, OnAir
  <2>2. Reader => (Goes /\ Listens /\ Concludes)'
    BY <1>1, <2>1 DEF Reader, Goes, Listens, Concludes, Loop
  <2> QED
    BY <1>1, <1>2, <1>5, <2>2, OnwardWhole
<1> QED
  BY <1>3, <1>4, <1>5

LEMMA CheckUnderflowWhole ==
  ASSUME Typed, Awake, Whole, CheckUnderflow
  PROVE  Whole'
<1>1. Typed' /\ cfg' = cfg /\ call.pc = "check"
  BY CheckUnderflowDoes
<1>2. Aside
  BY CheckUnderflowAside DEF Whole
<1>3. call.op \in {"exchange", "transmit"}
  BY <1>1 DEF Awake, Places, Sending
<1>4. CASE /\ chip.irq \intersect {"IDLE", "TX"} = {} /\ call'.pc = "write" /\ call'.op = call.op
           /\ UNCHANGED <<chip, peer, ret>>
  <2>1. Reader => (Goes /\ Listens /\ Concludes)'
    BY <1>1, <1>4 DEF Whole, Reading, Reader, Goes, Spilt, OnAir, Listens, Concludes, Loop
  <2> QED
    BY <1>1, <1>2, <1>3, <1>4, <2>1, OnwardWhole
<1>5. CASE \/ call.op = "transmit" /\ call'.pc = "restore" /\ call'.op = call.op
           \/ call.op # "transmit" /\ call' = NoCall /\ ret'.op = call.op /\ ret'.status = "underrun"
  <2>1. Leaves
    BY <1>3, <1>5, NoCallIs DEF Leaves, Readable
  <2> QED
    BY <1>1, <1>2, <2>1, ElsewhereWhole
<1> QED
  BY <1>4, <1>5, CheckUnderflowDoes

LEMMA WriteFifoWhole ==
  ASSUME Typed, Awake, Whole, WriteFifo
  PROVE  Whole'
<1>1. /\ Typed' /\ cfg' = cfg /\ call.pc = "write" /\ call'.pc \in {"sent", "check"} /\ call'.op = call.op
      /\ chip'.cmd = chip.cmd /\ chip'.modem = chip.modem /\ chip.irq \subseteq chip'.irq /\ chip.err \subseteq chip'.err
      /\ \/ "ERR" \in chip'.irq /\ "BUFFEROVFL" \in chip'.err
         \/ chip'.irq \subseteq chip.irq \cup {"HIALERT"}
      /\ peer' = peer
  BY WriteFifoDoes
<1>2. Aside
  BY WriteFifoAside DEF Whole
<1>3. call.op \in {"exchange", "transmit"}
  BY <1>1 DEF Awake, Places, Sending
<1>4. CASE call.op = "transmit"
  <2>1. Leaves
    BY <1>1, <1>4 DEF Leaves, Sending
  <2> QED
    BY <1>1, <1>2, <2>1, ElsewhereWhole
<1>5. CASE call.op = "exchange"
  <2>1. Reader => (Spilt \/ OnAir)'
    BY <1>1, <1>5 DEF Whole, Reading, Reader, Goes, Spilt, OnAir
  <2>2. Reader => (Goes /\ Listens /\ Concludes)'
    BY <1>1, <2>1 DEF Reader, Goes, Listens, Concludes, Loop
  <2> QED
    BY <1>1, <1>2, <1>5, <2>2, OnwardWhole
<1> QED
  BY <1>3, <1>4, <1>5

LEMMA SentWhole ==
  ASSUME Typed, Awake, Whole, Sent
  PROVE  Whole'
<1>1. /\ Typed' /\ cfg' = cfg /\ call.pc = "sent" /\ chip.irq \intersect {"TX", "IDLE", "ERR"} # {}
      /\ UNCHANGED <<chip, peer>>
  BY SentDoes
<1>2. Aside
  BY SentAside DEF Whole
<1>3. call.op \in {"exchange", "transmit"}
  BY <1>1 DEF Awake, Places, Sending
<1>4. CASE call.op = "transmit" /\ call'.pc = "restore" /\ call'.op = call.op
  <2>1. Leaves
    BY <1>4 DEF Leaves
  <2> QED
    BY <1>1, <1>2, <2>1, ElsewhereWhole
<1>5. CASE call.op # "transmit" /\ call'.pc = "await" /\ call'.op = call.op /\ SentStatus = "success"
  <2>1. Reader => Comes(<<>>)
    BY <1>1, <1>3, <1>5 DEF Whole, Reading, Reader, Goes, Spilt, OnAir, SentStatus
  <2>2. Reader => Comes(<<>>)'
    BY <1>1, <2>1 DEF Comes, NotYet, Coming, Over, Lost, Spilt, Flags
  <2>3. Reader => (Goes /\ Listens /\ Concludes)'
    BY <1>1, <1>5, <2>2 DEF Reader, Goes, Listens, Concludes, Loop
  <2> QED
    BY <1>1, <1>2, <1>3, <1>5, <2>3, OnwardWhole
<1>6. CASE call.op # "transmit" /\ call' = NoCall /\ ret'.op = call.op /\ ret'.status = SentStatus
  <2>1. ~cfg.target => SentStatus # "success"
    BY <1>6, NoCallIs, GotoIs DEF Sent, Typed
  <2>2. SentStatus \in {"success", "overflow", "read_write"}
    BY DEF SentStatus
  <2>3. Leaves
    BY <1>1, <1>3, <1>6, <2>1, <2>2, NoCallIs DEF Leaves, Readable, Receives
  <2> QED
    BY <1>1, <1>2, <2>3, ElsewhereWhole
<1> QED
  BY <1>4, <1>5, <1>6, SentDoes

LEMMA SameComes ==
  ASSUME chip' = chip, peer' = peer, NEW g, Comes(g)
  PROVE  Comes(g)'
  BY DEF Comes, NotYet, Coming, Over, Lost, Spilt, Flags

LEMMA ReceiveWhole ==
  ASSUME Typed, Awake, Whole, ReceivesByTransceive(Setups), NEW opt \in ReceiveOptions, Receive(opt)
  PROVE  Whole'
<1>1. /\ Typed' /\ cfg' = cfg /\ MayCall(IF "fifo" \in opt THEN "fifo" ELSE "receive")
      /\ \/ /\ "fifo" \in opt /\ chip.irq \intersect {"RX", "ERR", "HIALERT"} # {} /\ chip' = chip
            /\ call'.op = "receive" /\ call'.pc = "irq" /\ ret' = ret
         \/ /\ "fifo" \notin opt /\ chip'.irq = {} /\ chip'.fifo = <<>>
            /\ \/ "transceive" \in opt /\ chip'.cmd = "transceive" /\ chip'.modem = "start"
               \/ "transceive" \notin opt /\ chip'.cmd = "receive" /\ chip'.modem = "wait"
            /\ \/ "start" \in opt /\ call' = NoCall /\ ret'.op = "start" /\ ret'.status = "success"
               \/ call'.op = "receive" /\ call'.pc = "await" /\ ret' = ret /\ "start" \notin opt
  BY ReceiveDoes
<1>2. Aside
  BY ReceiveAside
<1>3. /\ "fifo" \in opt => ret.op = "start" /\ peer' = peer
      /\ opt \intersect {"transceive", "fifo"} = {} => "receive_only" \in cfg.calls
      /\ cfg.target /\ "timer" \in opt => "receive_timer" \in cfg.calls
  BY DEF Receive
<1>4. /\ cfg.target => "fifo" \notin opt /\ "timer" \notin opt
      /\ Reader => opt \intersect {"transceive", "fifo"} # {}
  BY <1>1, <1>3, MayCallIs DEF ReceivesByTransceive, Reader, Typed
<1>5. cfg.target => call'.op # "receive"
  BY <1>1, <1>4, NoCallIs DEF ReceiveOptions
<1>6. ASSUME Reader PROVE (Goes /\ Listens /\ Concludes)'
  <2>1. CASE "fifo" \in opt
    <3>1. call.pc = "idle" /\ Started
      BY <1>1, <1>3, <1>6, <2>1, MayCallIs DEF Whole, Reading, Listens
    <3>2. Comes(<<>>)' /\ "TIMER" \notin chip.irq
      BY <1>1, <1>3, <2>1, <3>1, SameComes DEF Started, NotYet
    <3>3. call'.got = <<>>
      BY <1>2 DEF Aside
    <3> QED
      BY <1>1, <2>1, <3>2, <3>3 DEF Goes, Listens, Concludes, Loop
  <2>2. CASE "fifo" \notin opt
    <3>1. "transceive" \in opt
      BY <1>4, <1>6, <2>2
    <3>2. peer'.out \in {<<>>, peer'.answer}
      BY <1>1, <1>2, <1>6, <2>2, PeersStay DEF Whole, Reading, Aside, Reader, Peers
    <3>3. Comes(<<>>)'
      BY <1>1, <2>2, <3>1, <3>2 DEF Comes, NotYet
    <3> QED
      BY <1>1, <2>2, <3>3, NoCallIs DEF Goes, Listens, Concludes, Loop, Started
  <2> QED
    BY <2>1, <2>2
<1> QED
  BY <1>1, <1>2, <1>5, <1>6, NoCallIs, OnwardWhole

LEMMA AwaitWhole ==
  ASSUME Typed, Awake, Whole, Await
  PROVE  Whole'
<1> DEFINE late == "TIMER" \in chip.irq
           reset == late /\ cfg.rfReset
<1>1. /\ Typed' /\ cfg' = cfg /\ call.pc = "await"
      /\ \/ chip' = chip
         \/ chip'.cmd = "idle" /\ chip'.modem = "idle"
  BY AwaitDoes
<1>2. Aside
  BY AwaitAside DEF Whole
<1>3. call.op \in {"exchange", "receive"}
  BY <1>1 DEF Awake, Places, Receiving
<1>4. CASE reset /\ cfg.target
  <2>1. Return("use_condition", <<>>)
    BY <1>4 DEF Await
  <2>2. Leaves
    BY <1>4, <2>1, ReturnIs DEF Leaves, Readable
  <2> QED
    BY <1>1, <1>2, <2>2, ElsewhereWhole
<1>5. CASE ~(reset /\ cfg.target)
  <2>1. /\ call' = IF late /\ ~cfg.rxMultiple THEN [call EXCEPT !.pc = "finish", !.status = "timeout"]
                   ELSE [call EXCEPT !.pc = "irq"]
        /\ (~late => chip' = chip /\ peer' = peer)
    BY <1>5 DEF Await
  <2>2. /\ call'.op = call.op
        /\ call'.pc = (IF late /\ ~cfg.rxMultiple THEN "finish" ELSE "irq")
        /\ (late /\ ~cfg.rxMultiple => call'.status = "timeout")
    BY <2>1 DEF Typed, IsCall, CallFields
  <2>3. cfg.target => call'.op # "receive"
    BY <2>2 DEF Whole, Polling
  <2>4. ASSUME Reader PROVE (Goes /\ Listens /\ Concludes)'
    <3>1. Comes(<<>>)
      BY <1>1, <2>4 DEF Whole, Reading, Listens
    <3>2. CASE late
      <4>1. call'.pc = "finish" /\ call'.status = "timeout" /\ chip'.modem # "tx"
        BY <1>1, <2>2, <2>4, <3>1, <3>2 DEF Reader, Comes, NotYet, Coming, Over, Lost
      <4> QED
        BY <4>1 DEF Goes, Listens, Concludes, Loop
    <3>3. CASE ~late
      <4>1. call'.pc = "irq" /\ Comes(<<>>)' /\ "TIMER" \notin chip'.irq
        BY <2>1, <2>2, <3>1, <3>3, SameComes
      <4>2. call'.got = <<>>
        BY <1>2 DEF Aside
      <4> QED
        BY <4>1, <4>2 DEF Goes, Listens, Concludes, Loop
    <3> QED
      BY <3>2, <3>3
  <2> QED
    BY <1>1, <1>2, <2>2, <2>3, <2>4, OnwardWhole
<1> QED
  BY <1>4, <1>5

\* A polling round reads the flags and the modem, and changes neither.
LEMMA LooksWhole ==
  ASSUME Typed, Awake, Whole, cfg' = cfg, hal' = hal, mem' = mem, chip' = chip, peer' = peer, kept' = kept,
         call.pc \in Loop, call'.pc \in Loop, call'.op = call.op, call'.got = call.got,
         Reader => /\ call'.pc \in {"modem", "fifo"} => Seen'
                   /\ call'.pc = "fifo" => call'.modem # "idle"
  PROVE  Whole'
<1>1. Held' /\ Taken'
  BY HeldStays, SameTaken, BuffersRest DEF Whole, MemRests, Filled, Loop
<1>2. ASSUME Reader PROVE (Peers /\ Goes /\ Listens /\ Concludes)'
  <2>1. Peers'
    BY <1>2 DEF Whole, Reading, Peers
  <2>2. Comes(call.got) /\ ("TIMER" \in chip.irq => Silent)
    BY <1>2 DEF Whole, Reading, Listens
  <2>3. (Comes(call.got))'
    BY <2>2 DEF Comes, NotYet, Coming, Over, Lost, Spilt, Flags
  <2>4. "TIMER" \in chip'.irq => Silent'
    BY <2>2 DEF Silent
  <2>5. Goes' /\ Concludes'
    BY DEF Goes, Concludes, Loop
  <2>6. Listens'
    BY <1>2, <2>3, <2>4 DEF Listens, Loop
  <2> QED
    BY <2>1, <2>5, <2>6
<1>3. Polling'
  BY DEF Whole, Polling, Loop
<1>4. Handed'
  BY DEF Handed, ReceivedAsSent, At, Loop
<1> QED
  BY <1>1, <1>2, <1>3, <1>4 DEF Whole, Reading, Reader

LEMMA ReadIrqWhole ==
  ASSUME Typed, Awake, Whole, ReadIrq
  PROVE  Whole'
<1>1. /\ cfg' = cfg /\ hal' = hal /\ mem' = mem /\ chip' = chip /\ peer' = peer /\ kept' = kept
      /\ call.pc = "irq" /\ call' = [call EXCEPT !.irq = chip.irq, !.pc = "modem"]
  BY DEF ReadIrq, At
<1>2. call'.pc = "modem" /\ call'.op = call.op /\ call'.got = call.got /\ call'.irq = chip.irq
  BY <1>1 DEF Typed, IsCall, CallFields
<1>3. ASSUME Reader PROVE Seen'
  <2>1. Comes(call.got)
    BY <1>1, <1>3 DEF Whole, Reading, Listens, Loop
  <2> QED
    BY <1>1, <1>2, <2>1 DEF Seen, Comes, NotYet, Coming, Over, Lost, Spilt
<1> QED
  BY <1>1, <1>2, <1>3, LooksWhole DEF Loop

LEMMA ReadModemWhole ==
  ASSUME Typed, Awake, Whole, ReadModem
  PROVE  Whole'
<1>1. /\ cfg' = cfg /\ hal' = hal /\ mem' = mem /\ chip' = chip /\ peer' = peer /\ kept' = kept
      /\ call.pc = "modem"
      /\ call' = [call EXCEPT !.modem = chip.modem,
                    !.pc = IF call.irq \intersect WaitedFor = {} /\ chip.modem # "idle" THEN "irq" ELSE "fifo"]
  BY DEF ReadModem, At
<1>2. /\ call'.pc \in {"irq", "fifo"} /\ call'.op = call.op /\ call'.got = call.got /\ call'.irq = call.irq
      /\ call'.modem = chip.modem
  BY <1>1 DEF Typed, IsCall, CallFields
<1>3. ASSUME Reader PROVE Seen' /\ call'.modem # "idle"
  <2>1. Comes(call.got) /\ Seen
    BY <1>1, <1>3 DEF Whole, Reading, Listens, Loop
  <2> QED
    BY <1>1, <1>2, <2>1 DEF Seen, Comes, NotYet, Coming, Over, Lost, Spilt
<1> QED
  BY <1>1, <1>2, <1>3, LooksWhole DEF Loop

LEMMA TakenBehind ==
  ASSUME Typed, NEW k \in Nat, NEW d \in Seq(Int), hal.start + k + Len(d) <= BufSize, mem' = Put("rx", hal.start + k, d)
  PROVE  Slice(mem'["rx"], hal.start, k + Len(d)) = Slice(mem["rx"], hal.start, k) \o d
<1>1. hal.start \in Nat /\ IsMem(mem) /\ mem["rx"] \in [1 .. BufSize -> Int]
  BY SizeAssumption DEF Typed, IsHal, IsMem
<1>2. hal.start + k \in Nat
  BY <1>1
<1>3. IsMem(mem') /\ HasPut(mem'["rx"], mem["rx"], hal.start + k, d)
  BY <1>1, <1>2, PutIs
<1>4. mem'["rx"] \in [1 .. BufSize -> Int]
  BY <1>3 DEF IsMem
<1> DEFINE w == mem'["rx"]
           m == mem["rx"]
           b == hal.start
<1>5. b \in Nat /\ w \in [1 .. BufSize -> Int] /\ m \in [1 .. BufSize -> Int] /\ b + k + Len(d) <= BufSize
      /\ HasPut(w, m, b + k, d)
  BY <1>1, <1>3, <1>4
<1> HIDE DEF w, m, b
<1>6. Slice(w, b, k + Len(d)) = Slice(m, b, k) \o d
  BY <1>5, Behind
<1> QED
  BY <1>6 DEF w, m, b

LEMMA ReadFifoTakes ==
  ASSUME Typed, Taken, ReadFifo
  PROVE  LET over == call.irq \intersect (WaitedFor \ {"HIALERT"}) # {} \/ call.modem = "idle" IN
         /\ Typed' /\ call.pc = "fifo" /\ MemRests /\ UNCHANGED <<cfg, peer>>
         /\ chip'.cmd = chip.cmd /\ chip'.modem = chip.modem /\ chip'.fifo = <<>> /\ chip'.irq = chip.irq
         /\ chip'.err = chip.err /\ chip'.timer = chip.timer
         /\ \/ call' = NoCall /\ ret'.op = call.op /\ ret'.status = "overflow"
            \/ /\ Taken' /\ call'.op = call.op /\ call'.got = call.got \o chip.fifo
               /\ call'.pc = (IF over /\ chip.fifo = <<>> THEN "finish" ELSE "irq")
               /\ call'.irq = call.irq /\ call'.status = call.status
<1> DEFINE over == call.irq \intersect (WaitedFor \ {"HIALERT"}) # {} \/ call.modem = "idle"
           room == BufSize - hal.start - Len(call.got)
           n == Smaller(Len(chip.fifo), room)
           part == SubSeq(chip.fifo, 1, n)
           base == hal.start + Len(call.got)
           pc == IF over /\ chip.fifo = <<>> THEN "finish" ELSE "irq"
<1>1. /\ call.pc = "fifo" /\ hal' = hal /\ cfg' = cfg /\ peer' = peer /\ kept' = kept
      /\ mem' = Put("rx", base, part) /\ chip' = [chip EXCEPT !.fifo = <<>>]
      /\ IF Len(chip.fifo) > room THEN Return("overflow", <<>>)
         ELSE call' = [call EXCEPT !.got = @ \o chip.fifo, !.pc = pc]
  BY DEF ReadFifo, TakeFifo, At
<1>2. /\ chip.fifo \in Seq(Int) /\ call.got \in Seq(Int) /\ hal.start \in Nat
      /\ Len(chip.fifo) \in Nat /\ Len(call.got) \in Nat
  <2>1. chip.fifo \in Seq(Int) /\ call.got \in Seq(Int) /\ hal.start \in Nat
    BY SizeAssumption DEF Typed, IsChip, IsCall, IsHal
  <2> QED
    BY <2>1
<1>3. n \in Int /\ n <= Len(chip.fifo)
  BY <1>2, SizeAssumption DEF Smaller
<1>4. part \in Seq(Int)
  <2> HIDE DEF n
  <2> QED
    BY <1>2, <1>3, LeadingIs
<1>5. base \in Nat /\ hal.start <= base
  BY <1>2
<1>6. ~(Len(chip.fifo) > room) => part = chip.fifo /\ base + Len(chip.fifo) <= BufSize
  <2> SUFFICES ASSUME ~(Len(chip.fifo) > room) PROVE part = chip.fifo /\ base + Len(chip.fifo) <= BufSize
    OBVIOUS
  <2>1. n = Len(chip.fifo) /\ base + Len(chip.fifo) <= BufSize
    <3> DEFINE l == Len(chip.fifo)
               k == Len(call.got)
               s == hal.start
    <3>1. l \in Nat /\ k \in Nat /\ s \in Nat /\ ~(l > BufSize - s - k)
      BY <1>2
    <3> HIDE DEF l, k, s
    <3>2. Smaller(l, BufSize - s - k) = l /\ s + k + l <= BufSize
      BY <3>1, SizeAssumption DEF Smaller
    <3> QED
      BY <3>2 DEF l, k, s
  <2>2. SubSeq(chip.fifo, 1, Len(chip.fifo)) = chip.fifo
    BY <1>2, SubSeqFull
  <2> HIDE DEF n
  <2> QED
    BY <2>1, <2>2
<1> HIDE DEF part, over
<1>7. MemRests
  BY <1>1, <1>4, <1>5, PutRests DEF MemRests
<1>8. /\ chip'.cmd = chip.cmd /\ chip'.modem = chip.modem /\ chip'.fifo = <<>> /\ chip'.irq = chip.irq
      /\ chip'.err = chip.err /\ chip'.timer = chip.timer
  BY <1>1, EmptiedIs DEF Typed
<1>9. CASE Len(chip.fifo) > room
  <2>1. Return("overflow", <<>>)
    BY <1>1, <1>9
  <2> QED
    BY <1>1, <1>7, <1>8, <2>1, ReturnIs, ReadFifoDoes
<1>10. CASE ~(Len(chip.fifo) > room)
  <2> DEFINE g == call.got \o chip.fifo
  <2>1. call' = [call EXCEPT !.got = g, !.pc = pc]
    BY <1>1, <1>10
  <2>2. g \in Seq(Int) /\ Len(g) = Len(call.got) + Len(chip.fifo)
    BY <1>2, ConcatProperties
  <2>3. mem' = Put("rx", base, chip.fifo) /\ base + Len(chip.fifo) <= BufSize
    BY <1>1, <1>6, <1>10
  <2>4. Slice(mem'["rx"], hal.start, Len(call.got) + Len(chip.fifo)) = g
    <3>1. call.got = Slice(mem["rx"], hal.start, Len(call.got))
      BY DEF Taken
    <3> QED
      BY <1>2, <2>3, <3>1, TakenBehind
  <2>5. pc \in {"finish", "irq"}
    OBVIOUS
  <2> HIDE DEF g, pc
  <2>6. /\ call'.op = call.op /\ call'.got = g /\ call'.pc = pc /\ call'.irq = call.irq /\ call'.status = call.status
    BY <2>1 DEF Typed, IsCall, CallFields
  <2>7. Taken'
    <3>1. hal'.start + Len(g) <= BufSize
      <4>1. hal'.start = hal.start /\ hal.start + Len(call.got) + Len(chip.fifo) <= BufSize
        BY <1>1, <2>3
      <4>2. \A s, k, l \in Nat : s + k + l <= BufSize => s + (k + l) <= BufSize
        BY SizeAssumption
      <4>3. hal.start + (Len(call.got) + Len(chip.fifo)) <= BufSize
        BY <1>2, <4>1, <4>2
      <4> QED
        BY <2>2, <4>1, <4>3
    <3> QED
      BY <1>1, <2>2, <2>4, <2>5, <2>6, <3>1 DEF Taken, Filled
  <2> QED
    BY <1>1, <1>7, <1>8, <2>6, <2>7, ReadFifoDoes DEF g, pc, over
<1> QED
  BY <1>9, <1>10

LEMMA ReadFifoWhole ==
  ASSUME Typed, Awake, Whole, ReadFifo
  PROVE  Whole'
<1> DEFINE over == call.irq \intersect (WaitedFor \ {"HIALERT"}) # {} \/ call.modem = "idle"
           pc == IF over /\ chip.fifo = <<>> THEN "finish" ELSE "irq"
<1>1. /\ Typed' /\ call.pc = "fifo" /\ MemRests /\ UNCHANGED <<cfg, peer>>
      /\ chip'.cmd = chip.cmd /\ chip'.modem = chip.modem /\ chip'.fifo = <<>> /\ chip'.irq = chip.irq
      /\ chip'.err = chip.err /\ chip'.timer = chip.timer
      /\ \/ call' = NoCall /\ ret'.op = call.op /\ ret'.status = "overflow"
         \/ /\ Taken' /\ call'.op = call.op /\ call'.got = call.got \o chip.fifo /\ call'.pc = pc
            /\ call'.irq = call.irq /\ call'.status = call.status
  BY ReadFifoTakes DEF Whole
<1>2. PeerRests
  BY <1>1, SameRests
<1>3. call.op \in {"exchange", "receive"}
  BY <1>1 DEF Awake, Places, Receiving
<1>4. CASE call' = NoCall /\ ret'.op = call.op /\ ret'.status = "overflow"
  <2>1. Aside
    BY <1>1, <1>2, <1>4, NoCallIs DEF Aside
  <2>2. Leaves
    BY <1>3, <1>4, NoCallIs DEF Leaves, Readable
  <2> QED
    BY <1>1, <2>1, <2>2, ElsewhereWhole
<1>5. CASE /\ Taken' /\ call'.op = call.op /\ call'.got = call.got \o chip.fifo /\ call'.pc = pc
           /\ call'.irq = call.irq /\ call'.status = call.status
  <2>1. Held'
    BY <1>1, HeldStays DEF Whole
  <2>2. ASSUME Reader PROVE (Peers /\ Goes /\ Listens /\ Concludes)'
    <3>1. Comes(call.got) /\ ("TIMER" \in chip.irq => Silent) /\ Seen /\ call.modem # "idle"
      BY <1>1, <2>2 DEF Whole, Reading, Listens, Loop
    <3>2. chip.fifo \in Seq(Int) /\ call.got \in Seq(Int) /\ call'.got \in Seq(Int) /\ peer.out \in Seq(Int)
      BY <1>1 DEF Typed, IsChip, IsCall, IsPeer
    <3>3. call'.got \o <<>> = call'.got /\ call.got \o <<>> = call.got
      BY <3>2, ConcatEmptySeq
    <3>4. Peers'
      BY <1>1, <1>2, <2>2, PeersStay DEF Whole, Reading
    <3>5. (Comes(call.got))'
      <4>1. CASE NotYet /\ call.got = <<>>
        <5>1. call'.got = <<>>
          BY <1>5, <3>3, <4>1 DEF NotYet
        <5> QED
          BY <1>1, <3>1, <4>1, <5>1 DEF Comes, NotYet
      <4>2. CASE Coming(call.got)
        BY <1>1, <1>5, <3>1, <3>3, <4>2 DEF Comes, Coming
      <4>3. CASE Over(call.got)
        BY <1>1, <1>5, <3>1, <3>3, <4>3 DEF Comes, Over, Flags
      <4>4. CASE Lost
        BY <1>1, <3>1, <4>4 DEF Comes, Lost, Spilt
      <4> QED
        BY <3>1, <4>1, <4>2, <4>3, <4>4 DEF Comes
    <3>6. "TIMER" \in chip'.irq => Silent'
      BY <1>1, <1>5, <3>1, <3>3 DEF Silent
    <3>7. CASE pc = "irq"
      BY <1>5, <3>4, <3>5, <3>6, <3>7 DEF Goes, Listens, Concludes, Loop
    <3>8. CASE over /\ chip.fifo = <<>>
      <4>1. call'.got = call.got /\ call'.pc = "finish"
        BY <1>5, <3>3, <3>8
      <4>2. call.irq \intersect {"RX", "ERR", "TIMER", "IDLE"} # {}
        BY <3>1, <3>8 DEF WaitedFor
      <4>3. /\ chip.modem # "tx"
            /\ call.got = <<>> \/ ("ERR" \in call.irq /\ "BUFFEROVFL" \in chip.err) \/ (call.got = peer.answer /\ Flags(call.irq))
        <5>1. CASE NotYet /\ call.got = <<>>
          BY <5>1 DEF NotYet
        <5>2. CASE Coming(call.got)
          BY <3>1, <4>2, <5>2 DEF Coming, Silent, Seen, Comes
        <5>3. CASE Over(call.got)
          <6>1. call.got = peer.answer /\ chip.modem # "tx"
            BY <3>3, <3>8, <5>3 DEF Over
          <6>2. "TIMER" \in call.irq => call.got = <<>>
            BY <3>1 DEF Seen, Silent
          <6>3. "RX" \in call.irq \/ "ERR" \in call.irq => Flags(call.irq) \/ ("ERR" \in call.irq /\ "BUFFEROVFL" \in chip.err)
            BY <3>1, <5>3 DEF Seen, Over, Flags, Spilt
          <6> QED
            BY <3>1, <4>2, <6>1, <6>2, <6>3 DEF Comes, Seen
        <5>4. CASE Lost
          BY <3>1, <4>2, <5>4 DEF Lost, Spilt, Seen, Silent, Comes
        <5> QED
          BY <3>1, <5>1, <5>2, <5>3, <5>4 DEF Comes
      <4>4. Concludes'
        BY <1>1, <1>5, <4>1, <4>3 DEF Concludes, Flags
      <4> QED
        BY <3>4, <4>1, <4>4 DEF Goes, Listens, Loop
    <3> QED
      BY <3>7, <3>8
  <2>3. Polling'
    BY <1>1, <1>5 DEF Whole, Polling
  <2>4. Handed'
    BY <1>5 DEF Handed, ReceivedAsSent, At
  <2> QED
    BY <1>1, <1>5, <2>1, <2>2, <2>3, <2>4 DEF Whole, Reading, Reader
<1> QED
  BY <1>1, <1>4, <1>5

\* What a call hands over is what was kept and what it has read.
LEMMA AllOver ==
  ASSUME Typed, Held, Taken, NEW len, len = hal.start + Len(call.got)
  PROVE  SubSeq(mem["rx"], 1, len) = kept \o call.got
<1>1. call.got \in Seq(Int) /\ Len(call.got) \in 0 .. Len(call.got)
  <2>1. call.got \in Seq(Int)
    BY DEF Typed, IsCall
  <2>2. Len(call.got) \in Nat
    BY <2>1
  <2> QED
    BY <2>1, <2>2
<1>2. SubSeq(mem["rx"], 1, hal.start + Len(call.got)) = kept \o SubSeq(call.got, 1, Len(call.got))
  BY <1>1, HandsOver
<1> QED
  BY <1>1, <1>2, SubSeqFull

LEMMA AnswerRead ==
  ASSUME Sound, call.pc # "restore", AnswerStatus \in Readable
  PROVE  /\ call.status = "success" /\ call.got # <<>>
         /\ \/ AnswerStatus \in {"success", "incomplete"} /\ ErrorStatus = "success"
            \/ AnswerStatus = "collision" /\ ErrorStatus = "collision"
         /\ ~("ERR" \in call.irq /\ "BUFFEROVFL" \in chip.err)
  BY DEF Sound, AnswerStatus, ErrorStatus, Readable

LEMMA FinishHands ==
  ASSUME Typed, Awake, Whole, Sound, Finish, Reader, AnswerStatus \in Readable
  PROVE  /\ chip' = chip \/ (chip'.modem = "idle" /\ chip'.cmd = "idle")
         /\ chip.modem # "tx" /\ chip.cmd # "autocoll" /\ ret'.status = AnswerStatus
         /\ AnswerStatus \in {"success", "incomplete"} =>
              ret'.data = kept \o peer.answer /\ peer.quality \in {"whole", "bits"}
         /\ AnswerStatus = "collision" =>
              ret'.data = kept \o SubSeq(peer.answer, 1, Smaller(CollisionLength, Len(peer.answer)))
<1> DEFINE status == AnswerStatus
           len == hal.start + IF status = "collision" THEN CollisionLength ELSE Len(call.got)
           failed == status \notin {"success", "incomplete"}
           idle == [ToIdle(chip) EXCEPT !.fifo = <<>>]
<1>1. /\ call.pc = "finish" /\ chip' = IF ~failed THEN chip ELSE idle
      /\ Return(status, SubSeq(mem["rx"], 1, len))
  BY DEF Finish, At, Reader
<1>2. ret'.status = status /\ ret'.data = SubSeq(mem["rx"], 1, len)
  <2> DEFINE data == SubSeq(mem["rx"], 1, len)
  <2>1. Return(status, data)
    BY <1>1
  <2> HIDE DEF data, status
  <2> QED
    BY <2>1, ReturnIs DEF data
<1>3. idle.modem = "idle" /\ idle.cmd = "idle"
  BY ToIdleIs, EmptiedIs DEF Typed
<1>4. /\ call.status = "success" /\ call.got # <<>>
      /\ \/ status \in {"success", "incomplete"} /\ ErrorStatus = "success"
         \/ status = "collision" /\ ErrorStatus = "collision"
      /\ ~("ERR" \in call.irq /\ "BUFFEROVFL" \in chip.err)
  BY <1>1, AnswerRead
<1>5. Concludes /\ Held /\ Taken
  BY DEF Whole, Reading
<1>6. chip.modem # "tx" /\ call.got = peer.answer /\ Flags(call.irq)
  BY <1>1, <1>4, <1>5 DEF Concludes
<1>7. chip.cmd # "autocoll"
  BY DEF Awake, Modems, Reader
<1>8. CASE status \in {"success", "incomplete"}
  <2>1. ret'.data = kept \o peer.answer
    <3>1. len = hal.start + Len(call.got)
      BY <1>8
    <3> HIDE DEF len, status
    <3>2. SubSeq(mem["rx"], 1, len) = kept \o call.got
      BY <1>5, <3>1, AllOver
    <3> QED
      BY <1>2, <1>6, <3>2
  <2>2. peer.quality \in {"whole", "bits"}
    BY <1>4, <1>6, <1>8 DEF Flags, ErrorStatus
  <2> QED
    BY <1>1, <1>2, <1>6, <1>7, <1>8, <2>1, <2>2
<1>9. CASE status = "collision"
  <2>1. call.got \in Seq(Int) /\ Len(call.got) \in Nat /\ Len(call.got) >= 1 /\ 1 \in 0 .. Len(call.got)
    <3>1. call.got \in Seq(Int)
      BY DEF Typed, IsCall
    <3>2. Len(call.got) \in Nat /\ Len(call.got) # 0
      BY <1>4, <3>1, EmptySeq
    <3> QED
      BY <3>1, <3>2
  <2>2. SubSeq(mem["rx"], 1, hal.start + 1) = kept \o SubSeq(call.got, 1, 1)
    BY <1>5, <2>1, HandsOver
  <2>3. Smaller(CollisionLength, Len(peer.answer)) = 1 /\ len = hal.start + 1
    <3>1. \A l \in Nat : l >= 1 => Smaller(1, l) = 1
      BY DEF Smaller
    <3>2. Len(peer.answer) \in Nat /\ Len(peer.answer) >= 1
      BY <1>6, <2>1
    <3> QED
      BY <1>9, <3>1, <3>2 DEF CollisionLength
  <2>4. ret'.data = kept \o SubSeq(peer.answer, 1, Smaller(CollisionLength, Len(peer.answer)))
    <3> HIDE DEF len, status
    <3> QED
      BY <1>2, <1>6, <2>2, <2>3
  <2> QED
    BY <1>1, <1>2, <1>3, <1>6, <1>7, <1>9, <2>4
<1> QED
  BY <1>4, <1>8, <1>9

LEMMA FinishWhole ==
  ASSUME Typed, Awake, Whole, Sound, Finish
  PROVE  Whole'
<1>1. Typed' /\ cfg' = cfg /\ call.pc = "finish" /\ call' = NoCall /\ ret'.op = call.op /\ ret'.status = AnswerStatus
  BY FinishDoes
<1>2. Aside
  BY FinishAside
<1>3. call.op \in {"exchange", "receive"} /\ (cfg.target => call.op = "exchange")
  BY <1>1 DEF Awake, Places, Receiving, Whole, Polling
<1>4. CASE ~(Reader /\ AnswerStatus \in Readable)
  <2>1. CASE cfg.target \/ AnswerStatus \notin Readable
    <3>1. Leaves
      BY <1>1, <1>3, <2>1, NoCallIs DEF Leaves, Receives
    <3> QED
      BY <1>1, <1>2, <3>1, ElsewhereWhole
  <2>2. CASE ~cfg.target /\ cfg.rxMultiple
    <3>1. Held' /\ Taken'
      BY <1>1, <1>2, HeldStays, EmptyTaken DEF Whole, Aside
    <3>2. Reading' /\ Polling' /\ Handed'
      BY <1>1, <2>2, NoCallIs DEF Reading, Reader, Polling, Handed, ReceivedAsSent
    <3> QED
      BY <3>1, <3>2 DEF Whole
  <2> QED
    BY <1>4, <2>1, <2>2 DEF Reader
<1>5. CASE Reader /\ AnswerStatus \in Readable
  <2>1. /\ chip' = chip \/ (chip'.modem = "idle" /\ chip'.cmd = "idle")
        /\ chip.modem # "tx" /\ chip.cmd # "autocoll"
        /\ AnswerStatus \in {"success", "incomplete"} =>
             ret'.data = kept \o peer.answer /\ peer.quality \in {"whole", "bits"}
        /\ AnswerStatus = "collision" =>
             ret'.data = kept \o SubSeq(peer.answer, 1, Smaller(CollisionLength, Len(peer.answer)))
    BY <1>5, FinishHands
  <2>2. Held' /\ Taken'
    BY <1>1, <1>2, HeldStays, EmptyTaken DEF Whole, Aside
  <2>3. Peers'
    BY <1>2, <1>5, PeersStay DEF Whole, Reading, Aside, Reader
  <2>4. Reading'
    BY <1>1, <1>3, <2>3, NoCallIs DEF Reading, Goes, Listens, Concludes, Loop
  <2>5. Polling'
    BY <1>1, NoCallIs DEF Polling
  <2>6. kept' = kept /\ peer'.answer = peer.answer /\ peer'.quality = peer.quality
    BY <1>2, <1>5 DEF Aside, MemRests, PeerRests, Reader
  <2>7. Handed'
    <3>1. chip'.modem # "tx" /\ chip'.cmd # "autocoll"
      BY <2>1
    <3>2. ReceivedAsSent'
      BY <1>1, <2>1, <2>6 DEF ReceivedAsSent
    <3> QED
      BY <3>1, <3>2 DEF Handed
  <2> QED
    BY <2>2, <2>4, <2>5, <2>7 DEF Whole
<1> QED
  BY <1>4, <1>5

LEMMA SetStartWhole ==
  ASSUME Typed, Awake, Whole, NEW p \in 0 .. BufSize, SetStart(p)
  PROVE  Whole'
<1>1. /\ Typed' /\ call' = NoCall /\ ret'.op = "start_pos" /\ UNCHANGED <<cfg, chip, peer>>
  BY SetStartDoes
<1>2. hal'.start = p /\ kept' = SubSeq(mem["rx"], 1, p) /\ mem' = mem
  BY DEF SetStart, Typed, IsHal, HalFields
<1>3. Held'
  BY <1>2, SizeAssumption DEF Held, Slice
<1>4. Taken'
  BY <1>1, NoCallIs, EmptyTaken
<1>5. Reader => Peers'
  BY <1>1 DEF Whole, Reading, Peers
<1>6. Reading' /\ Polling' /\ Handed'
  BY <1>1, <1>5, NoCallIs DEF Reading, Reader, Goes, Listens, Concludes, Loop, Polling, Handed, ReceivedAsSent, Receives
<1> QED
  BY <1>3, <1>4, <1>6 DEF Whole

LEMMA ReapplyWhole ==
  ASSUME Typed, Awake, Whole, Reapply
  PROVE  Whole'
<1>1. /\ Typed' /\ call.pc = "idle" /\ ret'.op = "init" /\ chip'.modem = chip.modem /\ UNCHANGED <<cfg, call, peer>>
  BY ReapplyDoes
<1>2. hal'.start = 0 /\ kept' = <<>> /\ mem' = mem
  BY DEF Reapply
<1>3. Held'
  BY <1>2, SliceEmpty DEF Held
<1>4. call' = NoCall
  BY <1>1 DEF Awake, Places
<1>5. Taken'
  BY <1>1, <1>4, NoCallIs, EmptyTaken
<1>6. Reader => Peers'
  BY <1>1 DEF Whole, Reading, Peers
<1>7. Reading' /\ Polling' /\ Handed'
  BY <1>1, <1>4, <1>6, NoCallIs DEF Reading, Reader, Goes, Listens, Concludes, Loop, Polling, Handed, ReceivedAsSent, Receives
<1> QED
  BY <1>3, <1>5, <1>7 DEF Whole

LEMMA AutocollWhole ==
  ASSUME Typed, Awake, Whole, NEW op \in {"autocoll", "cmd_autocoll"}, Autocoll(op)
  PROVE  Whole'
<1>1. Typed' /\ cfg' = cfg /\ cfg.target /\ call'.op = op /\ call'.pc = "autocoll"
  BY AutocollDoes
<1>2. Aside
  BY AutocollAside
<1>3. Held' /\ Taken'
  BY <1>1, <1>2, HeldStays, EmptyTaken DEF Whole, Aside
<1>4. Nobody' /\ chip'.cmd = "autocoll" /\ chip'.irq = {} /\ chip'.err = {}
  <2> DEFINE c == Cleared(ToIdle(chip))
             on == c.timer \/ (op = "autocoll" /\ cfg.collTimer)
  <2>1. IsChip(c) /\ c.modem = "idle" /\ c.fifo = <<>> /\ c.irq = {} /\ c.err = {}
    BY ToIdleIs, ClearedIs DEF Typed
  <2>2. chip' = [c EXCEPT !.cmd = "autocoll", !.activated = "no", !.timer = on]
    BY DEF Autocoll
  <2> HIDE DEF c, on
  <2>3. /\ chip'.modem = c.modem /\ chip'.fifo = c.fifo /\ chip'.irq = c.irq /\ chip'.err = c.err
        /\ chip'.cmd = "autocoll" /\ chip'.activated = "no"
    BY <2>1, <2>2 DEF IsChip, ChipFields
  <2> QED
    BY <2>1, <2>3 DEF Nobody
<1>5. Reading' /\ Polling' /\ Handed'
  BY <1>1, <1>4 DEF Reading, Reader, Polling, Handed, ReceivedAsSent, At
<1> QED
  BY <1>3, <1>5 DEF Whole

LEMMA PolledWhole ==
  ASSUME Typed, Awake, Whole, AutocollWait \/ CmdAutocollWait
  PROVE  Whole'
<1>1. Typed' /\ call.pc = "autocoll" /\ UNCHANGED <<cfg, chip, peer>>
  BY PolledDoes
<1>2. Aside
  BY PolledAside DEF Whole
<1>3. /\ cfg.target
      /\ \/ Nobody /\ chip.cmd = "autocoll" /\ "IDLE" \notin chip.irq /\ chip.err = {}
         \/ Nobody /\ chip.cmd = "idle"
         \/ Activated(chip.fifo, chip.irq)
  BY <1>1 DEF Whole, Polling
<1>4. Held' /\ Taken'
  BY <1>1, <1>2, HeldStays, EmptyTaken DEF Whole, Aside
<1>5. CASE Return("timeout", <<>>)
  <2>1. Leaves
    BY <1>3, <1>5, ReturnIs DEF Leaves, Readable
  <2> QED
    BY <1>1, <1>2, <2>1, ElsewhereWhole
<1>6. CASE AutocollWait /\ ~Return("timeout", <<>>)
  <2>1. call.op = "autocoll" /\ Goto("atr") /\ chip.irq \intersect {"IDLE", "ERR"} # {}
    BY <1>6 DEF AutocollWait
  <2>2. call'.op = "autocoll" /\ call'.pc = "atr"
    BY <2>1, GotoIs DEF Typed
  <2>3. Polling'
    BY <1>1, <1>3, <2>1, <2>2 DEF Polling, Nobody, Activated
  <2>4. Reading' /\ Handed'
    BY <1>1, <1>3, <2>2 DEF Reading, Reader, Handed, ReceivedAsSent, At
  <2> QED
    BY <1>4, <2>3, <2>4 DEF Whole
<1>7. CASE CmdAutocollWait
  <2>1. /\ call.op = "cmd_autocoll"
        /\ \/ chip.activated = "passive" /\ Goto("atr")
           \/ call' = [call EXCEPT !.pc = "target", !.status = "timeout"]
    BY <1>7 DEF CmdAutocollWait
  <2>2. /\ call'.op = "cmd_autocoll"
        /\ \/ chip.activated = "passive" /\ call'.pc = "atr"
           \/ call'.pc = "target" /\ call'.status = "timeout"
    <3>1. CASE Goto("atr") /\ chip.activated = "passive"
      BY <2>1, <3>1, GotoIs DEF Typed
    <3>2. CASE call' = [call EXCEPT !.pc = "target", !.status = "timeout"]
      BY <2>1, <3>2 DEF Typed, IsCall, CallFields
    <3> QED
      BY <2>1, <3>1, <3>2
  <2>3. Polling'
    BY <1>1, <1>3, <2>2 DEF Polling, Nobody, Activated
  <2>4. Reading' /\ Handed'
    BY <1>1, <1>3, <2>2 DEF Reading, Reader, Handed, ReceivedAsSent, At
  <2> QED
    BY <1>4, <2>3, <2>4 DEF Whole
<1> QED
  BY <1>5, <1>6, <1>7

LEMMA ReadAtrTakes ==
  ASSUME Typed, Taken, ReadAtr
  PROVE  /\ MemRests
         /\ chip'.cmd = chip.cmd /\ chip'.modem = chip.modem /\ chip'.fifo = <<>> /\ chip'.irq = chip.irq
         /\ chip'.err = chip.err /\ chip'.activated = chip.activated
         /\ \/ call' = NoCall /\ ret'.op = call.op /\ ret'.status = "overflow"
            \/ Taken' /\ call'.op = call.op /\ call'.got = chip.fifo /\ call'.irq = chip.irq /\ call'.pc = "target"
<1>1. /\ hal' = hal /\ kept' = kept /\ mem' = Put("rx", hal.start, chip.fifo) /\ chip' = [chip EXCEPT !.fifo = <<>>]
      /\ IF Len(chip.fifo) > BufSize - hal.start THEN Return("overflow", <<>>)
         ELSE call' = [call EXCEPT !.got = chip.fifo, !.irq = chip.irq, !.pc = "target"]
  BY DEF ReadAtr
<1>2. chip.fifo \in Seq(Int) /\ hal.start \in Nat /\ Len(chip.fifo) \in Nat
  <2>1. chip.fifo \in Seq(Int) /\ hal.start \in Nat
    BY SizeAssumption DEF Typed, IsChip, IsHal
  <2> QED
    BY <2>1
<1>3. MemRests
  BY <1>1, <1>2, PutRests DEF MemRests
<1>4. /\ chip'.cmd = chip.cmd /\ chip'.modem = chip.modem /\ chip'.fifo = <<>> /\ chip'.irq = chip.irq
      /\ chip'.err = chip.err /\ chip'.activated = chip.activated
  BY <1>1, EmptiedIs DEF Typed
<1>5. CASE Len(chip.fifo) > BufSize - hal.start
  <2>1. Return("overflow", <<>>)
    BY <1>1, <1>5
  <2> QED
    BY <1>3, <1>4, <2>1, ReturnIs
<1>6. CASE ~(Len(chip.fifo) > BufSize - hal.start)
  <2>1. call'.op = call.op /\ call'.got = chip.fifo /\ call'.irq = chip.irq /\ call'.pc = "target"
    BY <1>1, <1>6 DEF Typed, IsCall, CallFields
  <2>2. hal.start + Len(chip.fifo) <= BufSize
    BY <1>2, <1>6, SizeAssumption
  <2>3. Slice(mem'["rx"], hal.start, Len(chip.fifo)) = chip.fifo
    <3> DEFINE z == 0
    <3>1. z \in Nat /\ hal.start + z = hal.start /\ z + Len(chip.fifo) = Len(chip.fifo)
      BY <1>2
    <3> HIDE DEF z
    <3>2. Slice(mem'["rx"], hal.start, z + Len(chip.fifo)) = Slice(mem["rx"], hal.start, z) \o chip.fifo
      BY <1>1, <1>2, <2>2, <3>1, TakenBehind
    <3>3. Slice(mem["rx"], hal.start, z) = <<>>
      BY <1>2, SliceEmpty DEF z
    <3> QED
      BY <1>2, <3>1, <3>2, <3>3, ConcatEmptySeq
  <2>4. Taken'
    BY <1>1, <2>1, <2>2, <2>3 DEF Taken, Filled
  <2> QED
    BY <1>3, <1>4, <2>1, <2>4
<1> QED
  BY <1>5, <1>6

LEMMA ReadAtrWhole ==
  ASSUME Typed, Awake, Whole, ReadAtr
  PROVE  Whole'
<1>1. Typed' /\ call.pc = "atr" /\ UNCHANGED <<cfg, peer>>
  BY ReadAtrDoes
<1>2. /\ MemRests
      /\ chip'.cmd = chip.cmd /\ chip'.modem = chip.modem /\ chip'.fifo = <<>> /\ chip'.irq = chip.irq
      /\ chip'.err = chip.err /\ chip'.activated = chip.activated
      /\ \/ call' = NoCall /\ ret'.op = call.op /\ ret'.status = "overflow"
         \/ Taken' /\ call'.op = call.op /\ call'.got = chip.fifo /\ call'.irq = chip.irq /\ call'.pc = "target"
  BY ReadAtrTakes DEF Whole
<1>3. /\ cfg.target
      /\ \/ Nobody /\ chip.cmd = "idle" /\ call.op = "autocoll"
         \/ Activated(chip.fifo, chip.irq)
  BY <1>1 DEF Whole, Polling
<1>4. CASE call' = NoCall /\ ret'.op = call.op /\ ret'.status = "overflow"
  <2>1. Aside
    BY <1>2, <1>3, <1>4, NoCallIs DEF Aside
  <2>2. Leaves
    BY <1>3, <1>4, NoCallIs DEF Leaves, Readable
  <2> QED
    BY <1>1, <2>1, <2>2, ElsewhereWhole
<1>5. CASE Taken' /\ call'.op = call.op /\ call'.got = chip.fifo /\ call'.irq = chip.irq /\ call'.pc = "target"
  <2>1. Held'
    BY <1>2, HeldStays DEF Whole
  <2>2. call.op # "receive"
    BY <1>3 DEF Whole, Polling
  <2>3. Polling'
    BY <1>1, <1>2, <1>3, <1>5, <2>2 DEF Polling, Nobody, Activated
  <2>4. Reading' /\ Handed'
    BY <1>1, <1>3, <1>5 DEF Reading, Reader, Handed, ReceivedAsSent, At
  <2> QED
    BY <1>5, <2>1, <2>3, <2>4 DEF Whole
<1> QED
  BY <1>2, <1>4, <1>5

LEMMA AutocollDoneWhole ==
  ASSUME Typed, Awake, Whole, Sound, AutocollDone
  PROVE  Whole'
<1> DEFINE nobody == call.op = "autocoll" /\ chip.activated = "no"
           len == IF nobody THEN 0 ELSE hal.start + Len(call.got)
<1>1. /\ Typed' /\ call.pc = "target" /\ call' = NoCall /\ ret'.op = call.op /\ ret'.status = AtrStatus
      /\ chip'.cmd = chip.cmd /\ chip'.modem = chip.modem /\ UNCHANGED <<cfg, peer>>
  BY AutocollDoneDoes
<1>2. Aside
  BY AutocollDoneAside
<1>3. call.op \in {"autocoll", "cmd_autocoll"}
  BY <1>1 DEF Awake, Places
<1>4. CASE AtrStatus \notin Readable
  <2>1. Leaves
    BY <1>1, <1>3, <1>4, NoCallIs DEF Leaves
  <2> QED
    BY <1>1, <1>2, <2>1, ElsewhereWhole
<1>5. CASE AtrStatus \in Readable
  <2>1. /\ ~nobody /\ AtrStatus = AnswerStatus
        /\ call.op = "autocoll" /\ AnswerStatus \in {"success", "incomplete"} => peer.quality # "other"
    BY <1>5 DEF AtrStatus, Readable
  <2>2. /\ call.status = "success" /\ call.got # <<>>
        /\ \/ AnswerStatus \in {"success", "incomplete"} /\ ErrorStatus = "success"
           \/ AnswerStatus = "collision" /\ ErrorStatus = "collision"
    BY <1>1, <1>5, <2>1, AnswerRead
  <2>3. cfg.target /\ Activated(call.got, call.irq)
    BY <1>1, <2>1, <2>2 DEF Whole, Polling, Nobody
  <2>4. AnswerStatus \in {"success", "incomplete"} /\ peer.quality \in {"whole", "other"}
    BY <2>2, <2>3 DEF Activated, ErrorStatus
  <2>5. ret'.data = kept \o peer.answer
    <3>1. Return(AtrStatus, SubSeq(mem["rx"], 1, len))
      BY DEF AutocollDone
    <3>2. len = hal.start + Len(call.got)
      BY <2>1
    <3> HIDE DEF len
    <3>3. SubSeq(mem["rx"], 1, len) = kept \o call.got
      BY <3>2, AllOver DEF Whole
    <3>4. ret'.data = SubSeq(mem["rx"], 1, len)
      <4> DEFINE data == SubSeq(mem["rx"], 1, len)
      <4>1. Return(AtrStatus, data)
        BY <3>1
      <4> HIDE DEF data
      <4> QED
        BY <4>1, ReturnIs DEF data
    <3> QED
      BY <2>3, <3>3, <3>4 DEF Activated
  <2>6. Held' /\ Taken'
    BY <1>1, <1>2, HeldStays, EmptyTaken DEF Whole, Aside
  <2>7. Reading' /\ Polling'
    BY <1>1, <2>3, NoCallIs DEF Reading, Reader, Polling
  <2>8. Handed'
    <3>1. chip'.modem # "tx" /\ chip'.cmd # "autocoll"
      BY <1>1, <2>3 DEF Activated
    <3>2. kept' = kept
      BY <1>2 DEF Aside, MemRests
    <3>3. ReceivedAsSent'
      BY <1>1, <1>3, <2>1, <2>4, <2>5, <3>2 DEF ReceivedAsSent
    <3> QED
      BY <3>1, <3>3 DEF Handed
  <2> QED
    BY <2>6, <2>7, <2>8 DEF Whole
<1> QED
  BY <1>4, <1>5

-----------------------------------------------------------------------------
(* The chip's steps leave the answer whole.                                *)

\* A step of the chip leaves what was read, and what was handed over.
LEMMA ChipWhole ==
  ASSUME Typed, Awake, Whole, HostRests, Reader => (Peers /\ Goes /\ Listens /\ Concludes)', Polling',
         chip.modem # "tx" /\ chip.cmd # "autocoll" =>
           /\ peer'.answer = peer.answer /\ peer'.quality = peer.quality
           /\ chip'.modem # "tx" /\ chip'.cmd # "autocoll"
  PROVE  Whole'
<1>1. Held' /\ Taken'
  BY DEF Whole, Held, Taken, HostRests
<1>2. Reading'
  BY DEF Reading, Reader, HostRests
<1>3. Handed'
  <2>1. CASE call.pc = "idle" /\ Receives /\ ~cfg.rxMultiple /\ ret.status \in Readable
    BY <2>1 DEF Whole, Handed, ReceivedAsSent, Receives, At, Readable, HostRests
  <2>2. CASE ~(call.pc = "idle" /\ Receives /\ ~cfg.rxMultiple /\ ret.status \in Readable)
    BY <2>2 DEF Handed, ReceivedAsSent, Receives, At, Readable, HostRests
  <2> QED
    BY <2>1, <2>2
<1> QED
  BY <1>1, <1>2, <1>3 DEF Whole

LEMMA ReaderBusy ==
  ASSUME Whole, Reader
  PROVE  /\ Peers /\ Goes /\ Listens /\ Concludes
         /\ call.pc = "await" \/ call.pc \in Loop \/ (call.pc = "idle" /\ ret.op = "start") =>
              chip.cmd = "transceive" /\ chip.modem \in {"wait", "start", "rx"}
  BY DEF Whole, Reading, Listens, Started, Comes, NotYet, Coming, Over, Lost

LEMMA ChipSendsWhole ==
  ASSUME Typed, Awake, Whole, ChipSends
  PROVE  Whole'
<1>1. /\ HostRests /\ chip.modem = "tx" /\ chip'.cmd = chip.cmd /\ chip'.modem = chip.modem /\ chip'.irq = chip.irq
      /\ chip'.err = chip.err /\ peer'.out = peer.out /\ peer'.answer = peer.answer /\ peer'.quality = peer.quality
  BY ChipSendsDoes
<1>2. ASSUME Reader PROVE (Peers /\ Goes /\ Listens /\ Concludes)'
  <2>1. call.pc # "await" /\ call.pc \notin Loop /\ ~(call.pc = "idle" /\ ret.op = "start") /\ call.pc # "finish"
    BY <1>1, <1>2, ReaderBusy DEF Concludes
  <2>2. Peers'
    BY <1>1, <1>2, ReaderBusy DEF Peers
  <2>3. Goes'
    BY <1>1, <1>2, ReaderBusy DEF Goes, Spilt, OnAir, Comes, NotYet, Coming, Over, Lost, HostRests
  <2>4. Listens' /\ Concludes'
    BY <1>1, <2>1 DEF Listens, Concludes, Loop, HostRests
  <2> QED
    BY <2>2, <2>3, <2>4
<1>3. Polling'
  BY <1>1 DEF Whole, Polling, Nobody, Activated, HostRests
<1> QED
  BY <1>1, <1>2, <1>3, ChipWhole

LEMMA ChipHasSentWhole ==
  ASSUME ~Preempted, Typed, Awake, Whole, NEW n \in Nat, NEW quality \in Qualities, ChipHasSent(n, quality)
  PROVE  Whole'
<1>1. /\ HostRests /\ chip.modem = "tx" /\ call.pc # "write" /\ chip'.fifo = <<>> /\ chip'.err = chip.err
      /\ \/ chip.cmd = "transmit" /\ chip'.modem = "idle" /\ chip'.irq = chip.irq \cup {"TX", "IDLE"}
         \/ /\ chip.cmd # "transmit" /\ chip'.cmd = chip.cmd /\ chip'.irq = chip.irq \cup {"TX"}
            /\ chip'.modem = (IF cfg.target THEN "start" ELSE "wait")
      /\ peer'.out = peer'.answer /\ peer'.quality = quality
  BY ChipHasSentDoes DEF FifoHolds, At
<1>2. ASSUME Reader PROVE (Peers /\ Goes /\ Listens /\ Concludes)'
  <2>1. call.pc # "await" /\ call.pc \notin Loop /\ ~(call.pc = "idle" /\ ret.op = "start") /\ call.pc # "finish"
    BY <1>1, <1>2, ReaderBusy DEF Concludes
  <2>2. Peers'
    BY <1>1, <1>2 DEF Peers, Qualities, Reader
  <2>3. OnAir => (Comes(<<>>))'
    BY <1>1, <1>2 DEF OnAir, Comes, NotYet, Reader
  <2>4. Goes'
    BY <1>1, <1>2, <2>3, ReaderBusy DEF Goes, Spilt, Comes, NotYet, Coming, Over, Lost, HostRests
  <2>5. Listens' /\ Concludes'
    BY <1>1, <2>1 DEF Listens, Concludes, Loop, HostRests
  <2> QED
    BY <2>2, <2>4, <2>5
<1>3. Polling'
  BY <1>1 DEF Whole, Polling, Nobody, Activated, HostRests
<1> QED
  BY <1>1, <1>2, <1>3, ChipWhole

LEMMA AnswerBeginsWhole ==
  ASSUME Typed, Awake, Whole, TransmitsDirectly(Setups), AnswerBegins
  PROVE  Whole'
<1>1. /\ HostRests /\ chip.modem \in {"wait", "start"} /\ chip'.modem = "rx" /\ chip'.cmd = chip.cmd
      /\ chip'.fifo = chip.fifo /\ chip'.irq = chip.irq /\ chip'.err = chip.err /\ peer' = peer
      /\ peer.out # <<>> /\ (ret.op = "start" => "TIMER" \notin chip.irq) /\ (chip.auto => ~chip'.timer)
  BY AnswerBeginsDoes DEF Hears
<1>2. ASSUME Reader PROVE (Peers /\ Goes /\ Listens /\ Concludes)'
  <2>1. /\ Peers /\ Goes /\ Listens /\ Concludes
    BY <1>2, ReaderBusy
  <2>2. Reads
    BY <1>2 DEF Reader, Reads
  <2>3. /\ call.pc = "sent" /\ call.op = "exchange" => ~chip'.timer
        /\ call.pc = "await" \/ call.pc \in Loop => ~chip'.timer
        /\ call.pc = "idle" /\ ret.op = "start" /\ ret.status = "success" => ~chip'.timer
    <3>1. /\ chip.auto \/ call.op = "transmit" \/ ret.status = "interface"
      BY <2>2 DEF Awake, Wakes, AutoOn
    <3>2. /\ call.pc = "idle" => call.op # "transmit"
          /\ call.pc = "await" \/ call.pc \in Loop => call.op # "transmit"
          /\ call.pc # "idle" => ret.status # "interface"
      BY NoCallIs DEF Awake, Places, Receiving, Loop
    <3> QED
      BY <1>1, <3>1, <3>2 DEF Loop
  <2>4. ASSUME NEW g \in Seq(Int), g = call.got \/ g = <<>>, Comes(g), ~chip'.timer
        PROVE  chip'.cmd = "transceive" /\ "IDLE" \notin chip'.irq /\ (Coming(g) \/ Lost)'
    <3>1. CASE NotYet /\ g = <<>>
      <4>1. peer.out \in Seq(Int) /\ (<<>> \o <<>>) \o peer.out = peer.out
        <5>1. peer.out \in Seq(Int)
          BY DEF Typed, IsPeer
        <5> QED
          BY <5>1, ConcatEmptySeq
      <4> QED
        BY <1>1, <2>4, <3>1, <4>1 DEF Comes, NotYet, Coming
    <3>2. CASE Lost
      BY <1>1, <2>4, <3>2 DEF Comes, Lost, Spilt
    <3> QED
      BY <1>1, <2>4, <3>1, <3>2 DEF Comes, Coming, Over
  <2>5. Peers'
    BY <1>1, <2>1 DEF Peers
  <2>6. Goes'
    <3>1. <<>> \in Seq(Int)
      OBVIOUS
    <3>2. call.pc = "sent" /\ call.op = "exchange" /\ Comes(<<>>) => (Comes(<<>>))'
      BY <1>1, <2>3, <2>4, <3>1 DEF Comes
    <3> QED
      BY <1>1, <2>1, <3>2 DEF Goes, Spilt, OnAir, HostRests
  <2>7. Listens'
    <3>1. call.got \in Seq(Int) /\ <<>> \in Seq(Int)
      BY DEF Typed, IsCall
    <3>2. call.pc = "await" => (Comes(<<>>))'
      BY <1>1, <2>1, <2>3, <2>4, <3>1 DEF Listens, Comes
    <3>3. call.pc \in Loop => (Comes(call.got))'
      <4> SUFFICES ASSUME call.pc \in Loop PROVE (Comes(call.got))'
        OBVIOUS
      <4>1. Comes(call.got) /\ ~chip'.timer
        BY <2>1, <2>3 DEF Listens
      <4>2. chip'.cmd = "transceive" /\ "IDLE" \notin chip'.irq /\ (Coming(call.got) \/ Lost)'
        BY <1>1, <2>4, <3>1, <4>1 DEF Coming, HostRests
      <4> QED
        BY <1>1, <4>2 DEF Comes, HostRests
    <3>4. call.pc \in Loop /\ "TIMER" \in chip.irq => Silent'
      BY <1>1, <2>1 DEF Listens, Silent, HostRests
    <3>5. Seen => Seen'
      BY <1>1 DEF Seen, Spilt, HostRests
    <3>6. call.pc = "idle" /\ ret.op = "start" => Started'
      <4> SUFFICES ASSUME call.pc = "idle", ret.op = "start" PROVE Started'
        OBVIOUS
      <4>1. Started /\ ~chip'.timer
        BY <2>1, <2>3 DEF Listens, Started
      <4>2. (Comes(<<>>))'
        BY <1>1, <2>4, <3>1, <4>1 DEF Started, Comes
      <4> QED
        BY <1>1, <4>1, <4>2 DEF Started, NotYet, HostRests
    <3> QED
      BY <1>1, <2>1, <3>2, <3>3, <3>4, <3>5, <3>6 DEF Listens, HostRests
  <2>8. Concludes'
    BY <1>1, <2>1 DEF Concludes, Flags, HostRests
  <2> QED
    BY <2>5, <2>6, <2>7, <2>8
<1>3. Polling'
  BY <1>1 DEF Whole, Polling, Nobody, Activated, HostRests
<1> QED
  BY <1>1, <1>2, <1>3, ChipWhole

\* What the chip raises stays raised until the host has seen it.
LEMMA ListensOn ==
  ASSUME HostRests, Goes, Listens, Concludes, chip.irq \subseteq chip'.irq, chip.err \subseteq chip'.err,
         peer'.answer = peer.answer, peer'.quality = peer.quality, chip'.modem = "tx" => chip.modem = "tx",
         call.pc = "feed" /\ call.op = "exchange" =>
           chip'.irq \subseteq {"TIMER"} /\ chip'.modem = "idle" /\ chip'.cmd = "idle",
         OnAir => OnAir',
         Comes(<<>>) => (Comes(<<>>))',
         call.pc \in Loop => (Comes(call.got))' /\ ("TIMER" \in chip'.irq => Silent'),
         call.pc \in {"modem", "fifo"} => ("RX" \in call.irq /\ "ERR" \in chip'.irq => "ERR" \in call.irq),
         Started => (NotYet' => "HIALERT" \notin chip'.irq) /\ ("TIMER" \in chip'.irq => NotYet')
  PROVE  (Goes /\ Listens /\ Concludes)'
<1>1. Spilt => Spilt'
  BY DEF Spilt
<1>2. Goes'
  BY <1>1 DEF Goes, HostRests
<1>3. Seen /\ call.pc \in {"modem", "fifo"} => Seen'
  BY <1>1 DEF Seen, HostRests
<1>4. Started => Started'
  BY DEF Started, HostRests
<1>5. Listens'
  BY <1>3, <1>4 DEF Listens, HostRests
<1>6. Flags(call.irq) => (Flags(call.irq))'
  BY DEF Flags, HostRests
<1>7. Concludes'
  BY <1>6 DEF Concludes, HostRests
<1> QED
  BY <1>2, <1>5, <1>7

LEMMA ChipReceivesWhole ==
  ASSUME ~Preempted, Typed, Awake, Whole, ChipReceives
  PROVE  Whole'
<1>1. /\ HostRests /\ chip.modem = "rx" /\ chip'.modem = "rx" /\ chip'.cmd = chip.cmd
      /\ chip.irq \subseteq chip'.irq /\ chip.err \subseteq chip'.err /\ chip'.timer = chip.timer
      /\ peer.out # <<>> /\ peer'.answer = peer.answer /\ peer'.quality = peer.quality
      /\ "TIMER" \notin chip.irq \/ call.pc \notin Loop
      /\ chip'.irq \subseteq chip.irq \cup {"HIALERT", "ERR"}
      /\ \/ chip'.fifo \o peer'.out = chip.fifo \o peer.out /\ chip'.irq \subseteq chip.irq \cup {"HIALERT"}
         \/ "ERR" \in chip'.irq /\ "BUFFEROVFL" \in chip'.err
  BY ChipReceivesDoes DEF RoundHolds, Loop
<1>2. ASSUME Reader PROVE (Peers /\ Goes /\ Listens /\ Concludes)'
  <2>1. /\ Peers /\ Goes /\ Listens /\ Concludes
    BY <1>2, ReaderBusy
  <2>2. chip.fifo \in Seq(Int) /\ peer.out \in Seq(Int) /\ chip'.fifo \in Seq(Int) /\ peer'.out \in Seq(Int)
        /\ call.got \in Seq(Int) /\ <<>> \in Seq(Int)
    <3>1. Typed'
      BY ChipReceivesDoes
    <3>2. chip'.fifo \in Seq(Int) /\ peer'.out \in Seq(Int)
      BY <3>1 DEF Typed, IsChip, IsPeer
    <3>3. chip.fifo \in Seq(Int) /\ peer.out \in Seq(Int) /\ call.got \in Seq(Int)
      BY DEF Typed, IsChip, IsPeer, IsCall
    <3>4. <<>> \in Seq(Int)
      OBVIOUS
    <3> QED
      BY <3>2, <3>3, <3>4
  <2>3. ASSUME NEW g \in Seq(Int), Comes(g)
        PROVE  /\ "TIMER" \in chip'.irq => "TIMER" \in chip.irq
               /\ chip'.cmd = "transceive" /\ "IDLE" \notin chip'.irq
               /\ Lost' \/ (/\ ~chip'.timer /\ chip'.irq \intersect {"RX", "ERR"} = {}
                            /\ (g \o chip'.fifo) \o peer'.out = peer'.answer)
    <3>1. CASE Coming(g)
      <4>1. CASE chip'.fifo \o peer'.out = chip.fifo \o peer.out /\ chip'.irq \subseteq chip.irq \cup {"HIALERT"}
        <5>1. (g \o chip'.fifo) \o peer'.out = (g \o chip.fifo) \o peer.out
          <6> DEFINE a == chip.fifo
                     b == peer.out
                     c == chip'.fifo
                     d == peer'.out
          <6>1. a \in Seq(Int) /\ b \in Seq(Int) /\ c \in Seq(Int) /\ d \in Seq(Int) /\ c \o d = a \o b
            BY <2>2, <4>1
          <6> HIDE DEF a, b, c, d
          <6>2. (g \o c) \o d = g \o (c \o d)
            BY <6>1, Associates
          <6>3. (g \o a) \o b = g \o (a \o b)
            BY <6>1, Associates
          <6>4. (g \o c) \o d = (g \o a) \o b
            BY <6>1, <6>2, <6>3
          <6> QED
            BY <6>4 DEF a, b, c, d
        <5> QED
          BY <1>1, <2>3, <3>1, <4>1, <5>1 DEF Coming, Comes
      <4>2. CASE "ERR" \in chip'.irq /\ "BUFFEROVFL" \in chip'.err
        BY <1>1, <2>3, <3>1, <4>2 DEF Coming, Comes, Lost, Spilt
      <4> QED
        BY <1>1, <4>1, <4>2
    <3>2. CASE Lost
      BY <1>1, <2>3, <3>2 DEF Comes, Lost, Spilt
    <3> QED
      BY <1>1, <2>3, <3>1, <3>2 DEF Comes, NotYet, Over
  <2>4. Comes(<<>>) => (Comes(<<>>))'
    BY <1>1, <2>2, <2>3 DEF Comes, Coming
  <2>5. call.pc \in Loop => (Comes(call.got))' /\ ("TIMER" \in chip'.irq => Silent')
    <3> SUFFICES ASSUME call.pc \in Loop PROVE (Comes(call.got))' /\ ("TIMER" \in chip'.irq => Silent')
      OBVIOUS
    <3>1. Comes(call.got)
      BY <2>1 DEF Listens
    <3>2. /\ "TIMER" \in chip'.irq => "TIMER" \in chip.irq
          /\ chip'.cmd = "transceive" /\ "IDLE" \notin chip'.irq
          /\ Lost' \/ (/\ ~chip'.timer /\ chip'.irq \intersect {"RX", "ERR"} = {}
                       /\ (call.got \o chip'.fifo) \o peer'.out = peer'.answer)
      BY <2>2, <2>3, <3>1
    <3>3. "TIMER" \notin chip'.irq
      BY <1>1, <3>2
    <3> QED
      BY <1>1, <3>2, <3>3 DEF Comes, Coming, HostRests
  <2>6. call.pc \in {"modem", "fifo"} => ("RX" \in call.irq /\ "ERR" \in chip'.irq => "ERR" \in call.irq)
    BY <1>1, <2>1 DEF Listens, Loop, Seen, Comes, NotYet, Coming, Over, Lost, Spilt
  <2>7. Started => (NotYet' => "HIALERT" \notin chip'.irq) /\ ("TIMER" \in chip'.irq => NotYet')
    BY <1>1 DEF Started, NotYet
  <2>8. Peers'
    BY <1>1, <2>1 DEF Peers
  <2>9. ~OnAir /\ ~(call.pc = "feed" /\ call.op = "exchange")
    BY <1>1, <2>1 DEF OnAir, Goes
  <2> QED
    BY <1>1, <2>1, <2>4, <2>5, <2>6, <2>7, <2>8, <2>9, ListensOn
<1>3. Polling'
  BY <1>1 DEF Whole, Polling, Nobody, Activated, HostRests
<1> QED
  BY <1>1, <1>2, <1>3, ChipWhole

LEMMA ChipHasReceivedWhole ==
  ASSUME Typed, Awake, Whole, ChipHasReceived
  PROVE  Whole'
<1>1. /\ HostRests /\ chip.modem = "rx" /\ chip.irq \cup {"RX"} \subseteq chip'.irq
      /\ chip.err \subseteq chip'.err /\ chip'.timer = chip.timer /\ peer' = peer
      /\ peer.out = <<>> /\ chip'.fifo = chip.fifo /\ chip'.irq \subseteq chip.irq \cup {"RX", "ERR", "IDLE"}
      /\ peer.quality = "crc" => "ERR" \in chip'.irq /\ "CRCERR" \in chip'.err
      /\ peer.quality = "coll" => "ERR" \in chip'.irq /\ "COLLERR" \in chip'.err
      /\ \/ chip'.cmd = "idle" /\ chip'.modem = "idle" /\ chip.cmd = "receive"
         \/ /\ chip'.cmd = chip.cmd /\ chip'.modem = "start" /\ chip.cmd # "receive"
            /\ "IDLE" \in chip'.irq => "IDLE" \in chip.irq
  BY ChipHasReceivedDoes
<1>2. ASSUME Reader PROVE (Peers /\ Goes /\ Listens /\ Concludes)'
  <2>1. /\ Peers /\ Goes /\ Listens /\ Concludes
    BY <1>2, ReaderBusy
  <2>2. chip.fifo \in Seq(Int) /\ call.got \in Seq(Int) /\ <<>> \in Seq(Int)
    BY DEF Typed, IsChip, IsPeer, IsCall
  <2>3. ASSUME NEW g \in Seq(Int), Comes(g)
        PROVE  /\ chip'.cmd = "transceive" /\ "IDLE" \notin chip'.irq /\ chip'.modem = "start" /\ ~chip'.timer
               /\ Lost' \/ g \o chip'.fifo = peer'.answer
    <3>1. CASE Coming(g)
      <4>1. (g \o chip.fifo) \o <<>> = g \o chip.fifo
        BY <2>2, ConcatEmptySeq
      <4> QED
        BY <1>1, <2>3, <3>1, <4>1 DEF Coming, Comes
    <3>2. CASE Lost
      BY <1>1, <2>3, <3>2 DEF Comes, Lost, Spilt
    <3> QED
      BY <1>1, <2>3, <3>1, <3>2 DEF Comes, NotYet, Over
  <2>4. (Flags(chip.irq))'
    BY <1>1, <2>1 DEF Peers, Flags
  <2>5. Comes(<<>>) => (Comes(<<>>))'
    BY <1>1, <2>2, <2>3, <2>4 DEF Comes, Over
  <2>6. call.pc \in Loop => (Comes(call.got))' /\ ("TIMER" \in chip'.irq => Silent')
    <3> SUFFICES ASSUME call.pc \in Loop PROVE (Comes(call.got))' /\ ("TIMER" \in chip'.irq => Silent')
      OBVIOUS
    <3>1. Comes(call.got)
      BY <2>1 DEF Listens
    <3>2. /\ chip'.cmd = "transceive" /\ "IDLE" \notin chip'.irq /\ chip'.modem = "start" /\ ~chip'.timer
          /\ Lost' \/ call.got \o chip'.fifo = peer'.answer
      BY <2>2, <2>3, <3>1
    <3>3. "TIMER" \notin chip'.irq
      BY <1>1, <2>1 DEF Listens, Silent
    <3> QED
      BY <1>1, <2>4, <3>2, <3>3 DEF Comes, Over, HostRests
  <2>7. call.pc \in {"modem", "fifo"} => ("RX" \in call.irq /\ "ERR" \in chip'.irq => "ERR" \in call.irq)
    BY <1>1, <2>1 DEF Listens, Loop, Seen, Comes, NotYet, Coming, Over, Lost, Spilt
  <2>8. Started => (NotYet' => "HIALERT" \notin chip'.irq) /\ ("TIMER" \in chip'.irq => NotYet')
    BY <1>1 DEF Started, NotYet
  <2>9. Peers'
    BY <1>1, <2>1 DEF Peers
  <2>10. ~OnAir /\ ~(call.pc = "feed" /\ call.op = "exchange")
    BY <1>1, <2>1 DEF OnAir, Goes
  <2>11. chip.irq \subseteq chip'.irq
    BY <1>1
  <2> QED
    BY <1>1, <2>1, <2>5, <2>6, <2>7, <2>8, <2>9, <2>10, <2>11, ListensOn
<1>3. Polling'
  BY <1>1 DEF Whole, Polling, Nobody, Activated, HostRests
<1> QED
  BY <1>1, <1>2, <1>3, ChipWhole

LEMMA TimerExpiresWhole ==
  ASSUME Typed, Awake, Whole, TimerExpires
  PROVE  Whole'
<1>1. /\ HostRests /\ chip'.cmd = chip.cmd /\ chip'.modem = chip.modem /\ chip'.fifo = chip.fifo
      /\ chip'.irq = chip.irq \cup {"TIMER"} /\ chip'.err = chip.err /\ peer' = peer
      /\ chip.timer /\ ~chip'.timer /\ chip'.activated = chip.activated
  BY TimerExpiresDoes
<1>2. ASSUME Reader PROVE (Peers /\ Goes /\ Listens /\ Concludes)'
  <2>1. /\ Peers /\ Goes /\ Listens /\ Concludes
    BY <1>2, ReaderBusy
  <2>2. Comes(<<>>) => (Comes(<<>>))'
    BY <1>1 DEF Comes, NotYet, Coming, Over, Lost
  <2>3. call.pc \in Loop => (Comes(call.got))' /\ ("TIMER" \in chip'.irq => Silent')
    BY <1>1, <2>1 DEF Listens, Silent, Comes, NotYet, Coming, Over, Lost, HostRests
  <2>4. call.pc \in {"modem", "fifo"} => ("RX" \in call.irq /\ "ERR" \in chip'.irq => "ERR" \in call.irq)
    BY <1>1, <2>1 DEF Listens, Seen
  <2>5. Started => (NotYet' => "HIALERT" \notin chip'.irq) /\ ("TIMER" \in chip'.irq => NotYet')
    BY <1>1 DEF Started, Comes, NotYet, Coming, Over, Lost
  <2>6. Peers' /\ (OnAir => OnAir') /\ chip.irq \subseteq chip'.irq
    BY <1>1, <2>1 DEF Peers, OnAir
  <2>7. call.pc = "feed" /\ call.op = "exchange" =>
           chip'.irq \subseteq {"TIMER"} /\ chip'.modem = "idle" /\ chip'.cmd = "idle"
    BY <1>1, <2>1 DEF Goes
  <2> QED
    BY <1>1, <2>1, <2>2, <2>3, <2>4, <2>5, <2>6, <2>7, ListensOn
<1>3. Polling'
  BY <1>1 DEF Whole, Polling, Nobody, Activated, HostRests
<1> QED
  BY <1>1, <1>2, <1>3, ChipWhole

\* What the chip does on its own while it listens to no answer.
LEMMA DeafWhole ==
  ASSUME Typed, Awake, Whole, HostRests, chip.modem = "idle" \/ chip.cmd \notin {"transceive", "autocoll"},
         chip' = chip \/ (chip.cmd \notin {"idle", "transceive", "autocoll"} /\ chip'.cmd # "autocoll"),
         chip.irq \subseteq chip'.irq, chip.err \subseteq chip'.err, chip'.modem = chip.modem,
         peer'.answer = peer.answer, peer'.quality = peer.quality, peer'.out \in {peer.out, <<>>}
  PROVE  Whole'
<1>1. ASSUME Reader PROVE (Peers /\ Goes /\ Listens /\ Concludes)'
  <2>1. /\ Peers /\ Goes /\ Listens /\ Concludes
        /\ call.pc # "await" /\ call.pc \notin Loop /\ ~(call.pc = "idle" /\ ret.op = "start")
    BY <1>1, ReaderBusy
  <2>2. ~OnAir /\ (\A g : ~Comes(g)) /\ ~Started
    BY DEF OnAir, Comes, NotYet, Coming, Over, Lost, Started
  <2>3. Peers'
    BY <2>1 DEF Peers
  <2>4. call.pc = "feed" /\ call.op = "exchange" =>
           chip'.irq \subseteq {"TIMER"} /\ chip'.modem = "idle" /\ chip'.cmd = "idle"
    BY <2>1 DEF Goes
  <2>5. call.pc \notin {"modem", "fifo"}
    BY <2>1 DEF Loop
  <2> QED
    BY <2>1, <2>2, <2>3, <2>4, <2>5, ListensOn
<1>2. Polling'
  BY DEF Whole, Polling, Nobody, Activated, HostRests
<1> QED
  BY <1>1, <1>2, ChipWhole

LEMMA AnswerIsLostWhole ==
  ASSUME Typed, Awake, Whole, AnswerIsLost
  PROVE  Whole'
  BY AnswerIsLostDoes, DeafWhole

LEMMA OtherCommandsWhole ==
  ASSUME Typed, Awake, Whole, ChipAuthenticates \/ ChipCalculates
  PROVE  Whole'
<1>1. CASE ChipAuthenticates
  <2>1. /\ HostRests /\ chip.cmd = "authent" /\ chip'.cmd = "authent" /\ chip'.modem = chip.modem /\ chip'.err = chip.err
        /\ peer'.out = peer.out /\ peer'.answer = peer.answer /\ peer'.quality = peer.quality
        /\ chip.irq \subseteq chip'.irq
    BY <1>1, ChipAuthenticatesDoes
  <2> QED
    BY <2>1, DeafWhole
<1>2. CASE ChipCalculates
  <2>1. /\ HostRests /\ chip.cmd \in {"calccrc", "mem"} /\ chip'.cmd = "idle" /\ chip'.modem = chip.modem
        /\ chip.irq \subseteq chip'.irq /\ chip.err \subseteq chip'.err /\ peer' = peer
    BY <1>2, ChipCalculatesDoes
  <2> QED
    BY <2>1, DeafWhole
<1> QED
  BY <1>1, <1>2

LEMMA ActivationWhole ==
  ASSUME Typed, Awake, Whole, NEW n \in Nat, n <= FifoSize, NEW q, NEW f \in {"passive", "active"},
         ChipIsActivated(n, q, f) \/ ChipIsLeft
  PROVE  Whole'
<1>1. HostRests /\ chip.cmd = "autocoll" /\ ~Reader
  BY ChipIsActivatedDoes, ChipIsLeftDoes DEF Awake, Modems, Reader
<1>2. Polling'
  <2>1. CASE ChipIsActivated(n, q, f)
    <3>1. /\ chip'.cmd = "transceive" /\ chip'.modem = "start" /\ chip'.activated = f /\ f # "no"
          /\ peer'.out = <<>> /\ peer'.quality = q /\ q \in {"whole", "crc", "other"} /\ chip'.fifo = peer'.answer
          /\ IF q = "crc" THEN "ERR" \in chip'.irq /\ chip'.err = {"CRCERR"} ELSE chip'.err = chip.err
      BY <2>1, ChipIsActivatedDoes
    <3>2. call.pc = "autocoll" => (Activated(chip.fifo, chip.irq))'
      BY <1>1, <3>1 DEF Whole, Polling, Activated
    <3>3. /\ call.pc # "atr"
          /\ call.pc = "target" => call.status = "timeout"
      BY <1>1 DEF Whole, Polling, Activated
    <3> QED
      BY <1>1, <3>2, <3>3 DEF Whole, Polling, HostRests
  <2>2. CASE ChipIsLeft
    <3>1. /\ chip'.cmd = "idle" /\ chip'.modem = "idle" /\ chip'.fifo = chip.fifo /\ chip'.irq = chip.irq \cup {"IDLE"}
          /\ chip'.activated = chip.activated
      BY <2>2, ChipIsLeftDoes
    <3>2. call.pc = "autocoll" => Nobody' /\ chip'.cmd = "idle"
      BY <1>1, <3>1 DEF Whole, Polling, Activated, Nobody
    <3>3. /\ call.pc # "atr"
          /\ call.pc = "target" => call.status = "timeout"
      BY <1>1 DEF Whole, Polling, Activated
    <3> QED
      BY <1>1, <3>2, <3>3 DEF Whole, Polling, HostRests
  <2> QED
    BY <2>1, <2>2
<1> QED
  BY <1>1, <1>2, ChipWhole


-----------------------------------------------------------------------------
(* A call under way has not failed but for the timer.                      *)

LEMMA FreshSound ==
  ASSUME call' = NoCall
  PROVE  Sound'
  BY NoCallIs DEF Sound

LEMMA OnSound ==
  ASSUME Sound, call.pc # "restore", call'.status \in {call.status, "timeout"}
  PROVE  Sound'
  BY DEF Sound

LEMMA StoreSound ==
  ASSUME NEW op, NEW opt, NEW data, NEW next, Store(op, opt, data, next) \/
         (data \in Seq(Int) /\ PassThrough(op, opt, data, next))
  PROVE  Sound'
<1>1. <<>> \in Seq(Int)
  OBVIOUS
<1>2. CASE Store(op, opt, data, next)
  <2>1. call' = NoCall \/ Begin(op, opt, next, <<>>)
    BY <1>2 DEF Store, ReturnAtOnce
  <2> QED
    BY <1>1, <2>1, FreshSound, BeginIs DEF Sound
<1>3. CASE data \in Seq(Int) /\ PassThrough(op, opt, data, next)
  BY <1>3, BeginIs DEF PassThrough, Sound
<1> QED
  BY <1>2, <1>3

LEMMA CallsSound ==
  ASSUME Typed, NEW opt, NEW n \in Nat, Exchange(opt, n) \/ Transmit(opt, n)
  PROVE  Sound'
<1>1. Fresh(n) \in Seq(Int)
  BY FreshIs DEF Typed
<1>2. \/ \E op, next : Store(op, opt, Fresh(n), next) \/ PassThrough(op, opt, Fresh(n), next)
      \/ call' = NoCall
  BY DEF Exchange, Transmit, ReturnAtOnce
<1> QED
  BY <1>1, <1>2, StoreSound, FreshSound

LEMMA SendsSound ==
  ASSUME Typed, Awake, Sound, Clear \/ Feed \/ CheckUnderflow \/ WriteFifo \/ Sent \/ Restore
  PROVE  Sound'
<1>1. CASE Clear
  BY <1>1, GotoIs, OnSound DEF Clear, At, Typed
<1>2. CASE Feed
  <2>1. call.pc = "feed" /\ \E d, p : call' = [call EXCEPT !.data = d, !.pc = p]
    BY <1>2 DEF Feed, At
  <2>2. call'.status = call.status
    BY <2>1 DEF Typed, IsCall, CallFields
  <2> QED
    BY <2>1, <2>2, OnSound
<1>3. CASE WriteFifo
  <2>1. call.pc = "write" /\ \E d, p : call' = [call EXCEPT !.data = d, !.pc = p]
    BY <1>3 DEF WriteFifo, At
  <2>2. call'.status = call.status
    BY <2>1 DEF Typed, IsCall, CallFields
  <2> QED
    BY <2>1, <2>2, OnSound
<1>4. CASE CheckUnderflow
  <2>1. CASE call'.pc = "restore"
    BY <2>1 DEF Sound
  <2>2. CASE call' = NoCall
    BY <2>2, FreshSound
  <2>3. CASE Goto("write")
    BY <1>4, <2>3, GotoIs, OnSound DEF CheckUnderflow, At, Typed
  <2> QED
    BY <1>4, <2>1, <2>2, <2>3, CheckUnderflowDoes DEF CheckUnderflow, Return
<1>5. CASE Sent
  <2>1. CASE call'.pc = "restore"
    BY <2>1 DEF Sound
  <2>2. CASE call' = NoCall
    BY <2>2, FreshSound
  <2>3. CASE Goto("await")
    BY <1>5, <2>3, GotoIs, OnSound DEF Sent, At, Typed
  <2> QED
    BY <1>5, <2>1, <2>2, <2>3, SentDoes DEF Sent, Return
<1>6. CASE Restore
  BY <1>6, FreshSound DEF Restore, Return
<1> QED
  BY <1>1, <1>2, <1>3, <1>4, <1>5, <1>6

LEMMA ReceivesSound ==
  ASSUME Typed, Awake, Sound,
         \/ \E opt : Receive(opt)
         \/ Await \/ ReadIrq \/ ReadModem \/ ReadFifo \/ Finish
  PROVE  Sound'
<1>1. ASSUME NEW opt, Receive(opt) PROVE Sound'
  <2>1. <<>> \in Seq(Int)
    OBVIOUS
  <2>2. call' = NoCall \/ \E pc : Begin("receive", opt, pc, <<>>)
    BY <1>1 DEF Receive, ReturnAtOnce
  <2> QED
    BY <2>1, <2>2, FreshSound, BeginIs DEF Sound
<1>2. CASE Await
  <2>1. \/ call' = NoCall
        \/ call.pc = "await" /\ call' = [call EXCEPT !.pc = "finish", !.status = "timeout"]
        \/ call.pc = "await" /\ call' = [call EXCEPT !.pc = "irq"]
    BY <1>2 DEF Await, At, Return
  <2>2. call' = NoCall \/ (call.pc # "restore" /\ call'.status \in {call.status, "timeout"})
    BY <2>1 DEF Typed, IsCall, CallFields
  <2> QED
    BY <2>2, FreshSound, OnSound
<1>3. CASE ReadIrq \/ ReadModem
  <2>1. /\ call.pc \in {"irq", "modem"}
        /\ \E x, p : call' = [call EXCEPT !.irq = x, !.pc = p] \/ call' = [call EXCEPT !.modem = x, !.pc = p]
    BY <1>3 DEF ReadIrq, ReadModem, At
  <2>2. call'.status = call.status
    BY <2>1 DEF Typed, IsCall, CallFields
  <2> QED
    BY <2>1, <2>2, OnSound
<1>4. CASE ReadFifo
  <2>1. call.pc = "fifo" /\ (call' = NoCall \/ \E g, p : call' = [call EXCEPT !.got = g, !.pc = p])
    BY <1>4 DEF ReadFifo, TakeFifo, At, Return
  <2>2. call' = NoCall \/ call'.status = call.status
    BY <2>1 DEF Typed, IsCall, CallFields
  <2> QED
    BY <2>1, <2>2, FreshSound, OnSound
<1>5. CASE Finish
  BY <1>5, FreshSound DEF Finish, Return
<1> QED
  BY <1>1, <1>2, <1>3, <1>4, <1>5

LEMMA OthersSound ==
  ASSUME Typed, Awake, Sound,
         \/ \E p \in 0 .. BufSize : SetStart(p)
         \/ \E n \in Nat : CalcCrc(n)
         \/ CrcDone \/ Mem \/ MemDone
         \/ \E op : \E type \in Int, key \in Int : MayCall(op) /\ MfcAuthenticate(type, key)
         \/ AuthDone \/ Wait("wait") \/ Wait("reset") \/ Waited
         \/ Autocoll("autocoll") \/ Autocoll("cmd_autocoll")
         \/ AutocollWait \/ CmdAutocollWait \/ ReadAtr \/ AutocollDone \/ BusFails \/ Reapply
  PROVE  Sound'
<1> <<>> \in Seq(Int)
  OBVIOUS
<1>1. CASE (\E p \in 0 .. BufSize : SetStart(p)) \/ CrcDone \/ MemDone \/ AuthDone \/ Waited \/ AutocollDone \/ BusFails
  BY <1>1, FreshSound DEF SetStart, CrcDone, MemDone, AuthDone, Waited, AutocollDone, BusFails, Return, ReturnAtOnce
<1>2. ASSUME NEW n \in Nat, CalcCrc(n) PROVE Sound'
  <2>1. [i \in 1 .. n |-> -9] \in Seq(Int)
    OBVIOUS
  <2>2. call' = NoCall \/ Begin("crc", {}, "crc", [i \in 1 .. n |-> -9])
    BY <1>2 DEF CalcCrc, ReturnAtOnce
  <2> QED
    BY <2>1, <2>2, FreshSound, BeginIs DEF Sound
<1>3. CASE \/ Mem \/ Wait("wait") \/ Wait("reset") \/ Autocoll("autocoll") \/ Autocoll("cmd_autocoll")
           \/ \E op : \E type \in Int, key \in Int : MayCall(op) /\ MfcAuthenticate(type, key)
  <2>1. call' = NoCall \/ \E op, opt, pc : Begin(op, opt, pc, <<>>)
    BY <1>3 DEF Mem, Wait, Autocoll, MfcAuthenticate, ReturnAtOnce
  <2> QED
    BY <2>1, FreshSound, BeginIs DEF Sound
<1>4. CASE AutocollWait
  BY <1>4, GotoIs, FreshSound, OnSound DEF AutocollWait, Return, At, Typed
<1>5. CASE CmdAutocollWait
  <2>1. /\ call.pc = "autocoll"
        /\ Goto("atr") \/ call' = [call EXCEPT !.pc = "target", !.status = "timeout"]
    BY <1>5 DEF CmdAutocollWait, At
  <2>2. call'.status \in {call.status, "timeout"}
    BY <2>1, GotoIs DEF Typed, IsCall, CallFields
  <2> QED
    BY <2>1, <2>2, OnSound
<1>6. CASE ReadAtr
  <2>1. /\ call.pc = "atr"
        /\ call' = NoCall \/ call' = [call EXCEPT !.got = chip.fifo, !.irq = chip.irq, !.pc = "target"]
    BY <1>6 DEF ReadAtr, At, Return
  <2>2. call' = NoCall \/ call'.status = call.status
    BY <2>1 DEF Typed, IsCall, CallFields
  <2> QED
    BY <2>1, <2>2, FreshSound, OnSound
<1>7. CASE Reapply
  BY <1>7 DEF Reapply, Sound
<1> QED
  BY <1>1, <1>2, <1>3, <1>4, <1>5, <1>6, <1>7

LEMMA NextSound ==
  ASSUME Typed, Awake, Sound, Next
  PROVE  Sound'
<1>1. CASE \/ \E opt : \E n \in Nat : Exchange(opt, n)
           \/ \E opt : \E n \in Nat : Transmit(opt, n)
           \/ Clear \/ Feed \/ CheckUnderflow \/ WriteFifo \/ Sent \/ Restore
           \/ \E opt \in ReceiveOptions : Receive(opt)
  BY <1>1, CallsSound, SendsSound, ReceivesSound
<1>2. CASE \/ Await \/ ReadIrq \/ ReadModem \/ ReadFifo \/ Finish
           \/ \E p \in 0 .. BufSize : SetStart(p)
           \/ \E n \in Nat : CalcCrc(n)
           \/ CrcDone \/ Mem \/ MemDone
  BY <1>2, ReceivesSound, OthersSound
<1>3. CASE \/ \E op : \E type \in Int, key \in Int : MayCall(op) /\ MfcAuthenticate(type, key)
           \/ AuthDone \/ Wait("wait") \/ Wait("reset") \/ Waited
           \/ Autocoll("autocoll") \/ Autocoll("cmd_autocoll")
           \/ AutocollWait \/ CmdAutocollWait \/ ReadAtr \/ AutocollDone \/ BusFails \/ Reapply
  BY <1>3, OthersSound
<1>4. CASE \/ ChipSends \/ AnswerBegins \/ ChipReceives \/ ChipHasReceived
           \/ \E n \in Nat : \E q \in Qualities : ChipHasSent(n, q)
           \/ AnswerIsLost \/ TimerExpires \/ ChipAuthenticates \/ ChipCalculates
           \/ \E n \in Nat : \E q : \E f \in {"passive", "active"} : n <= FifoSize /\ ChipIsActivated(n, q, f)
           \/ ChipIsLeft
  <2>1. call' = call
    BY <1>4 DEF ChipSends, AnswerBegins, ChipReceives, ChipHasReceived, ChipHasSent, AnswerIsLost, TimerExpires,
                ChipAuthenticates, ChipCalculates, ChipIsActivated, ChipIsLeft
  <2> QED
    BY <2>1 DEF Sound
<1> QED
  BY <1>1, <1>2, <1>3, <1>4, Steps

-----------------------------------------------------------------------------
(* Every step, and the invariant.                                          *)

LEMMA NextWhole ==
  ASSUME Typed, Awake, Sound, Whole, Next, ~Preempted, TransmitsDirectly(Setups), ReceivesByTransceive(Setups)
  PROVE  Whole'
<1>1. CASE \/ \E opt : \E n \in Nat : Exchange(opt, n)
           \/ \E opt : \E n \in Nat : Transmit(opt, n)
           \/ Clear \/ Feed \/ CheckUnderflow \/ WriteFifo \/ Sent \/ Restore
           \/ \E opt \in ReceiveOptions : Receive(opt)
  BY <1>1, CallsWhole, ClearWhole, FeedWhole, CheckUnderflowWhole, WriteFifoWhole, SentWhole, EndsWhole, ReceiveWhole
<1>2. CASE \/ Await \/ ReadIrq \/ ReadModem \/ ReadFifo \/ Finish
           \/ \E p \in 0 .. BufSize : SetStart(p)
           \/ \E n \in Nat : CalcCrc(n)
           \/ CrcDone \/ Mem \/ MemDone
  BY <1>2, AwaitWhole, ReadIrqWhole, ReadModemWhole, ReadFifoWhole, FinishWhole, SetStartWhole, OtherCallsWhole, EndsWhole
<1>3. CASE \/ \E op : \E type \in Int, key \in Int : MayCall(op) /\ MfcAuthenticate(type, key)
           \/ AuthDone \/ Wait("wait") \/ Wait("reset") \/ Waited
           \/ Autocoll("autocoll") \/ Autocoll("cmd_autocoll")
           \/ AutocollWait \/ CmdAutocollWait \/ ReadAtr \/ AutocollDone \/ BusFails \/ Reapply
  BY <1>3, OtherCallsWhole, EndsWhole, AutocollWhole, PolledWhole, ReadAtrWhole, AutocollDoneWhole, BusFailsWhole,
     ReapplyWhole
<1>4. CASE \/ ChipSends \/ AnswerBegins \/ ChipReceives \/ ChipHasReceived
           \/ \E n \in Nat : \E q \in Qualities : ChipHasSent(n, q)
           \/ AnswerIsLost \/ TimerExpires \/ ChipAuthenticates \/ ChipCalculates
           \/ \E n \in Nat : \E q : \E f \in {"passive", "active"} : n <= FifoSize /\ ChipIsActivated(n, q, f)
           \/ ChipIsLeft
  <2>1. CASE ChipIsLeft
    <3>1. 0 \in Nat /\ 0 <= FifoSize /\ "active" \in {"passive", "active"}
      BY SizeAssumption
    <3> QED
      BY <2>1, <3>1, ActivationWhole
  <2> QED
    BY <1>4, <2>1, ChipSendsWhole, AnswerBeginsWhole, ChipReceivesWhole, ChipHasReceivedWhole, ChipHasSentWhole,
       AnswerIsLostWhole, TimerExpiresWhole, OtherCommandsWhole, ActivationWhole
<1> QED
  BY <1>1, <1>2, <1>3, <1>4, Steps

LEMMA StutterWhole ==
  ASSUME UNCHANGED vars, Sound, Whole
  PROVE  (Sound /\ Whole)'
<1>1. UNCHANGED <<cfg, hal, mem, call, ret, chip, peer, composed, kept>>
  BY DEF vars
<1>2. Held' /\ Taken' /\ Sound'
  BY <1>1 DEF Whole, Held, Taken, Sound
<1>3. Reading'
  <2> SUFFICES ASSUME Reader PROVE (Peers /\ Goes /\ Listens /\ Concludes)'
    BY <1>1 DEF Reading, Reader
  <2>1. Peers /\ Goes /\ Listens /\ Concludes
    BY ReaderBusy
  <2>2. (Spilt <=> Spilt') /\ (OnAir <=> OnAir') /\ (Seen <=> Seen') /\ (Silent <=> Silent') /\ (NotYet <=> NotYet')
    BY <1>1 DEF Spilt, OnAir, Seen, Silent, NotYet
  <2>3. (Comes(<<>>) <=> (Comes(<<>>))') /\ (Comes(call.got) <=> (Comes(call.got))')
    BY <1>1, <2>2 DEF Comes, Coming, Over, Lost, Flags
  <2> QED
    BY <1>1, <2>1, <2>2, <2>3 DEF Peers, Goes, Listens, Started, Concludes, Flags
<1>4. Polling'
  BY <1>1 DEF Whole, Polling, Nobody, Activated
<1>5. Handed'
  BY <1>1 DEF Whole, Handed, ReceivedAsSent, Receives, At
<1> QED
  BY <1>2, <1>3, <1>4, <1>5 DEF Whole

LEMMA InitWhole ==
  ASSUME Init
  PROVE  Sound /\ Whole
<1>1. /\ call = NoCall /\ ret.op = "init" /\ hal.start = 0 /\ kept = <<>> /\ chip.modem = "idle"
      /\ peer.out = <<>> /\ peer.quality = "whole"
  BY DEF Init
<1>2. Sound
  BY <1>1, FreshSound, NoCallIs DEF Sound
<1>3. Held /\ Taken
  <2> DEFINE z == 0
  <2>1. z \in Nat /\ hal.start = z /\ z <= BufSize /\ Len(<<>>) = z /\ z + z = z
    BY <1>1, SizeAssumption
  <2> HIDE DEF z
  <2>2. Slice(mem["rx"], z, 0) = <<>>
    BY <2>1, SliceEmpty
  <2> QED
    BY <1>1, <2>1, <2>2, NoCallIs DEF Held, Taken, z
<1>4. Reading
  BY <1>1, NoCallIs DEF Reading, Peers, Goes, Listens, Loop, Concludes
<1>5. Polling /\ Handed
  BY <1>1, NoCallIs DEF Polling, Handed, ReceivedAsSent, Receives
<1> QED
  BY <1>2, <1>3, <1>4, <1>5 DEF Whole

\* Of every answer it is known where its bytes are: on the air, in the FIFO or
\* read into the buffer, in the order in which the peer sent them, and what
\* disturbed it is flagged before the host looks.
THEOREM WholeInvariant ==
  ASSUME ~Preempted, TransmitsDirectly(Setups), ReceivesByTransceive(Setups)
  PROVE  Spec => [](Typed /\ Awake /\ Sound /\ Whole)
<1>1. Init => Typed /\ Awake /\ Sound /\ Whole
  BY InitTyped, InitWhole
<1>2. Typed /\ Awake /\ Sound /\ Whole /\ [Next]_vars => (Typed /\ Awake /\ Sound /\ Whole)'
  BY NextTyped, NextAwake, NextSound, NextWhole, StutterKeeps, StutterWhole
<1> QED
  BY <1>1, <1>2, PTL DEF Spec

\* A call that says it has received (the receiving half of Exchange, Receive and
\* the target's Autocoll of phhalHw_Rc523.c) hands over the kept bytes and behind
\* them the peer's whole frame, never a disturbed one, whatever the sizes are.
THEOREM ReceivedAsSentCorrect ==
  ASSUME ~Preempted, TransmitsDirectly(Setups), ReceivesByTransceive(Setups)
  PROVE  Spec => []ReceivedAsSent
<1>1. Whole => ReceivedAsSent
  BY DEF Whole, Handed
<1> QED
  BY <1>1, WholeInvariant, PTL
=============================================================================
