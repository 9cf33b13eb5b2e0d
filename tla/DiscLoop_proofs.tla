--------------------------- MODULE DiscLoop_proofs ---------------------------
(***************************************************************************)
(* What is proved of discovery for every set of cards, every length of a   *)
(* part, every configuration and any number of calls and disturbances.     *)
(***************************************************************************)
EXTENDS DiscLoop, FiniteSetTheorems, WellFoundedInduction, TLAPS

Fields == {"pc", "op", "ret", "target", "cfg", "stop", "field", "listens", "loop", "tries", "tags", "n", "act",
           "uids", "pupi", "idm", "round", "lvl", "uid", "whole", "more", "given", "at", "slot", "first",
           "serial", "complete", "answered", "rate", "sent"}

IsReader(r) == r = [f \in Fields |-> r[f]]

-----------------------------------------------------------------------------
(* The frames a call has left to exchange, by where it waits.              *)

OfLevel == PartLen + 1
OfRound == 2 * OfLevel + 2
ActivationA == 1 + 2 * OfLevel + 4
PollingB(r) == PollLimit + 2 + Slots(r)
PollingF == PollLimit + 1
AfterA(r) == ActivationA + PollingB(r) + PollingF
OfLoop(r) == 2 + r.cfg.limitA * OfRound + AfterA(r)
Later(r) == (r.loop - 1) * OfLoop(r)
Rounds(r) == (r.cfg.limitA - r.round - 1) * OfRound
OtherLevel(r) == IF r.lvl = 1 THEN OfLevel ELSE 0
AfterB(r) == IF r.op = "start" THEN PollingF + Later(r) ELSE 0

Rest(r) ==
  CASE r.pc \in {"idle", "listen"} -> 0
    [] r.pc = "loop" -> r.loop * OfLoop(r)
    [] r.pc = "active" -> OfLoop(r) + Later(r)
    [] r.pc = "a.detect" -> 1 + r.cfg.limitA * OfRound + AfterA(r) + Later(r)
    [] r.pc = "a.anticoll" -> Rounds(r) + 2 + OtherLevel(r) + PartLen - Len(r.uid) + 1 + AfterA(r) + Later(r)
    [] r.pc = "a.select" -> Rounds(r) + 2 + OtherLevel(r) + 1 + AfterA(r) + Later(r)
    [] r.pc = "a.halt" -> Rounds(r) + 2 + AfterA(r) + Later(r)
    [] r.pc = "a.req" -> Rounds(r) + 1 + AfterA(r) + Later(r)
    [] r.pc = "aa.wake" -> ActivationA
    [] r.pc = "aa.anticoll" -> OtherLevel(r) + PartLen - Len(r.uid) + 5
    [] r.pc = "aa.select" -> OtherLevel(r) + 5
    [] r.pc = "a.rats" -> 4
    [] r.pc = "a.deselect" -> 3
    [] r.pc \in {"a.hlta", "a.pps"} -> 2
    [] r.pc = "a.atr" -> 1
    [] r.pc = "b.req" -> r.tries + 2 + Slots(r) + PollingF + Later(r)
    [] r.pc = "bb.req" -> 2 + Slots(r) + AfterB(r)
    [] r.pc = "bb.slot" -> Slots(r) - r.slot + 2 + AfterB(r)
    [] r.pc = "bb.attrib" -> 1 + AfterB(r)
    [] r.pc = "f.reqc" -> r.tries + 1 + Later(r)
    [] r.pc = "f.atr" -> 1 + Later(r)

Limit(r) == IF r.op = "start" THEN r.cfg.loops * OfLoop(r) ELSE ActivationA + PollingB(r)

Polling == {"loop", "listen", "active", "a.detect", "a.anticoll", "a.select", "a.halt", "a.req", "b.req", "f.reqc", "f.atr"}
Activating == {"aa.wake", "aa.anticoll", "aa.select", "a.rats", "a.deselect", "a.hlta", "a.pps", "a.atr",
               "bb.req", "bb.slot", "bb.attrib"}

\* What is so of the locals of a call where it waits.
WellPlaced(r) ==
  /\ r.pc \in {"idle"} \cup Polling \cup Activating
  /\ r.pc = "idle" => r.sent = 0
  /\ r.pc # "idle" /\ r.op = "start" => r.loop \in Nat \ {0}
  /\ r.pc \in Polling => r.op = "start"
  /\ r.pc \in {"a.anticoll", "a.select", "a.halt", "a.req"} => r.round \in Nat /\ r.round < r.cfg.limitA
  /\ r.pc \in {"a.anticoll", "a.select", "aa.anticoll", "aa.select"} => r.lvl \in {1, 2}
  /\ r.pc \in {"a.anticoll", "aa.anticoll"} => r.uid \in Seq(0 .. 1) /\ Len(r.uid) < PartLen
  /\ r.pc \in {"b.req", "f.reqc"} => r.tries \in Nat \ {0}
  /\ r.pc = "bb.req" => r.slot = 2
  /\ r.pc = "bb.slot" => r.slot \in 2 .. Slots(r)

IsCall(r) == IsReader(r) /\ r.cfg \in Configs /\ r.sent \in Nat

\* A card answers anticollision at a level it has.
AtALevel(cs) ==
  \A c \in Card : Kind[c].tech = "A" /\ cs[c].st = "ready" => cs[c].lvl \in DOMAIN Kind[c].uid

CardFields == {"st", "lvl", "star", "slot", "rate"}
IsCards(cs) == cs = [c \in Card |-> [f \in CardFields |-> cs[c][f]]]
SoundCards(cs) == IsCards(cs) /\ AtALevel(cs)

Bounded ==
  /\ IsCall(rd) /\ WellPlaced(rd)
  /\ rd.pc # "idle" => rd.sent + Rest(rd) <= Limit(rd)
  /\ SoundCards(cards)

-----------------------------------------------------------------------------
(* Constants.                                                              *)

LEMMA SlotsAreFew ==
  ASSUME NEW r, r.cfg \in Configs
  PROVE  Slots(r) \in Nat
  BY LimitAssumption DEF Slots

LEMMA Product ==
  ASSUME NEW m \in Nat, NEW n \in Nat
  PROVE  /\ m * n \in Nat
         /\ m > 0 => (m - 1) * n \in Nat /\ m * n = (m - 1) * n + n
         /\ \A k \in Nat : m <= k => m * n <= k * n
  OBVIOUS

LEMMA CostsAreNumbers ==
  ASSUME NEW r, r.cfg \in Configs
  PROVE  /\ OfLevel \in Nat /\ OfLevel = PartLen + 1 /\ OfRound \in Nat /\ OfRound = 2 * OfLevel + 2
         /\ Slots(r) \in Nat /\ PollingB(r) \in Nat /\ PollingB(r) = PollLimit + 2 + Slots(r)
         /\ PollingF \in Nat /\ PollingF = PollLimit + 1 /\ ActivationA \in Nat /\ ActivationA = 5 + 2 * OfLevel
         /\ AfterA(r) \in Nat /\ AfterA(r) = ActivationA + PollingB(r) + PollingF
         /\ r.cfg.limitA * OfRound \in Nat
         /\ OfLoop(r) \in Nat /\ OfLoop(r) = 2 + r.cfg.limitA * OfRound + AfterA(r)
         /\ r.loop \in Nat \ {0} => Later(r) \in Nat /\ r.loop * OfLoop(r) = Later(r) + OfLoop(r)
         /\ AfterB(r) = IF r.op = "start" THEN PollingF + Later(r) ELSE 0
<1>1. PartLen \in Nat /\ PollLimit \in Nat /\ Slots(r) \in Nat /\ r.cfg.limitA \in Nat
  BY PartAssumption, LimitAssumption, SlotsAreFew
<1>2. OfLevel \in Nat /\ OfRound \in Nat
  BY <1>1 DEF OfLevel, OfRound
<1>3. r.cfg.limitA * OfRound \in Nat
  BY <1>1, <1>2, Product
<1>4. OfLoop(r) \in Nat
  <2> HIDE DEF OfRound
  <2> QED
    BY <1>1, <1>2, <1>3 DEF OfLoop, AfterA, ActivationA, PollingB, PollingF
<1>5. ASSUME r.loop \in Nat \ {0}
      PROVE  Later(r) \in Nat /\ r.loop * OfLoop(r) = Later(r) + OfLoop(r)
  BY <1>4, <1>5, Product DEF Later
<1> QED
  BY <1>1, <1>2, <1>3, <1>4, <1>5 DEF OfLevel, OfRound, PollingB, PollingF, ActivationA, AfterA, OfLoop, AfterB

LEMMA CostsAreOfConfig ==
  ASSUME NEW r, NEW s, s.cfg = r.cfg
  PROVE  /\ Slots(s) = Slots(r) /\ PollingB(s) = PollingB(r) /\ AfterA(s) = AfterA(r) /\ OfLoop(s) = OfLoop(r)
         /\ s.loop = r.loop => Later(s) = Later(r)
         /\ s.loop = r.loop /\ s.op = r.op => AfterB(s) = AfterB(r)
         /\ s.round = r.round => Rounds(s) = Rounds(r)
  BY DEF Slots, PollingB, AfterA, OfLoop, Later, AfterB, Rounds

-----------------------------------------------------------------------------
(* What the operators make of a call.                                      *)

\* A call goes on as s, with the parameters of r and at most k frames.
GoesOn(s, r, k) ==
  /\ IsCall(s) /\ WellPlaced(s)
  /\ s.cfg = r.cfg /\ s.op = r.op
  /\ s.pc # "idle" => s.sent = r.sent
  /\ Rest(s) \in 0 .. k

\* A call that polls; one that is running.
InLoop(r) == IsCall(r) /\ r.op = "start" /\ r.loop \in Nat \ {0}
Runs(r) == IsCall(r) /\ (r.op = "start" => r.loop \in Nat \ {0})

LEMMA GoesOnFrom ==
  ASSUME NEW r, NEW s, NEW t, NEW k \in Nat, NEW m \in Nat,
         s.cfg = r.cfg, s.op = r.op, s.sent = r.sent, k <= m, GoesOn(t, s, k)
  PROVE  GoesOn(t, r, m)
  BY DEF GoesOn

LEMMA ReturnReturns ==
  ASSUME NEW r, IsCall(r), NEW status, NEW k \in Nat
  PROVE  GoesOn(Return(r, status), r, k) /\ Return(r, status).pc = "idle"
<1> DEFINE s == Return(r, status)
<1>1. IsReader(s)
  <2> DEFINE t == [r EXCEPT !.pc = "idle", !.ret = status, !.loop = 0, !.tries = 0, !.round = 0, !.lvl = 0]
             v == [t EXCEPT !.uid = <<>>, !.whole = <<>>, !.more = FALSE, !.given = <<>>, !.at = 0]
  <2>1. IsReader(t)
    BY DEF IsCall, IsReader
  <2>2. s = [v EXCEPT !.slot = 0, !.first = "SUCCESS", !.listens = FALSE, !.sent = 0]
    BY DEF Return
  <2> HIDE DEF t
  <2>3. IsReader(v)
    BY <2>1 DEF IsReader
  <2> HIDE DEF v, s
  <2> QED
    BY <2>2, <2>3 DEF IsReader
<1>2. s.pc = "idle" /\ s.cfg = r.cfg /\ s.op = r.op /\ s.sent = 0
  BY DEF IsCall, IsReader, Fields, Return
<1> HIDE DEF s
<1>3. IsCall(s) /\ WellPlaced(s)
  BY <1>1, <1>2 DEF IsCall, WellPlaced, Polling, Activating
<1>4. Rest(s) = 0
  BY <1>2 DEF Rest
<1> QED
  BY <1>2, <1>3, <1>4 DEF GoesOn, s

\* The end of a poll loop.
LEMMA AfterLoopsGoesOn ==
  ASSUME NEW r, InLoop(r)
  PROVE  GoesOn(AfterLoops(r), r, 0)
<1> DEFINE s == [r EXCEPT !.pc = "listen"]
<1>1. IsReader(s)
  BY DEF InLoop, IsCall, IsReader
<1>2. s.pc = "listen" /\ s.cfg = r.cfg /\ s.op = r.op /\ s.sent = r.sent /\ s.loop = r.loop
  BY DEF InLoop, IsCall, IsReader, Fields
<1> HIDE DEF s
<1>3. GoesOn(s, r, 0)
  BY <1>1, <1>2 DEF GoesOn, InLoop, IsCall, WellPlaced, Polling, Activating, Rest
<1> QED
  BY <1>3, ReturnReturns DEF AfterLoops, s, InLoop

LEMMA EndOfLoopGoesOn ==
  ASSUME NEW r, InLoop(r)
  PROVE  GoesOn(EndOfLoop(r), r, Later(r))
<1> DEFINE s == [r EXCEPT !.pc = "loop", !.loop = @ - 1]
<1>1. IsReader(s)
  BY DEF InLoop, IsCall, IsReader
<1>2. s.pc = "loop" /\ s.cfg = r.cfg /\ s.op = r.op /\ s.sent = r.sent /\ s.loop = r.loop - 1
  BY DEF InLoop, IsCall, IsReader, Fields
<1> HIDE DEF s
<1>3. Later(r) \in Nat
  BY CostsAreNumbers DEF InLoop, IsCall
<1>4. ASSUME r.loop > 1
      PROVE  GoesOn(s, r, Later(r))
  <2>1. Rest(s) = Later(r)
    BY <1>2, CostsAreOfConfig DEF Rest, Later
  <2> QED
    BY <1>1, <1>2, <1>3, <1>4, <2>1 DEF GoesOn, InLoop, IsCall, WellPlaced, Polling, Activating
<1>5. GoesOn(AfterLoops(r), r, Later(r))
  BY <1>3, AfterLoopsGoesOn, GoesOnFrom
<1> QED
  BY <1>3, <1>4, <1>5, ReturnReturns DEF EndOfLoop, s, InLoop

\* Type F.
LEMMA PhaseFGoesOn ==
  ASSUME NEW r, InLoop(r)
  PROVE  GoesOn(PhaseF(r), r, PollingF + Later(r))
<1> DEFINE s == [r EXCEPT !.pc = "f.reqc", !.tries = PollLimit, !.n.F = 0, !.rate = Lowest]
<1>1. IsReader(s)
  BY DEF InLoop, IsCall, IsReader
<1>2. s.pc = "f.reqc" /\ s.cfg = r.cfg /\ s.op = r.op /\ s.sent = r.sent /\ s.loop = r.loop /\ s.tries = PollLimit
  BY DEF InLoop, IsCall, IsReader, Fields
<1> HIDE DEF s
<1>3. Later(r) \in Nat /\ PollingF \in Nat /\ PollLimit \in Nat \ {0} /\ PollingF = PollLimit + 1
  BY CostsAreNumbers, LimitAssumption DEF InLoop, IsCall
<1>4. GoesOn(s, r, PollingF + Later(r))
  <2>1. Rest(s) = PollLimit + 1 + Later(r)
    BY <1>2, CostsAreOfConfig DEF Rest
  <2> QED
    BY <1>1, <1>2, <1>3, <2>1 DEF GoesOn, InLoop, IsCall, WellPlaced, Polling, Activating
<1>5. GoesOn(EndOfLoop(r), r, PollingF + Later(r))
  BY <1>3, EndOfLoopGoesOn, GoesOnFrom
<1>6. GoesOn(Return(r, "SUCCESS"), r, PollingF + Later(r))
  BY <1>3, ReturnReturns DEF InLoop
<1> QED
  BY <1>4, <1>5, <1>6 DEF PhaseF, s

LEMMA DetectFGoesOn ==
  ASSUME NEW r, NEW x, IsCall(r), WellPlaced(r), r.pc = "f.reqc"
  PROVE  Rest(r) \in Nat \ {0} /\ GoesOn(DetectF(r, x), r, Rest(r) - 1)
<1> DEFINE found == [r EXCEPT !.act.F = @ + 1, !.n.F = 1, !.idm = x.data,
                              !.tags = @ \cup {"F"} \cup (IF Kind[x.data].plat = "P2P" THEN {"F P2P"} ELSE {"T3T"})]
           atr == [found EXCEPT !.pc = "f.atr"]
           again == [r EXCEPT !.tries = @ - 1]
           gone == [r EXCEPT !.act.F = @ + 1]
<1>1. InLoop(r) /\ r.tries \in Nat \ {0}
  BY DEF InLoop, WellPlaced, Polling
<1>2. Later(r) \in Nat /\ Rest(r) = r.tries + 1 + Later(r)
  BY <1>1, CostsAreNumbers DEF InLoop, IsCall, Rest
<1>3. IsReader(found) /\ IsReader(again) /\ IsReader(gone)
  BY DEF IsCall, IsReader
<1>4. found.pc = r.pc /\ found.cfg = r.cfg /\ found.op = r.op /\ found.sent = r.sent /\ found.loop = r.loop
  BY DEF IsCall, IsReader, Fields
<1>5. again.pc = r.pc /\ again.cfg = r.cfg /\ again.op = r.op /\ again.sent = r.sent /\ again.loop = r.loop
      /\ again.tries = r.tries - 1
  BY DEF IsCall, IsReader, Fields
<1>6. gone.cfg = r.cfg /\ gone.op = r.op /\ gone.sent = r.sent /\ gone.loop = r.loop
  BY DEF IsCall, IsReader, Fields
<1> HIDE DEF found
<1>7. atr.pc = "f.atr" /\ atr.cfg = r.cfg /\ atr.op = r.op /\ atr.sent = r.sent /\ atr.loop = r.loop /\ IsReader(atr)
  BY <1>3, <1>4 DEF IsReader, Fields
<1> HIDE DEF atr, again, gone
<1>8. GoesOn(atr, r, Rest(r) - 1)
  <2>1. Rest(atr) = 1 + Later(r)
    BY <1>7, CostsAreOfConfig DEF Rest
  <2> QED
    BY <1>1, <1>2, <1>7, <2>1 DEF GoesOn, InLoop, IsCall, WellPlaced, Polling, Activating
<1>9. ASSUME r.tries > 1
      PROVE  GoesOn(again, r, Rest(r) - 1)
  <2>1. Rest(again) = r.tries - 1 + 1 + Later(r)
    BY <1>5, CostsAreOfConfig DEF Rest
  <2> QED
    BY <1>1, <1>2, <1>3, <1>5, <1>9, <2>1 DEF GoesOn, InLoop, IsCall, WellPlaced, Polling, Activating
<1>10. GoesOn(EndOfLoop(found), r, Rest(r) - 1) /\ GoesOn(EndOfLoop(gone), r, Rest(r) - 1)
  <2>1. InLoop(found) /\ InLoop(gone) /\ Later(found) = Later(r) /\ Later(gone) = Later(r)
    BY <1>1, <1>3, <1>4, <1>6, CostsAreOfConfig DEF InLoop, IsCall
  <2>2. GoesOn(EndOfLoop(found), found, Later(r)) /\ GoesOn(EndOfLoop(gone), gone, Later(r))
    BY <2>1, EndOfLoopGoesOn
  <2>3. Rest(r) - 1 \in Nat /\ Later(r) <= Rest(r) - 1
    BY <1>1, <1>2
  <2> QED
    BY <1>2, <1>4, <1>6, <2>2, <2>3, GoesOnFrom
<1>11. \/ DetectF(r, x) = atr
       \/ DetectF(r, x) = EndOfLoop(found)
       \/ r.tries > 1 /\ DetectF(r, x) = again
       \/ DetectF(r, x) = EndOfLoop(gone)
  <2> DEFINE peer == Ok(x) /\ Kind[x.data].plat = "P2P"
  <2>1. CASE Ok(x) /\ peer
    BY <2>1 DEF DetectF, atr, found
  <2>2. CASE Ok(x) /\ ~peer
    BY <2>2 DEF DetectF, found
  <2>3. CASE ~Ok(x)
    BY <2>3 DEF DetectF, again, gone
  <2> QED
    BY <2>1, <2>2, <2>3
<1> QED
  BY <1>1, <1>2, <1>8, <1>9, <1>10, <1>11

LEMMA AtrFGoesOn ==
  ASSUME NEW r, NEW x, IsCall(r), WellPlaced(r), r.pc = "f.atr"
  PROVE  Rest(r) \in Nat \ {0} /\ GoesOn(AtrF(r, x), r, Rest(r) - 1)
<1> DEFINE s == [r EXCEPT !.act.F = @ - 1]
<1>1. InLoop(r)
  BY DEF InLoop, WellPlaced, Polling
<1>2. Later(r) \in Nat /\ Rest(r) = 1 + Later(r)
  BY <1>1, CostsAreNumbers DEF InLoop, IsCall, Rest
<1>3. IsReader(s)
  BY DEF IsCall, IsReader
<1>4. s.cfg = r.cfg /\ s.op = r.op /\ s.sent = r.sent
  BY DEF IsCall, IsReader, Fields
<1> HIDE DEF s
<1>5. GoesOn(Return(s, x.status), r, Rest(r) - 1)
  BY <1>2, <1>3, <1>4, ReturnReturns, GoesOnFrom DEF IsCall
<1>6. GoesOn(EndOfLoop(r), r, Rest(r) - 1)
  BY <1>1, <1>2, EndOfLoopGoesOn, GoesOnFrom
<1> QED
  BY <1>2, <1>5, <1>6 DEF AtrF, s

\* Type B.
LEMMA ActivatedBGoesOn ==
  ASSUME NEW r, NEW status, Runs(r)
  PROVE  GoesOn(ActivatedB(r, status), r, AfterB(r))
<1> DEFINE s == [r EXCEPT !.tags = @ \cup {"B"}, !.n.B = @ + 1, !.act.B = @ + 1]
           t == [r EXCEPT !.target = None]
<1>1. AfterB(r) \in Nat
  BY CostsAreNumbers DEF Runs, IsCall
<1>2. IsReader(s) /\ IsReader(t)
  BY DEF Runs, IsCall, IsReader
<1>3. s.cfg = r.cfg /\ s.op = r.op /\ s.sent = r.sent /\ t.cfg = r.cfg /\ t.op = r.op /\ t.sent = r.sent /\ t.loop = r.loop
  BY DEF Runs, IsCall, IsReader, Fields
<1> HIDE DEF s, t
<1>4. GoesOn(Return(r, status), r, AfterB(r))
  BY <1>1, ReturnReturns DEF Runs
<1>5. GoesOn(Return(s, status), r, AfterB(r))
  BY <1>1, <1>2, <1>3, ReturnReturns, GoesOnFrom DEF Runs, IsCall
<1>6. ASSUME r.op = "start"
      PROVE  GoesOn(PhaseF(t), r, AfterB(r))
  <2>1. InLoop(t) /\ PollingF + Later(t) = AfterB(r)
    BY <1>2, <1>3, <1>6, CostsAreOfConfig DEF Runs, InLoop, IsCall, AfterB
  <2> QED
    BY <1>1, <1>3, <2>1, PhaseFGoesOn, GoesOnFrom
<1> QED
  BY <1>4, <1>5, <1>6 DEF ActivatedB, s, t

LEMMA ActivateBGoesOn ==
  ASSUME NEW r, Runs(r)
  PROVE  GoesOn(ActivateB(r), r, 2 + Slots(r) + AfterB(r))
<1> DEFINE s == ActivateB(r)
<1>1. AfterB(r) \in Nat /\ Slots(r) \in Nat
  BY CostsAreNumbers DEF Runs, IsCall
<1>2. IsReader(s)
  BY DEF Runs, IsCall, IsReader, ActivateB
<1>3. s.pc = "bb.req" /\ s.slot = 2 /\ s.cfg = r.cfg /\ s.op = r.op /\ s.sent = r.sent /\ s.loop = r.loop
  BY DEF Runs, IsCall, IsReader, Fields, ActivateB
<1> HIDE DEF s
<1>4. Rest(s) = 2 + Slots(r) + AfterB(r)
  BY <1>3, CostsAreOfConfig DEF Rest
<1>5. GoesOn(s, r, 2 + Slots(r) + AfterB(r))
  BY <1>1, <1>2, <1>3, <1>4 DEF GoesOn, Runs, IsCall, WellPlaced, Polling, Activating
<1> QED
  BY <1>5 DEF s

LEMMA TakeSlotGoesOn ==
  ASSUME NEW r, NEW x, Runs(r), NEW m \in Nat \ {0},
         r.slot \in Nat \ {0, 1}, m >= Slots(r) - r.slot + 2
  PROVE  GoesOn(TakeSlot(r, x), r, m + AfterB(r))
<1> DEFINE first == IF r.first = "IO_TIMEOUT" THEN x.status ELSE r.first
           s == CheckATQB(r, x)
           hit == [s EXCEPT !.pc = "bb.attrib", !.first = first]
           next == [s EXCEPT !.pc = "bb.slot", !.first = first]
<1>1. AfterB(r) \in Nat /\ Slots(r) \in Nat
  BY CostsAreNumbers DEF Runs, IsCall
<1>2. IsReader(s)
  BY DEF Runs, IsCall, IsReader, CheckATQB
<1>3. s.cfg = r.cfg /\ s.op = r.op /\ s.sent = r.sent /\ s.loop = r.loop /\ s.slot = r.slot
  BY DEF Runs, IsCall, IsReader, Fields, CheckATQB
<1> HIDE DEF s
<1>4. IsReader(hit) /\ IsReader(next)
  BY <1>2 DEF IsReader
<1>5. hit.pc = "bb.attrib" /\ hit.cfg = r.cfg /\ hit.op = r.op /\ hit.sent = r.sent /\ hit.loop = r.loop
  BY <1>2, <1>3 DEF IsReader, Fields
<1>6. next.pc = "bb.slot" /\ next.cfg = r.cfg /\ next.op = r.op /\ next.sent = r.sent /\ next.loop = r.loop /\ next.slot = r.slot
  BY <1>2, <1>3 DEF IsReader, Fields
<1> HIDE DEF hit, next
<1>7. GoesOn(hit, r, m + AfterB(r))
  <2>1. Rest(hit) = 1 + AfterB(r)
    BY <1>5, CostsAreOfConfig DEF Rest
  <2> QED
    BY <1>1, <1>4, <1>5, <2>1 DEF GoesOn, Runs, IsCall, WellPlaced, Polling, Activating
<1>8. ASSUME ~(r.slot > Slots(r))
      PROVE  GoesOn(next, r, m + AfterB(r))
  <2>1. Rest(next) = Slots(r) - r.slot + 2 + AfterB(r) /\ Slots(next) = Slots(r)
    BY <1>6, CostsAreOfConfig DEF Rest
  <2> QED
    BY <1>1, <1>4, <1>6, <1>8, <2>1 DEF GoesOn, Runs, IsCall, WellPlaced, Polling, Activating
<1>9. GoesOn(ActivatedB(s, first), r, m + AfterB(r))
  <2>1. Runs(s) /\ AfterB(s) = AfterB(r)
    BY <1>2, <1>3, CostsAreOfConfig DEF Runs, IsCall
  <2> QED
    BY <1>1, <1>3, <2>1, ActivatedBGoesOn, GoesOnFrom
<1>10. TakeSlot(r, x) \in {hit, next, ActivatedB(s, first)}
       /\ (TakeSlot(r, x) = next => ~(r.slot > Slots(r)) \/ next = hit \/ next = ActivatedB(s, first))
  BY DEF TakeSlot, hit, next, s
<1> QED
  BY <1>7, <1>8, <1>9, <1>10

LEMMA RunsOn ==
  ASSUME NEW r, IsCall(r), WellPlaced(r), r.pc # "idle"
  PROVE  /\ Runs(r) /\ (r.pc \in Polling => InLoop(r))
         /\ r.op = "start" => Later(r) \in Nat
         /\ AfterB(r) \in Nat
<1>1. Runs(r) /\ (r.pc \in Polling => InLoop(r))
  BY DEF Runs, WellPlaced, InLoop
<1>2. r.op = "start" => Later(r) \in Nat
  BY <1>1, CostsAreNumbers DEF Runs, IsCall
<1>3. PollingF \in Nat /\ AfterB(r) = IF r.op = "start" THEN PollingF + Later(r) ELSE 0
  BY CostsAreNumbers DEF IsCall
<1> QED
  BY <1>1, <1>2, <1>3

LEMMA RequestedBGoesOn ==
  ASSUME NEW r, NEW x, IsCall(r), WellPlaced(r), r.pc = "bb.req"
  PROVE  Rest(r) \in Nat \ {0} /\ GoesOn(TakeSlot([r EXCEPT !.answered = None], x), r, Rest(r) - 1)
<1> DEFINE s == [r EXCEPT !.answered = None]
<1>1. Runs(r) /\ Slots(r) \in Nat /\ AfterB(r) \in Nat /\ Rest(r) = 2 + Slots(r) + AfterB(r)
  BY RunsOn, CostsAreNumbers DEF IsCall, Rest
<1>2. IsReader(s)
  BY DEF IsCall, IsReader
<1>3. s.cfg = r.cfg /\ s.op = r.op /\ s.sent = r.sent /\ s.loop = r.loop /\ s.slot = 2
  BY DEF IsCall, IsReader, Fields, WellPlaced
<1> HIDE DEF s
<1>4. Runs(s) /\ AfterB(s) = AfterB(r) /\ Slots(s) = Slots(r)
  BY <1>1, <1>2, <1>3, CostsAreOfConfig DEF Runs, IsCall
<1>5. GoesOn(TakeSlot(s, x), s, Slots(r) + 1 + AfterB(r))
  BY <1>1, <1>3, <1>4, TakeSlotGoesOn, Slots(r) + 1 \in Nat \ {0}, Slots(r) + 1 >= Slots(r) - 2 + 2
<1>6. Slots(r) + 1 + AfterB(r) = Rest(r) - 1 /\ Rest(r) \in Nat \ {0}
  BY <1>1
<1>7. GoesOn(TakeSlot(s, x), r, Rest(r) - 1)
  BY <1>3, <1>5, <1>6, GoesOnFrom
<1> QED
  BY <1>6, <1>7 DEF s

LEMMA SlotMarkerGoesOn ==
  ASSUME NEW r, NEW x, IsCall(r), WellPlaced(r), r.pc = "bb.slot"
  PROVE  Rest(r) \in Nat \ {0} /\ GoesOn(SlotMarker(r, x), r, Rest(r) - 1)
<1> DEFINE s == [r EXCEPT !.slot = @ + 1]
<1>1. Runs(r) /\ Slots(r) \in Nat /\ AfterB(r) \in Nat /\ Rest(r) = Slots(r) - r.slot + 2 + AfterB(r)
  BY RunsOn, CostsAreNumbers DEF IsCall, Rest
<1>2. IsReader(s)
  BY DEF IsCall, IsReader
<1>3. s.cfg = r.cfg /\ s.op = r.op /\ s.sent = r.sent /\ s.loop = r.loop /\ s.slot = r.slot + 1
  BY DEF IsCall, IsReader, Fields
<1> HIDE DEF s
<1>4. Runs(s) /\ AfterB(s) = AfterB(r) /\ Slots(s) = Slots(r)
  BY <1>1, <1>2, <1>3, CostsAreOfConfig DEF Runs, IsCall
<1>5. r.slot \in 2 .. Slots(r)
  BY DEF WellPlaced
<1>6. GoesOn(TakeSlot(s, x), s, Slots(r) - r.slot + 1 + AfterB(r))
  <2>1. s.slot \in Nat \ {0, 1} /\ Slots(r) - r.slot + 1 \in Nat \ {0} /\ Slots(r) - r.slot + 1 >= Slots(r) - s.slot + 2
    BY <1>1, <1>3, <1>5
  <2> QED
    BY <1>4, <2>1, TakeSlotGoesOn
<1>7. Rest(r) - 1 = Slots(r) - r.slot + 1 + AfterB(r) /\ Rest(r) \in Nat \ {0}
  BY <1>1, <1>5
<1>8. SlotMarker(r, x) = TakeSlot(s, x)
  BY DEF SlotMarker, s
<1> QED
  BY <1>3, <1>6, <1>7, <1>8, GoesOnFrom

LEMMA AttribGoesOn ==
  ASSUME NEW r, NEW x, IsCall(r), WellPlaced(r), r.pc = "bb.attrib"
  PROVE  Rest(r) \in Nat \ {0} /\ GoesOn(Attrib(r, x), r, Rest(r) - 1)
<1> DEFINE s == [r EXCEPT !.rate = DecideBaudRate(r.answered, r.cfg.rate)]
           t == [r EXCEPT !.answered = None]
<1>1. Runs(r) /\ AfterB(r) \in Nat /\ Rest(r) = 1 + AfterB(r)
  BY RunsOn DEF Rest
<1>2. IsReader(s) /\ IsReader(t)
  BY DEF IsCall, IsReader
<1>3. s.cfg = r.cfg /\ s.op = r.op /\ s.sent = r.sent /\ s.loop = r.loop
      /\ t.cfg = r.cfg /\ t.op = r.op /\ t.sent = r.sent /\ t.loop = r.loop
  BY DEF IsCall, IsReader, Fields
<1> HIDE DEF s, t
<1>4. Runs(s) /\ AfterB(s) = AfterB(r) /\ Runs(t) /\ AfterB(t) = AfterB(r)
  BY <1>1, <1>2, <1>3, CostsAreOfConfig DEF Runs, IsCall
<1>5. GoesOn(ActivatedB(s, "SUCCESS"), r, AfterB(r)) /\ GoesOn(ActivatedB(t, x.status), r, AfterB(r))
  BY <1>1, <1>3, <1>4, ActivatedBGoesOn, GoesOnFrom
<1> QED
  BY <1>1, <1>5 DEF Attrib, s, t

LEMMA DetectedBGoesOn ==
  ASSUME NEW r, InLoop(r)
  PROVE  GoesOn(DetectedB(r), r, 2 + Slots(r) + PollingF + Later(r))
<1>1. Runs(r) /\ AfterB(r) = PollingF + Later(r) /\ Later(r) \in Nat /\ PollingF \in Nat /\ Slots(r) \in Nat
  BY CostsAreNumbers DEF InLoop, IsCall, Runs
<1>2. 2 + Slots(r) + PollingF + Later(r) = 2 + Slots(r) + AfterB(r) /\ 2 + Slots(r) + PollingF + Later(r) \in Nat
  BY <1>1
<1>3. GoesOn(Return(r, "SUCCESS"), r, 2 + Slots(r) + PollingF + Later(r))
  BY <1>2, ReturnReturns DEF InLoop
<1>4. GoesOn(ActivateB(r), r, 2 + Slots(r) + PollingF + Later(r))
  BY <1>1, <1>2, ActivateBGoesOn
<1>5. GoesOn(PhaseF(r), r, 2 + Slots(r) + PollingF + Later(r))
  BY <1>1, <1>2, PhaseFGoesOn, GoesOnFrom
<1> QED
  BY <1>3, <1>4, <1>5 DEF DetectedB

LEMMA DetectBGoesOn ==
  ASSUME NEW r, NEW x, IsCall(r), WellPlaced(r), r.pc = "b.req"
  PROVE  Rest(r) \in Nat \ {0} /\ GoesOn(DetectB([r EXCEPT !.answered = None], x), r, Rest(r) - 1)
<1> DEFINE q == [r EXCEPT !.answered = None]
           s == CheckATQB(q, x)
           found == [s EXCEPT !.n.B = 1, !.pupi = x.data, !.tags = @ \cup {"B"}]
           again == [s EXCEPT !.tries = @ - 1]
<1>1. InLoop(r) /\ Slots(r) \in Nat /\ Later(r) \in Nat /\ PollingF \in Nat /\ r.tries \in Nat \ {0}
      /\ Rest(r) = r.tries + 2 + Slots(r) + PollingF + Later(r)
  BY RunsOn, CostsAreNumbers DEF IsCall, Rest, Polling, WellPlaced
<1>2. IsReader(q)
  BY DEF IsCall, IsReader
<1>3. q.pc = r.pc /\ q.cfg = r.cfg /\ q.op = r.op /\ q.sent = r.sent /\ q.loop = r.loop /\ q.tries = r.tries
  BY DEF IsCall, IsReader, Fields
<1> HIDE DEF q
<1>4. IsReader(s)
  BY <1>2 DEF IsReader, CheckATQB
<1>5. s.pc = r.pc /\ s.cfg = r.cfg /\ s.op = r.op /\ s.sent = r.sent /\ s.loop = r.loop /\ s.tries = r.tries
  BY <1>2, <1>3 DEF IsReader, Fields, CheckATQB
<1> HIDE DEF s
<1>6. IsReader(found) /\ IsReader(again)
  BY <1>4 DEF IsReader
<1>7. found.cfg = r.cfg /\ found.op = r.op /\ found.sent = r.sent /\ found.loop = r.loop
  BY <1>4, <1>5 DEF IsReader, Fields
<1>8. again.pc = r.pc /\ again.cfg = r.cfg /\ again.op = r.op /\ again.sent = r.sent /\ again.loop = r.loop
      /\ again.tries = r.tries - 1
  BY <1>4, <1>5 DEF IsReader, Fields
<1> HIDE DEF found, again
<1>9. GoesOn(DetectedB(found), r, Rest(r) - 1)
  <2>1. InLoop(found) /\ Slots(found) = Slots(r) /\ Later(found) = Later(r)
    BY <1>1, <1>6, <1>7, CostsAreOfConfig DEF InLoop, IsCall
  <2>2. GoesOn(DetectedB(found), found, 2 + Slots(r) + PollingF + Later(r))
    BY <2>1, DetectedBGoesOn
  <2>3. 2 + Slots(r) + PollingF + Later(r) \in Nat /\ Rest(r) - 1 \in Nat /\ 2 + Slots(r) + PollingF + Later(r) <= Rest(r) - 1
    BY <1>1
  <2> QED
    BY <1>7, <2>2, <2>3, GoesOnFrom
<1>10. ASSUME r.tries > 1
       PROVE  GoesOn(again, r, Rest(r) - 1)
  <2>1. Rest(again) = r.tries - 1 + 2 + Slots(r) + PollingF + Later(r)
    BY <1>8, CostsAreOfConfig DEF Rest
  <2> QED
    BY <1>1, <1>6, <1>8, <1>10, <2>1 DEF GoesOn, InLoop, IsCall, WellPlaced, Polling, Activating
<1>11. GoesOn(PhaseF(s), r, Rest(r) - 1)
  <2>1. InLoop(s) /\ Later(s) = Later(r)
    BY <1>1, <1>4, <1>5, CostsAreOfConfig DEF InLoop, IsCall
  <2>2. GoesOn(PhaseF(s), s, PollingF + Later(r))
    BY <2>1, PhaseFGoesOn
  <2>3. PollingF + Later(r) \in Nat /\ Rest(r) - 1 \in Nat /\ PollingF + Later(r) <= Rest(r) - 1
    BY <1>1
  <2> QED
    BY <1>5, <2>2, <2>3, GoesOnFrom
<1>12. \/ DetectB(q, x) = DetectedB(found)
       \/ r.tries > 1 /\ DetectB(q, x) = again
       \/ DetectB(q, x) = PhaseF(s)
  BY <1>3 DEF DetectB, s, found, again
<1> QED
  BY <1>1, <1>9, <1>10, <1>11, <1>12 DEF q

LEMMA PhaseBGoesOn ==
  ASSUME NEW r, InLoop(r)
  PROVE  GoesOn(PhaseB(r), r, PollingB(r) + PollingF + Later(r))
<1> DEFINE s == [r EXCEPT !.pc = "b.req", !.tries = PollLimit, !.n.B = 0, !.tags = @ \ {"B"}, !.rate = Lowest]
           k == PollingB(r) + PollingF + Later(r)
<1>1. Runs(r) /\ AfterB(r) = PollingF + Later(r) /\ Later(r) \in Nat /\ PollingF \in Nat /\ Slots(r) \in Nat
      /\ PollingB(r) = PollLimit + 2 + Slots(r) /\ PollLimit \in Nat \ {0}
  BY CostsAreNumbers, LimitAssumption DEF InLoop, IsCall, Runs
<1>2. k \in Nat /\ PollingF + Later(r) <= k /\ 2 + Slots(r) + AfterB(r) <= k /\ 2 + Slots(r) + AfterB(r) \in Nat
  BY <1>1
<1>3. IsReader(s)
  BY DEF InLoop, IsCall, IsReader
<1>4. s.pc = "b.req" /\ s.cfg = r.cfg /\ s.op = r.op /\ s.sent = r.sent /\ s.loop = r.loop /\ s.tries = PollLimit
  BY DEF InLoop, IsCall, IsReader, Fields
<1> HIDE DEF s
<1>5. GoesOn(s, r, k)
  <2>1. Rest(s) = PollLimit + 2 + Slots(r) + PollingF + Later(r)
    BY <1>4, CostsAreOfConfig DEF Rest
  <2> QED
    BY <1>1, <1>3, <1>4, <2>1 DEF GoesOn, InLoop, IsCall, WellPlaced, Polling, Activating
<1> HIDE DEF k
<1>6. GoesOn(PhaseF(r), r, k)
  BY <1>1, <1>2, PhaseFGoesOn, GoesOnFrom
<1>7. GoesOn(Return(r, "SUCCESS"), r, k)
  BY <1>2, ReturnReturns DEF InLoop
<1>8. GoesOn(ActivateB(r), r, k)
  BY <1>1, <1>2, ActivateBGoesOn, GoesOnFrom
<1> QED
  BY <1>5, <1>6, <1>7, <1>8 DEF PhaseB, s, k

\* What is known of the answers of cards of type A: a collision is beyond the
\* bits the reader sent, and in the part; only the first part of an identifier
\* is followed by another.
CollidesBeyond(x, uid) ==
  x.status = "COLLISION_ERROR" => x.data \in Seq(0 .. 1) /\ Len(uid) <= Len(x.data) /\ Len(x.data) < PartLen
CascadesOnce(x, lvl) == Ok(x) /\ x.data.cascade => lvl = 1

\* Type A: the activation of a tag.
LEMMA DoneAGoesOn ==
  ASSUME NEW r, NEW status, IsCall(r), NEW k \in Nat
  PROVE  GoesOn(DoneA(r, status), r, k)
<1> DEFINE s == [r EXCEPT !.act.A = @ + 1]
<1>1. IsReader(s)
  BY DEF IsCall, IsReader
<1>2. s.cfg = r.cfg /\ s.op = r.op /\ s.sent = r.sent
  BY DEF IsCall, IsReader, Fields
<1> HIDE DEF s
<1>3. GoesOn(Return(s, status), r, k)
  BY <1>1, <1>2, ReturnReturns, GoesOnFrom DEF IsCall
<1> QED
  BY <1>3 DEF DoneA, ActivatedA, s

LEMMA PeerGoesOn ==
  ASSUME NEW r, NEW status, Runs(r)
  PROVE  GoesOn(Peer(r, status), r, 1)
<1> DEFINE s == [r EXCEPT !.pc = "a.atr"]
<1>1. IsReader(s)
  BY DEF Runs, IsCall, IsReader
<1>2. s.pc = "a.atr" /\ s.cfg = r.cfg /\ s.op = r.op /\ s.sent = r.sent /\ s.loop = r.loop
  BY DEF Runs, IsCall, IsReader, Fields
<1> HIDE DEF s
<1>3. GoesOn(s, r, 1)
  BY <1>1, <1>2 DEF GoesOn, Runs, IsCall, WellPlaced, Polling, Activating, Rest
<1> QED
  BY <1>3, DoneAGoesOn DEF Peer, s, Runs

LEMMA Layer4GoesOn ==
  ASSUME NEW r, Runs(r)
  PROVE  GoesOn(Layer4(r), r, 4)
<1> DEFINE s == [r EXCEPT !.pc = "a.rats"]
<1>1. IsReader(s)
  BY DEF Runs, IsCall, IsReader
<1>2. s.pc = "a.rats" /\ s.cfg = r.cfg /\ s.op = r.op /\ s.sent = r.sent /\ s.loop = r.loop
  BY DEF Runs, IsCall, IsReader, Fields
<1> HIDE DEF s
<1>3. GoesOn(s, r, 4)
  BY <1>1, <1>2 DEF GoesOn, Runs, IsCall, WellPlaced, Polling, Activating, Rest
<1>4. GoesOn(Peer(r, "SUCCESS"), r, 4)
  BY PeerGoesOn, GoesOnFrom
<1> QED
  BY <1>3, <1>4 DEF Layer4, s

LEMMA RatsGoesOn ==
  ASSUME NEW r, NEW x, IsCall(r), WellPlaced(r), r.pc = "a.rats"
  PROVE  Rest(r) = 4 /\ GoesOn(Rats(r, x), r, 3)
<1> DEFINE s == [r EXCEPT !.pc = "a.pps"]
           t == [r EXCEPT !.pc = "a.deselect", !.first = x.status]
<1>1. Runs(r) /\ Rest(r) = 4
  BY RunsOn DEF Rest
<1>2. IsReader(s) /\ IsReader(t)
  BY DEF IsCall, IsReader
<1>3. s.pc = "a.pps" /\ s.cfg = r.cfg /\ s.op = r.op /\ s.sent = r.sent /\ s.loop = r.loop
  BY DEF IsCall, IsReader, Fields
<1>4. t.pc = "a.deselect" /\ t.cfg = r.cfg /\ t.op = r.op /\ t.sent = r.sent /\ t.loop = r.loop
  BY DEF IsCall, IsReader, Fields
<1> HIDE DEF s, t
<1>5. GoesOn(s, r, 3)
  BY <1>1, <1>2, <1>3 DEF GoesOn, Runs, IsCall, WellPlaced, Polling, Activating, Rest
<1>6. GoesOn(t, r, 3)
  BY <1>1, <1>2, <1>4 DEF GoesOn, Runs, IsCall, WellPlaced, Polling, Activating, Rest
<1>7. GoesOn(Peer(r, "SUCCESS"), r, 3)
  BY <1>1, PeerGoesOn, GoesOnFrom
<1> QED
  BY <1>1, <1>5, <1>6, <1>7 DEF Rats, s, t

LEMMA DeselectGoesOn ==
  ASSUME NEW r, NEW x, IsCall(r), WellPlaced(r), r.pc = "a.deselect"
  PROVE  Rest(r) = 3 /\ GoesOn(Deselect(r, x), r, 2)
<1> DEFINE s == [r EXCEPT !.pc = "a.hlta"]
<1>1. Runs(r) /\ Rest(r) = 3
  BY RunsOn DEF Rest
<1>2. IsReader(s)
  BY DEF IsCall, IsReader
<1>3. s.pc = "a.hlta" /\ s.cfg = r.cfg /\ s.op = r.op /\ s.sent = r.sent /\ s.loop = r.loop
  BY DEF IsCall, IsReader, Fields
<1> HIDE DEF s
<1>4. GoesOn(s, r, 2)
  BY <1>1, <1>2, <1>3 DEF GoesOn, Runs, IsCall, WellPlaced, Polling, Activating, Rest
<1>5. GoesOn(Peer(r, r.first), r, 2)
  BY <1>1, PeerGoesOn, GoesOnFrom
<1> QED
  BY <1>1, <1>4, <1>5 DEF Deselect, s

LEMMA PpsGoesOn ==
  ASSUME NEW r, NEW x, IsCall(r), WellPlaced(r), r.pc = "a.pps"
  PROVE  Rest(r) = 2 /\ GoesOn(Pps(r, x), r, 1)
<1> DEFINE s == [r EXCEPT !.rate = r.cfg.rate]
<1>1. Runs(r) /\ Rest(r) = 2
  BY RunsOn DEF Rest
<1>2. IsReader(s)
  BY DEF IsCall, IsReader
<1>3. s.cfg = r.cfg /\ s.op = r.op /\ s.sent = r.sent /\ s.loop = r.loop
  BY DEF IsCall, IsReader, Fields
<1> HIDE DEF s
<1>4. GoesOn(Peer(s, "SUCCESS"), r, 1)
  BY <1>1, <1>2, <1>3, PeerGoesOn, GoesOnFrom DEF Runs, IsCall
<1>5. GoesOn(Peer(r, x.status), r, 1)
  BY <1>1, PeerGoesOn
<1> QED
  BY <1>1, <1>4, <1>5 DEF Pps, s

LEMMA CardAGoesOn ==
  ASSUME NEW r, NEW status, Runs(r), NEW k \in Nat, k >= 4
  PROVE  GoesOn(CardA(r, status), r, k)
<1>1. GoesOn(Layer4(r), r, k)
  BY Layer4GoesOn, GoesOnFrom
<1>2. GoesOn(Return(r, status), r, k)
  BY ReturnReturns DEF Runs
<1> QED
  BY <1>1, <1>2 DEF CardA

LEMMA LevelGoesOn ==
  ASSUME NEW r, Runs(r), r.lvl \in {1, 2}
  PROVE  GoesOn(Level(r), r, OtherLevel(r) + OfLevel + 4)
<1> DEFINE s == [r EXCEPT !.pc = "aa.select", !.uid = SubSeq(r.given, r.at + 1, r.at + PartLen)]
           t == [r EXCEPT !.pc = "aa.select", !.uid = <<1>> \o SubSeq(r.given, r.at + 1, r.at + PartLen - 1), !.at = @ + PartLen - 1]
           u == [r EXCEPT !.pc = "aa.anticoll", !.uid = <<>>]
           k == OtherLevel(r) + OfLevel + 4
<1>1. OfLevel \in Nat /\ OfLevel = PartLen + 1 /\ OtherLevel(r) \in Nat /\ k \in Nat /\ PartLen \in Nat \ {0, 1}
  BY CostsAreNumbers, PartAssumption DEF OtherLevel, Runs, IsCall
<1>2. IsReader(s) /\ IsReader(t) /\ IsReader(u)
  BY DEF Runs, IsCall, IsReader
<1>3. s.pc = "aa.select" /\ s.cfg = r.cfg /\ s.op = r.op /\ s.sent = r.sent /\ s.loop = r.loop /\ s.lvl = r.lvl
  BY DEF Runs, IsCall, IsReader, Fields
<1>4. t.pc = "aa.select" /\ t.cfg = r.cfg /\ t.op = r.op /\ t.sent = r.sent /\ t.loop = r.loop /\ t.lvl = r.lvl
  BY DEF Runs, IsCall, IsReader, Fields
<1>5. u.pc = "aa.anticoll" /\ u.cfg = r.cfg /\ u.op = r.op /\ u.sent = r.sent /\ u.loop = r.loop /\ u.lvl = r.lvl /\ u.uid = <<>>
  BY DEF Runs, IsCall, IsReader, Fields
<1> HIDE DEF s, t, u
<1>6. Rest(s) = OtherLevel(r) + 5 /\ Rest(t) = OtherLevel(r) + 5 /\ Rest(u) = OtherLevel(r) + PartLen - 0 + 5
  BY <1>3, <1>4, <1>5 DEF Rest, OtherLevel
<1>7. Rest(s) \in 0 .. k /\ Rest(t) \in 0 .. k /\ Rest(u) \in 0 .. k
  BY <1>1, <1>6
<1> HIDE DEF k
<1>8. GoesOn(s, r, k)
  BY <1>2, <1>3, <1>7 DEF GoesOn, Runs, IsCall, WellPlaced, Polling, Activating
<1>9. GoesOn(t, r, k)
  BY <1>2, <1>4, <1>7 DEF GoesOn, Runs, IsCall, WellPlaced, Polling, Activating
<1>10. GoesOn(u, r, k)
  <2>1. u.uid \in Seq(0 .. 1) /\ Len(u.uid) < PartLen
    BY <1>1, <1>5
  <2> QED
    BY <1>2, <1>5, <1>7, <2>1 DEF GoesOn, Runs, IsCall, WellPlaced, Polling, Activating
<1> QED
  BY <1>8, <1>9, <1>10 DEF Level, s, t, u, k

LEMMA WakeUpGoesOn ==
  ASSUME NEW r, NEW x, IsCall(r), WellPlaced(r), r.pc = "aa.wake"
  PROVE  Rest(r) \in Nat \ {0} /\ GoesOn(WakeUp(r, x), r, Rest(r) - 1)
<1> DEFINE s == [r EXCEPT !.lvl = 1]
<1>1. Runs(r) /\ OfLevel \in Nat /\ Rest(r) = 5 + 2 * OfLevel
  BY RunsOn, CostsAreNumbers DEF Rest, IsCall
<1>2. IsReader(s)
  BY DEF IsCall, IsReader
<1>3. s.cfg = r.cfg /\ s.op = r.op /\ s.sent = r.sent /\ s.loop = r.loop /\ s.lvl = 1
  BY DEF IsCall, IsReader, Fields
<1> HIDE DEF s
<1>4. GoesOn(Level(s), s, OfLevel + OfLevel + 4)
  BY <1>1, <1>2, <1>3, LevelGoesOn DEF Runs, IsCall, OtherLevel
<1>5. GoesOn(Level(s), r, Rest(r) - 1)
  <2>1. OfLevel + OfLevel + 4 = Rest(r) - 1 /\ Rest(r) - 1 \in Nat
    BY <1>1
  <2> QED
    BY <1>3, <1>4, <2>1, GoesOnFrom
<1>6. GoesOn(CardA(r, x.status), r, Rest(r) - 1)
  <2>1. Rest(r) - 1 \in Nat /\ Rest(r) - 1 >= 4
    BY <1>1
  <2> QED
    BY <1>1, <2>1, CardAGoesOn
<1> QED
  BY <1>1, <1>5, <1>6 DEF WakeUp, s

LEMMA ForgetForgets ==
  ASSUME NEW r, IsCall(r)
  PROVE  LET s == Forget(r) IN
         /\ IsReader(s) /\ s.pc = r.pc /\ s.cfg = r.cfg /\ s.op = r.op /\ s.sent = r.sent /\ s.loop = r.loop
         /\ s.lvl = r.lvl /\ s.round = r.round /\ s.uid = r.uid
  BY DEF IsCall, IsReader, Fields, Forget

LEMMA SelectedSelects ==
  ASSUME NEW r, NEW x, IsCall(r)
  PROVE  LET s == Selected(r, x) IN
         /\ IsReader(s) /\ s.pc = r.pc /\ s.cfg = r.cfg /\ s.op = r.op /\ s.sent = r.sent /\ s.loop = r.loop
         /\ s.lvl = r.lvl /\ s.round = r.round /\ s.uid = r.uid
<1> DEFINE s == Forget(r)
           t == [s EXCEPT !.complete = ~x.data.cascade, !.serial = @ \o (IF x.data.cascade THEN Tail(r.uid) ELSE r.uid)]
<1>1. /\ IsReader(s) /\ s.pc = r.pc /\ s.cfg = r.cfg /\ s.op = r.op /\ s.sent = r.sent /\ s.loop = r.loop
      /\ s.lvl = r.lvl /\ s.round = r.round /\ s.uid = r.uid
  BY ForgetForgets
<1> HIDE DEF s
<1>2. /\ IsReader(t) /\ t.pc = r.pc /\ t.cfg = r.cfg /\ t.op = r.op /\ t.sent = r.sent /\ t.loop = r.loop
      /\ t.lvl = r.lvl /\ t.round = r.round /\ t.uid = r.uid
  <2>1. IsReader(t)
    BY <1>1 DEF IsReader
  <2>2. t.pc = s.pc /\ t.cfg = s.cfg /\ t.op = s.op /\ t.sent = s.sent /\ t.loop = s.loop
        /\ t.lvl = s.lvl /\ t.round = s.round /\ t.uid = s.uid
    BY <1>1 DEF IsReader, Fields
  <2> QED
    BY <1>1, <2>1, <2>2
<1>3. Selected(r, x) \in {s, t}
  BY DEF Selected, s
<1> HIDE DEF t
<1> QED
  BY <1>1, <1>2, <1>3

LEMMA AfterCollisionIsLonger ==
  ASSUME NEW x, x.data \in Seq(0 .. 1)
  PROVE  AfterCollision(x) \in Seq(0 .. 1) /\ Len(AfterCollision(x)) = Len(x.data) + 1
  BY DEF AfterCollision

LEMMA AnticollisionOfGoesOn ==
  ASSUME NEW r, NEW x, IsCall(r), WellPlaced(r), r.pc = "aa.anticoll", CollidesBeyond(x, r.uid)
  PROVE  Rest(r) \in Nat \ {0} /\ GoesOn(AnticollisionOf(r, x), r, Rest(r) - 1)
<1> DEFINE q == Forget(r)
           s == [q EXCEPT !.pc = "aa.select", !.uid = x.data]
           t == [q EXCEPT !.uid = AfterCollision(x), !.pc = IF Len(x.data) + 1 = PartLen THEN "aa.select" ELSE @]
<1>1. Runs(r) /\ r.lvl \in {1, 2} /\ r.uid \in Seq(0 .. 1) /\ Len(r.uid) \in Nat /\ Len(r.uid) < PartLen /\ PartLen \in Nat
  BY RunsOn, PartAssumption DEF WellPlaced
<1>2. OtherLevel(r) \in Nat
  BY CostsAreNumbers DEF OtherLevel, IsCall
<1>3. Rest(r) = OtherLevel(r) + PartLen - Len(r.uid) + 5
  BY DEF Rest
<1>4. Rest(r) \in Nat \ {0} /\ Rest(r) - 1 >= OtherLevel(r) + 5
  BY <1>1, <1>2, <1>3
<1>5. /\ IsReader(q) /\ q.pc = r.pc /\ q.cfg = r.cfg /\ q.op = r.op /\ q.sent = r.sent /\ q.loop = r.loop /\ q.lvl = r.lvl
  BY ForgetForgets
<1> HIDE DEF q
<1>6. IsReader(s) /\ IsReader(t)
  BY <1>5 DEF IsReader
<1>7. s.pc = "aa.select" /\ s.cfg = r.cfg /\ s.op = r.op /\ s.sent = r.sent /\ s.loop = r.loop /\ s.lvl = r.lvl
  BY <1>5 DEF IsReader, Fields
<1>8. t.cfg = r.cfg /\ t.op = r.op /\ t.sent = r.sent /\ t.loop = r.loop /\ t.lvl = r.lvl /\ t.uid = AfterCollision(x)
      /\ t.pc = IF Len(x.data) + 1 = PartLen THEN "aa.select" ELSE "aa.anticoll"
  BY <1>5 DEF IsReader, Fields
<1> HIDE DEF s, t
<1>9. GoesOn(s, r, Rest(r) - 1)
  <2>1. Rest(s) = OtherLevel(r) + 5
    BY <1>7 DEF Rest, OtherLevel
  <2>2. Rest(s) \in 0 .. (Rest(r) - 1)
    BY <1>2, <1>4, <2>1
  <2> QED
    BY <1>1, <1>6, <1>7, <2>2 DEF GoesOn, Runs, IsCall, WellPlaced, Polling, Activating
<1>10. ASSUME x.status = "COLLISION_ERROR"
       PROVE  GoesOn(t, r, Rest(r) - 1)
  <2>1. x.data \in Seq(0 .. 1) /\ Len(x.data) \in Nat /\ Len(r.uid) <= Len(x.data) /\ Len(x.data) < PartLen
        /\ t.uid \in Seq(0 .. 1) /\ Len(t.uid) = Len(x.data) + 1
    BY <1>8, <1>10, AfterCollisionIsLonger DEF CollidesBeyond
  <2>2. CASE t.pc = "aa.select"
    <3>1. Rest(t) = OtherLevel(r) + 5
      BY <1>8, <2>2 DEF Rest, OtherLevel
    <3>2. Rest(t) \in 0 .. (Rest(r) - 1)
      BY <1>2, <1>4, <3>1
    <3> QED
      BY <1>1, <1>6, <1>8, <2>2, <3>2 DEF GoesOn, Runs, IsCall, WellPlaced, Polling, Activating
  <2>3. CASE t.pc = "aa.anticoll" /\ Len(x.data) + 1 # PartLen
    <3>1. Rest(t) = OtherLevel(r) + PartLen - (Len(x.data) + 1) + 5
      BY <1>8, <2>1, <2>3 DEF Rest, OtherLevel
    <3>2. /\ Len(x.data) \in Nat /\ Len(r.uid) \in Nat /\ PartLen \in Nat
          /\ Len(r.uid) <= Len(x.data) /\ Len(x.data) + 1 <= PartLen - 1
      BY <1>1, <2>1, <2>3
    <3>3. Rest(t) \in 0 .. (Rest(r) - 1)
      <4>1. \A o, p, u, d \in Nat : u <= d /\ d + 1 <= p - 1 => (o + p - (d + 1) + 5) \in 0 .. ((o + p - u + 5) - 1)
        OBVIOUS
      <4> QED
        BY <1>2, <1>3, <3>1, <3>2, <4>1
    <3>4. Len(t.uid) < PartLen
      BY <2>1, <3>2
    <3> QED
      BY <1>1, <1>6, <1>8, <2>1, <2>3, <3>3, <3>4 DEF GoesOn, Runs, IsCall, WellPlaced, Polling, Activating
  <2> QED
    BY <1>8, <2>2, <2>3
<1>11. GoesOn(CardA(q, x.status), r, Rest(r) - 1)
  <2>1. Rest(r) - 1 \in Nat /\ Rest(r) - 1 >= 4 /\ Runs(q)
    BY <1>1, <1>2, <1>4, <1>5 DEF Runs, IsCall
  <2> QED
    BY <1>5, <2>1, CardAGoesOn, GoesOnFrom
<1> QED
  BY <1>4, <1>9, <1>10, <1>11 DEF AnticollisionOf, s, t, q

LEMMA SelectOfGoesOn ==
  ASSUME NEW r, NEW x, IsCall(r), WellPlaced(r), r.pc = "aa.select", CascadesOnce(x, r.lvl)
  PROVE  Rest(r) \in Nat \ {0} /\ GoesOn(SelectOf(r, x), r, Rest(r) - 1)
<1> DEFINE s == Selected(r, x)
           t == [s EXCEPT !.lvl = @ + 1]
<1>1. Runs(r) /\ r.lvl \in {1, 2}
  BY RunsOn DEF WellPlaced
<1>2. OfLevel \in Nat /\ OtherLevel(r) = (IF r.lvl = 1 THEN OfLevel ELSE 0) /\ Rest(r) = OtherLevel(r) + 5
  BY CostsAreNumbers DEF OtherLevel, IsCall, Rest
<1>3. Rest(r) \in Nat \ {0} /\ Rest(r) - 1 \in Nat /\ Rest(r) - 1 >= 4
  BY <1>2
<1>4. /\ IsReader(s) /\ s.pc = r.pc /\ s.cfg = r.cfg /\ s.op = r.op /\ s.sent = r.sent /\ s.loop = r.loop /\ s.lvl = r.lvl
  BY SelectedSelects
<1> HIDE DEF s
<1>5. /\ IsReader(t) /\ t.cfg = r.cfg /\ t.op = r.op /\ t.sent = r.sent /\ t.loop = r.loop /\ t.lvl = r.lvl + 1
  BY <1>4 DEF IsReader, Fields
<1> HIDE DEF t
<1>6. ASSUME Ok(x), x.data.cascade
      PROVE  GoesOn(Level(t), r, Rest(r) - 1)
  <2>1. r.lvl = 1 /\ t.lvl = 2 /\ Runs(t) /\ OtherLevel(t) = 0
    BY <1>1, <1>5, <1>6 DEF CascadesOnce, Runs, IsCall, OtherLevel
  <2>2. GoesOn(Level(t), t, 0 + OfLevel + 4) /\ 0 + OfLevel + 4 = Rest(r) - 1
    BY <1>2, <2>1, LevelGoesOn
  <2> QED
    BY <1>3, <1>5, <2>2, GoesOnFrom
<1>7. GoesOn(CardA(s, x.status), r, Rest(r) - 1)
  <2>1. Runs(s)
    BY <1>1, <1>4 DEF Runs, IsCall
  <2> QED
    BY <1>3, <1>4, <2>1, CardAGoesOn, GoesOnFrom
<1> QED
  BY <1>3, <1>6, <1>7 DEF SelectOf, s, t

LEMMA ActivateCardAGoesOn ==
  ASSUME NEW r, NEW uid, Runs(r)
  PROVE  GoesOn(ActivateCardA(r, uid), r, ActivationA)
<1> DEFINE s == [r EXCEPT !.pc = "aa.wake", !.rate = Lowest, !.given = uid, !.at = 0]
<1>1. ActivationA \in Nat /\ ActivationA >= 4
  <2>1. OfLevel \in Nat /\ ActivationA = 5 + 2 * OfLevel
    BY CostsAreNumbers DEF Runs, IsCall
  <2> QED
    BY <2>1
<1>2. IsReader(s)
  BY DEF Runs, IsCall, IsReader
<1>3. s.pc = "aa.wake" /\ s.cfg = r.cfg /\ s.op = r.op /\ s.sent = r.sent /\ s.loop = r.loop
  BY DEF Runs, IsCall, IsReader, Fields
<1> HIDE DEF s
<1>4. Rest(s) = ActivationA
  BY <1>3 DEF Rest
<1>5. GoesOn(s, r, ActivationA)
  BY <1>1, <1>2, <1>3, <1>4 DEF GoesOn, Runs, IsCall, WellPlaced, Polling, Activating
<1>6. GoesOn(CardA(r, "INVALID_PARAMETER"), r, ActivationA)
  BY <1>1, CardAGoesOn
<1> QED
  BY <1>5, <1>6 DEF ActivateCardA, s

LEMMA ActivateAGoesOn ==
  ASSUME NEW r, NEW i, Runs(r)
  PROVE  GoesOn(ActivateA(r, i), r, ActivationA)
<1> DEFINE s == [r EXCEPT !.target = r.uids[i]]
<1>1. ActivationA \in Nat /\ 4 <= ActivationA
  <2>1. OfLevel \in Nat /\ ActivationA = 5 + 2 * OfLevel
    BY CostsAreNumbers DEF Runs, IsCall
  <2> QED
    BY <2>1
<1>2. IsReader(s)
  BY DEF Runs, IsCall, IsReader
<1>3. s.cfg = r.cfg /\ s.op = r.op /\ s.sent = r.sent /\ s.loop = r.loop
  BY DEF Runs, IsCall, IsReader, Fields
<1> HIDE DEF s
<1>4. Runs(s)
  BY <1>2, <1>3 DEF Runs, IsCall
<1>5. GoesOn(ActivateCardA(s, r.uids[i]), r, ActivationA)
  BY <1>1, <1>3, <1>4, ActivateCardAGoesOn, GoesOnFrom
<1>6. GoesOn(Layer4(s), r, ActivationA)
  BY <1>1, <1>3, <1>4, Layer4GoesOn, GoesOnFrom
<1> QED
  BY <1>5, <1>6 DEF ActivateA, s

\* Type A: detection and collision resolution.
LEMMA BailedAGoesOn ==
  ASSUME NEW r, InLoop(r)
  PROVE  GoesOn(BailedA(r), r, PollingB(r) + PollingF + Later(r))
<1>1. PollingB(r) + PollingF + Later(r) \in Nat
  BY CostsAreNumbers DEF InLoop, IsCall
<1> QED
  BY <1>1, ReturnReturns, PhaseBGoesOn DEF BailedA, InLoop

LEMMA ResolvedGoesOn ==
  ASSUME NEW r, InLoop(r)
  PROVE  GoesOn(Resolved(r), r, AfterA(r) + Later(r))
<1> DEFINE s == [r EXCEPT !.n.A = Len(r.uids)]
           k == AfterA(r) + Later(r)
<1>1. Later(r) \in Nat /\ ActivationA \in Nat /\ PollingB(r) \in Nat /\ PollingF \in Nat
      /\ AfterA(r) = ActivationA + PollingB(r) + PollingF
  BY CostsAreNumbers DEF InLoop, IsCall
<1>2. k \in Nat /\ ActivationA <= k /\ PollingB(r) + PollingF + Later(r) <= k /\ PollingB(r) + PollingF + Later(r) \in Nat
  BY <1>1
<1> HIDE DEF k
<1>3. IsReader(s)
  BY DEF InLoop, IsCall, IsReader
<1>4. s.cfg = r.cfg /\ s.op = r.op /\ s.sent = r.sent /\ s.loop = r.loop
  BY DEF InLoop, IsCall, IsReader, Fields
<1> HIDE DEF s
<1>5. InLoop(s) /\ Runs(s) /\ IsCall(s) /\ PollingB(s) = PollingB(r) /\ Later(s) = Later(r)
  BY <1>3, <1>4, CostsAreOfConfig DEF InLoop, IsCall, Runs
<1>6. GoesOn(Return(s, "SUCCESS"), r, k)
  BY <1>2, <1>4, <1>5, ReturnReturns, GoesOnFrom
<1>7. GoesOn(ActivateA(s, 1), r, k)
  BY <1>1, <1>2, <1>4, <1>5, ActivateAGoesOn, GoesOnFrom
<1>8. GoesOn(BailedA(s), r, k)
  <2>1. GoesOn(BailedA(s), s, PollingB(r) + PollingF + Later(r))
    BY <1>5, BailedAGoesOn
  <2> QED
    BY <1>2, <1>4, <2>1, GoesOnFrom
<1>9. Resolved(r) \in {Return(s, "SUCCESS"), ActivateA(s, 1), BailedA(s)}
  BY DEF Resolved, s
<1> QED
  BY <1>6, <1>7, <1>8, <1>9 DEF k

LEMMA RoundsAreNumbers ==
  ASSUME NEW r, r.cfg \in Configs, r.round \in Nat, r.round < r.cfg.limitA
  PROVE  /\ Rounds(r) \in Nat
         /\ r.round = 0 => r.cfg.limitA * OfRound = Rounds(r) + OfRound
         /\ \A s : s.cfg = r.cfg /\ s.round = r.round + 1 /\ s.round < s.cfg.limitA => Rounds(r) = Rounds(s) + OfRound
<1>1. r.cfg.limitA \in Nat /\ OfRound \in Nat
  BY LimitAssumption, CostsAreNumbers
<1>2. r.cfg.limitA - r.round - 1 \in Nat
  BY <1>1
<1>3. Rounds(r) \in Nat
  BY <1>1, <1>2, Product DEF Rounds
<1>4. r.round = 0 => r.cfg.limitA * OfRound = Rounds(r) + OfRound
  BY <1>1, Product DEF Rounds
<1>5. ASSUME NEW s, s.cfg = r.cfg, s.round = r.round + 1, s.round < s.cfg.limitA
      PROVE  Rounds(r) = Rounds(s) + OfRound
  <2> DEFINE n == r.cfg.limitA - r.round - 1
  <2>1. n \in Nat /\ n > 0 /\ s.cfg.limitA - s.round - 1 = n - 1
    BY <1>1, <1>2, <1>5
  <2>2. n * OfRound = (n - 1) * OfRound + OfRound
    BY <1>1, <2>1, Product
  <2> QED
    BY <2>1, <2>2 DEF Rounds
<1> QED
  BY <1>3, <1>4, <1>5

LEMMA RoundGoesOn ==
  ASSUME NEW r, InLoop(r), r.round \in Nat, NEW m \in Nat, r.round < r.cfg.limitA => m >= Rounds(r) + OfRound
  PROVE  GoesOn(Round(r), r, m + AfterA(r) + Later(r))
<1> DEFINE s == [r EXCEPT !.pc = "a.anticoll", !.lvl = 1, !.uid = <<>>, !.whole = <<>>, !.more = FALSE]
           k == m + AfterA(r) + Later(r)
<1>1. Later(r) \in Nat /\ AfterA(r) \in Nat /\ OfLevel \in Nat /\ OfLevel = PartLen + 1 /\ OfRound = 2 * OfLevel + 2
      /\ PartLen \in Nat \ {0, 1}
  BY CostsAreNumbers, PartAssumption DEF InLoop, IsCall
<1>2. IsReader(s)
  BY DEF InLoop, IsCall, IsReader
<1>3. s.pc = "a.anticoll" /\ s.cfg = r.cfg /\ s.op = r.op /\ s.sent = r.sent /\ s.loop = r.loop /\ s.round = r.round
      /\ s.lvl = 1 /\ s.uid = <<>>
  BY DEF InLoop, IsCall, IsReader, Fields
<1> HIDE DEF s
<1>4. ASSUME r.round < r.cfg.limitA
      PROVE  GoesOn(s, r, k)
  <2>1. Rounds(r) \in Nat
    BY <1>4, RoundsAreNumbers DEF InLoop, IsCall
  <2>2. Rest(s) = Rounds(r) + 2 + OfLevel + PartLen - 0 + 1 + AfterA(r) + Later(r)
    BY <1>3, CostsAreOfConfig DEF Rest, OtherLevel
  <2>3. Rest(s) \in 0 .. k
    BY <1>1, <1>4, <2>1, <2>2
  <2>4. s.uid \in Seq(0 .. 1) /\ Len(s.uid) < PartLen
    BY <1>1, <1>3
  <2> HIDE DEF k
  <2> QED
    BY <1>2, <1>3, <1>4, <2>3, <2>4 DEF GoesOn, InLoop, IsCall, WellPlaced, Polling, Activating
<1>5. GoesOn(Resolved(r), r, k)
  <2>1. AfterA(r) + Later(r) \in Nat /\ k \in Nat /\ AfterA(r) + Later(r) <= k
    BY <1>1
  <2> QED
    BY <2>1, ResolvedGoesOn, GoesOnFrom
<1> QED
  BY <1>4, <1>5 DEF Round, s, k

LEMMA NextRoundGoesOn ==
  ASSUME NEW r, InLoop(r), r.round \in Nat, r.round < r.cfg.limitA
  PROVE  GoesOn(NextRound(r), r, Rounds(r) + AfterA(r) + Later(r))
<1> DEFINE s == [r EXCEPT !.round = @ + 1]
<1>1. IsReader(s)
  BY DEF InLoop, IsCall, IsReader
<1>2. s.cfg = r.cfg /\ s.op = r.op /\ s.sent = r.sent /\ s.loop = r.loop /\ s.round = r.round + 1
  BY DEF InLoop, IsCall, IsReader, Fields
<1> HIDE DEF s
<1>3. Rounds(r) \in Nat /\ (s.round < s.cfg.limitA => Rounds(r) = Rounds(s) + OfRound)
  BY <1>2, RoundsAreNumbers DEF InLoop, IsCall
<1>4. InLoop(s) /\ s.round \in Nat /\ AfterA(s) = AfterA(r) /\ Later(s) = Later(r)
  BY <1>1, <1>2, CostsAreOfConfig DEF InLoop, IsCall
<1>5. OfRound \in Nat /\ Rounds(r) + AfterA(r) + Later(r) \in Nat
  BY <1>3, CostsAreNumbers DEF InLoop, IsCall
<1>6. s.round < s.cfg.limitA => Rounds(r) >= Rounds(s) + OfRound
  BY <1>3
<1>7. GoesOn(Round(s), s, Rounds(r) + AfterA(r) + Later(r))
  BY <1>3, <1>4, <1>6, RoundGoesOn
<1>8. NextRound(r) = Round(s)
  BY DEF NextRound, s
<1> QED
  BY <1>2, <1>5, <1>7, <1>8, GoesOnFrom

\* What is left where collision resolution waits, without and with the level.
LEMMA InRound ==
  ASSUME NEW r, IsCall(r), WellPlaced(r), r.pc \in {"a.anticoll", "a.select", "a.halt", "a.req"}
  PROVE  /\ InLoop(r) /\ r.round \in Nat /\ r.round < r.cfg.limitA
         /\ Rounds(r) + AfterA(r) + Later(r) \in Nat /\ Rounds(r) \in Nat /\ AfterA(r) \in Nat /\ Later(r) \in Nat
         /\ OtherLevel(r) \in Nat /\ OfLevel \in Nat /\ OfLevel = PartLen + 1 /\ PartLen \in Nat \ {0, 1}
<1>1. InLoop(r) /\ r.round \in Nat /\ r.round < r.cfg.limitA
  BY RunsOn DEF WellPlaced, Polling
<1>2. OfLevel \in Nat /\ OfLevel = PartLen + 1 /\ AfterA(r) \in Nat /\ Later(r) \in Nat /\ PartLen \in Nat \ {0, 1}
  BY <1>1, CostsAreNumbers, PartAssumption DEF InLoop, IsCall
<1>3. Rounds(r) \in Nat
  BY <1>1, RoundsAreNumbers DEF IsCall
<1> QED
  BY <1>1, <1>2, <1>3 DEF OtherLevel

LEMMA Regrouped ==
  \A a, b, c, d, p, n \in Nat : a + 2 + b + p - n + 1 + c + d = (a + 2 + b + c + d) + p - n + 1
  OBVIOUS

LEMMA AnticollisionGoesOn ==
  ASSUME NEW r, NEW x, IsCall(r), WellPlaced(r), r.pc = "a.anticoll", CollidesBeyond(x, r.uid)
  PROVE  Rest(r) \in Nat \ {0} /\ GoesOn(Anticollision(r, x), r, Rest(r) - 1)
<1> DEFINE q == Forget(r)
           s == [q EXCEPT !.pc = "a.select", !.uid = x.data, !.whole = @ \o x.data]
           t == [q EXCEPT !.more = TRUE, !.uid = AfterCollision(x),
                          !.pc = IF Len(x.data) + 1 = PartLen THEN "a.select" ELSE @]
           after == Rounds(r) + 2 + OtherLevel(r) + AfterA(r) + Later(r)
<1>1. InLoop(r) /\ r.round \in Nat /\ r.round < r.cfg.limitA /\ r.lvl \in {1, 2}
      /\ r.uid \in Seq(0 .. 1) /\ Len(r.uid) \in Nat /\ Len(r.uid) < PartLen /\ PartLen \in Nat
  BY InRound, PartAssumption DEF WellPlaced
<1>2. /\ Rounds(r) \in Nat /\ AfterA(r) \in Nat /\ Later(r) \in Nat /\ OtherLevel(r) \in Nat
      /\ after \in Nat /\ Rounds(r) + AfterA(r) + Later(r) \in Nat /\ Rounds(r) + AfterA(r) + Later(r) <= after
  BY InRound
<1>3. Rest(r) = after + PartLen - Len(r.uid) + 1
  <2>1. Rest(r) = Rounds(r) + 2 + OtherLevel(r) + PartLen - Len(r.uid) + 1 + AfterA(r) + Later(r)
    BY DEF Rest
  <2>2. \A n \in Nat : Rounds(r) + 2 + OtherLevel(r) + PartLen - n + 1 + AfterA(r) + Later(r) = after + PartLen - n + 1
    BY <1>1, <1>2, Regrouped
  <2> HIDE DEF after
  <2> QED
    BY <1>1, <2>1, <2>2
<1>4. \A z : z.cfg = r.cfg /\ z.round = r.round /\ z.lvl = r.lvl /\ z.loop = r.loop =>
        /\ z.pc = "a.select" => Rest(z) = after + 1
        /\ z.pc = "a.anticoll" /\ Len(z.uid) \in Nat => Rest(z) = after + PartLen - Len(z.uid) + 1
  <2> SUFFICES ASSUME NEW z, z.cfg = r.cfg, z.round = r.round, z.lvl = r.lvl, z.loop = r.loop
               PROVE  /\ z.pc = "a.select" => Rest(z) = after + 1
                      /\ z.pc = "a.anticoll" /\ Len(z.uid) \in Nat => Rest(z) = after + PartLen - Len(z.uid) + 1
    OBVIOUS
  <2>1. Rounds(z) = Rounds(r) /\ AfterA(z) = AfterA(r) /\ Later(z) = Later(r) /\ OtherLevel(z) = OtherLevel(r)
    BY CostsAreOfConfig DEF OtherLevel
  <2>2. z.pc = "a.select" => Rest(z) = Rounds(r) + 2 + OtherLevel(r) + 1 + AfterA(r) + Later(r)
    BY <2>1 DEF Rest
  <2>3. z.pc = "a.anticoll" => Rest(z) = Rounds(r) + 2 + OtherLevel(r) + PartLen - Len(z.uid) + 1 + AfterA(r) + Later(r)
    BY <2>1 DEF Rest
  <2>4. \A n \in Nat : Rounds(r) + 2 + OtherLevel(r) + PartLen - n + 1 + AfterA(r) + Later(r) = after + PartLen - n + 1
    BY <1>1, <1>2, Regrouped
  <2>5. Rounds(r) + 2 + OtherLevel(r) + 1 + AfterA(r) + Later(r) = after + 1
    BY <1>2
  <2> QED
    BY <2>2, <2>3, <2>4, <2>5
<1> HIDE DEF after
<1>5. Rest(r) \in Nat \ {0} /\ Rest(r) - 1 >= after + 1
  <2>1. \A a, p, n \in Nat : n < p => a + p - n + 1 \in Nat \ {0} /\ (a + p - n + 1) - 1 >= a + 1
    OBVIOUS
  <2> QED
    BY <1>1, <1>2, <1>3, <2>1
<1>6. /\ IsReader(q) /\ q.pc = r.pc /\ q.cfg = r.cfg /\ q.op = r.op /\ q.sent = r.sent /\ q.loop = r.loop
      /\ q.lvl = r.lvl /\ q.round = r.round
  BY ForgetForgets
<1> HIDE DEF q
<1>7. IsReader(s) /\ IsReader(t)
  BY <1>6 DEF IsReader
<1>8. s.pc = "a.select" /\ s.cfg = r.cfg /\ s.op = r.op /\ s.sent = r.sent /\ s.loop = r.loop /\ s.lvl = r.lvl /\ s.round = r.round
  BY <1>6 DEF IsReader, Fields
<1>9. t.cfg = r.cfg /\ t.op = r.op /\ t.sent = r.sent /\ t.loop = r.loop /\ t.lvl = r.lvl /\ t.round = r.round
      /\ t.uid = AfterCollision(x) /\ t.pc = IF Len(x.data) + 1 = PartLen THEN "a.select" ELSE "a.anticoll"
  BY <1>6 DEF IsReader, Fields
<1> HIDE DEF s, t
<1>10. GoesOn(s, r, Rest(r) - 1)
  <2>1. Rest(s) \in 0 .. (Rest(r) - 1)
    BY <1>2, <1>4, <1>5, <1>8
  <2> QED
    BY <1>1, <1>7, <1>8, <2>1 DEF GoesOn, InLoop, IsCall, WellPlaced, Polling, Activating
<1>11. ASSUME x.status = "COLLISION_ERROR"
       PROVE  GoesOn(t, r, Rest(r) - 1)
  <2>1. x.data \in Seq(0 .. 1) /\ Len(x.data) \in Nat /\ Len(r.uid) <= Len(x.data) /\ Len(x.data) < PartLen
        /\ t.uid \in Seq(0 .. 1) /\ Len(t.uid) = Len(x.data) + 1
    BY <1>9, <1>11, AfterCollisionIsLonger DEF CollidesBeyond
  <2>2. CASE t.pc = "a.select"
    <3>1. Rest(t) \in 0 .. (Rest(r) - 1)
      BY <1>2, <1>4, <1>5, <1>9, <2>2
    <3> QED
      BY <1>1, <1>7, <1>9, <2>2, <3>1 DEF GoesOn, InLoop, IsCall, WellPlaced, Polling, Activating
  <2>3. CASE t.pc = "a.anticoll" /\ Len(x.data) + 1 # PartLen
    <3>1. Rest(t) = after + PartLen - (Len(x.data) + 1) + 1
      BY <1>4, <1>9, <2>1, <2>3
    <3>2. /\ Len(x.data) \in Nat /\ Len(r.uid) \in Nat /\ PartLen \in Nat
          /\ Len(r.uid) <= Len(x.data) /\ Len(x.data) + 1 <= PartLen - 1
      BY <1>1, <2>1, <2>3
    <3>3. Rest(t) \in 0 .. (Rest(r) - 1)
      <4>1. \A o, p, u, d \in Nat : u <= d /\ d + 1 <= p - 1 => (o + p - (d + 1) + 1) \in 0 .. ((o + p - u + 1) - 1)
        OBVIOUS
      <4> QED
        BY <1>2, <1>3, <3>1, <3>2, <4>1
    <3>4. Len(t.uid) < PartLen
      BY <2>1, <3>2
    <3> QED
      BY <1>1, <1>7, <1>9, <2>1, <2>3, <3>3, <3>4 DEF GoesOn, InLoop, IsCall, WellPlaced, Polling, Activating
  <2> QED
    BY <1>9, <2>2, <2>3
<1>12. GoesOn(NextRound(q), r, Rest(r) - 1)
  <2>1. InLoop(q) /\ q.round \in Nat /\ q.round < q.cfg.limitA /\ Rounds(q) = Rounds(r) /\ AfterA(q) = AfterA(r) /\ Later(q) = Later(r)
    BY <1>1, <1>6, CostsAreOfConfig DEF InLoop, IsCall
  <2>2. GoesOn(NextRound(q), q, Rounds(r) + AfterA(r) + Later(r))
    BY <2>1, NextRoundGoesOn
  <2>3. Rest(r) - 1 \in Nat /\ Rounds(r) + AfterA(r) + Later(r) <= Rest(r) - 1
    BY <1>2, <1>5
  <2> QED
    BY <1>2, <1>6, <2>2, <2>3, GoesOnFrom
<1> QED
  BY <1>5, <1>10, <1>11, <1>12 DEF Anticollision, s, t, q

LEMMA SelectGoesOn ==
  ASSUME NEW r, NEW x, IsCall(r), WellPlaced(r), r.pc = "a.select", CascadesOnce(x, r.lvl)
  PROVE  Rest(r) \in Nat \ {0} /\ GoesOn(Select(r, x), r, Rest(r) - 1)
<1> DEFINE s == Selected(r, x)
           found == [s EXCEPT !.tags = @ \cup {x.data.plat}, !.uids = Append(@, Recorded(r))]
           t == [s EXCEPT !.pc = "a.anticoll", !.lvl = @ + 1, !.uid = <<>>]
           u == [found EXCEPT !.pc = "a.halt"]
           base == Rounds(r) + 2 + AfterA(r) + Later(r)
<1>1. InLoop(r) /\ r.round \in Nat /\ r.round < r.cfg.limitA /\ r.lvl \in {1, 2} /\ PartLen \in Nat \ {0, 1}
  BY InRound DEF WellPlaced
<1>2. /\ Rounds(r) \in Nat /\ AfterA(r) \in Nat /\ Later(r) \in Nat /\ OtherLevel(r) \in Nat /\ OfLevel \in Nat /\ OfLevel = PartLen + 1
      /\ base \in Nat /\ AfterA(r) + Later(r) \in Nat /\ AfterA(r) + Later(r) <= base
  BY InRound
<1>3. Rest(r) = OtherLevel(r) + base + 1
  <2>1. Rest(r) = Rounds(r) + 2 + OtherLevel(r) + 1 + AfterA(r) + Later(r)
    BY DEF Rest
  <2> QED
    BY <1>2, <2>1
<1>4. /\ IsReader(s) /\ s.cfg = r.cfg /\ s.op = r.op /\ s.sent = r.sent /\ s.loop = r.loop /\ s.lvl = r.lvl /\ s.round = r.round
  BY SelectedSelects
<1> HIDE DEF s
<1>5. IsReader(found) /\ IsReader(t)
  BY <1>4 DEF IsReader
<1>6. found.cfg = r.cfg /\ found.op = r.op /\ found.sent = r.sent /\ found.loop = r.loop /\ found.round = r.round
  BY <1>4 DEF IsReader, Fields
<1>7. t.pc = "a.anticoll" /\ t.cfg = r.cfg /\ t.op = r.op /\ t.sent = r.sent /\ t.loop = r.loop /\ t.round = r.round
      /\ t.lvl = r.lvl + 1 /\ t.uid = <<>>
  BY <1>4 DEF IsReader, Fields
<1> HIDE DEF found, t
<1>8. IsReader(u) /\ u.pc = "a.halt" /\ u.cfg = r.cfg /\ u.op = r.op /\ u.sent = r.sent /\ u.loop = r.loop /\ u.round = r.round
  BY <1>5, <1>6 DEF IsReader, Fields
<1> HIDE DEF u
<1>9. Rest(r) \in Nat \ {0} /\ Rest(r) - 1 \in Nat /\ base <= Rest(r) - 1 /\ (r.lvl = 1 => Rest(r) - 1 = OfLevel + base)
  BY <1>1, <1>2, <1>3 DEF OtherLevel
<1>10. GoesOn(Return(s, x.status), r, Rest(r) - 1) /\ GoesOn(Resolved(found), r, Rest(r) - 1)
  <2>1. InLoop(found) /\ AfterA(found) = AfterA(r) /\ Later(found) = Later(r) /\ IsCall(s)
    BY <1>1, <1>4, <1>5, <1>6, CostsAreOfConfig DEF InLoop, IsCall
  <2>2. GoesOn(Resolved(found), found, AfterA(r) + Later(r)) /\ AfterA(r) + Later(r) <= Rest(r) - 1
    BY <1>2, <1>9, <2>1, ResolvedGoesOn
  <2>3. GoesOn(Resolved(found), r, Rest(r) - 1)
    BY <1>2, <1>6, <1>9, <2>2, GoesOnFrom
  <2> QED
    BY <1>4, <1>9, <2>1, <2>3, ReturnReturns, GoesOnFrom
<1>11. ASSUME Ok(x), x.data.cascade
       PROVE  GoesOn(t, r, Rest(r) - 1)
  <2>1. r.lvl = 1 /\ t.lvl = 2
    BY <1>1, <1>7, <1>11 DEF CascadesOnce
  <2>2. Rest(t) = Rounds(r) + 2 + 0 + PartLen - 0 + 1 + AfterA(r) + Later(r)
    BY <1>7, <2>1, CostsAreOfConfig DEF Rest, OtherLevel
  <2>3. Rest(t) = OfLevel + base
    BY <1>1, <1>2, <2>2
  <2>4. t.uid \in Seq(0 .. 1) /\ Len(t.uid) < PartLen /\ Rest(t) \in 0 .. (Rest(r) - 1)
    BY <1>1, <1>2, <1>7, <1>9, <2>1, <2>3
  <2> QED
    BY <1>1, <1>5, <1>7, <2>1, <2>4 DEF GoesOn, InLoop, IsCall, WellPlaced, Polling, Activating
<1>12. GoesOn(u, r, Rest(r) - 1)
  <2>1. Rest(u) = base
    BY <1>8, CostsAreOfConfig DEF Rest
  <2>2. Rest(u) \in 0 .. (Rest(r) - 1)
    BY <1>2, <1>9, <2>1
  <2> QED
    BY <1>1, <1>8, <2>2 DEF GoesOn, InLoop, IsCall, WellPlaced, Polling, Activating
<1>13. \/ Select(r, x) \in {Return(s, x.status), Resolved(found), u}
       \/ Ok(x) /\ x.data.cascade /\ Select(r, x) = t
  <2>1. CASE ~Ok(x)
    BY <2>1 DEF Select, s
  <2>2. CASE Ok(x) /\ x.data.cascade
    BY <2>2 DEF Select, s, t
  <2>3. CASE Ok(x) /\ ~x.data.cascade
    BY <2>3 DEF Select, s, found, u
  <2> QED
    BY <2>1, <2>2, <2>3
<1> QED
  BY <1>9, <1>10, <1>11, <1>12, <1>13

LEMMA HaltAGoesOn ==
  ASSUME NEW r, NEW x, IsCall(r), WellPlaced(r), r.pc = "a.halt"
  PROVE  Rest(r) \in Nat \ {0} /\ GoesOn(HaltA(r, x), r, Rest(r) - 1)
<1> DEFINE s == [r EXCEPT !.pc = "a.req"]
<1>1. InLoop(r) /\ r.round \in Nat /\ r.round < r.cfg.limitA /\ Rounds(r) \in Nat /\ AfterA(r) \in Nat /\ Later(r) \in Nat
  BY InRound
<1>2. Rest(r) = Rounds(r) + 2 + AfterA(r) + Later(r)
  BY DEF Rest
<1>3. Rest(r) \in Nat \ {0} /\ Rest(r) - 1 = Rounds(r) + 1 + AfterA(r) + Later(r)
  BY <1>1, <1>2
<1>4. IsReader(s)
  BY DEF IsCall, IsReader
<1>5. s.pc = "a.req" /\ s.cfg = r.cfg /\ s.op = r.op /\ s.sent = r.sent /\ s.loop = r.loop /\ s.round = r.round
  BY DEF IsCall, IsReader, Fields
<1> HIDE DEF s
<1>6. Rest(s) = Rounds(r) + 1 + AfterA(r) + Later(r)
  BY <1>5, CostsAreOfConfig DEF Rest
<1>7. Rest(s) \in 0 .. (Rest(r) - 1)
  BY <1>1, <1>3, <1>6
<1>8. GoesOn(s, r, Rest(r) - 1)
  BY <1>1, <1>4, <1>5, <1>7 DEF GoesOn, InLoop, IsCall, WellPlaced, Polling, Activating
<1> QED
  BY <1>3, <1>8, ReturnReturns DEF HaltA, s

LEMMA RequestAGoesOn ==
  ASSUME NEW r, NEW x, IsCall(r), WellPlaced(r), r.pc = "a.req"
  PROVE  Rest(r) \in Nat \ {0} /\ GoesOn(RequestA(r, x), r, Rest(r) - 1)
<1>1. InLoop(r) /\ r.round \in Nat /\ r.round < r.cfg.limitA /\ Rounds(r) \in Nat /\ AfterA(r) \in Nat /\ Later(r) \in Nat
  BY InRound
<1>2. Rest(r) = Rounds(r) + 1 + AfterA(r) + Later(r)
  BY DEF Rest
<1>3. Rest(r) \in Nat \ {0} /\ Rest(r) - 1 = Rounds(r) + AfterA(r) + Later(r)
  BY <1>1, <1>2
<1>4. GoesOn(NextRound(r), r, Rest(r) - 1)
  BY <1>1, <1>3, NextRoundGoesOn
<1> QED
  BY <1>3, <1>4, ReturnReturns DEF RequestA

LEMMA DetectAGoesOn ==
  ASSUME NEW r, NEW x, IsCall(r), WellPlaced(r), r.pc = "a.detect"
  PROVE  Rest(r) \in Nat \ {0} /\ GoesOn(DetectA(r, x), r, Rest(r) - 1)
<1> DEFINE s == [r EXCEPT !.tags = @ \cup {"A"}]
           t == [r EXCEPT !.tags = @ \cup {"A"}, !.round = 0, !.uids = <<>>]
           m == r.cfg.limitA * OfRound
           k == PollingB(r) + PollingF + Later(r)
<1>1. InLoop(r)
  BY RunsOn DEF Polling
<1>2. /\ m \in Nat /\ Later(r) \in Nat /\ PollingB(r) \in Nat /\ PollingF \in Nat /\ ActivationA \in Nat
      /\ AfterA(r) = ActivationA + PollingB(r) + PollingF
  BY <1>1, CostsAreNumbers DEF InLoop, IsCall
<1>3. Rest(r) = 1 + m + AfterA(r) + Later(r)
  BY DEF Rest
<1>4. Rest(r) \in Nat \ {0} /\ Rest(r) - 1 = m + AfterA(r) + Later(r) /\ k \in Nat /\ k <= Rest(r) - 1
  BY <1>2, <1>3
<1>5. IsReader(s) /\ IsReader(t)
  BY DEF IsCall, IsReader
<1>6. s.cfg = r.cfg /\ s.op = r.op /\ s.sent = r.sent /\ s.loop = r.loop
  BY DEF IsCall, IsReader, Fields
<1>7. t.cfg = r.cfg /\ t.op = r.op /\ t.sent = r.sent /\ t.loop = r.loop /\ t.round = 0
  BY DEF IsCall, IsReader, Fields
<1> HIDE DEF s, t
<1>8. /\ InLoop(s) /\ PollingB(s) = PollingB(r) /\ Later(s) = Later(r)
      /\ InLoop(t) /\ AfterA(t) = AfterA(r) /\ Later(t) = Later(r)
  BY <1>1, <1>5, <1>6, <1>7, CostsAreOfConfig DEF InLoop, IsCall
<1>9. GoesOn(PhaseB(r), r, Rest(r) - 1)
  BY <1>1, <1>4, PhaseBGoesOn, GoesOnFrom
<1>10. GoesOn(BailedA(s), r, Rest(r) - 1)
  BY <1>4, <1>6, <1>8, BailedAGoesOn, GoesOnFrom
<1>11. GoesOn(Round(t), r, Rest(r) - 1)
  <2>1. t.round < t.cfg.limitA => m = Rounds(t) + OfRound
    BY <1>7, <1>8, RoundsAreNumbers DEF InLoop, IsCall
  <2>2. OfRound \in Nat /\ (t.round < t.cfg.limitA => Rounds(t) \in Nat)
    BY <1>7, <1>8, RoundsAreNumbers, CostsAreNumbers DEF InLoop, IsCall
  <2>3. t.round \in Nat /\ (t.round < t.cfg.limitA => m >= Rounds(t) + OfRound)
    BY <1>2, <1>7, <2>1, <2>2
  <2> HIDE DEF m
  <2>4. GoesOn(Round(t), t, m + AfterA(r) + Later(r))
    BY <1>2, <1>8, <2>3, RoundGoesOn
  <2> QED
    BY <1>4, <1>7, <2>4, GoesOnFrom
<1> QED
  BY <1>4, <1>9, <1>10, <1>11 DEF DetectA, s, t

LEMMA PhaseAGoesOn ==
  ASSUME NEW r, InLoop(r)
  PROVE  GoesOn(PhaseA(r), r, 1 + r.cfg.limitA * OfRound + AfterA(r) + Later(r))
<1> DEFINE s == [r EXCEPT !.field = TRUE, !.rate = Lowest]
           t == [s EXCEPT !.pc = "a.detect", !.n.A = 0]
           m == r.cfg.limitA * OfRound
           k == 1 + m + AfterA(r) + Later(r)
<1>1. /\ m \in Nat /\ Later(r) \in Nat /\ PollingB(r) \in Nat /\ PollingF \in Nat /\ ActivationA \in Nat
      /\ AfterA(r) = ActivationA + PollingB(r) + PollingF
  BY CostsAreNumbers DEF InLoop, IsCall
<1>2. k \in Nat /\ PollingB(r) + PollingF + Later(r) <= k /\ PollingB(r) + PollingF + Later(r) \in Nat
  BY <1>1
<1>3. IsReader(s)
  BY DEF InLoop, IsCall, IsReader
<1>4. s.cfg = r.cfg /\ s.op = r.op /\ s.sent = r.sent /\ s.loop = r.loop
  BY DEF InLoop, IsCall, IsReader, Fields
<1> HIDE DEF s
<1>5. IsReader(t) /\ t.pc = "a.detect" /\ t.cfg = r.cfg /\ t.op = r.op /\ t.sent = r.sent /\ t.loop = r.loop
  BY <1>3, <1>4 DEF IsReader, Fields
<1> HIDE DEF t
<1>6. Rest(t) = k
  BY <1>5, CostsAreOfConfig DEF Rest
<1> HIDE DEF k
<1>7. GoesOn(t, r, k)
  BY <1>2, <1>5, <1>6 DEF GoesOn, InLoop, IsCall, WellPlaced, Polling, Activating
<1>8. GoesOn(Return(s, "SUCCESS"), r, k)
  BY <1>2, <1>3, <1>4, ReturnReturns, GoesOnFrom DEF InLoop, IsCall
<1>9. GoesOn(PhaseB(r), r, k)
  BY <1>2, PhaseBGoesOn, GoesOnFrom
<1>10. PhaseA(r) \in {PhaseB(r), Return(s, "SUCCESS"), t}
  BY DEF PhaseA, s, t
<1> QED
  BY <1>7, <1>8, <1>9, <1>10 DEF k

\* The loop.
LEMMA ActiveAtrGoesOn ==
  ASSUME NEW r, NEW x, IsCall(r), WellPlaced(r), r.pc = "active"
  PROVE  Rest(r) \in Nat \ {0} /\ GoesOn(ActiveAtr(r, x), r, Rest(r) - 1)
<1> DEFINE e == ActiveTech(r)
           s == [r EXCEPT !.tags = @ \cup {e, IF e = "A" THEN "P2P" ELSE "F P2P"}]
           t == [r EXCEPT !.act[e] = (@ + 255) % 256]
           k == 1 + r.cfg.limitA * OfRound + AfterA(r) + Later(r)
<1>1. InLoop(r)
  BY RunsOn DEF Polling
<1>2. /\ r.cfg.limitA * OfRound \in Nat /\ Later(r) \in Nat /\ AfterA(r) \in Nat
      /\ OfLoop(r) = 2 + r.cfg.limitA * OfRound + AfterA(r)
  BY <1>1, CostsAreNumbers DEF InLoop, IsCall
<1>3. Rest(r) = OfLoop(r) + Later(r)
  BY DEF Rest
<1>4. Rest(r) \in Nat \ {0} /\ Rest(r) - 1 = k /\ k \in Nat
  BY <1>2, <1>3
<1>5. IsReader(s) /\ IsReader(t)
  BY DEF IsCall, IsReader
<1>6. s.cfg = r.cfg /\ s.op = r.op /\ s.sent = r.sent /\ t.cfg = r.cfg /\ t.op = r.op /\ t.sent = r.sent /\ t.loop = r.loop
  BY DEF IsCall, IsReader, Fields
<1> HIDE DEF s, t
<1>7. GoesOn(Return(s, "SUCCESS"), r, k)
  <2>1. GoesOn(Return(s, "SUCCESS"), s, k)
    BY <1>4, <1>5, <1>6, ReturnReturns DEF IsCall
  <2> HIDE DEF k
  <2> QED
    BY <1>4, <1>6, <2>1, GoesOnFrom
<1>8. GoesOn(PhaseA(t), r, k)
  <2>1. InLoop(t) /\ AfterA(t) = AfterA(r) /\ Later(t) = Later(r)
    BY <1>1, <1>5, <1>6, CostsAreOfConfig DEF InLoop, IsCall
  <2>2. GoesOn(PhaseA(t), t, k)
    BY <1>6, <2>1, PhaseAGoesOn
  <2> HIDE DEF k
  <2> QED
    BY <1>4, <1>6, <2>2, GoesOnFrom
<1>9. ActiveAtr(r, x) \in {Return(s, "SUCCESS"), PhaseA(t)}
  BY DEF ActiveAtr, s, t
<1> QED
  BY <1>4, <1>7, <1>8, <1>9

LEMMA BeginLoopGoesOn ==
  ASSUME NEW r, InLoop(r)
  PROVE  GoesOn(BeginLoop(r), r, r.loop * OfLoop(r)) /\ r.loop * OfLoop(r) \in Nat
<1> DEFINE s == [r EXCEPT !.tags = {}]
           t == [s EXCEPT !.pc = "active"]
           m == 1 + r.cfg.limitA * OfRound + AfterA(r) + Later(r)
           k == OfLoop(r) + Later(r)
<1>1. /\ r.cfg.limitA * OfRound \in Nat /\ Later(r) \in Nat /\ AfterA(r) \in Nat /\ r.loop * OfLoop(r) = Later(r) + OfLoop(r)
      /\ OfLoop(r) = 2 + r.cfg.limitA * OfRound + AfterA(r)
  BY CostsAreNumbers DEF InLoop, IsCall
<1>2. k \in Nat /\ m \in Nat /\ m <= k /\ r.loop * OfLoop(r) = k
  BY <1>1
<1>3. IsReader(s)
  BY DEF InLoop, IsCall, IsReader
<1>4. s.cfg = r.cfg /\ s.op = r.op /\ s.sent = r.sent /\ s.loop = r.loop
  BY DEF InLoop, IsCall, IsReader, Fields
<1> HIDE DEF s
<1>5. IsReader(t) /\ t.pc = "active" /\ t.cfg = r.cfg /\ t.op = r.op /\ t.sent = r.sent /\ t.loop = r.loop
  BY <1>3, <1>4 DEF IsReader, Fields
<1> HIDE DEF t
<1>6. Rest(t) = k
  BY <1>5, CostsAreOfConfig DEF Rest
<1>7. InLoop(s) /\ AfterA(s) = AfterA(r) /\ Later(s) = Later(r)
  BY <1>3, <1>4, CostsAreOfConfig DEF InLoop, IsCall
<1>8. GoesOn(PhaseA(s), s, m)
  BY <1>4, <1>7, PhaseAGoesOn
<1> HIDE DEF k, m
<1>9. GoesOn(PhaseA(s), r, k)
  BY <1>2, <1>4, <1>8, GoesOnFrom
<1>10. GoesOn(t, r, k)
  BY <1>2, <1>5, <1>6 DEF GoesOn, InLoop, IsCall, WellPlaced, Polling, Activating
<1> QED
  BY <1>2, <1>9, <1>10 DEF BeginLoop, s, t

\* A call of phacDiscLoop_Start.
LEMMA BeginGoesOn ==
  ASSUME NEW r, IsCall(r), r.sent = 0, NEW cfg \in Configs, NEW ext
  PROVE  LET s == Begin(r, cfg, ext) IN
         /\ IsCall(s) /\ WellPlaced(s)
         /\ s.pc # "idle" => s.sent + Rest(s) <= Limit(s)
<1> DEFINE a == [r EXCEPT !.op = "start", !.cfg = cfg, !.target = None, !.tags = {}, !.loop = cfg.loops]
           s == [a EXCEPT !.n = [A |-> 0, B |-> 0, F |-> 0], !.act = [A |-> 0, B |-> 0, F |-> 0],
                          !.uids = <<>>, !.listens = cfg.mode # "poll pause" /\ ext # "unsupported"]
           t == Begin(r, cfg, ext)
<1>1. IsReader(a)
  BY DEF IsCall, IsReader
<1>2. a.op = "start" /\ a.cfg = cfg /\ a.loop = cfg.loops /\ a.sent = 0
  BY DEF IsCall, IsReader, Fields
<1>3. t = IF cfg.mode # "listen" /\ ext # "on" THEN BeginLoop(s) ELSE AfterLoops(s)
  BY DEF Begin
<1> HIDE DEF a, t
<1>4. IsReader(s) /\ s.op = "start" /\ s.cfg = cfg /\ s.loop = cfg.loops /\ s.sent = 0
  <2>1. IsReader(s)
    BY <1>1 DEF IsReader
  <2>2. s.op = a.op /\ s.cfg = a.cfg /\ s.loop = a.loop /\ s.sent = a.sent
    BY <1>1 DEF IsReader, Fields
  <2> QED
    BY <1>2, <2>1, <2>2
<1> HIDE DEF s
<1>5. InLoop(s) /\ cfg.loops \in Nat
  BY <1>4, LimitAssumption DEF InLoop, IsCall
<1>6. GoesOn(t, s, s.loop * OfLoop(s)) /\ s.loop * OfLoop(s) \in Nat
  <2>1. GoesOn(BeginLoop(s), s, s.loop * OfLoop(s)) /\ s.loop * OfLoop(s) \in Nat
    BY <1>5, BeginLoopGoesOn
  <2>2. GoesOn(AfterLoops(s), s, s.loop * OfLoop(s))
    BY <1>5, <2>1, AfterLoopsGoesOn, GoesOnFrom
  <2> QED
    BY <1>3, <2>1, <2>2
<1>7. t.op = "start" /\ t.cfg = cfg /\ (t.pc # "idle" => t.sent = 0) /\ Limit(t) = s.loop * OfLoop(s) /\ Rest(t) \in 0 .. Limit(t)
  BY <1>4, <1>6, CostsAreOfConfig DEF GoesOn, Limit
<1>8. t.pc # "idle" => t.sent + Rest(t) <= Limit(t)
  BY <1>6, <1>7
<1> QED
  BY <1>6, <1>8 DEF GoesOn, t

-----------------------------------------------------------------------------
(* What comes of an exchange.                                              *)

LEMMA SomethingGreatest ==
  ASSUME NEW n \in Nat, NEW T, T \subseteq 0 .. n, T # {}
  PROVE  \E i \in T : \A j \in T : j <= i
<1> DEFINE S == 0 .. n
           U == {i .. n : i \in T}
<1>1. IsFiniteSet(S)
  BY FS_Interval
<1>2. IsWellFoundedOn(StrictSubsetOrdering(S), SUBSET S)
  BY <1>1, FS_StrictSubsetOrderingWellFounded, FS_FiniteSubsetsOfFinite
<1>3. U \subseteq SUBSET S /\ U # {}
  <2>1. \A i \in T : i \in Nat
    OBVIOUS
  <2>2. \A i \in Nat : i .. n \subseteq S
    OBVIOUS
  <2> HIDE DEF S
  <2> QED
    BY <2>1, <2>2
<1>4. PICK u \in U : \A v \in U : ~ (<<v, u>> \in StrictSubsetOrdering(S))
  <2> HIDE DEF U, S
  <2> QED
    BY <1>2, <1>3, WFMin
<1>5. PICK i \in T : u = i .. n
  BY <1>4
<1>6. ASSUME NEW j \in T, ~ (j <= i)
      PROVE  FALSE
  <2>1. i \in Nat /\ j \in Nat /\ j > i /\ j <= n
    BY <1>5, <1>6
  <2>2. j .. n \subseteq i .. n /\ i \in i .. n /\ i \notin j .. n
    BY <2>1
  <2>3. j .. n \in U /\ i .. n \in U
    BY <1>5
  <2>4. j .. n \subseteq S /\ i .. n \subseteq S /\ j .. n # i .. n
    BY <2>1, <2>2
  <2> HIDE DEF S, U
  <2>5. <<j .. n, u>> \in StrictSubsetOrdering(S)
    BY <1>5, <2>2, <2>4 DEF StrictSubsetOrdering
  <2> QED
    BY <1>4, <2>3, <2>5
<1> QED
  BY <1>5, <1>6

LEMMA PartsAreSequences ==
  ASSUME NEW p \in Part
  PROVE  p \in Seq(0 .. 1) /\ Len(p) = PartLen /\ SubSeq(p, 1, PartLen) = p
  BY PartAssumption DEF Part

LEMMA LongestCommonPrefixIs ==
  ASSUME NEW says, says \subseteq Part, says # {}
  PROVE  LET d == LongestCommonPrefix(says) IN
         /\ d \in Seq(0 .. 1) /\ Len(d) <= PartLen
         /\ \A t \in says : IsPrefix(d, t)
         /\ \A e \in Seq(0 .. 1) : (\A t \in says : IsPrefix(e, t)) => Len(e) <= Len(d)
<1> DEFINE C == CommonPrefixes(says)
<1>1. \A p \in C : p \in Seq(0 .. 1) /\ Len(p) \in 0 .. PartLen /\ \A t \in says : IsPrefix(p, t)
  <2> SUFFICES ASSUME NEW p \in C
               PROVE  p \in Seq(0 .. 1) /\ Len(p) \in 0 .. PartLen /\ \A t \in says : IsPrefix(p, t)
    OBVIOUS
  <2>1. PICK s \in says : p \in Prefixes(s)
    BY DEF CommonPrefixes
  <2>2. s \in Seq(0 .. 1) /\ Len(s) = PartLen /\ PartLen \in Nat
    BY <2>1, PartsAreSequences, PartAssumption
  <2>3. PICK l \in 0 .. PartLen : p = SubSeq(s, 1, l)
    BY <2>1, <2>2 DEF Prefixes
  <2>4. p \in Seq(0 .. 1) /\ Len(p) = l
    BY <2>2, <2>3
  <2> QED
    BY <2>4 DEF CommonPrefixes
<1>2. \A e \in Seq(0 .. 1) : (\A t \in says : IsPrefix(e, t)) => e \in C
  <2> SUFFICES ASSUME NEW e \in Seq(0 .. 1), \A t \in says : IsPrefix(e, t)
               PROVE  e \in C
    OBVIOUS
  <2>1. PICK s \in says : TRUE
    OBVIOUS
  <2>2. s \in Seq(0 .. 1) /\ Len(e) <= Len(s) /\ SubSeq(e, 1, Len(e)) = SubSeq(s, 1, Len(e))
    BY <2>1, PartsAreSequences DEF IsPrefix
  <2>3. SubSeq(e, 1, Len(e)) = e /\ Len(e) \in Nat
    OBVIOUS
  <2>4. e \in Prefixes(s)
    <3>1. Len(e) \in 0 .. Len(s) /\ e = SubSeq(s, 1, Len(e))
      BY <2>2, <2>3
    <3> QED
      BY <3>1 DEF Prefixes
  <2> QED
    BY <2>4 DEF CommonPrefixes
<1>3. C # {}
  <2>1. \A t \in says : IsPrefix(<<>>, t)
    BY PartsAreSequences, PartAssumption DEF IsPrefix
  <2> HIDE DEF C
  <2>2. <<>> \in Seq(0 .. 1)
    OBVIOUS
  <2> QED
    BY <1>2, <2>1, <2>2
<1> HIDE DEF C
<1>4. PICK d \in C : \A e \in C : Len(e) <= Len(d)
  <2> DEFINE T == {Len(p) : p \in C}
  <2>1. T \subseteq 0 .. PartLen /\ T # {}
    BY <1>1, <1>3
  <2>2. \E i \in T : \A j \in T : j <= i
    BY <2>1, SomethingGreatest, PartAssumption
  <2> QED
    BY <2>2
<1>5. LongestCommonPrefix(says) \in C /\ \A e \in C : Len(e) <= Len(LongestCommonPrefix(says))
  BY <1>4 DEF LongestCommonPrefix, C
<1> QED
  BY <1>1, <1>2, <1>5

LEMMA Identified ==
  ASSUME NEW c \in Card, Kind[c].tech = "A"
  PROVE  /\ Kind[c].uid \in [1 .. 1 -> Part] \cup [1 .. 2 -> Part]
         /\ \/ DOMAIN Kind[c].uid = 1 .. 1 /\ Len(Kind[c].uid) = 1
            \/ DOMAIN Kind[c].uid = 1 .. 2 /\ Len(Kind[c].uid) = 2
         /\ \A l \in DOMAIN Kind[c].uid : Kind[c].uid[l] \in Part
<1>1. Kind[c].uid \in [1 .. 1 -> Part] \cup [1 .. 2 -> Part]
  BY KindAssumption
<1>2. \A u \in [1 .. 1 -> Part] : DOMAIN u = 1 .. 1 /\ Len(u) = 1 /\ \A l \in DOMAIN u : u[l] \in Part
  OBVIOUS
<1>3. \A u \in [1 .. 2 -> Part] : DOMAIN u = 1 .. 2 /\ Len(u) = 2 /\ \A l \in DOMAIN u : u[l] \in Part
  OBVIOUS
<1> QED
  BY <1>1, <1>2, <1>3

IsCard(s) == s = [f \in CardFields |-> s[f]]

LEMMA SoundCardsAre ==
  ASSUME NEW cs
  PROVE  IsCards(cs) <=> cs = [c \in Card |-> cs[c]] /\ \A c \in Card : IsCard(cs[c])
  BY DEF IsCards, IsCard

LEMMA StillCards ==
  /\ IsCard(Away) /\ IsCard(Idle) /\ IsCard(Halted)
  /\ Away.st = "out" /\ Idle.st = "idle" /\ Halted.st = "halt"
  BY DEF IsCard, CardFields, Away, Idle, Halted

LEMMA BackIsSound ==
  ASSUME NEW s, IsCard(s)
  PROVE  IsCard(Back(s)) /\ Back(s).st # "ready"
  BY StillCards DEF Back

LEMMA HeedingIsSound ==
  ASSUME NEW c \in Card, NEW s, IsCard(s), NEW cmd, NEW slot, Heeds(c, s, cmd),
         Kind[c].tech = "A" /\ s.st = "ready" => s.lvl \in DOMAIN Kind[c].uid,
         cmd.name \in {"REQB", "WUPB"} => cmd.tech = "B"
  PROVE  LET t == Heeding(c, s, cmd, slot) IN
         IsCard(t) /\ (Kind[c].tech = "A" /\ t.st = "ready" => t.lvl \in DOMAIN Kind[c].uid)
<1> DEFINE t == Heeding(c, s, cmd, slot)
           a == [s EXCEPT !.st = "ready", !.lvl = 1, !.star = s.st = "halt"]
           b == [s EXCEPT !.lvl = @ + 1]
           d == [s EXCEPT !.st = "active", !.lvl = 0]
           e == [Away EXCEPT !.st = "layer4"]
           f == [s EXCEPT !.rate = cmd.arg]
           g == [s EXCEPT !.st = "ready", !.slot = slot]
           h == [Away EXCEPT !.st = "layer4", !.rate = cmd.arg.rate]
<1>1. IsCard(a) /\ IsCard(b) /\ IsCard(d) /\ IsCard(e) /\ IsCard(f) /\ IsCard(g) /\ IsCard(h)
  BY StillCards DEF IsCard
<1>2. /\ a.st = "ready" /\ a.lvl = 1 /\ b.st = s.st /\ b.lvl = s.lvl + 1 /\ d.st = "active" /\ e.st = "layer4"
      /\ f.st = s.st /\ f.lvl = s.lvl /\ h.st = "layer4"
  BY StillCards DEF IsCard, CardFields
<1>3. Kind[c].tech = cmd.tech
  BY DEF Heeds
<1> HIDE DEF a, b, d, e, f, g, h
<1>4. CASE cmd.name \in {"REQA", "WUPA"}
  <2>1. t = a
    BY <1>4 DEF Heeding, a
  <2>2. Kind[c].tech = "A" => 1 \in DOMAIN Kind[c].uid
    BY Identified
  <2> QED
    BY <1>1, <1>2, <2>1, <2>2
<1>5. CASE cmd.name = "SELECT" /\ s.lvl < Len(Kind[c].uid)
  <2>1. t = b
    BY <1>5 DEF Heeding, b
  <2>2. Kind[c].tech = "A" /\ s.st = "ready" => s.lvl + 1 \in DOMAIN Kind[c].uid
    BY <1>5, Identified
  <2> QED
    BY <1>1, <1>2, <2>1, <2>2
<1>6. CASE cmd.name = "SELECT" /\ s.lvl = Len(Kind[c].uid) /\ ~(s.lvl < Len(Kind[c].uid))
  <2>1. t = d
    BY <1>6 DEF Heeding, d
  <2> QED
    BY <1>1, <1>2, <2>1
<1>7. CASE cmd.name = "SELECT" /\ ~(s.lvl = Len(Kind[c].uid)) /\ ~(s.lvl < Len(Kind[c].uid))
  <2>1. t = s
    BY <1>7 DEF Heeding
  <2> QED
    BY <2>1
<1>8. CASE cmd.name \in {"HLTA", "DESELECT"}
  <2>1. t = Halted
    BY <1>8 DEF Heeding
  <2> QED
    BY <2>1, StillCards
<1>9. CASE cmd.name \in {"RATS", "ATR"}
  <2>1. t = e
    BY <1>9 DEF Heeding, e
  <2> QED
    BY <1>1, <1>2, <2>1
<1>10. CASE cmd.name = "PPS"
  <2>1. t = f
    BY <1>10 DEF Heeding, f
  <2> QED
    BY <1>1, <1>2, <2>1
<1>11. CASE cmd.name \in {"REQB", "WUPB"}
  <2>1. t = g
    BY <1>11 DEF Heeding, g
  <2> QED
    BY <1>1, <1>3, <1>11, <2>1
<1>12. CASE cmd.name = "ATTRIB"
  <2>1. t = h
    BY <1>12 DEF Heeding, h
  <2> QED
    BY <1>1, <1>2, <2>1
<1>13. CASE cmd.name \notin {"REQA", "WUPA", "SELECT", "HLTA", "DESELECT", "RATS", "ATR", "PPS", "REQB", "WUPB", "ATTRIB"}
  <2>1. t = s
    BY <1>13 DEF Heeding
  <2> QED
    BY <2>1
<1> QED
  BY <1>4, <1>5, <1>6, <1>7, <1>8, <1>9, <1>10, <1>11, <1>12, <1>13

LEMMA AfterIsSound ==
  ASSUME NEW cs, SoundCards(cs), NEW cmd, NEW draw, cmd.name \in {"REQB", "WUPB"} => cmd.tech = "B"
  PROVE  SoundCards(After(cs, cmd, draw))
<1> DEFINE n == After(cs, cmd, draw)
<1>1. \A c \in Card : IsCard(cs[c]) /\ (Kind[c].tech = "A" /\ cs[c].st = "ready" => cs[c].lvl \in DOMAIN Kind[c].uid)
  BY SoundCardsAre DEF SoundCards, AtALevel
<1>2. n = [c \in Card |-> n[c]]
  BY DEF After
<1>3. ASSUME NEW c \in Card
      PROVE  IsCard(n[c]) /\ (Kind[c].tech = "A" /\ n[c].st = "ready" => n[c].lvl \in DOMAIN Kind[c].uid)
  <2>1. CASE Heeds(c, cs[c], cmd)
    <3>1. n[c] = Heeding(c, cs[c], cmd, draw[c])
      BY <2>1 DEF After
    <3> QED
      BY <1>1, <2>1, <3>1, HeedingIsSound
  <2>2. CASE ~Heeds(c, cs[c], cmd) /\ cmd.tech = "A" /\ Kind[c].tech = "A"
    <3>1. n[c] = Back(cs[c])
      BY <2>2 DEF After
    <3> QED
      BY <1>1, <3>1, BackIsSound
  <2>3. CASE ~Heeds(c, cs[c], cmd) /\ ~(cmd.tech = "A" /\ Kind[c].tech = "A")
    <3>1. n[c] = cs[c]
      BY <2>3 DEF After
    <3> QED
      BY <1>1, <3>1
  <2> QED
    BY <2>1, <2>2, <2>3
<1> HIDE DEF n
<1> QED
  BY <1>2, <1>3, SoundCardsAre DEF SoundCards, AtALevel, n

LEMMA UnpoweredIsSound ==
  ASSUME NEW cs
  PROVE  SoundCards(Unpowered(cs))
<1>1. \A c \in Card : Unpowered(cs)[c] \in {Away, Idle}
  BY DEF Unpowered
<1>2. Unpowered(cs) = [c \in Card |-> Unpowered(cs)[c]]
  BY DEF Unpowered
<1> QED
  BY <1>1, <1>2, StillCards, SoundCardsAre DEF SoundCards, AtALevel

\* An exchange: undisturbed, or disturbed and nothing understood.
LEMMA ExchangeBrings ==
  ASSUME NEW cmd, NEW slots, NEW x \in Exchanges(cmd, slots)
  PROVE  \/ \E d : /\ x.cards = After(cards, cmd, d)
                   /\ x.status = Received(Heard(cards, cmd, d), cmd).status
                   /\ x.data = Received(Heard(cards, cmd, d), cmd).data
         \/ /\ x.status \in {"IO_TIMEOUT", "INTEGRITY_ERROR"}
            /\ x.cards = cards \/ \E d : x.cards = After(cards, cmd, d)
<1>1. CASE x = Silence
  BY <1>1 DEF Silence
<1>2. CASE x \in Outcomes(cards, cmd, slots)
  <2>1. PICK d \in Draws(cmd, slots) :
          x \in LET next == After(cards, cmd, d)
                    says == Heard(cards, cmd, d)
                    fault(n, status) == [cards |-> n, status |-> status, data |-> <<>>, faults |-> 1]
                    heard == Received(says, cmd) IN
                {[cards |-> next, status |-> heard.status, data |-> heard.data, faults |-> 0]}
                \cup (IF next = cards /\ says = {} THEN {} ELSE {fault(cards, "IO_TIMEOUT")})
                \cup (IF says = {} THEN {} ELSE {fault(next, "IO_TIMEOUT"), fault(next, "INTEGRITY_ERROR")})
    BY <1>2 DEF Outcomes
  <2> DEFINE next == After(cards, cmd, d)
             heard == Received(Heard(cards, cmd, d), cmd)
  <2>2. x \in {[cards |-> next, status |-> heard.status, data |-> heard.data, faults |-> 0],
               [cards |-> cards, status |-> "IO_TIMEOUT", data |-> <<>>, faults |-> 1],
               [cards |-> next, status |-> "IO_TIMEOUT", data |-> <<>>, faults |-> 1],
               [cards |-> next, status |-> "INTEGRITY_ERROR", data |-> <<>>, faults |-> 1]}
    BY <2>1
  <2> QED
    BY <2>2
<1> QED
  BY <1>1, <1>2 DEF Exchanges

LEMMA ExchangeIsSound ==
  ASSUME SoundCards(cards), NEW cmd, NEW slots, NEW x \in Exchanges(cmd, slots),
         cmd.name \in {"REQB", "WUPB"} => cmd.tech = "B"
  PROVE  SoundCards(x.cards)
  BY ExchangeBrings, AfterIsSound

\* Anticollision.
LEMMA CollisionsTell ==
  ASSUME NEW cs, AtALevel(cs), NEW cmd, NEW draw, cmd.name = "ANTICOLL", cmd.tech = "A", cmd.arg \in Seq(0 .. 1),
         Received(Heard(cs, cmd, draw), cmd).status = "COLLISION_ERROR"
  PROVE  LET d == Received(Heard(cs, cmd, draw), cmd).data IN
         d \in Seq(0 .. 1) /\ Len(cmd.arg) <= Len(d) /\ Len(d) < PartLen
<1> DEFINE says == Heard(cs, cmd, draw)
           d == LongestCommonPrefix(says)
<1>1. says \subseteq Part /\ \A t \in says : IsPrefix(cmd.arg, t)
  <2> SUFFICES ASSUME NEW t \in says
               PROVE  t \in Part /\ IsPrefix(cmd.arg, t)
    OBVIOUS
  <2>1. PICK c \in Card : Answers(c, cs[c], cmd, draw[c]) /\ t = Answer(c, cs[c], cmd)
    BY DEF Heard
  <2>2. t = Kind[c].uid[cs[c].lvl]
    BY <2>1 DEF Answer
  <2>3. Kind[c].tech = "A" /\ cs[c].st = "ready" /\ IsPrefix(cmd.arg, Kind[c].uid[cs[c].lvl])
    BY <2>1 DEF Answers, Heeds
  <2>4. t \in Part
    BY <2>2, <2>3, Identified DEF AtALevel
  <2> QED
    BY <2>2, <2>3, <2>4
<1>2. says # {} /\ Cardinality(says) # 1 /\ Received(says, cmd).data = d
  <2>1. Received(says, cmd).status = "COLLISION_ERROR"
    OBVIOUS
  <2> HIDE DEF says
  <2>2. says # {}
    <3>1. Received({}, cmd) = [status |-> "IO_TIMEOUT", data |-> <<>>]
      BY FS_EmptySet DEF Received
    <3>2. says = {} => Received(says, cmd) = Received({}, cmd)
      BY Zenon
    <3> QED
      BY <2>1, <3>1, <3>2
  <2>3. Cardinality(says) # 1
    BY <2>1, <2>2 DEF Received
  <2>4. Cardinality(says) > 1
    BY <2>1, <2>2, <2>3 DEF Received
  <2> QED
    BY <2>2, <2>3, <2>4 DEF Received
<1> HIDE DEF says
<1>3. PICK a \in says, b \in says : a # b
  <2>1. PICK a \in says : TRUE
    BY <1>2
  <2>2. says # {a}
    BY <1>2, FS_Singleton
  <2> QED
    BY <2>1, <2>2
<1>4. /\ d \in Seq(0 .. 1) /\ Len(d) <= PartLen /\ IsPrefix(d, a) /\ IsPrefix(d, b)
      /\ Len(cmd.arg) <= Len(d)
  BY <1>1, <1>2, <1>3, LongestCommonPrefixIs
<1>5. Len(d) # PartLen
  <2> SUFFICES ASSUME Len(d) = PartLen
               PROVE  FALSE
    OBVIOUS
  <2>1. SubSeq(a, 1, PartLen) = a /\ SubSeq(b, 1, PartLen) = b
    BY <1>1, <1>3, PartsAreSequences
  <2> QED
    BY <1>3, <1>4, <2>1 DEF IsPrefix
<1>6. Len(d) \in Nat /\ PartLen \in Nat
  BY <1>4, PartAssumption
<1> HIDE DEF d
<1> QED
  BY <1>2, <1>4, <1>5, <1>6 DEF says

LEMMA AnticollisionsTell ==
  ASSUME SoundCards(cards), NEW lvl, NEW uid \in Seq(0 .. 1),
         NEW x \in Exchanges(Command("ANTICOLL", "A", lvl, uid), 1)
  PROVE  CollidesBeyond(x, uid)
<1> DEFINE cmd == Command("ANTICOLL", "A", lvl, uid)
<1>1. cmd.name = "ANTICOLL" /\ cmd.tech = "A" /\ cmd.arg = uid
  BY DEF Command
<1> HIDE DEF cmd
<1>2. SUFFICES ASSUME x.status = "COLLISION_ERROR"
               PROVE  x.data \in Seq(0 .. 1) /\ Len(uid) <= Len(x.data) /\ Len(x.data) < PartLen
  BY DEF CollidesBeyond
<1>3. PICK d : /\ x.status = Received(Heard(cards, cmd, d), cmd).status
               /\ x.data = Received(Heard(cards, cmd, d), cmd).data
  BY <1>2, ExchangeBrings DEF cmd
<1> QED
  BY <1>1, <1>2, <1>3, CollisionsTell DEF SoundCards

\* Selection.
LEMMA SelectionsTell ==
  ASSUME SoundCards(cards), NEW lvl \in {1, 2}, NEW uid, NEW x \in Exchanges(Command("SELECT", "A", lvl, uid), 1)
  PROVE  CascadesOnce(x, lvl)
<1> DEFINE cmd == Command("SELECT", "A", lvl, uid)
<1>1. cmd.name = "SELECT" /\ cmd.tech = "A" /\ cmd.lvl = lvl
  BY DEF Command
<1> HIDE DEF cmd
<1>2. SUFFICES ASSUME x.status = "SUCCESS", x.data.cascade
               PROVE  lvl = 1
  BY DEF CascadesOnce, Ok
<1>3. PICK d : /\ x.status = Received(Heard(cards, cmd, d), cmd).status
               /\ x.data = Received(Heard(cards, cmd, d), cmd).data
  BY <1>2, ExchangeBrings DEF cmd
<1> DEFINE says == Heard(cards, cmd, d)
<1>4. x.data \in says
  <2> HIDE DEF says
  <2>1. Received(says, cmd).status = "SUCCESS" => Received(says, cmd).data = CHOOSE a \in says : TRUE
    BY <1>1, FS_EmptySet DEF Received
  <2>2. Received(says, cmd).status = "SUCCESS" => says # {}
    BY <1>1, FS_EmptySet DEF Received
  <2> QED
    BY <1>2, <1>3, <2>1, <2>2 DEF says
<1>5. PICK c \in Card : Answers(c, cards[c], cmd, d[c]) /\ x.data = Answer(c, cards[c], cmd)
  BY <1>4 DEF Heard
<1>6. Kind[c].tech = "A" /\ cards[c].st = "ready" /\ cards[c].lvl = lvl
  BY <1>1, <1>5 DEF Answers, Heeds
<1>7. cards[c].lvl < Len(Kind[c].uid)
  BY <1>1, <1>2, <1>5 DEF Answer
<1>8. Len(Kind[c].uid) \in {1, 2}
  BY <1>6, Identified
<1>9. \A m, n \in {1, 2} : m < n => m = 1
  OBVIOUS
<1> QED
  BY <1>6, <1>7, <1>8, <1>9

-----------------------------------------------------------------------------
(* The steps.                                                              *)

\* Neither where a call is nor what it has left depends on other fields.
LEMMA SamePlace ==
  ASSUME NEW r, NEW s, IsReader(s), r.cfg \in Configs, s.sent \in Nat, r.pc = "idle" => s.sent = 0,
         s.pc = r.pc, s.op = r.op, s.cfg = r.cfg, s.loop = r.loop, s.tries = r.tries, s.round = r.round,
         s.lvl = r.lvl, s.uid = r.uid, s.slot = r.slot, WellPlaced(r)
  PROVE  IsCall(s) /\ WellPlaced(s) /\ Rest(s) = Rest(r) /\ Limit(s) = Limit(r)
<1>1. /\ Slots(s) = Slots(r) /\ PollingB(s) = PollingB(r) /\ AfterA(s) = AfterA(r) /\ OfLoop(s) = OfLoop(r)
      /\ Later(s) = Later(r) /\ AfterB(s) = AfterB(r) /\ Rounds(s) = Rounds(r) /\ OtherLevel(s) = OtherLevel(r)
  BY CostsAreOfConfig DEF OtherLevel
<1>2. IsCall(s) /\ WellPlaced(s)
  BY <1>1 DEF IsCall, WellPlaced
<1>3. Rest(s) = Rest(r)
  BY <1>1 DEF Rest
<1>4. Limit(s) = Limit(r)
  BY <1>1 DEF Limit
<1> QED
  BY <1>2, <1>3, <1>4

\* A frame less.
LEMMA OnAirKeepsBounded ==
  ASSUME Bounded, rd.pc # "idle", NEW r, Rest(rd) \in Nat \ {0}, GoesOn(r, rd, Rest(rd) - 1),
         NEW x, SoundCards(x.cards), OnAir(x, r)
  PROVE  Bounded'
<1>1. rd' = [r EXCEPT !.sent = IF r.pc = "idle" THEN 0 ELSE r.sent + 1] /\ cards' = x.cards
  BY DEF OnAir
<1>2. /\ IsReader(r) /\ r.cfg \in Configs /\ r.sent \in Nat /\ WellPlaced(r) /\ Rest(r) \in Nat /\ Rest(r) <= Rest(rd) - 1
      /\ r.cfg = rd.cfg /\ r.op = rd.op /\ (r.pc # "idle" => r.sent = rd.sent)
  BY DEF GoesOn, IsCall
<1>3. IsReader(rd')
  BY <1>1, <1>2 DEF IsReader
<1>4. /\ rd'.pc = r.pc /\ rd'.op = r.op /\ rd'.cfg = r.cfg /\ rd'.loop = r.loop /\ rd'.tries = r.tries /\ rd'.round = r.round
      /\ rd'.lvl = r.lvl /\ rd'.uid = r.uid /\ rd'.slot = r.slot
  BY <1>1, <1>2 DEF IsReader, Fields
<1>5. rd'.sent = IF r.pc = "idle" THEN 0 ELSE r.sent + 1
  BY <1>1, <1>2 DEF IsReader, Fields
<1>6. rd'.sent \in Nat /\ (r.pc = "idle" => rd'.sent = 0)
  BY <1>2, <1>5
<1>7. IsCall(rd') /\ WellPlaced(rd') /\ Rest(rd') = Rest(r) /\ Limit(rd') = Limit(r)
  BY <1>2, <1>3, <1>4, <1>6, SamePlace
<1>8. ASSUME rd'.pc # "idle"
      PROVE  rd'.sent + Rest(rd') <= Limit(rd')
  <2>1. rd'.sent = rd.sent + 1 /\ rd.sent \in Nat /\ rd.sent + Rest(rd) <= Limit(rd)
    BY <1>2, <1>4, <1>5, <1>8 DEF Bounded, IsCall
  <2>2. Limit(r) = Limit(rd) /\ Limit(rd) \in Int
    <3>1. rd.cfg.loops \in Nat /\ OfLoop(rd) \in Nat /\ ActivationA \in Nat /\ PollingB(rd) \in Nat
      BY LimitAssumption, CostsAreNumbers DEF Bounded, IsCall
    <3>2. rd.cfg.loops * OfLoop(rd) \in Nat
      BY <3>1, Product
    <3> QED
      BY <1>2, <3>1, <3>2, CostsAreOfConfig DEF Limit
  <2> QED
    BY <1>2, <1>7, <2>1, <2>2
<1> QED
  BY <1>1, <1>7, <1>8 DEF Bounded, SoundCards, IsCards, AtALevel, IsCall, IsReader, WellPlaced, Rest, Limit

LEMMA BoundedInitially == Init => Bounded
<1> SUFFICES ASSUME Init
             PROVE  Bounded
  OBVIOUS
<1>1. rd = Reset
  BY DEF Init
<1>2. PICK in \in SUBSET world : cards = [c \in Card |-> IF c \in in THEN Idle ELSE Away]
  BY DEF Init
<1>3. IsReader(rd)
  <2> DEFINE cfg == CHOOSE c \in Configs : TRUE
             none == [A |-> 0, B |-> 0, F |-> 0]
             start == [pc |-> "idle", op |-> "none", ret |-> "SUCCESS", target |-> None, cfg |-> cfg,
                       stop |-> FALSE, field |-> TRUE, listens |-> FALSE, loop |-> 0, tries |-> 0, tags |-> {},
                       n |-> none, act |-> none, uids |-> <<>>, pupi |-> None, idm |-> None,
                       round |-> 0, lvl |-> 0, uid |-> <<>>, whole |-> <<>>, more |-> FALSE, given |-> <<>>, at |-> 0,
                       slot |-> 0, first |-> "SUCCESS",
                       serial |-> <<>>, complete |-> FALSE, answered |-> None, rate |-> Lowest, sent |-> 0]
  <2>1. rd = start
    BY <1>1 DEF Reset, Lowest
  <2> HIDE DEF cfg, none
  <2>2. start = [f \in Fields |-> start[f]]
    BY DEF Fields
  <2> HIDE DEF start
  <2> QED
    BY <2>1, <2>2 DEF IsReader
<1>4. rd.pc = "idle" /\ rd.sent = 0 /\ rd.cfg \in Configs
  BY <1>1, LimitAssumption DEF Reset
<1>5. IsCall(rd) /\ WellPlaced(rd)
  BY <1>3, <1>4 DEF IsCall, WellPlaced, Polling, Activating
<1>6. SoundCards(cards)
  <2>1. \A c \in Card : cards[c] \in {Away, Idle}
    BY <1>2
  <2>2. cards = [c \in Card |-> cards[c]]
    BY <1>2
  <2> QED
    BY <2>1, <2>2, StillCards, SoundCardsAre DEF SoundCards, AtALevel
<1> QED
  BY <1>4, <1>5, <1>6 DEF Bounded

LEMMA PollAKeepsBounded == Bounded /\ PollA => Bounded'
<1> SUFFICES ASSUME Bounded, PollA
             PROVE  Bounded'
  OBVIOUS
<1>1. IsCall(rd) /\ WellPlaced(rd) /\ SoundCards(cards)
  BY DEF Bounded
<1>2. CASE rd.pc = "a.detect" /\ \E x \in Send("REQA", "A", 0, None) : OnAir(x, DetectA(rd, x))
  <2>1. PICK x \in Send("REQA", "A", 0, None) : OnAir(x, DetectA(rd, x))
    BY <1>2
  <2>2. SoundCards(x.cards)
    BY <1>1, <2>1, ExchangeIsSound DEF Send, Command
  <2> QED
    BY <1>1, <1>2, <2>1, <2>2, DetectAGoesOn, OnAirKeepsBounded
<1>3. CASE rd.pc = "a.anticoll" /\ \E x \in Send("ANTICOLL", "A", rd.lvl, rd.uid) : OnAir(x, Anticollision(rd, x))
  <2>1. PICK x \in Send("ANTICOLL", "A", rd.lvl, rd.uid) : OnAir(x, Anticollision(rd, x))
    BY <1>3
  <2>2. SoundCards(x.cards)
    BY <1>1, <2>1, ExchangeIsSound DEF Send, Command
  <2>3. CollidesBeyond(x, rd.uid)
    BY <1>1, <1>3, <2>1, AnticollisionsTell DEF Send, WellPlaced
  <2> QED
    BY <1>1, <1>3, <2>1, <2>2, <2>3, AnticollisionGoesOn, OnAirKeepsBounded
<1>4. CASE rd.pc = "a.select" /\ \E x \in Send("SELECT", "A", rd.lvl, rd.uid) : OnAir(x, Select(rd, x))
  <2>1. PICK x \in Send("SELECT", "A", rd.lvl, rd.uid) : OnAir(x, Select(rd, x))
    BY <1>4
  <2>2. SoundCards(x.cards)
    BY <1>1, <2>1, ExchangeIsSound DEF Send, Command
  <2>3. CascadesOnce(x, rd.lvl)
    BY <1>1, <1>4, <2>1, SelectionsTell DEF Send, WellPlaced
  <2> QED
    BY <1>1, <1>4, <2>1, <2>2, <2>3, SelectGoesOn, OnAirKeepsBounded
<1>5. CASE rd.pc = "a.halt" /\ \E x \in Send("HLTA", "A", 0, None) : OnAir(x, HaltA(rd, x))
  <2>1. PICK x \in Send("HLTA", "A", 0, None) : OnAir(x, HaltA(rd, x))
    BY <1>5
  <2>2. SoundCards(x.cards)
    BY <1>1, <2>1, ExchangeIsSound DEF Send, Command
  <2> QED
    BY <1>1, <1>5, <2>1, <2>2, HaltAGoesOn, OnAirKeepsBounded
<1>6. CASE rd.pc = "a.req" /\ \E x \in Send("REQA", "A", 0, None) : OnAir(x, RequestA(rd, x))
  <2>1. PICK x \in Send("REQA", "A", 0, None) : OnAir(x, RequestA(rd, x))
    BY <1>6
  <2>2. SoundCards(x.cards)
    BY <1>1, <2>1, ExchangeIsSound DEF Send, Command
  <2> QED
    BY <1>1, <1>6, <2>1, <2>2, RequestAGoesOn, OnAirKeepsBounded
<1> QED
  BY <1>2, <1>3, <1>4, <1>5, <1>6 DEF PollA

LEMMA CardActivationAKeepsBounded == Bounded /\ CardActivationA => Bounded'
<1> SUFFICES ASSUME Bounded, CardActivationA
             PROVE  Bounded'
  OBVIOUS
<1>1. IsCall(rd) /\ WellPlaced(rd) /\ SoundCards(cards)
  BY DEF Bounded
<1>2. CASE rd.pc = "aa.wake"
  <2>1. PICK x \in Send(IF rd.given = <<>> THEN "REQA" ELSE "WUPA", "A", 0, None) : OnAir(x, WakeUp(rd, x))
    BY <1>2 DEF CardActivationA
  <2>2. SoundCards(x.cards)
    BY <1>1, <2>1, ExchangeIsSound DEF Send, Command
  <2> QED
    BY <1>1, <1>2, <2>1, <2>2, WakeUpGoesOn, OnAirKeepsBounded
<1>3. CASE rd.pc = "aa.anticoll"
  <2>1. PICK x \in Send("ANTICOLL", "A", rd.lvl, rd.uid) : OnAir(x, AnticollisionOf(rd, x))
    BY <1>3 DEF CardActivationA
  <2>2. SoundCards(x.cards)
    BY <1>1, <2>1, ExchangeIsSound DEF Send, Command
  <2>3. CollidesBeyond(x, rd.uid)
    BY <1>1, <1>3, <2>1, AnticollisionsTell DEF Send, WellPlaced
  <2> QED
    BY <1>1, <1>3, <2>1, <2>2, <2>3, AnticollisionOfGoesOn, OnAirKeepsBounded
<1>4. CASE rd.pc = "aa.select"
  <2>1. PICK x \in Send("SELECT", "A", rd.lvl, rd.uid) : OnAir(x, SelectOf(rd, x))
    BY <1>4 DEF CardActivationA
  <2>2. SoundCards(x.cards)
    BY <1>1, <2>1, ExchangeIsSound DEF Send, Command
  <2>3. CascadesOnce(x, rd.lvl)
    BY <1>1, <1>4, <2>1, SelectionsTell DEF Send, WellPlaced
  <2> QED
    BY <1>1, <1>4, <2>1, <2>2, <2>3, SelectOfGoesOn, OnAirKeepsBounded
<1> QED
  BY <1>2, <1>3, <1>4 DEF CardActivationA

LEMMA ProtocolActivationAKeepsBounded == Bounded /\ ProtocolActivationA => Bounded'
<1> SUFFICES ASSUME Bounded, ProtocolActivationA
             PROVE  Bounded'
  OBVIOUS
<1>1. IsCall(rd) /\ WellPlaced(rd) /\ SoundCards(cards)
  BY DEF Bounded
<1>2. CASE rd.pc = "a.rats"
  <2>1. PICK x \in Send("RATS", "A", 0, None) : OnAir(x, Rats(rd, x))
    BY <1>2 DEF ProtocolActivationA
  <2>2. SoundCards(x.cards)
    BY <1>1, <2>1, ExchangeIsSound DEF Send, Command
  <2>3. Rest(rd) \in Nat \ {0} /\ GoesOn(Rats(rd, x), rd, Rest(rd) - 1)
    BY <1>1, <1>2, RatsGoesOn
  <2> QED
    BY <1>2, <2>1, <2>2, <2>3, OnAirKeepsBounded
<1>3. CASE rd.pc = "a.deselect"
  <2>1. PICK x \in Send("DESELECT", "A", 0, None) : OnAir(x, Deselect(rd, x))
    BY <1>3 DEF ProtocolActivationA
  <2>2. SoundCards(x.cards)
    BY <1>1, <2>1, ExchangeIsSound DEF Send, Command
  <2>3. Rest(rd) \in Nat \ {0} /\ GoesOn(Deselect(rd, x), rd, Rest(rd) - 1)
    BY <1>1, <1>3, DeselectGoesOn
  <2> QED
    BY <1>3, <2>1, <2>2, <2>3, OnAirKeepsBounded
<1>4. CASE rd.pc = "a.hlta"
  <2>1. PICK x \in Send("HLTA", "A", 0, None) : OnAir(x, Peer(rd, rd.first))
    BY <1>4 DEF ProtocolActivationA
  <2>2. SoundCards(x.cards)
    BY <1>1, <2>1, ExchangeIsSound DEF Send, Command
  <2>3. Rest(rd) \in Nat \ {0} /\ GoesOn(Peer(rd, rd.first), rd, Rest(rd) - 1)
    <3>1. Rest(rd) = 2 /\ Runs(rd)
      BY <1>1, <1>4, RunsOn DEF Rest
    <3> QED
      BY <3>1, PeerGoesOn
  <2> QED
    BY <1>4, <2>1, <2>2, <2>3, OnAirKeepsBounded
<1>5. CASE rd.pc = "a.pps"
  <2>1. PICK x \in Send("PPS", "A", 0, rd.cfg.rate) : OnAir(x, Pps(rd, x))
    BY <1>5 DEF ProtocolActivationA
  <2>2. SoundCards(x.cards)
    BY <1>1, <2>1, ExchangeIsSound DEF Send, Command
  <2>3. Rest(rd) \in Nat \ {0} /\ GoesOn(Pps(rd, x), rd, Rest(rd) - 1)
    BY <1>1, <1>5, PpsGoesOn
  <2> QED
    BY <1>5, <2>1, <2>2, <2>3, OnAirKeepsBounded
<1>6. CASE rd.pc = "a.atr"
  <2>1. PICK x \in Send("ATR", "A", 0, None) : OnAir(x, DoneA(rd, x.status))
    BY <1>6 DEF ProtocolActivationA
  <2>2. SoundCards(x.cards)
    BY <1>1, <2>1, ExchangeIsSound DEF Send, Command
  <2>3. Rest(rd) \in Nat \ {0} /\ GoesOn(DoneA(rd, x.status), rd, Rest(rd) - 1)
    <3>1. Rest(rd) = 1
      BY <1>6 DEF Rest
    <3> QED
      BY <1>1, <3>1, DoneAGoesOn
  <2> QED
    BY <1>6, <2>1, <2>2, <2>3, OnAirKeepsBounded
<1> QED
  BY <1>2, <1>3, <1>4, <1>5, <1>6 DEF ProtocolActivationA

LEMMA PollBKeepsBounded == Bounded /\ PollB => Bounded'
<1> SUFFICES ASSUME Bounded, PollB
             PROVE  Bounded'
  OBVIOUS
<1>1. IsCall(rd) /\ WellPlaced(rd) /\ SoundCards(cards)
  BY DEF Bounded
<1>2. CASE rd.pc = "b.req"
  <2>1. PICK x \in SendB("REQB") : OnAir(x, DetectB([rd EXCEPT !.answered = None], x))
    BY <1>2 DEF PollB
  <2>2. SoundCards(x.cards)
    BY <1>1, <2>1, ExchangeIsSound DEF SendB, Command
  <2> QED
    BY <1>1, <1>2, <2>1, <2>2, DetectBGoesOn, OnAirKeepsBounded
<1>3. CASE rd.pc = "bb.req"
  <2>1. PICK x \in SendB(IF Directly(rd) THEN "REQB" ELSE "WUPB") : OnAir(x, TakeSlot([rd EXCEPT !.answered = None], x))
    BY <1>3 DEF PollB
  <2>2. SoundCards(x.cards)
    BY <1>1, <2>1, ExchangeIsSound DEF SendB, Command
  <2> QED
    BY <1>1, <1>3, <2>1, <2>2, RequestedBGoesOn, OnAirKeepsBounded
<1>4. CASE rd.pc = "bb.slot"
  <2>1. PICK x \in Send("SLOT", "B", 0, rd.slot) : OnAir(x, SlotMarker(rd, x))
    BY <1>4 DEF PollB
  <2>2. SoundCards(x.cards)
    BY <1>1, <2>1, ExchangeIsSound DEF Send, Command
  <2> QED
    BY <1>1, <1>4, <2>1, <2>2, SlotMarkerGoesOn, OnAirKeepsBounded
<1>5. CASE rd.pc = "bb.attrib"
  <2> DEFINE rate == DecideBaudRate(rd.answered, rd.cfg.rate)
  <2>1. PICK x \in Send("ATTRIB", "B", 0, [pupi |-> rd.answered, rate |-> rate]) : OnAir(x, Attrib(rd, x))
    BY <1>5 DEF PollB
  <2> HIDE DEF rate
  <2>2. SoundCards(x.cards)
    BY <1>1, <2>1, ExchangeIsSound DEF Send, Command
  <2> QED
    BY <1>1, <1>5, <2>1, <2>2, AttribGoesOn, OnAirKeepsBounded
<1> QED
  BY <1>2, <1>3, <1>4, <1>5 DEF PollB

LEMMA RunningKeepsBounded == Bounded /\ Running => Bounded'
<1> SUFFICES ASSUME Bounded, Running
             PROVE  Bounded'
  OBVIOUS
<1>1. IsCall(rd) /\ WellPlaced(rd) /\ SoundCards(cards)
  BY DEF Bounded
<1>2. CASE NextLoop
  <2>1. rd.pc = "loop" /\ rd' = BeginLoop(rd) /\ cards' = cards
    BY <1>2 DEF NextLoop
  <2>2. InLoop(rd) /\ Rest(rd) = rd.loop * OfLoop(rd)
    BY <1>1, <2>1, RunsOn DEF Polling, Rest
  <2>3. GoesOn(rd', rd, Rest(rd)) /\ Rest(rd) \in Nat
    BY <2>1, <2>2, BeginLoopGoesOn
  <2>4. Limit(rd') = Limit(rd)
    BY <2>3, CostsAreOfConfig DEF GoesOn, Limit
  <2>5. ASSUME rd'.pc # "idle"
        PROVE  rd'.sent + Rest(rd') <= Limit(rd')
    <3>1. rd'.sent = rd.sent /\ rd.sent \in Nat /\ Rest(rd') \in Nat /\ Rest(rd') <= Rest(rd)
      BY <1>1, <2>3, <2>5 DEF GoesOn, IsCall
    <3>2. rd.sent + Rest(rd) <= Limit(rd)
      BY <2>1 DEF Bounded
    <3>3. Limit(rd) \in Nat
      <4>1. rd.cfg.loops \in Nat /\ OfLoop(rd) \in Nat /\ rd.op = "start"
        BY <2>2, LimitAssumption, CostsAreNumbers DEF InLoop, IsCall
      <4> QED
        BY <4>1, Product DEF Limit
    <3> QED
      BY <2>3, <2>4, <3>1, <3>2, <3>3
  <2>6. IsCall(rd') /\ WellPlaced(rd') /\ SoundCards(cards')
    BY <1>1, <2>1, <2>3 DEF GoesOn
  <2> QED
    BY <2>5, <2>6 DEF Bounded, SoundCards, IsCards, AtALevel, IsCall, IsReader, WellPlaced, Rest, Limit
<1>3. CASE Listen
  <2> DEFINE s == [rd EXCEPT !.field = FALSE]
  <2>1. rd' = Return(s, "SUCCESS") /\ cards' = Unpowered(cards)
    BY <1>3 DEF Listen
  <2>2. IsCall(s)
    <3>1. IsReader(s)
      BY <1>1 DEF IsCall, IsReader
    <3>2. s.cfg = rd.cfg /\ s.sent = rd.sent
      BY <1>1 DEF IsCall, IsReader, Fields
    <3> QED
      BY <1>1, <3>1, <3>2 DEF IsCall
  <2> HIDE DEF s
  <2>3. GoesOn(rd', s, 0) /\ rd'.pc = "idle"
    BY <2>1, <2>2, ReturnReturns
  <2>4. SoundCards(cards')
    BY <2>1, UnpoweredIsSound
  <2> QED
    BY <2>3, <2>4 DEF GoesOn, Bounded, SoundCards, IsCards, AtALevel, IsCall, IsReader, WellPlaced, Rest, Limit
<1>4. CASE ActivePoll
  <2>1. PICK x \in Send("ATR", "N", 0, None) : OnAir(x, ActiveAtr(rd, x))
    BY <1>4 DEF ActivePoll
  <2>2. SoundCards(x.cards)
    BY <1>1, <2>1, ExchangeIsSound DEF Send, Command
  <2>3. rd.pc = "active"
    BY <1>4 DEF ActivePoll
  <2> QED
    BY <1>1, <2>1, <2>2, <2>3, ActiveAtrGoesOn, OnAirKeepsBounded
<1>5. CASE PollF
  <2>1. CASE rd.pc = "f.reqc"
    <3>1. PICK x \in Send("REQC", "F", 0, None) : OnAir(x, DetectF(rd, x))
      BY <1>5, <2>1 DEF PollF
    <3>2. SoundCards(x.cards)
      BY <1>1, <3>1, ExchangeIsSound DEF Send, Command
    <3> QED
      BY <1>1, <2>1, <3>1, <3>2, DetectFGoesOn, OnAirKeepsBounded
  <2>2. CASE rd.pc = "f.atr"
    <3>1. PICK x \in Send("ATR", "F", 0, None) : OnAir(x, AtrF(rd, x))
      BY <1>5, <2>2 DEF PollF
    <3>2. SoundCards(x.cards)
      BY <1>1, <3>1, ExchangeIsSound DEF Send, Command
    <3> QED
      BY <1>1, <2>2, <3>1, <3>2, AtrFGoesOn, OnAirKeepsBounded
  <2> QED
    BY <1>5, <2>1, <2>2 DEF PollF
<1> QED
  BY <1>2, <1>3, <1>4, <1>5, PollAKeepsBounded, CardActivationAKeepsBounded, ProtocolActivationAKeepsBounded,
     PollBKeepsBounded DEF Running

\* A call of the application that activates a card.
LEMMA ActivationIsBounded ==
  ASSUME NEW s, IsCall(s), s.op # "start", s.sent = 0, NEW t, NEW k \in Nat, GoesOn(t, s, k),
         k <= ActivationA \/ k <= PollingB(s)
  PROVE  IsCall(t) /\ WellPlaced(t) /\ (t.pc # "idle" => t.sent + Rest(t) <= Limit(t))
<1>1. ActivationA \in Nat /\ PollingB(s) \in Nat
  BY CostsAreNumbers DEF IsCall
<1>2. Limit(t) = ActivationA + PollingB(s)
  BY CostsAreOfConfig DEF GoesOn, Limit
<1>3. IsCall(t) /\ WellPlaced(t) /\ Rest(t) \in Nat /\ Rest(t) <= k /\ (t.pc # "idle" => t.sent = 0)
  BY DEF GoesOn
<1>4. 0 + Rest(t) <= ActivationA + PollingB(s)
  BY <1>1, <1>3
<1> QED
  BY <1>2, <1>3, <1>4

LEMMA OthersKeepBounded == Bounded /\ (Start \/ ActivateCard \/ ActivateAnyA \/ FieldReset \/ SetStop \/ Move) => Bounded'
<1> SUFFICES ASSUME Bounded, Start \/ ActivateCard \/ ActivateAnyA \/ FieldReset \/ SetStop \/ Move
             PROVE  Bounded'
  OBVIOUS
<1>1. IsCall(rd) /\ WellPlaced(rd) /\ SoundCards(cards) /\ IsReader(rd)
  BY DEF Bounded, IsCall
<1>2. SUFFICES /\ IsCall(rd') /\ WellPlaced(rd') /\ SoundCards(cards')
               /\ rd'.pc # "idle" => rd'.sent + Rest(rd') <= Limit(rd')
  BY DEF Bounded, SoundCards, IsCards, AtALevel, IsCall, IsReader, WellPlaced, Rest, Limit
<1>3. CASE Start
  <2>1. rd.pc = "idle" /\ cards' = cards
    BY <1>3 DEF Start, Call
  <2>2. PICK cfg \in Configs, ext \in {"off", "on", "unsupported"} : rd' = Begin(rd, cfg, ext)
    BY <1>3 DEF Start
  <2>3. rd.sent = 0
    BY <1>1, <2>1 DEF WellPlaced
  <2> QED
    BY <1>1, <2>1, <2>2, <2>3, BeginGoesOn
<1>4. CASE ActivateCard
  <2> DEFINE s == [rd EXCEPT !.op = "activate"]
  <2>1. rd.pc = "idle" /\ cards' = cards
    BY <1>4 DEF ActivateCard, Call
  <2>2. IsReader(s)
    BY <1>1 DEF IsReader
  <2>3. s.op = "activate" /\ s.cfg = rd.cfg /\ s.sent = 0
    BY <1>1, <2>1 DEF IsReader, Fields, WellPlaced
  <2>4. (\E i \in 1 .. rd.n.A : rd' = ActivateA(s, i)) \/ rd' = ActivateB(s)
    BY <1>4 DEF ActivateCard
  <2> HIDE DEF s
  <2>5. IsCall(s) /\ Runs(s)
    BY <1>1, <2>2, <2>3 DEF IsCall, Runs
  <2>6. CASE \E i \in 1 .. rd.n.A : rd' = ActivateA(s, i)
    <3>1. PICK i \in 1 .. rd.n.A : rd' = ActivateA(s, i)
      BY <2>6
    <3>2. GoesOn(rd', s, ActivationA) /\ ActivationA \in Nat /\ ActivationA <= ActivationA
      BY <2>5, <3>1, ActivateAGoesOn, CostsAreNumbers DEF IsCall
    <3> QED
      BY <1>1, <2>1, <2>3, <2>5, <3>2, ActivationIsBounded
  <2>7. CASE rd' = ActivateB(s)
    <3>1. Slots(s) \in Nat /\ PollingB(s) = PollLimit + 2 + Slots(s) /\ PollLimit \in Nat /\ AfterB(s) = 0
      BY <2>3, <2>5, CostsAreNumbers, LimitAssumption DEF IsCall
    <3>2. GoesOn(rd', s, 2 + Slots(s) + AfterB(s))
      BY <2>5, <2>7, ActivateBGoesOn
    <3>3. 2 + Slots(s) + AfterB(s) \in Nat /\ 2 + Slots(s) + AfterB(s) <= PollingB(s)
      BY <3>1
    <3> QED
      BY <1>1, <2>1, <2>3, <2>5, <3>2, <3>3, ActivationIsBounded
  <2> QED
    BY <2>4, <2>6, <2>7
<1>5. CASE ActivateAnyA
  <2> DEFINE s == [rd EXCEPT !.op = "p3a", !.target = AnyCard]
  <2>1. rd.pc = "idle" /\ cards' = cards /\ rd' = ActivateCardA(s, <<>>)
    BY <1>5 DEF ActivateAnyA, Call
  <2>2. IsReader(s)
    BY <1>1 DEF IsReader
  <2>3. s.op = "p3a" /\ s.cfg = rd.cfg /\ s.sent = 0
    BY <1>1, <2>1 DEF IsReader, Fields, WellPlaced
  <2> HIDE DEF s
  <2>4. IsCall(s) /\ Runs(s)
    BY <1>1, <2>2, <2>3 DEF IsCall, Runs
  <2>5. GoesOn(rd', s, ActivationA) /\ ActivationA \in Nat /\ ActivationA <= ActivationA
    BY <2>1, <2>4, ActivateCardAGoesOn, CostsAreNumbers DEF IsCall
  <2> QED
    BY <1>1, <2>1, <2>3, <2>4, <2>5, ActivationIsBounded
<1>6. CASE FieldReset
  <2> DEFINE s == [rd EXCEPT !.field = TRUE]
  <2>1. rd' = s /\ cards' = Unpowered(cards) /\ rd.pc = "idle"
    BY <1>6 DEF FieldReset
  <2>2. IsReader(s)
    BY <1>1 DEF IsReader
  <2>3. /\ s.pc = rd.pc /\ s.op = rd.op /\ s.cfg = rd.cfg /\ s.loop = rd.loop /\ s.tries = rd.tries /\ s.round = rd.round
        /\ s.lvl = rd.lvl /\ s.uid = rd.uid /\ s.slot = rd.slot /\ s.sent = rd.sent
    BY <1>1 DEF IsReader, Fields
  <2> HIDE DEF s
  <2>4. IsCall(s) /\ WellPlaced(s)
    BY <1>1, <2>2, <2>3, SamePlace DEF IsCall, WellPlaced
  <2> QED
    BY <2>1, <2>3, <2>4, UnpoweredIsSound
<1>7. CASE SetStop
  <2> DEFINE s == [rd EXCEPT !.stop = TRUE]
  <2>1. rd' = s /\ cards' = cards
    BY <1>7 DEF SetStop
  <2>2. IsReader(s)
    BY <1>1 DEF IsReader
  <2>3. /\ s.pc = rd.pc /\ s.op = rd.op /\ s.cfg = rd.cfg /\ s.loop = rd.loop /\ s.tries = rd.tries /\ s.round = rd.round
        /\ s.lvl = rd.lvl /\ s.uid = rd.uid /\ s.slot = rd.slot /\ s.sent = rd.sent
    BY <1>1 DEF IsReader, Fields
  <2> HIDE DEF s
  <2>4. IsCall(s) /\ WellPlaced(s) /\ Rest(s) = Rest(rd) /\ Limit(s) = Limit(rd)
    <3>1. rd.cfg \in Configs /\ s.sent \in Nat /\ (rd.pc = "idle" => s.sent = 0)
      BY <1>1, <2>3 DEF IsCall, WellPlaced
    <3> QED
      BY <1>1, <2>2, <2>3, <3>1, SamePlace
  <2> QED
    BY <1>1, <2>1, <2>3, <2>4 DEF Bounded
<1>8. CASE Move
  <2>1. rd' = rd
    BY <1>8 DEF Move
  <2>2. PICK c \in world : cards' = [cards EXCEPT ![c] = IF @.st = "out" THEN Idle ELSE Away]
    BY <1>8 DEF Move
  <2>3. SoundCards(cards')
    <3>1. cards = [b \in Card |-> cards[b]] /\ \A b \in Card : IsCard(cards[b])
      BY <1>1, SoundCardsAre DEF SoundCards
    <3>2. \A b \in Card : cards'[b] = cards[b] \/ cards'[b] \in {Idle, Away}
      BY <2>2, <3>1
    <3>3. cards' = [b \in Card |-> cards'[b]]
      BY <2>2, <3>1
    <3> QED
      BY <1>1, <3>1, <3>2, <3>3, StillCards, SoundCardsAre DEF SoundCards, AtALevel
  <2> QED
    BY <1>1, <2>1, <2>3 DEF Bounded
<1> QED
  BY <1>3, <1>4, <1>5, <1>6, <1>7, <1>8

LEMMA UnchangedKeepsBounded == Bounded /\ UNCHANGED vars => Bounded'
<1> SUFFICES ASSUME Bounded, UNCHANGED vars
             PROVE  Bounded'
  OBVIOUS
<1>1. rd' = rd /\ cards' = cards
  BY DEF vars
<1>2. /\ IsCall(rd') /\ WellPlaced(rd') /\ SoundCards(cards')
      /\ rd'.pc # "idle" => rd'.sent + Rest(rd') <= Limit(rd')
  BY <1>1 DEF Bounded
<1> QED
  BY <1>2 DEF Bounded, SoundCards, IsCards, AtALevel, IsCall, IsReader, WellPlaced, Rest, Limit

\* Where a call waits for an answer it has a frame left: the one it waits for.
LEMMA WaitingCosts ==
  ASSUME NEW r, IsCall(r), WellPlaced(r), r.pc \notin {"idle", "loop", "listen"}
  PROVE  Rest(r) \in Nat \ {0}
<1> DEFINE x == [status |-> "IO_TIMEOUT"]
<1>1. CollidesBeyond(x, r.uid) /\ CascadesOnce(x, r.lvl)
  BY DEF CollidesBeyond, CascadesOnce, Ok
<1> HIDE DEF x
<1>2. CASE r.pc \in Polling
  BY <1>1, <1>2, ActiveAtrGoesOn, DetectAGoesOn, AnticollisionGoesOn, SelectGoesOn, HaltAGoesOn, RequestAGoesOn,
     DetectBGoesOn, DetectFGoesOn, AtrFGoesOn DEF Polling
<1>3. CASE r.pc \in {"aa.wake", "aa.anticoll", "aa.select", "bb.req", "bb.slot", "bb.attrib"}
  BY <1>1, <1>3, WakeUpGoesOn, AnticollisionOfGoesOn, SelectOfGoesOn, RequestedBGoesOn, SlotMarkerGoesOn, AttribGoesOn
<1>4. CASE r.pc \in {"a.rats", "a.deselect", "a.hlta", "a.pps", "a.atr"}
  BY <1>4 DEF Rest
<1> QED
  BY <1>2, <1>3, <1>4 DEF WellPlaced, Activating

LEMMA BoundedIsBounded == Bounded => CallIsBounded
<1> SUFFICES ASSUME Bounded
             PROVE  CallIsBounded
  OBVIOUS
<1> DEFINE level == PartLen + 1
           detectA == 1 + rd.cfg.limitA * (2 * level + 2)
           activateA == 1 + 2 * level + 4
           pollB == PollLimit + 2 + Slots(rd)
           pollF == PollLimit + 1
           waits == IF rd.pc \in {"idle", "loop", "listen"} THEN 0 ELSE 1
           limit == IF rd.op = "start" THEN rd.cfg.loops * (1 + detectA + activateA + pollB + pollF) ELSE activateA + pollB
<1>1. IsCall(rd) /\ WellPlaced(rd) /\ rd.sent \in Nat /\ (rd.pc # "idle" => rd.sent + Rest(rd) <= Limit(rd))
  BY DEF Bounded, IsCall
<1>2. /\ rd.cfg.limitA * OfRound \in Nat /\ AfterA(rd) = ActivationA + PollingB(rd) + PollingF
      /\ ActivationA \in Nat /\ PollingB(rd) \in Nat /\ PollingF \in Nat
      /\ OfLoop(rd) \in Nat /\ OfLoop(rd) = 2 + rd.cfg.limitA * OfRound + AfterA(rd)
  BY <1>1, CostsAreNumbers DEF IsCall
<1>3. detectA = 1 + rd.cfg.limitA * OfRound /\ activateA = ActivationA /\ pollB = PollingB(rd) /\ pollF = PollingF
  BY DEF OfRound, OfLevel, ActivationA, PollingB, PollingF
<1>4. 1 + detectA + activateA + pollB + pollF = OfLoop(rd)
  <2> HIDE DEF detectA, activateA, pollB, pollF
  <2> QED
    BY <1>2, <1>3
<1>5. limit = Limit(rd)
  BY <1>3, <1>4 DEF Limit
<1>6. Limit(rd) \in Nat
  <2>1. rd.cfg.loops \in Nat /\ rd.cfg.loops * OfLoop(rd) \in Nat
    BY <1>1, <1>2, Product, LimitAssumption DEF IsCall
  <2> QED
    BY <1>2, <2>1 DEF Limit
<1>7. rd.sent + waits <= Limit(rd)
  <2>1. CASE rd.pc = "idle"
    <3>1. rd.sent = 0
      BY <1>1, <2>1 DEF WellPlaced
    <3> QED
      BY <1>6, <2>1, <3>1
  <2>2. CASE rd.pc \in {"loop", "listen"}
    <3>1. Rest(rd) \in Nat
      <4>1. InLoop(rd)
        BY <1>1, <2>2, RunsOn DEF Polling
      <4> QED
        BY <2>2, <4>1, BeginLoopGoesOn DEF Rest
    <3> QED
      BY <1>1, <1>6, <2>2, <3>1
  <2>3. CASE rd.pc \notin {"idle", "loop", "listen"}
    <3>1. Rest(rd) \in Nat \ {0}
      BY <1>1, <2>3, WaitingCosts
    <3> QED
      BY <1>1, <1>6, <2>3, <3>1
  <2> QED
    BY <2>1, <2>2, <2>3
<1> HIDE DEF limit, waits
<1>8. rd.sent + waits <= limit
  BY <1>5, <1>7
<1> QED
  BY <1>8 DEF CallIsBounded, limit, waits

\* No call exchanges more frames than its limit, whatever cards do and
\* whatever is lost.
THEOREM CallIsBoundedCorrect == Spec => []CallIsBounded
<1>1. Init => Bounded
  BY BoundedInitially
<1>2. Bounded /\ [Next]_vars => Bounded'
  BY UnchangedKeepsBounded, RunningKeepsBounded, OthersKeepBounded DEF Next
<1>3. Bounded => CallIsBounded
  BY BoundedIsBounded
<1> QED
  BY <1>1, <1>2, <1>3, PTL DEF Spec

-----------------------------------------------------------------------------
(* Which identifiers are recorded.                                         *)

AtLevels == {"a.anticoll", "a.select", "aa.anticoll", "aa.select"}
InRounds == {"a.anticoll", "a.select", "a.halt", "a.req"}
Ending == {"idle", "aa.wake", "aa.anticoll", "aa.select", "a.rats", "a.deselect", "a.hlta", "a.pps", "a.atr"}

\* The operators that leave what is recorded alone.
Keeps(s, r) ==
  /\ IsReader(s) /\ s.op = r.op
  /\ s.uids = r.uids /\ s.serial = r.serial /\ s.complete = r.complete
  /\ s.pc \notin AtLevels \cup InRounds

\* The same, and the call is not in a poll loop any more.
Ends(s, r) == Keeps(s, r) /\ s.pc \in Ending

LEMMA KeepsFrom ==
  ASSUME NEW r, NEW s, NEW t, s.op = r.op, s.uids = r.uids, s.serial = r.serial, s.complete = r.complete
  PROVE  (Keeps(t, s) => Keeps(t, r)) /\ (Ends(t, s) => Ends(t, r))
  BY DEF Keeps, Ends

LEMMA ReturnEnds ==
  ASSUME NEW r, IsReader(r), NEW status
  PROVE  Ends(Return(r, status), r) /\ Keeps(Return(r, status), r) /\ Return(r, status).pc = "idle"
<1> DEFINE s == Return(r, status)
           t == [r EXCEPT !.pc = "idle", !.ret = status, !.loop = 0, !.tries = 0, !.round = 0, !.lvl = 0]
           v == [t EXCEPT !.uid = <<>>, !.whole = <<>>, !.more = FALSE, !.given = <<>>, !.at = 0]
<1>1. IsReader(t)
  BY DEF IsReader
<1>2. s = [v EXCEPT !.slot = 0, !.first = "SUCCESS", !.listens = FALSE, !.sent = 0]
  BY DEF Return
<1>3. t.pc = "idle" /\ t.op = r.op /\ t.uids = r.uids /\ t.serial = r.serial /\ t.complete = r.complete
  BY DEF IsReader, Fields
<1> HIDE DEF t
<1>4. IsReader(v)
  BY <1>1 DEF IsReader
<1>5. v.pc = "idle" /\ v.op = r.op /\ v.uids = r.uids /\ v.serial = r.serial /\ v.complete = r.complete
  BY <1>1, <1>3 DEF IsReader, Fields
<1> HIDE DEF v, s
<1>6. IsReader(s)
  BY <1>2, <1>4 DEF IsReader
<1>7. s.pc = "idle" /\ s.op = r.op /\ s.uids = r.uids /\ s.serial = r.serial /\ s.complete = r.complete
  BY <1>2, <1>4, <1>5 DEF IsReader, Fields
<1> QED
  BY <1>6, <1>7 DEF Ends, Keeps, Ending, AtLevels, InRounds, s

\* The end of a poll loop, and type F.
LEMMA EndOfLoopKeeps ==
  ASSUME NEW r, IsReader(r)
  PROVE  Keeps(AfterLoops(r), r) /\ Keeps(EndOfLoop(r), r)
<1> DEFINE s == [r EXCEPT !.pc = "listen"]
           t == [r EXCEPT !.pc = "loop", !.loop = @ - 1]
<1>1. Keeps(s, r) /\ Keeps(t, r)
  BY DEF IsReader, Fields, Keeps, AtLevels, InRounds
<1>2. AfterLoops(r) \in {s, Return(r, "SUCCESS")}
  BY DEF AfterLoops
<1>3. EndOfLoop(r) \in {t, Return(r, "SUCCESS"), AfterLoops(r)}
  BY DEF EndOfLoop
<1> QED
  BY <1>1, <1>2, <1>3, ReturnEnds

LEMMA PhaseFKeeps ==
  ASSUME NEW r, IsReader(r)
  PROVE  Keeps(PhaseF(r), r)
<1> DEFINE s == [r EXCEPT !.pc = "f.reqc", !.tries = PollLimit, !.n.F = 0, !.rate = Lowest]
<1>1. Keeps(s, r)
  BY DEF IsReader, Fields, Keeps, AtLevels, InRounds
<1>2. PhaseF(r) \in {s, Return(r, "SUCCESS"), EndOfLoop(r)}
  BY DEF PhaseF
<1> QED
  BY <1>1, <1>2, ReturnEnds, EndOfLoopKeeps

LEMMA PollFKeeps ==
  ASSUME NEW r, IsReader(r), r.pc \notin AtLevels \cup InRounds, NEW x
  PROVE  Keeps(DetectF(r, x), r) /\ Keeps(AtrF(r, x), r)
<1> DEFINE found == [r EXCEPT !.act.F = @ + 1, !.n.F = 1, !.idm = x.data,
                              !.tags = @ \cup {"F"} \cup (IF Kind[x.data].plat = "P2P" THEN {"F P2P"} ELSE {"T3T"})]
           atr == [found EXCEPT !.pc = "f.atr"]
           again == [r EXCEPT !.tries = @ - 1]
           gone == [r EXCEPT !.act.F = @ + 1]
           lost == [r EXCEPT !.act.F = @ - 1]
<1>1. /\ IsReader(found) /\ found.op = r.op /\ found.uids = r.uids
      /\ found.serial = r.serial /\ found.complete = r.complete
  BY DEF IsReader, Fields
<1>2. Keeps(again, r) /\ Keeps(gone, r) /\ Keeps(lost, r)
  BY DEF IsReader, Fields, Keeps
<1>3. \/ DetectF(r, x) \in {atr, again}
      \/ DetectF(r, x) \in {EndOfLoop(found), EndOfLoop(gone)}
  <2> DEFINE peer == Ok(x) /\ Kind[x.data].plat = "P2P"
  <2>1. CASE Ok(x) /\ peer
    BY <2>1 DEF DetectF
  <2>2. CASE Ok(x) /\ ~peer
    BY <2>2 DEF DetectF
  <2>3. CASE ~Ok(x)
    BY <2>3 DEF DetectF
  <2> QED
    BY <2>1, <2>2, <2>3
<1>4. AtrF(r, x) \in {EndOfLoop(r), Return(lost, x.status)}
  BY DEF AtrF
<1> HIDE DEF found, again, gone, lost
<1>5. Keeps(atr, r)
  BY <1>1 DEF IsReader, Fields, Keeps, AtLevels, InRounds
<1> HIDE DEF atr
<1>6. Keeps(EndOfLoop(found), r)
  BY <1>1, EndOfLoopKeeps, KeepsFrom
<1>7. Keeps(EndOfLoop(gone), r)
  BY <1>2, EndOfLoopKeeps, KeepsFrom DEF Keeps
<1>8. Keeps(Return(lost, x.status), r)
  BY <1>2, ReturnEnds, KeepsFrom DEF Keeps
<1> QED
  BY <1>2, <1>3, <1>4, <1>5, <1>6, <1>7, <1>8, EndOfLoopKeeps

\* Type B.
LEMMA ActivatedBKeeps ==
  ASSUME NEW r, IsReader(r), NEW status
  PROVE  Keeps(ActivatedB(r, status), r) /\ Keeps(ActivateB(r), r)
<1> DEFINE s == [r EXCEPT !.tags = @ \cup {"B"}, !.n.B = @ + 1, !.act.B = @ + 1]
           t == [r EXCEPT !.target = None]
           u == ActivateB(r)
<1>1. /\ IsReader(s) /\ s.op = r.op /\ s.uids = r.uids /\ s.serial = r.serial /\ s.complete = r.complete
      /\ IsReader(t) /\ t.op = r.op /\ t.uids = r.uids /\ t.serial = r.serial /\ t.complete = r.complete
  BY DEF IsReader, Fields
<1>2. Keeps(u, r)
  BY DEF IsReader, Fields, Keeps, AtLevels, InRounds, ActivateB
<1>3. ActivatedB(r, status) \in {Return(r, status), Return(s, status), PhaseF(t)}
  BY DEF ActivatedB
<1> HIDE DEF s, t, u
<1>4. Keeps(Return(s, status), r) /\ Keeps(PhaseF(t), r)
  BY <1>1, ReturnEnds, PhaseFKeeps, KeepsFrom
<1> QED
  BY <1>2, <1>3, <1>4, ReturnEnds DEF u

LEMMA TakeSlotKeeps ==
  ASSUME NEW r, IsReader(r), NEW x
  PROVE  Keeps(TakeSlot(r, x), r) /\ Keeps(SlotMarker(r, x), r)
<1>1. ASSUME NEW q, IsReader(q)
      PROVE  Keeps(TakeSlot(q, x), q)
  <2> DEFINE first == IF q.first = "IO_TIMEOUT" THEN x.status ELSE q.first
             s == CheckATQB(q, x)
             hit == [s EXCEPT !.pc = "bb.attrib", !.first = first]
             next == [s EXCEPT !.pc = "bb.slot", !.first = first]
  <2>1. IsReader(s) /\ s.op = q.op /\ s.uids = q.uids /\ s.serial = q.serial /\ s.complete = q.complete
    BY <1>1 DEF IsReader, Fields, CheckATQB
  <2>2. TakeSlot(q, x) \in {hit, next, ActivatedB(s, first)}
    BY DEF TakeSlot
  <2> HIDE DEF s, first
  <2>3. Keeps(hit, q) /\ Keeps(next, q)
    BY <2>1 DEF IsReader, Fields, Keeps, AtLevels, InRounds
  <2>4. Keeps(ActivatedB(s, first), q)
    BY <2>1, ActivatedBKeeps, KeepsFrom
  <2> QED
    BY <2>2, <2>3, <2>4
<1> DEFINE s == [r EXCEPT !.slot = @ + 1]
<1>2. IsReader(s) /\ s.op = r.op /\ s.uids = r.uids /\ s.serial = r.serial /\ s.complete = r.complete
  BY DEF IsReader, Fields
<1> HIDE DEF s
<1>3. Keeps(TakeSlot(s, x), r)
  BY <1>1, <1>2, KeepsFrom
<1> QED
  BY <1>1, <1>3 DEF SlotMarker, s

LEMMA AttribKeeps ==
  ASSUME NEW r, IsReader(r), NEW x
  PROVE  Keeps(Attrib(r, x), r)
<1> DEFINE s == [r EXCEPT !.rate = DecideBaudRate(r.answered, r.cfg.rate)]
           t == [r EXCEPT !.answered = None]
<1>1. /\ IsReader(s) /\ s.op = r.op /\ s.uids = r.uids /\ s.serial = r.serial /\ s.complete = r.complete
      /\ IsReader(t) /\ t.op = r.op /\ t.uids = r.uids /\ t.serial = r.serial /\ t.complete = r.complete
  BY DEF IsReader, Fields
<1>2. Attrib(r, x) \in {ActivatedB(s, "SUCCESS"), ActivatedB(t, x.status)}
  BY DEF Attrib
<1> HIDE DEF s, t
<1>3. Keeps(ActivatedB(s, "SUCCESS"), r) /\ Keeps(ActivatedB(t, x.status), r)
  BY <1>1, ActivatedBKeeps, KeepsFrom
<1> QED
  BY <1>2, <1>3

LEMMA DetectBKeeps ==
  ASSUME NEW r, IsReader(r), r.pc \notin AtLevels \cup InRounds, NEW x
  PROVE  Keeps(DetectB(r, x), r)
<1> DEFINE s == CheckATQB(r, x)
           t == [s EXCEPT !.n.B = 1, !.pupi = x.data, !.tags = @ \cup {"B"}]
           again == [s EXCEPT !.tries = @ - 1]
<1>1. /\ IsReader(s) /\ s.op = r.op /\ s.uids = r.uids /\ s.serial = r.serial /\ s.complete = r.complete
      /\ s.pc = r.pc
  BY DEF IsReader, Fields, CheckATQB
<1>2. DetectB(r, x) \in {DetectedB(t), again, PhaseF(s)}
  BY DEF DetectB
<1> HIDE DEF s
<1>3. IsReader(t) /\ t.op = r.op /\ t.uids = r.uids /\ t.serial = r.serial /\ t.complete = r.complete
  BY <1>1 DEF IsReader, Fields
<1>4. Keeps(again, r)
  BY <1>1 DEF IsReader, Fields, Keeps
<1> HIDE DEF t, again
<1>5. DetectedB(t) \in {Return(t, "SUCCESS"), ActivateB(t), PhaseF(t)}
  BY DEF DetectedB
<1>6. Keeps(DetectedB(t), r)
  BY <1>3, <1>5, ReturnEnds, ActivatedBKeeps, PhaseFKeeps, KeepsFrom
<1>7. Keeps(PhaseF(s), r)
  BY <1>1, PhaseFKeeps, KeepsFrom
<1> QED
  BY <1>2, <1>4, <1>6, <1>7

LEMMA PhaseBKeeps ==
  ASSUME NEW r, IsReader(r)
  PROVE  Keeps(PhaseB(r), r)
<1> DEFINE s == [r EXCEPT !.pc = "b.req", !.tries = PollLimit, !.n.B = 0, !.tags = @ \ {"B"}, !.rate = Lowest]
<1>1. Keeps(s, r)
  BY DEF IsReader, Fields, Keeps, AtLevels, InRounds
<1>2. PhaseB(r) \in {PhaseF(r), Return(r, "SUCCESS"), ActivateB(r), s}
  BY DEF PhaseB
<1> QED
  BY <1>1, <1>2, PhaseFKeeps, ReturnEnds, ActivatedBKeeps

\* Type A: the activation of a tag.
LEMMA PeerEnds ==
  ASSUME NEW r, IsReader(r), NEW status
  PROVE  Ends(DoneA(r, status), r) /\ Ends(Peer(r, status), r) /\ Ends(Layer4(r), r)
<1> DEFINE s == [r EXCEPT !.act.A = @ + 1]
           t == [r EXCEPT !.pc = "a.atr"]
           u == [r EXCEPT !.pc = "a.rats"]
<1>1. IsReader(s) /\ s.op = r.op /\ s.uids = r.uids /\ s.serial = r.serial /\ s.complete = r.complete
  BY DEF IsReader, Fields
<1>2. Ends(t, r) /\ Ends(u, r)
  BY DEF IsReader, Fields, Ends, Keeps, Ending, AtLevels, InRounds
<1>3. DoneA(r, status) = Return(s, status)
  BY DEF DoneA, ActivatedA
<1>4. ASSUME NEW k
      PROVE  DoneA(r, k) = Return([r EXCEPT !.act.A = @ + 1], k) /\ Peer(r, k) \in {t, DoneA(r, k)}
  BY DEF Peer, DoneA, ActivatedA
<1>5. Layer4(r) \in {u, Peer(r, "SUCCESS")}
  BY DEF Layer4
<1> HIDE DEF t, u
<1>6. ASSUME NEW k
      PROVE  Ends(Return(s, k), r)
  <2> HIDE DEF s
  <2> QED
    BY <1>1, ReturnEnds, KeepsFrom
<1> QED
  BY <1>2, <1>4, <1>5, <1>6

LEMMA ProtocolEnds ==
  ASSUME NEW r, IsReader(r), NEW x
  PROVE  Ends(Rats(r, x), r) /\ Ends(Deselect(r, x), r) /\ Ends(Pps(r, x), r)
<1> DEFINE s == [r EXCEPT !.pc = "a.pps"]
           t == [r EXCEPT !.pc = "a.deselect", !.first = x.status]
           u == [r EXCEPT !.pc = "a.hlta"]
           v == [r EXCEPT !.rate = r.cfg.rate]
<1>1. Ends(s, r) /\ Ends(t, r) /\ Ends(u, r)
  BY DEF IsReader, Fields, Ends, Keeps, Ending, AtLevels, InRounds
<1>2. IsReader(v) /\ v.op = r.op /\ v.uids = r.uids /\ v.serial = r.serial /\ v.complete = r.complete
  BY DEF IsReader, Fields
<1>3. /\ Rats(r, x) \in {Peer(r, "SUCCESS"), s, t} /\ Deselect(r, x) \in {Peer(r, r.first), u}
      /\ Pps(r, x) \in {Peer(v, "SUCCESS"), Peer(r, x.status)}
  BY DEF Rats, Deselect, Pps
<1> HIDE DEF s, t, u, v
<1>4. Ends(Peer(v, "SUCCESS"), r)
  BY <1>2, PeerEnds, KeepsFrom
<1> QED
  BY <1>1, <1>3, <1>4, PeerEnds

LEMMA CardAEnds ==
  ASSUME NEW r, IsReader(r), NEW status
  PROVE  Ends(CardA(r, status), r)
  BY PeerEnds, ReturnEnds DEF CardA

LEMMA ActivateCardAEnds ==
  ASSUME NEW r, IsReader(r), NEW uid
  PROVE  Ends(ActivateCardA(r, uid), r)
<1> DEFINE s == [r EXCEPT !.pc = "aa.wake", !.rate = Lowest, !.given = uid, !.at = 0]
<1>1. Ends(s, r)
  BY DEF IsReader, Fields, Ends, Keeps, Ending, AtLevels, InRounds
<1>2. ActivateCardA(r, uid) \in {s, CardA(r, "INVALID_PARAMETER")}
  BY DEF ActivateCardA
<1> QED
  BY <1>1, <1>2, CardAEnds

LEMMA ActivateAEnds ==
  ASSUME NEW r, IsReader(r), NEW i
  PROVE  Ends(ActivateA(r, i), r)
<1> DEFINE s == [r EXCEPT !.target = r.uids[i]]
<1>1. IsReader(s) /\ s.op = r.op /\ s.uids = r.uids /\ s.serial = r.serial /\ s.complete = r.complete
  BY DEF IsReader, Fields
<1>2. ActivateA(r, i) \in {ActivateCardA(s, r.uids[i]), Layer4(s)}
  BY DEF ActivateA
<1> HIDE DEF s
<1> QED
  BY <1>1, <1>2, ActivateCardAEnds, PeerEnds, KeepsFrom

\* Type A: the end of detection, and its rounds.
LEMMA ResolvedKeeps ==
  ASSUME NEW r, IsReader(r)
  PROVE  Keeps(BailedA(r), r) /\ Keeps(Resolved(r), r)
<1> DEFINE s == [r EXCEPT !.n.A = Len(r.uids)]
<1>1. IsReader(s) /\ s.op = r.op /\ s.uids = r.uids /\ s.serial = r.serial /\ s.complete = r.complete
  BY DEF IsReader, Fields
<1>2. BailedA(r) \in {Return(r, "SUCCESS"), PhaseB(r)} /\ BailedA(s) \in {Return(s, "SUCCESS"), PhaseB(s)}
  BY DEF BailedA
<1>3. Resolved(r) \in {Return(s, "SUCCESS"), ActivateA(s, 1), BailedA(s)}
  BY DEF Resolved
<1> HIDE DEF s
<1>4. Keeps(BailedA(r), r) /\ Keeps(BailedA(s), r)
  BY <1>1, <1>2, ReturnEnds, PhaseBKeeps, KeepsFrom
<1>5. Keeps(Return(s, "SUCCESS"), r) /\ Keeps(ActivateA(s, 1), r)
  BY <1>1, ReturnEnds, ActivateAEnds, KeepsFrom DEF Ends
<1> QED
  BY <1>3, <1>4, <1>5

\* Another round of collision resolution.
Restarts(s, r) ==
  /\ IsReader(s) /\ s.op = r.op /\ s.field = r.field
  /\ s.uids = r.uids /\ s.serial = r.serial /\ s.complete = r.complete
  /\ s.pc = "a.anticoll" /\ s.lvl = 1 /\ s.whole = <<>>

LEMMA RoundRestarts ==
  ASSUME NEW r, IsReader(r)
  PROVE  /\ Keeps(Round(r), r) \/ Restarts(Round(r), r)
         /\ Keeps(NextRound(r), r) \/ Restarts(NextRound(r), r)
<1>1. ASSUME NEW q, IsReader(q)
      PROVE  Keeps(Round(q), q) \/ Restarts(Round(q), q)
  <2> DEFINE s == [q EXCEPT !.pc = "a.anticoll", !.lvl = 1, !.uid = <<>>, !.whole = <<>>, !.more = FALSE]
  <2>1. Restarts(s, q)
    BY <1>1 DEF IsReader, Fields, Restarts
  <2>2. Round(q) \in {s, Resolved(q)}
    BY DEF Round
  <2> QED
    BY <1>1, <2>1, <2>2, ResolvedKeeps
<1> DEFINE s == [r EXCEPT !.round = @ + 1]
<1>2. /\ IsReader(s) /\ s.op = r.op /\ s.uids = r.uids /\ s.serial = r.serial /\ s.complete = r.complete
      /\ s.field = r.field
  BY DEF IsReader, Fields
<1>3. NextRound(r) = Round(s)
  BY DEF NextRound
<1> HIDE DEF s
<1>4. Keeps(Round(s), r) \/ Restarts(Round(s), r)
  <2>1. CASE Keeps(Round(s), s)
    BY <1>2, <2>1, KeepsFrom
  <2>2. CASE Restarts(Round(s), s)
    BY <1>2, <2>2 DEF Restarts
  <2> QED
    BY <1>1, <1>2, <2>1, <2>2
<1> QED
  BY <1>1, <1>3, <1>4

\* The beginning of a poll loop.
LEMMA PhaseAKeeps ==
  ASSUME NEW r, IsReader(r)
  PROVE  Keeps(PhaseA(r), r)
<1> DEFINE s == [r EXCEPT !.field = TRUE, !.rate = Lowest]
           t == [s EXCEPT !.pc = "a.detect", !.n.A = 0]
<1>1. IsReader(s) /\ s.op = r.op /\ s.uids = r.uids /\ s.serial = r.serial /\ s.complete = r.complete
  BY DEF IsReader, Fields
<1>2. PhaseA(r) \in {PhaseB(r), Return(s, "SUCCESS"), t}
  BY DEF PhaseA
<1> HIDE DEF s
<1>3. Keeps(t, r)
  BY <1>1 DEF IsReader, Fields, Keeps, AtLevels, InRounds
<1>4. Keeps(Return(s, "SUCCESS"), r)
  BY <1>1, ReturnEnds, KeepsFrom
<1> QED
  BY <1>2, <1>3, <1>4, PhaseBKeeps

LEMMA BeginLoopKeeps ==
  ASSUME NEW r, IsReader(r), NEW x
  PROVE  Keeps(BeginLoop(r), r) /\ Keeps(ActiveAtr(r, x), r)
<1> DEFINE s == [r EXCEPT !.tags = {}]
           t == [s EXCEPT !.pc = "active"]
           a == ActiveTech(r)
           more == {a, IF a = "A" THEN "P2P" ELSE "F P2P"}
           u == [r EXCEPT !.tags = @ \cup more]
           v == [r EXCEPT !.act[a] = (@ + 255) % 256]
<1>1. /\ IsReader(s) /\ s.op = r.op /\ s.uids = r.uids /\ s.serial = r.serial /\ s.complete = r.complete
      /\ IsReader(u) /\ u.op = r.op /\ u.uids = r.uids /\ u.serial = r.serial /\ u.complete = r.complete
      /\ IsReader(v) /\ v.op = r.op /\ v.uids = r.uids /\ v.serial = r.serial /\ v.complete = r.complete
  <2> HIDE DEF a, more
  <2>1. IsReader(s) /\ s.op = r.op /\ s.uids = r.uids /\ s.serial = r.serial /\ s.complete = r.complete
    BY DEF IsReader, Fields
  <2>2. IsReader(u) /\ u.op = r.op /\ u.uids = r.uids /\ u.serial = r.serial /\ u.complete = r.complete
    BY DEF IsReader, Fields
  <2>3. IsReader(v)
    BY DEF IsReader
  <2>4. v.op = r.op /\ v.uids = r.uids /\ v.serial = r.serial /\ v.complete = r.complete
    BY DEF IsReader, Fields
  <2> QED
    BY <2>1, <2>2, <2>3, <2>4
<1>2. BeginLoop(r) \in {t, PhaseA(s)}
  BY DEF BeginLoop
<1>3. ActiveAtr(r, x) \in {Return(u, "SUCCESS"), PhaseA(v)}
  BY DEF ActiveAtr
<1> HIDE DEF s, u, v
<1>4. Keeps(t, r)
  BY <1>1 DEF IsReader, Fields, Keeps, AtLevels, InRounds
<1>5. Keeps(PhaseA(s), r) /\ Keeps(PhaseA(v), r) /\ Keeps(Return(u, "SUCCESS"), r)
  BY <1>1, PhaseAKeeps, ReturnEnds, KeepsFrom
<1> QED
  BY <1>2, <1>3, <1>4, <1>5

\* What becomes of the parameters of ISO/IEC 14443-3A.
LEMMA ForgetIs ==
  ASSUME NEW r, IsReader(r)
  PROVE  LET s == Forget(r) IN
         /\ IsReader(s) /\ s.pc = r.pc /\ s.op = r.op /\ s.field = r.field /\ s.lvl = r.lvl /\ s.uid = r.uid
         /\ s.whole = r.whole /\ s.uids = r.uids /\ s.complete = FALSE
         /\ s.serial = IF r.lvl = 1 THEN <<>> ELSE r.serial
  BY DEF IsReader, Fields, Forget

LEMMA SelectedIs ==
  ASSUME NEW r, NEW x, IsReader(r), Ok(x) => x.data.cascade \in BOOLEAN
  PROVE  LET s == Selected(r, x)
             before == IF r.lvl = 1 THEN <<>> ELSE r.serial IN
         /\ IsReader(s) /\ s.pc = r.pc /\ s.op = r.op /\ s.field = r.field /\ s.lvl = r.lvl /\ s.whole = r.whole
         /\ s.uids = r.uids /\ s.tags = r.tags
         /\ ~Ok(x) => s.complete = FALSE
         /\ Ok(x) => /\ s.complete = ~x.data.cascade
                     /\ s.serial = before \o (IF x.data.cascade THEN Tail(r.uid) ELSE r.uid)
<1> DEFINE t == Forget(r)
           part == IF x.data.cascade THEN Tail(r.uid) ELSE r.uid
           u == [t EXCEPT !.complete = ~x.data.cascade, !.serial = @ \o part]
           before == IF r.lvl = 1 THEN <<>> ELSE r.serial
<1>1. /\ IsReader(t) /\ t.pc = r.pc /\ t.op = r.op /\ t.field = r.field /\ t.lvl = r.lvl /\ t.whole = r.whole
      /\ t.uids = r.uids /\ t.complete = FALSE /\ t.serial = before
  BY ForgetIs
<1>2. t.tags = r.tags
  BY DEF IsReader, Fields, Forget
<1>3. Selected(r, x) = IF Ok(x) THEN u ELSE t
  BY DEF Selected
<1> HIDE DEF t, part, before
<1>4. IsReader(u)
  BY <1>1 DEF IsReader
<1>5. /\ u.pc = r.pc /\ u.op = r.op /\ u.field = r.field /\ u.lvl = r.lvl /\ u.whole = r.whole
      /\ u.uids = r.uids /\ u.tags = r.tags
  BY <1>1, <1>2 DEF IsReader, Fields
<1>6. u.complete = ~x.data.cascade /\ u.serial = before \o part
  BY <1>1 DEF IsReader, Fields
<1> HIDE DEF u
<1>7. CASE Ok(x)
  BY <1>3, <1>4, <1>5, <1>6, <1>7 DEF part, before
<1>8. CASE ~Ok(x)
  BY <1>1, <1>2, <1>3, <1>8
<1> QED
  BY <1>7, <1>8

\* The activation goes to a cascade level, or ends.
Descends(s, r, lvl) ==
  /\ IsReader(s) /\ s.op = r.op /\ s.uids = r.uids /\ s.serial = r.serial /\ s.complete = r.complete
  /\ s.pc \in {"aa.anticoll", "aa.select"} /\ s.lvl = lvl

LEMMA LevelDescends ==
  ASSUME NEW r, IsReader(r)
  PROVE  Descends(Level(r), r, r.lvl)
<1> DEFINE part == SubSeq(r.given, r.at + 1, r.at + PartLen)
           tagged == <<1>> \o SubSeq(r.given, r.at + 1, r.at + PartLen - 1)
           s == [r EXCEPT !.pc = "aa.select", !.uid = part]
           t == [r EXCEPT !.pc = "aa.select", !.uid = tagged, !.at = @ + PartLen - 1]
           u == [r EXCEPT !.pc = "aa.anticoll", !.uid = <<>>]
<1>1. Level(r) \in {s, t, u}
  BY DEF Level
<1> HIDE DEF part, tagged
<1>2. Descends(s, r, r.lvl)
  BY DEF IsReader, Fields, Descends
<1>3. Descends(t, r, r.lvl)
  BY DEF IsReader, Fields, Descends
<1>4. Descends(u, r, r.lvl)
  BY DEF IsReader, Fields, Descends
<1> HIDE DEF s, t, u
<1> QED
  BY <1>1, <1>2, <1>3, <1>4

LEMMA WakeUpDescends ==
  ASSUME NEW r, IsReader(r), NEW x
  PROVE  Ends(WakeUp(r, x), r) \/ Descends(WakeUp(r, x), r, 1)
<1> DEFINE s == [r EXCEPT !.lvl = 1]
<1>1. IsReader(s) /\ s.op = r.op /\ s.uids = r.uids /\ s.serial = r.serial /\ s.complete = r.complete /\ s.lvl = 1
  BY DEF IsReader, Fields
<1>2. WakeUp(r, x) \in {Level(s), CardA(r, x.status)}
  BY DEF WakeUp
<1> HIDE DEF s
<1>3. Descends(Level(s), r, 1)
  BY <1>1, LevelDescends DEF Descends
<1> QED
  BY <1>2, <1>3, CardAEnds

LEMMA AnticollisionOfDescends ==
  ASSUME NEW r, IsReader(r), r.pc = "aa.anticoll", NEW x
  PROVE  LET s == AnticollisionOf(r, x) IN Ends(s, Forget(r)) \/ Descends(s, Forget(r), r.lvl)
<1> DEFINE f == Forget(r)
           s == [f EXCEPT !.pc = "aa.select", !.uid = x.data]
           after == AfterCollision(x)
           t == [f EXCEPT !.uid = after, !.pc = IF Len(x.data) + 1 = PartLen THEN "aa.select" ELSE @]
<1>1. IsReader(f) /\ f.pc = "aa.anticoll" /\ f.lvl = r.lvl
  BY ForgetIs
<1>2. AnticollisionOf(r, x) \in {s, t, CardA(f, x.status)}
  BY DEF AnticollisionOf
<1> HIDE DEF f, after
<1>3. Descends(s, f, r.lvl) /\ Descends(t, f, r.lvl)
  BY <1>1 DEF IsReader, Fields, Descends
<1> HIDE DEF s, t
<1>4. Ends(CardA(f, x.status), f)
  BY <1>1, CardAEnds
<1> QED
  BY <1>2, <1>3, <1>4 DEF f

LEMMA SelectOfDescends ==
  ASSUME NEW r, IsReader(r), NEW x, CascadesOnce(x, r.lvl), Ok(x) => x.data.cascade \in BOOLEAN
  PROVE  LET s == SelectOf(r, x) IN
         \/ Ends(s, Selected(r, x))
         \/ Ok(x) /\ x.data.cascade /\ r.lvl = 1 /\ Descends(s, Selected(r, x), 2)
<1> DEFINE s == Selected(r, x)
           t == [s EXCEPT !.lvl = @ + 1]
<1>1. IsReader(s) /\ s.lvl = r.lvl
  BY SelectedIs
<1>2. SelectOf(r, x) = IF Ok(x) /\ x.data.cascade THEN Level(t) ELSE CardA(s, x.status)
  BY DEF SelectOf
<1> HIDE DEF s
<1>3. CASE Ok(x) /\ x.data.cascade
  <2>1. r.lvl = 1
    BY <1>3 DEF CascadesOnce
  <2>2. IsReader(t) /\ t.op = s.op /\ t.uids = s.uids /\ t.serial = s.serial /\ t.complete = s.complete /\ t.lvl = 2
    BY <1>1, <2>1 DEF IsReader, Fields
  <2> HIDE DEF t
  <2>3. Descends(Level(t), s, 2)
    BY <2>2, LevelDescends DEF Descends
  <2> QED
    BY <1>2, <1>3, <2>1, <2>3 DEF s
<1>4. CASE ~(Ok(x) /\ x.data.cascade)
  BY <1>1, <1>2, <1>4, CardAEnds DEF s
<1> QED
  BY <1>3, <1>4

\* Type A: detection and collision resolution.
Same(s, r) == /\ IsReader(s) /\ s.op = r.op /\ s.field = r.field
              /\ s.uids = r.uids /\ s.serial = r.serial /\ s.complete = r.complete

LEMMA AnticollisionIs ==
  ASSUME NEW r, IsReader(r), r.pc = "a.anticoll", NEW x,
         x.status = "COLLISION_ERROR" => Len(x.data) + 1 # PartLen
  PROVE  LET s == Anticollision(r, x)
             f == Forget(r) IN
         \/ Keeps(s, f)
         \/ Restarts(s, f)
         \/ Same(s, f) /\ s.lvl = r.lvl /\ Ok(x) /\ s.pc = "a.select" /\ s.uid = x.data /\ s.whole = r.whole \o x.data
         \/ Same(s, f) /\ s.lvl = r.lvl /\ s.pc = "a.anticoll" /\ s.whole = r.whole
<1> DEFINE f == Forget(r)
           next == r.whole \o x.data
           after == AfterCollision(x)
           s == [f EXCEPT !.pc = "a.select", !.uid = x.data, !.whole = next]
           t == [f EXCEPT !.more = TRUE, !.uid = after, !.pc = IF Len(x.data) + 1 = PartLen THEN "a.select" ELSE @]
<1>1. IsReader(f) /\ f.pc = "a.anticoll" /\ f.lvl = r.lvl /\ f.whole = r.whole
  BY ForgetIs
<1>2. \/ Ok(x) /\ Anticollision(r, x) = s
      \/ x.status = "COLLISION_ERROR" /\ Anticollision(r, x) = t
      \/ Anticollision(r, x) = NextRound(f)
  BY <1>1 DEF Anticollision
<1> HIDE DEF f, next, after
<1>3. Same(s, f) /\ s.lvl = r.lvl /\ s.pc = "a.select" /\ s.uid = x.data /\ s.whole = next
  BY <1>1 DEF IsReader, Fields, Same
<1>4. x.status = "COLLISION_ERROR" => Same(t, f) /\ t.lvl = r.lvl /\ t.pc = "a.anticoll" /\ t.whole = r.whole
  BY <1>1 DEF IsReader, Fields, Same
<1> HIDE DEF s, t
<1>5. Keeps(NextRound(f), f) \/ Restarts(NextRound(f), f)
  BY <1>1, RoundRestarts
<1>6. CASE Ok(x) /\ Anticollision(r, x) = s
  BY <1>3, <1>6 DEF f, next
<1>7. CASE x.status = "COLLISION_ERROR" /\ Anticollision(r, x) = t
  BY <1>4, <1>7 DEF f
<1>8. CASE Anticollision(r, x) = NextRound(f)
  BY <1>5, <1>8 DEF f
<1> QED
  BY <1>2, <1>6, <1>7, <1>8

LEMMA SelectIs ==
  ASSUME NEW r, IsReader(r), r.pc = "a.select", NEW x, CascadesOnce(x, r.lvl), Ok(x) => x.data.cascade \in BOOLEAN
  PROVE  LET s == Select(r, x)
             t == Selected(r, x) IN
         \/ ~Ok(x) /\ Ends(s, t)
         \/ /\ Ok(x) /\ x.data.cascade /\ r.lvl = 1
            /\ Same(s, t) /\ s.pc = "a.anticoll" /\ s.lvl = 2 /\ s.whole = r.whole
         \/ /\ Ok(x) /\ ~x.data.cascade
            /\ IsReader(s) /\ s.op = r.op /\ s.uids = Append(r.uids, Recorded(r))
            /\ s.serial = t.serial /\ s.complete = t.complete
            /\ \/ s.pc \notin AtLevels \cup InRounds
               \/ s.pc = "a.halt" /\ s.field = r.field
<1> DEFINE t == Selected(r, x)
           more == t.tags \cup {x.data.plat}
           recorded == Append(t.uids, Recorded(r))
           found == [t EXCEPT !.tags = more, !.uids = recorded]
           halt == [found EXCEPT !.pc = "a.halt"]
           down == [t EXCEPT !.pc = "a.anticoll", !.lvl = @ + 1, !.uid = <<>>]
<1>1. /\ IsReader(t) /\ t.pc = r.pc /\ t.op = r.op /\ t.field = r.field /\ t.lvl = r.lvl /\ t.whole = r.whole
      /\ t.uids = r.uids
  BY SelectedIs
<1>2. [t EXCEPT !.tags = @ \cup {x.data.plat}, !.uids = Append(@, Recorded(r))] = found
  OBVIOUS
<1>3. \/ ~Ok(x) /\ Select(r, x) = Return(t, x.status)
      \/ Ok(x) /\ x.data.cascade /\ Select(r, x) = down
      \/ Ok(x) /\ ~x.data.cascade /\ Select(r, x) \in {halt, Resolved(found)}
  <2>1. CASE ~Ok(x)
    BY <2>1 DEF Select
  <2>2. CASE Ok(x) /\ x.data.cascade
    BY <2>2 DEF Select
  <2>3. CASE Ok(x) /\ ~x.data.cascade
    BY <2>3, <1>2 DEF Select
  <2> QED
    BY <2>1, <2>2, <2>3
<1> HIDE DEF t, more, recorded
<1>4. /\ IsReader(found) /\ found.op = r.op /\ found.field = r.field /\ found.uids = recorded
      /\ found.serial = t.serial /\ found.complete = t.complete
  BY <1>1 DEF IsReader, Fields
<1>5. CASE ~Ok(x) /\ Select(r, x) = Return(t, x.status)
  BY <1>1, <1>5, ReturnEnds DEF t
<1>6. CASE Ok(x) /\ x.data.cascade /\ Select(r, x) = down
  <2>1. r.lvl = 1
    BY <1>6 DEF CascadesOnce
  <2>2. IsReader(down)
    BY <1>1 DEF IsReader
  <2>3. down.pc = "a.anticoll" /\ down.lvl = t.lvl + 1 /\ down.whole = r.whole
    BY <1>1 DEF IsReader, Fields
  <2>4. Same(down, t)
    BY <1>1, <2>2 DEF IsReader, Fields, Same
  <2> HIDE DEF down
  <2> QED
    BY <1>1, <1>6, <2>1, <2>3, <2>4 DEF t
<1> HIDE DEF found
<1>7. CASE Ok(x) /\ ~x.data.cascade /\ Select(r, x) \in {halt, Resolved(found)}
  <2>1. /\ IsReader(halt) /\ halt.op = r.op /\ halt.field = r.field /\ halt.uids = recorded
        /\ halt.serial = t.serial /\ halt.complete = t.complete /\ halt.pc = "a.halt"
    BY <1>4 DEF IsReader, Fields
  <2> HIDE DEF halt
  <2>2. /\ IsReader(Resolved(found)) /\ Resolved(found).op = r.op /\ Resolved(found).uids = recorded
        /\ Resolved(found).serial = t.serial /\ Resolved(found).complete = t.complete
        /\ Resolved(found).pc \notin AtLevels \cup InRounds
    BY <1>4, ResolvedKeeps DEF Keeps
  <2>3. recorded = Append(r.uids, Recorded(r))
    BY <1>1 DEF recorded
  <2> QED
    BY <1>7, <2>1, <2>2, <2>3 DEF t
<1> QED
  BY <1>3, <1>5, <1>6, <1>7

LEMMA HaltAIs ==
  ASSUME NEW r, IsReader(r), NEW x
  PROVE  /\ \/ Ends(HaltA(r, x), r)
            \/ x.status = "IO_TIMEOUT" /\ Same(HaltA(r, x), r) /\ HaltA(r, x).pc = "a.req"
         /\ Ends(RequestA(r, x), r) \/ Keeps(RequestA(r, x), r) \/ Restarts(RequestA(r, x), r)
<1> DEFINE s == [r EXCEPT !.pc = "a.req"]
<1>1. Same(s, r) /\ s.pc = "a.req"
  BY DEF IsReader, Fields, Same
<1>2. \/ x.status = "IO_TIMEOUT" /\ HaltA(r, x) = s
      \/ HaltA(r, x) = Return(r, "PROTOCOL_ERROR")
  BY DEF HaltA
<1>3. RequestA(r, x) \in {NextRound(r), Return(r, x.status)}
  BY DEF RequestA
<1> HIDE DEF s
<1>4. Keeps(NextRound(r), r) \/ Restarts(NextRound(r), r)
  BY RoundRestarts
<1>5. Ends(Return(r, x.status), r) /\ Ends(Return(r, "PROTOCOL_ERROR"), r)
  BY ReturnEnds
<1>6. \/ Ends(HaltA(r, x), r)
      \/ x.status = "IO_TIMEOUT" /\ Same(HaltA(r, x), r) /\ HaltA(r, x).pc = "a.req"
  BY <1>1, <1>2, <1>5
<1>7. Ends(RequestA(r, x), r) \/ Keeps(RequestA(r, x), r) \/ Restarts(RequestA(r, x), r)
  BY <1>3, <1>4, <1>5
<1> QED
  BY <1>6, <1>7

LEMMA DetectAIs ==
  ASSUME NEW r, IsReader(r), NEW x
  PROVE  LET s == DetectA(r, x) IN
         \/ Keeps(s, r)
         \/ /\ x.status \in {"SUCCESS", "COLLISION_ERROR"}
            /\ s.uids = <<>> /\ IsReader(s) /\ s.op = r.op /\ s.serial = r.serial /\ s.complete = r.complete
            /\ \/ s.pc \notin AtLevels \cup InRounds
               \/ s.field = r.field /\ s.pc = "a.anticoll" /\ s.lvl = 1 /\ s.whole = <<>>
<1> DEFINE more == r.tags \cup {"A"}
           t == [r EXCEPT !.tags = more]
           u == [r EXCEPT !.tags = more, !.round = 0, !.uids = <<>>]
           found == x.status \in {"SUCCESS", "COLLISION_ERROR"}
<1>1. \/ DetectA(r, x) \in {PhaseB(r), BailedA(t)}
      \/ found /\ DetectA(r, x) = Round(u)
  BY DEF DetectA
<1> HIDE DEF more
<1>2. /\ IsReader(t) /\ t.op = r.op /\ t.serial = r.serial /\ t.complete = r.complete /\ t.uids = r.uids
      /\ IsReader(u) /\ u.op = r.op /\ u.serial = r.serial /\ u.complete = r.complete /\ u.uids = <<>>
      /\ u.field = r.field
  BY DEF IsReader, Fields
<1> HIDE DEF t, u
<1>3. Keeps(PhaseB(r), r) /\ Keeps(BailedA(t), r)
  BY <1>2, PhaseBKeeps, ResolvedKeeps, KeepsFrom
<1>4. /\ Round(u).uids = <<>> /\ IsReader(Round(u)) /\ Round(u).op = r.op
      /\ Round(u).serial = r.serial /\ Round(u).complete = r.complete
      /\ \/ Round(u).pc \notin AtLevels \cup InRounds
         \/ /\ Round(u).field = r.field /\ Round(u).pc = "a.anticoll"
            /\ Round(u).lvl = 1 /\ Round(u).whole = <<>>
  BY <1>2, RoundRestarts DEF Keeps, Restarts
<1> QED
  BY <1>1, <1>3, <1>4

LEMMA BeginKeeps ==
  ASSUME NEW r, IsReader(r), NEW cfg, NEW ext
  PROVE  LET s == Begin(r, cfg, ext) IN
         /\ IsReader(s) /\ s.op = "start" /\ s.uids = <<>> /\ s.serial = r.serial /\ s.complete = r.complete
         /\ s.pc \notin AtLevels \cup InRounds
<1> DEFINE zero == [A |-> 0, B |-> 0, F |-> 0]
           listens == cfg.mode # "poll pause" /\ ext # "unsupported"
           t == [r EXCEPT !.op = "start", !.cfg = cfg, !.target = None, !.tags = {}, !.loop = cfg.loops]
           s == [t EXCEPT !.n = zero, !.act = zero, !.uids = <<>>, !.listens = listens]
<1>1. Begin(r, cfg, ext) \in {BeginLoop(s), AfterLoops(s)}
  BY DEF Begin
<1> HIDE DEF zero, listens
<1>2. IsReader(t) /\ t.op = "start" /\ t.serial = r.serial /\ t.complete = r.complete
  BY DEF IsReader, Fields
<1> HIDE DEF t
<1>3. IsReader(s) /\ s.op = "start" /\ s.serial = r.serial /\ s.complete = r.complete /\ s.uids = <<>>
  BY <1>2 DEF IsReader, Fields
<1> HIDE DEF s
<1>4. Keeps(BeginLoop(s), s) /\ Keeps(AfterLoops(s), s)
  BY <1>3, BeginLoopKeeps, EndOfLoopKeeps
<1> QED
  BY <1>1, <1>3, <1>4 DEF Keeps

-----------------------------------------------------------------------------
(* The cards.                                                              *)

\* The cards of type A in the field.
Near(cs) == {c \in Card : TypeA(c) /\ cs[c].st # "out"}

About(cs, w) == \A c \in Card : cs[c].st # "out" => c \in w

\* Cards with the same identifier do the same.
Alike(cs) == \A c, d \in Near(cs) : Kind[c].uid = Kind[d].uid => cs[c] = cs[d]

\* A card at the second level has p for the first part of its identifier.
Below(cs, p) == \A c \in Near(cs) : cs[c].st = "ready" /\ cs[c].lvl = 2 => Kind[c].uid[1] = p

Resolving == {"REQA", "ANTICOLL", "SELECT", "HLTA"}

LEMMA AfterOf ==
  ASSUME NEW cs, NEW cmd, NEW draw, NEW c \in Card
  PROVE  /\ Heeds(c, cs[c], cmd) => After(cs, cmd, draw)[c] = Heeding(c, cs[c], cmd, draw[c])
         /\ ~Heeds(c, cs[c], cmd) /\ cmd.tech = "A" /\ TypeA(c) => After(cs, cmd, draw)[c] = Back(cs[c])
         /\ ~Heeds(c, cs[c], cmd) /\ ~(cmd.tech = "A" /\ TypeA(c)) => After(cs, cmd, draw)[c] = cs[c]
  BY DEF After, TypeA

\* A command brings no card into the field.
LEMMA NobodyEnters ==
  ASSUME NEW cs, NEW cmd, NEW draw, NEW c \in Card, After(cs, cmd, draw)[c].st # "out"
  PROVE  cs[c].st # "out"
<1>1. CASE Heeds(c, cs[c], cmd)
  BY <1>1 DEF Heeds
<1>2. CASE ~Heeds(c, cs[c], cmd) /\ cmd.tech = "A" /\ TypeA(c)
  BY <1>2, AfterOf DEF Back
<1>3. CASE ~Heeds(c, cs[c], cmd) /\ ~(cmd.tech = "A" /\ TypeA(c))
  BY <1>3, AfterOf
<1> QED
  BY <1>1, <1>2, <1>3

\* Commands of other technologies leave cards of type A alone.
LEMMA OthersAreStill ==
  ASSUME NEW cs, NEW cmd, cmd.tech # "A", NEW draw, NEW c \in Card, TypeA(c)
  PROVE  After(cs, cmd, draw)[c] = cs[c]
<1>1. ~Heeds(c, cs[c], cmd)
  BY DEF Heeds, TypeA
<1> QED
  BY <1>1, AfterOf

LEMMA AlikeAfter ==
  ASSUME NEW cs, Alike(cs), NEW cmd, NEW draw, cmd.tech # "A" \/ cmd.name \in Resolving
  PROVE  Alike(After(cs, cmd, draw))
<1> DEFINE n == After(cs, cmd, draw)
<1> HIDE DEF n
<1>1. SUFFICES ASSUME NEW c \in Near(n), NEW d \in Near(n), Kind[c].uid = Kind[d].uid
               PROVE  n[c] = n[d]
  BY DEF Alike, n
<1>2. /\ c \in Card /\ TypeA(c) /\ c \in Near(cs)
      /\ d \in Card /\ TypeA(d) /\ d \in Near(cs)
  BY NobodyEnters DEF Near, n
<1>3. cs[c] = cs[d]
  BY <1>1, <1>2 DEF Alike
<1>4. CASE cmd.tech # "A"
  BY <1>2, <1>3, <1>4, OthersAreStill DEF n
<1>5. CASE cmd.tech = "A" /\ cmd.name \in Resolving
  <2>1. Heeds(c, cs[c], cmd) <=> Heeds(d, cs[d], cmd)
    BY <1>1, <1>2, <1>3, <1>5 DEF Heeds, Resolving, TypeA
  <2>2. Heeding(c, cs[c], cmd, draw[c]) = Heeding(d, cs[d], cmd, draw[d])
    BY <1>1, <1>3, <1>5 DEF Heeding, Resolving
  <2> QED
    BY <1>2, <1>3, <1>5, <2>1, <2>2, AfterOf DEF n
<1> QED
  BY <1>4, <1>5

LEMMA HaltedStays ==
  ASSUME NEW cs, NEW cmd, cmd.name \in Resolving, NEW draw, NEW c \in Card, TypeA(c), cs[c].st = "halt"
  PROVE  After(cs, cmd, draw)[c].st = "halt"
<1>1. ~Heeds(c, cs[c], cmd)
  BY DEF Heeds, Resolving
<1> QED
  BY <1>1, AfterOf DEF Back

LEMMA HaltHalts ==
  ASSUME NEW cs, NEW cmd, cmd.name = "HLTA", cmd.tech = "A", NEW draw, NEW c \in Card, TypeA(c), cs[c].st = "active"
  PROVE  After(cs, cmd, draw)[c].st = "halt"
<1>1. Heeds(c, cs[c], cmd)
  BY DEF Heeds, TypeA
<1>2. Heeding(c, cs[c], cmd, draw[c]) = Halted
  BY DEF Heeding
<1> QED
  BY <1>1, <1>2, AfterOf, StillCards

\* Only cards that heed anticollision or selection are ready after it.
LEMMA ReadyHeeded ==
  ASSUME NEW cs, SoundCards(cs), NEW cmd, cmd.name \in {"ANTICOLL", "SELECT"}, cmd.tech = "A", NEW draw,
         NEW c \in Card, TypeA(c), After(cs, cmd, draw)[c].st = "ready"
  PROVE  /\ Heeds(c, cs[c], cmd) /\ cs[c].st = "ready" /\ cs[c].lvl = cmd.lvl
         /\ cmd.name = "ANTICOLL" => After(cs, cmd, draw)[c] = cs[c]
         /\ cmd.name = "SELECT" => Kind[c].uid[cmd.lvl] = cmd.arg
<1>1. IsCard(cs[c])
  BY SoundCardsAre DEF SoundCards
<1>2. Heeds(c, cs[c], cmd)
  BY <1>1, AfterOf, BackIsSound
<1>3. cmd.name = "ANTICOLL" => Heeding(c, cs[c], cmd, draw[c]) = cs[c]
  BY DEF Heeding
<1>4. cs[c].st = "ready" /\ cs[c].lvl = cmd.lvl /\ (cmd.name = "SELECT" => Kind[c].uid[cmd.lvl] = cmd.arg)
  BY <1>2 DEF Heeds
<1> QED
  BY <1>2, <1>3, <1>4, AfterOf

LEMMA SelectedIsActive ==
  ASSUME NEW cs, SoundCards(cs), NEW cmd, cmd.name = "SELECT", NEW draw, NEW c \in Card, Heeds(c, cs[c], cmd),
         cs[c].lvl = Len(Kind[c].uid), TypeA(c)
  PROVE  After(cs, cmd, draw)[c].st = "active"
<1>1. IsCard(cs[c])
  BY SoundCardsAre DEF SoundCards
<1>2. Len(Kind[c].uid) \in Nat
  BY Identified DEF TypeA
<1>3. Heeding(c, cs[c], cmd, draw[c]) = [cs[c] EXCEPT !.st = "active", !.lvl = 0]
  BY <1>2 DEF Heeding
<1>4. [cs[c] EXCEPT !.st = "active", !.lvl = 0].st = "active"
  BY <1>1 DEF IsCard, CardFields
<1>5. After(cs, cmd, draw)[c] = Heeding(c, cs[c], cmd, draw[c])
  BY AfterOf
<1> QED
  BY <1>3, <1>4, <1>5

LEMMA BelowAfterAnticollision ==
  ASSUME NEW cs, SoundCards(cs), NEW cmd, cmd.name = "ANTICOLL", cmd.tech = "A", NEW draw, NEW p, Below(cs, p)
  PROVE  Below(After(cs, cmd, draw), p)
<1> DEFINE n == After(cs, cmd, draw)
<1> HIDE DEF n
<1>1. SUFFICES ASSUME NEW c \in Near(n), n[c].st = "ready", n[c].lvl = 2
               PROVE  Kind[c].uid[1] = p
  BY DEF Below, n
<1>2. c \in Card /\ TypeA(c) /\ c \in Near(cs)
  BY NobodyEnters DEF Near, n
<1>3. n[c] = cs[c]
  BY <1>1, <1>2, ReadyHeeded DEF n
<1> QED
  BY <1>1, <1>2, <1>3 DEF Below

LEMMA BelowAfterSelection ==
  ASSUME NEW cs, SoundCards(cs), NEW cmd, cmd.name = "SELECT", cmd.tech = "A", cmd.lvl = 1, NEW draw
  PROVE  Below(After(cs, cmd, draw), cmd.arg)
<1> DEFINE n == After(cs, cmd, draw)
<1>1. \A c \in Near(n) : n[c].st = "ready" => c \in Card /\ TypeA(c)
  BY DEF Near
<1> QED
  BY <1>1, ReadyHeeded DEF Below

-----------------------------------------------------------------------------
(* Identifiers.                                                            *)

\* Two parts without the cascade tag.
Joined(p, q) == Tail(p) \o q

LEMMA WholeIs ==
  ASSUME NEW c
  PROVE  /\ Len(Kind[c].uid) = 1 => Whole(c) = Kind[c].uid[1]
         /\ Len(Kind[c].uid) # 1 => Whole(c) = Joined(Kind[c].uid[1], Kind[c].uid[2])
  BY Zenon DEF Whole, Joined

LEMMA PartsAreTagged ==
  ASSUME NEW p \in Part, NEW q \in Part, NEW u \in Part, NEW v \in Part, p[1] = q[1]
  PROVE  /\ Joined(p, u) = Joined(q, v) => p = q /\ u = v
         /\ u # Joined(q, v)
         /\ SubSeq(p \o u, 2, Len(p \o u)) = Joined(p, u)
<1>1. /\ p \in Seq(0 .. 1) /\ Len(p) = PartLen /\ q \in Seq(0 .. 1) /\ Len(q) = PartLen
      /\ u \in Seq(0 .. 1) /\ Len(u) = PartLen /\ v \in Seq(0 .. 1) /\ Len(v) = PartLen
      /\ PartLen \in Nat \ {0, 1}
  BY PartsAreSequences, PartAssumption
<1>2. /\ Tail(p) \in Seq(0 .. 1) /\ Len(Tail(p)) = PartLen - 1 /\ \A i \in 1 .. PartLen - 1 : Tail(p)[i] = p[i + 1]
      /\ Tail(q) \in Seq(0 .. 1) /\ Len(Tail(q)) = PartLen - 1 /\ \A i \in 1 .. PartLen - 1 : Tail(q)[i] = q[i + 1]
  BY <1>1
<1>3. /\ Len(Tail(p) \o u) = PartLen - 1 + PartLen
      /\ \A i \in 1 .. PartLen - 1 : (Tail(p) \o u)[i] = Tail(p)[i]
      /\ \A i \in 1 .. PartLen : (Tail(p) \o u)[i + PartLen - 1] = u[i]
      /\ Len(Tail(q) \o v) = PartLen - 1 + PartLen
      /\ \A i \in 1 .. PartLen - 1 : (Tail(q) \o v)[i] = Tail(q)[i]
      /\ \A i \in 1 .. PartLen : (Tail(q) \o v)[i + PartLen - 1] = v[i]
  BY <1>1, <1>2
<1>4. ASSUME Tail(p) \o u = Tail(q) \o v
      PROVE  p = q /\ u = v
  <2>1. ASSUME NEW i \in 1 .. PartLen
        PROVE  p[i] = q[i]
    <3>1. CASE i = 1
      BY <3>1
    <3>2. CASE i # 1
      <4>1. i - 1 \in 1 .. PartLen - 1 /\ (i - 1) + 1 = i
        BY <1>1, <3>2
      <4>2. Tail(p)[i - 1] = Tail(q)[i - 1]
        BY <1>3, <1>4, <4>1
      <4> QED
        BY <1>2, <4>1, <4>2
    <3> QED
      BY <3>1, <3>2
  <2>2. \A i \in 1 .. PartLen : u[i] = v[i]
    BY <1>3, <1>4
  <2>3. \A f, g \in Part : (\A i \in 1 .. PartLen : f[i] = g[i]) => f = g
    <3>1. \A f \in Part : f = [i \in 1 .. PartLen |-> f[i]]
      BY DEF Part
    <3> QED
      BY <3>1
  <2> QED
    BY <2>1, <2>2, <2>3
<1>5. u # Tail(q) \o v
  BY <1>1, <1>3
<1>6. SubSeq(p \o u, 2, Len(p \o u)) = Tail(p) \o u
  <2> DEFINE w == p \o u
             t == Tail(p) \o u
  <2>1. w \in Seq(0 .. 1) /\ Len(w) = PartLen + PartLen
    BY <1>1
  <2>2. \A i \in 1 .. PartLen : w[i] = p[i] /\ w[i + PartLen] = u[i]
    BY <1>1
  <2>3. SubSeq(w, 2, Len(w)) \in Seq(0 .. 1) /\ Len(SubSeq(w, 2, Len(w))) = PartLen + PartLen - 1
    BY <1>1, <2>1
  <2>4. \A i \in 1 .. PartLen + PartLen - 1 : SubSeq(w, 2, Len(w))[i] = w[i + 1]
    BY <1>1, <2>1
  <2>5. t \in Seq(0 .. 1) /\ Len(t) = PartLen + PartLen - 1
    BY <1>1, <1>2
  <2> HIDE DEF w, t
  <2>6. ASSUME NEW i \in 1 .. PartLen + PartLen - 1
        PROVE  w[i + 1] = t[i]
    <3>1. CASE i <= PartLen - 1
      BY <1>1, <1>2, <1>3, <2>2, <3>1 DEF t
    <3>2. CASE ~(i <= PartLen - 1)
      <4>1. i - PartLen + 1 \in 1 .. PartLen /\ (i - PartLen + 1) + PartLen = i + 1 /\ (i - PartLen + 1) + PartLen - 1 = i
        BY <1>1, <3>2
      <4>2. w[(i - PartLen + 1) + PartLen] = u[i - PartLen + 1] /\ t[(i - PartLen + 1) + PartLen - 1] = u[i - PartLen + 1]
        BY <1>3, <2>2, <4>1 DEF t
      <4> QED
        BY <4>1, <4>2
    <3> QED
      BY <3>1, <3>2
  <2>7. SubSeq(w, 2, Len(w)) = t
    BY <2>3, <2>4, <2>5, <2>6
  <2> QED
    BY <2>7 DEF w, t
<1> QED
  BY <1>4, <1>5, <1>6, Zenon DEF Joined

\* An identifier has one card, or cards with the same parts.
LEMMA WholeIdentifies ==
  ASSUME NEW c \in Card, TypeA(c), NEW d \in Card, TypeA(d), Whole(c) = Whole(d)
  PROVE  Kind[c].uid = Kind[d].uid
<1> DEFINE u == Kind[c].uid
           v == Kind[d].uid
<1>1. ASSUME NEW e \in Card, TypeA(e)
      PROVE  \/ Kind[e].uid \in [1 .. 1 -> Part] /\ Len(Kind[e].uid) = 1
             \/ Kind[e].uid \in [1 .. 2 -> Part] /\ Len(Kind[e].uid) = 2 /\ Kind[e].uid[1][1] = 1
  <2>1. /\ Kind[e].uid \in [1 .. 1 -> Part] \cup [1 .. 2 -> Part]
        /\ \A l \in DOMAIN Kind[e].uid : (Kind[e].uid[l][1] = 1) = (l < Len(Kind[e].uid))
    BY <1>1, KindAssumption DEF TypeA
  <2>2. \A k \in [1 .. 1 -> Part] : Len(k) = 1
    OBVIOUS
  <2>3. \A k \in [1 .. 2 -> Part] : Len(k) = 2 /\ 1 \in DOMAIN k
    OBVIOUS
  <2>4. CASE Kind[e].uid \in [1 .. 1 -> Part]
    BY <2>2, <2>4
  <2>5. CASE Kind[e].uid \in [1 .. 2 -> Part]
    <3>1. (Kind[e].uid[1][1] = 1) = (1 < Len(Kind[e].uid)) /\ Len(Kind[e].uid) = 2
      BY <2>1, <2>3, <2>5
    <3> QED
      BY <2>5, <3>1
  <2> QED
    BY <2>1, <2>4, <2>5
<1>2. /\ Len(u) = 1 => Whole(c) = u[1]
      /\ Len(u) # 1 => Whole(c) = Joined(u[1], u[2])
      /\ Len(v) = 1 => Whole(d) = v[1]
      /\ Len(v) # 1 => Whole(d) = Joined(v[1], v[2])
  BY WholeIs
<1>3. /\ \/ u \in [1 .. 1 -> Part] /\ Len(u) = 1
         \/ u \in [1 .. 2 -> Part] /\ Len(u) = 2 /\ u[1][1] = 1
      /\ \/ v \in [1 .. 1 -> Part] /\ Len(v) = 1
         \/ v \in [1 .. 2 -> Part] /\ Len(v) = 2 /\ v[1][1] = 1
  BY <1>1
<1> HIDE DEF u, v
<1>4. CASE Len(u) = 1 /\ Len(v) = 1
  <2>1. u \in [1 .. 1 -> Part] /\ v \in [1 .. 1 -> Part] /\ u[1] = v[1]
    BY <1>2, <1>3, <1>4
  <2> QED
    BY <2>1 DEF u, v
<1>5. \A f \in [1 .. 2 -> Part], g \in [1 .. 1 -> Part] : f[1] \in Part /\ f[2] \in Part /\ g[1] \in Part
  OBVIOUS
<1>6. CASE Len(u) = 1 /\ Len(v) = 2
  <2>1. u[1] \in Part /\ v[1] \in Part /\ v[2] \in Part /\ u[1] = Joined(v[1], v[2])
    BY <1>2, <1>3, <1>5, <1>6
  <2> QED
    BY <2>1, PartsAreTagged
<1>7. CASE Len(u) = 2 /\ Len(v) = 1
  <2>1. v[1] \in Part /\ u[1] \in Part /\ u[2] \in Part /\ v[1] = Joined(u[1], u[2])
    BY <1>2, <1>3, <1>5, <1>7
  <2> QED
    BY <2>1, PartsAreTagged
<1>8. CASE Len(u) = 2 /\ Len(v) = 2
  <2>1. /\ u \in [1 .. 2 -> Part] /\ v \in [1 .. 2 -> Part] /\ u[1][1] = v[1][1]
        /\ Joined(u[1], u[2]) = Joined(v[1], v[2])
    BY <1>2, <1>3, <1>8
  <2>2. u[1] \in Part /\ u[2] \in Part /\ v[1] \in Part /\ v[2] \in Part
    BY <1>5, <2>1
  <2>3. \A e, f, g, h \in Part : e[1] = f[1] /\ Joined(e, g) = Joined(f, h) => e = f /\ g = h
    BY PartsAreTagged
  <2>4. u[1] = v[1] /\ u[2] = v[2]
    BY <2>1, <2>2, <2>3
  <2> QED
    BY <2>1, <2>4 DEF u, v
<1> QED
  BY <1>3, <1>4, <1>6, <1>7, <1>8

-----------------------------------------------------------------------------
(* Exchanges.                                                              *)

LEMMA ExchangeIs ==
  ASSUME NEW cmd, NEW slots, NEW x \in Exchanges(cmd, slots)
  PROVE  /\ x.cards = cards \/ \E d : x.cards = After(cards, cmd, d)
         /\ x.status \in {"SUCCESS", "COLLISION_ERROR"} =>
              /\ rd.field
              /\ \E d : /\ x.cards = After(cards, cmd, d)
                        /\ x.status = Received(Heard(cards, cmd, d), cmd).status
                        /\ x.data = Received(Heard(cards, cmd, d), cmd).data
         /\ rd.field /\ x.faults = 0 => \E d : x.cards = After(cards, cmd, d)
<1>1. x.cards = cards \/ \E d : x.cards = After(cards, cmd, d)
  BY ExchangeBrings
<1>2. ASSUME x.status \in {"SUCCESS", "COLLISION_ERROR"}
      PROVE  \E d : /\ x.cards = After(cards, cmd, d)
                    /\ x.status = Received(Heard(cards, cmd, d), cmd).status
                    /\ x.data = Received(Heard(cards, cmd, d), cmd).data
  BY <1>2, ExchangeBrings
<1>3. x.status \in {"SUCCESS", "COLLISION_ERROR"} => rd.field
  BY DEF Exchanges, Silence
<1>4. ASSUME rd.field, x.faults = 0
      PROVE  \E d : x.cards = After(cards, cmd, d)
  <2>1. x \in Outcomes(cards, cmd, slots)
    BY <1>4 DEF Exchanges
  <2>2. PICK d \in Draws(cmd, slots) :
          x \in LET next == After(cards, cmd, d)
                    says == Heard(cards, cmd, d)
                    fault(n, status) == [cards |-> n, status |-> status, data |-> <<>>, faults |-> 1]
                    heard == Received(says, cmd) IN
                {[cards |-> next, status |-> heard.status, data |-> heard.data, faults |-> 0]}
                \cup (IF next = cards /\ says = {} THEN {} ELSE {fault(cards, "IO_TIMEOUT")})
                \cup (IF says = {} THEN {} ELSE {fault(next, "IO_TIMEOUT"), fault(next, "INTEGRITY_ERROR")})
    BY <2>1 DEF Outcomes
  <2> DEFINE next == After(cards, cmd, d)
             heard == Received(Heard(cards, cmd, d), cmd)
  <2>3. x \in {[cards |-> next, status |-> heard.status, data |-> heard.data, faults |-> 0],
               [cards |-> cards, status |-> "IO_TIMEOUT", data |-> <<>>, faults |-> 1],
               [cards |-> next, status |-> "IO_TIMEOUT", data |-> <<>>, faults |-> 1],
               [cards |-> next, status |-> "INTEGRITY_ERROR", data |-> <<>>, faults |-> 1]}
    BY <2>2
  <2>4. x.cards = next
    BY <1>4, <2>3
  <2> QED
    BY <2>4
<1> QED
  BY <1>1, <1>2, <1>3, <1>4

LEMMA SomebodyAnswered ==
  ASSUME NEW cs, NEW cmd, NEW draw, Received(Heard(cs, cmd, draw), cmd).status = "SUCCESS"
  PROVE  \E c \in Card : /\ Answers(c, cs[c], cmd, draw[c])
                         /\ Received(Heard(cs, cmd, draw), cmd).data = Answer(c, cs[c], cmd)
<1> DEFINE says == Heard(cs, cmd, draw)
<1>1. Received(says, cmd).data \in says
  <2>1. Received(says, cmd).status = "SUCCESS"
    OBVIOUS
  <2> HIDE DEF says
  <2>2. Received(says, cmd).data = CHOOSE a \in says : TRUE
    BY <2>1 DEF Received
  <2>3. says # {}
    <3>1. Received({}, cmd) = [status |-> "IO_TIMEOUT", data |-> <<>>]
      BY FS_EmptySet DEF Received
    <3>2. says = {} => Received(says, cmd) = Received({}, cmd)
      BY Zenon
    <3> QED
      BY <2>1, <3>1, <3>2
  <2> QED
    BY <2>2, <2>3
<1> QED
  BY <1>1 DEF Heard

\* Who understood anticollision or selection.
LEMMA UnderstoodIs ==
  ASSUME NEW name \in {"ANTICOLL", "SELECT"}, NEW lvl, NEW arg,
         NEW x \in Exchanges(Command(name, "A", lvl, arg), 1), Ok(x)
  PROVE  LET cmd == Command(name, "A", lvl, arg) IN
         /\ rd.field
         /\ \E d : /\ x.cards = After(cards, cmd, d)
                   /\ \E c \in Card : /\ TypeA(c) /\ Heeds(c, cards[c], cmd)
                                      /\ cards[c].st = "ready" /\ cards[c].lvl = lvl
                                      /\ x.data = Answer(c, cards[c], cmd)
                                      /\ name = "SELECT" => arg = Kind[c].uid[lvl]
<1> DEFINE cmd == Command(name, "A", lvl, arg)
<1>1. cmd.name = name /\ cmd.tech = "A" /\ cmd.lvl = lvl /\ cmd.arg = arg
  BY DEF Command
<1>2. x \in Exchanges(cmd, 1) /\ x.status = "SUCCESS"
  BY DEF Ok
<1> HIDE DEF cmd
<1>3. rd.field
  BY <1>2, ExchangeIs
<1>4. PICK d : /\ x.cards = After(cards, cmd, d)
               /\ x.status = Received(Heard(cards, cmd, d), cmd).status
               /\ x.data = Received(Heard(cards, cmd, d), cmd).data
  BY <1>2, ExchangeIs
<1>5. PICK c \in Card : /\ Answers(c, cards[c], cmd, d[c])
                        /\ x.data = Answer(c, cards[c], cmd)
  BY <1>2, <1>4, SomebodyAnswered
<1>6. TypeA(c) /\ Heeds(c, cards[c], cmd)
  BY <1>1, <1>5 DEF Answers, Heeds, TypeA
<1>7. cards[c].st = "ready" /\ cards[c].lvl = lvl /\ (name = "SELECT" => arg = Kind[c].uid[lvl])
  BY <1>1, <1>6 DEF Heeds
<1>8. \E e : /\ x.cards = After(cards, cmd, e)
             /\ \E k \in Card : /\ TypeA(k) /\ Heeds(k, cards[k], cmd)
                                /\ cards[k].st = "ready" /\ cards[k].lvl = lvl
                                /\ x.data = Answer(k, cards[k], cmd)
                                /\ name = "SELECT" => arg = Kind[k].uid[lvl]
  BY <1>4, <1>5, <1>6, <1>7
<1> QED
  BY <1>3, <1>8 DEF cmd

\* Cards no two of which are twins never collide in the last bit of a part.
LEMMA LastBitNeverCollides ==
  ASSUME NoTwins(Worlds), world \in Worlds, SoundCards(cards), About(cards, world),
         NEW lvl \in {1, 2}, lvl = 2 => \E p : Below(cards, p), NEW arg \in Seq(0 .. 1),
         NEW x \in Exchanges(Command("ANTICOLL", "A", lvl, arg), 1), x.status = "COLLISION_ERROR"
  PROVE  Len(x.data) + 1 # PartLen
<1> DEFINE cmd == Command("ANTICOLL", "A", lvl, arg)
<1>1. cmd.name = "ANTICOLL" /\ cmd.tech = "A" /\ cmd.lvl = lvl /\ cmd.arg = arg
  BY DEF Command
<1>2. x \in Exchanges(cmd, 1)
  OBVIOUS
<1> HIDE DEF cmd
<1>3. PICK d : /\ x.status = Received(Heard(cards, cmd, d), cmd).status
               /\ x.data = Received(Heard(cards, cmd, d), cmd).data
  BY <1>2, ExchangeIs
<1> DEFINE says == Heard(cards, cmd, d)
<1>4. ASSUME NEW t \in says
      PROVE  \E c \in Card : /\ TypeA(c) /\ cards[c].st = "ready" /\ cards[c].lvl = lvl /\ c \in Near(cards)
                             /\ lvl \in DOMAIN Kind[c].uid /\ t = Kind[c].uid[lvl] /\ t \in Part
  <2>1. PICK c \in Card : Answers(c, cards[c], cmd, d[c]) /\ t = Answer(c, cards[c], cmd)
    BY <1>4 DEF Heard
  <2>2. TypeA(c) /\ cards[c].st = "ready" /\ cards[c].lvl = lvl
    BY <1>1, <2>1 DEF Answers, Heeds, TypeA
  <2>3. t = Kind[c].uid[lvl]
    BY <1>1, <2>1, <2>2 DEF Answer
  <2>4. lvl \in DOMAIN Kind[c].uid
    BY <2>2 DEF SoundCards, AtALevel, TypeA
  <2>5. t \in Part
    BY <2>2, <2>3, <2>4, Identified DEF TypeA
  <2> QED
    BY <2>2, <2>3, <2>4, <2>5 DEF Near
<1>5. says \subseteq Part
  BY <1>4
<1> HIDE DEF says
<1>6. Received(says, cmd).status = "COLLISION_ERROR" /\ x.data = Received(says, cmd).data
  BY <1>3 DEF says
<1>7. says # {} /\ Cardinality(says) # 1 /\ x.data = LongestCommonPrefix(says)
  <2>1. says # {}
    <3>1. Received({}, cmd) = [status |-> "IO_TIMEOUT", data |-> <<>>]
      BY FS_EmptySet DEF Received
    <3>2. says = {} => Received(says, cmd) = Received({}, cmd)
      BY Zenon
    <3> QED
      BY <1>6, <3>1, <3>2
  <2>2. Cardinality(says) # 1
    BY <1>6, <2>1 DEF Received
  <2>3. Cardinality(says) > 1
    BY <1>6, <2>1, <2>2 DEF Received
  <2> QED
    BY <1>1, <1>6, <2>1, <2>2, <2>3 DEF Received
<1>8. PICK a \in says, b \in says : a # b
  <2>1. PICK a \in says : TRUE
    BY <1>7
  <2>2. says # {a}
    BY <1>7, FS_Singleton
  <2> QED
    BY <2>1, <2>2
<1>9. /\ x.data \in Seq(0 .. 1) /\ IsPrefix(x.data, a) /\ IsPrefix(x.data, b)
  BY <1>5, <1>7, <1>8, LongestCommonPrefixIs
<1>10. Differ(a, b)
  <2>1. PICK c \in Card : /\ TypeA(c) /\ cards[c].st = "ready" /\ cards[c].lvl = lvl /\ c \in Near(cards)
                          /\ lvl \in DOMAIN Kind[c].uid /\ a = Kind[c].uid[lvl]
    BY <1>4, <1>8
  <2>2. PICK e \in Card : /\ TypeA(e) /\ cards[e].st = "ready" /\ cards[e].lvl = lvl /\ e \in Near(cards)
                          /\ lvl \in DOMAIN Kind[e].uid /\ b = Kind[e].uid[lvl]
    BY <1>4, <1>8
  <2>3. c \in world /\ e \in world
    BY <2>1, <2>2 DEF About
  <2>4. \A k \in 1 .. lvl - 1 : Kind[c].uid[k] = Kind[e].uid[k]
    <3>1. CASE lvl = 1
      BY <3>1
    <3>2. CASE lvl = 2
      <4>1. Kind[c].uid[1] = Kind[e].uid[1]
        BY <2>1, <2>2, <3>2 DEF Below
      <4>2. \A k \in 1 .. lvl - 1 : k = 1
        BY <3>2
      <4> QED
        BY <4>1, <4>2
    <3> QED
      BY <3>1, <3>2
  <2>5. lvl \in DOMAIN Kind[c].uid \cap DOMAIN Kind[e].uid
    BY <2>1, <2>2
  <2>6. Kind[c].uid[lvl] = Kind[e].uid[lvl] \/ Differ(Kind[c].uid[lvl], Kind[e].uid[lvl])
    BY <2>1, <2>2, <2>3, <2>4, <2>5 DEF NoTwins
  <2> QED
    BY <1>8, <2>1, <2>2, <2>6
<1>11. PICK i \in 1 .. PartLen - 1 : a[i] # b[i]
  BY <1>10 DEF Differ
<1>12. SUFFICES ASSUME Len(x.data) + 1 = PartLen
                PROVE  FALSE
  OBVIOUS
<1>13. PartLen \in Nat /\ i \in 1 .. Len(x.data) /\ Len(x.data) \in Nat
  BY <1>9, <1>11, <1>12, PartAssumption
<1>14. /\ a \in Seq(0 .. 1) /\ Len(a) = PartLen
       /\ b \in Seq(0 .. 1) /\ Len(b) = PartLen
  BY <1>5, <1>8, PartsAreSequences
<1>15. x.data[i] = a[i] /\ x.data[i] = b[i]
  <2>1. ASSUME NEW s \in Seq(0 .. 1), Len(s) = PartLen, IsPrefix(x.data, s)
        PROVE  x.data[i] = s[i]
    <3>1. SubSeq(x.data, 1, Len(x.data)) = SubSeq(s, 1, Len(x.data))
      BY <2>1 DEF IsPrefix
    <3>2. SubSeq(x.data, 1, Len(x.data))[i] = x.data[i] /\ SubSeq(s, 1, Len(x.data))[i] = s[i]
      BY <1>9, <1>12, <1>13, <2>1
    <3> QED
      BY <3>1, <3>2
  <2> QED
    BY <1>9, <1>14, <2>1
<1> QED
  BY <1>11, <1>15

-----------------------------------------------------------------------------
(* The inductive invariant.                                                *)

Known(w) == {Whole(c) : c \in {d \in w : TypeA(d)}}
Ids(u) == {u[i] : i \in 1 .. Len(u)}
Once(u) == IsFiniteSet(Ids(u)) /\ Cardinality(Ids(u)) = Len(u)

\* The cards that were found have been halted, the last one is about to be.
Settled(cs, r) ==
  \A c \in Near(cs) : Whole(c) \in Ids(r.uids) => cs[c].st = "halt" \/ (r.pc = "a.halt" /\ cs[c].st = "active")

\* At the second level the first part is known, it is what GetSerialNo would
\* return, and all cards that still answer have it.
Placed(cs, r) ==
  \E p \in Part :
    /\ r.lvl = 2 => r.serial = Tail(p) /\ Below(cs, p)
    /\ r.pc = "a.anticoll" => r.whole = IF r.lvl = 1 THEN <<>> ELSE p
    /\ r.pc = "a.select" => r.uid \in Part /\ r.whole = IF r.lvl = 1 THEN r.uid ELSE p \o r.uid

Good(cs, r, w, quiet) ==
  /\ About(cs, w)
  /\ r.uids \in Seq(Known(w))
  /\ r.complete => r.serial \in Known(w)
  /\ r.pc \in AtLevels => Placed(cs, r)
  /\ r.pc \in InRounds => r.field
  /\ quiet => Once(r.uids)
  /\ quiet /\ r.op = "start" /\ r.pc \notin Ending => Alike(cs)
  /\ quiet /\ r.pc \in InRounds => Settled(cs, r)

Real == world \in Worlds /\ Good(cards, rd, world, calm)

LEMMA SentAside ==
  ASSUME NEW r, IsReader(r), NEW cs, NEW w, NEW quiet, Good(cs, r, w, quiet), NEW k
  PROVE  Good(cs, [r EXCEPT !.sent = k], w, quiet)
<1> DEFINE s == [r EXCEPT !.sent = k]
<1>1. /\ s.uids = r.uids /\ s.complete = r.complete /\ s.serial = r.serial /\ s.pc = r.pc /\ s.field = r.field
      /\ s.op = r.op /\ s.lvl = r.lvl /\ s.whole = r.whole /\ s.uid = r.uid
  BY DEF IsReader, Fields
<1> HIDE DEF s
<1> QED
  BY <1>1 DEF Good, Placed, Settled

LEMMA ForgetIsGood ==
  ASSUME NEW r, IsReader(r), NEW cs, NEW w, NEW quiet, Good(cs, r, w, quiet)
  PROVE  Good(cs, Forget(r), w, quiet)
<1> DEFINE s == Forget(r)
<1>1. /\ IsReader(s) /\ s.pc = r.pc /\ s.op = r.op /\ s.field = r.field /\ s.lvl = r.lvl /\ s.uid = r.uid
      /\ s.whole = r.whole /\ s.uids = r.uids /\ s.complete = FALSE
      /\ s.serial = IF r.lvl = 1 THEN <<>> ELSE r.serial
  BY ForgetIs
<1> HIDE DEF s
<1>2. r.lvl = 2 => s.serial = r.serial
  BY <1>1
<1>3. ASSUME Placed(cs, r)
      PROVE  Placed(cs, s)
  BY <1>1, <1>2, <1>3 DEF Placed
<1>4. Settled(cs, r) => Settled(cs, s)
  BY <1>1 DEF Settled
<1> QED
  BY <1>1, <1>3, <1>4 DEF Good, s

\* Cards that a command of collision resolution was sent to.
Follows(ds, cs) ==
  /\ \A c \in Card : ds[c].st # "out" => cs[c].st # "out"
  /\ \A c \in Card : TypeA(c) /\ cs[c].st = "halt" => ds[c].st = "halt"
  /\ Alike(cs) => Alike(ds)

LEMMA ResolvingFollows ==
  ASSUME NEW cmd, cmd.name \in Resolving, NEW slots, NEW x \in Exchanges(cmd, slots)
  PROVE  Follows(x.cards, cards)
<1>1. CASE x.cards = cards
  BY <1>1 DEF Follows
<1>2. ASSUME NEW d, x.cards = After(cards, cmd, d)
      PROVE  Follows(x.cards, cards)
  <2>1. \A c \in Card : After(cards, cmd, d)[c].st # "out" => cards[c].st # "out"
    BY NobodyEnters
  <2>2. \A c \in Card : TypeA(c) /\ cards[c].st = "halt" => After(cards, cmd, d)[c].st = "halt"
    BY HaltedStays
  <2>3. Alike(cards) => Alike(After(cards, cmd, d))
    BY AlikeAfter
  <2> QED
    BY <1>2, <2>1, <2>2, <2>3 DEF Follows
<1> QED
  BY <1>1, <1>2, ExchangeIs

LEMMA OtherExchanges ==
  ASSUME NEW cmd, NEW slots, NEW x \in Exchanges(cmd, slots)
  PROVE  /\ \A c \in Card : x.cards[c].st # "out" => cards[c].st # "out"
         /\ cmd.tech # "A" \/ cmd.name \in Resolving => (Alike(cards) => Alike(x.cards))
<1>1. CASE x.cards = cards
  BY <1>1
<1>2. ASSUME NEW d, x.cards = After(cards, cmd, d)
      PROVE  /\ \A c \in Card : x.cards[c].st # "out" => cards[c].st # "out"
             /\ cmd.tech # "A" \/ cmd.name \in Resolving => (Alike(cards) => Alike(x.cards))
  BY <1>2, NobodyEnters, AlikeAfter
<1> QED
  BY <1>1, <1>2, ExchangeIs

\* Operators that leave what is recorded alone.
LEMMA KeepingIsGood ==
  ASSUME NEW r, NEW cs, NEW w, NEW quiet, Good(cs, r, w, quiet), NEW s, Keeps(s, r), NEW ds, NEW still,
         \A c \in Card : ds[c].st # "out" => cs[c].st # "out", still => quiet,
         Ends(s, r) \/ (r.pc \notin Ending /\ (Alike(cs) => Alike(ds)))
  PROVE  Good(ds, s, w, still)
<1>1. About(ds, w)
  BY DEF Good, About
<1>2. s.uids \in Seq(Known(w)) /\ (s.complete => s.serial \in Known(w)) /\ (still => Once(s.uids))
  BY DEF Good, Keeps
<1>3. s.pc \notin AtLevels /\ s.pc \notin InRounds
  BY DEF Keeps
<1>4. still /\ s.op = "start" /\ s.pc \notin Ending => Alike(ds)
  BY DEF Good, Keeps, Ends
<1> QED
  BY <1>1, <1>2, <1>3, <1>4 DEF Good

\* Another round.
LEMMA RestartingIsGood ==
  ASSUME NEW r, NEW cs, NEW w, NEW quiet, Good(cs, r, w, quiet), r.op = "start", r.pc \in InRounds \ {"a.halt"},
         NEW s, Restarts(s, r), NEW ds, Follows(ds, cs), NEW still \in BOOLEAN, still => quiet
  PROVE  Good(ds, s, w, still)
<1>1. About(ds, w)
  BY DEF Good, About, Follows
<1>2. /\ s.uids \in Seq(Known(w)) /\ (s.complete => s.serial \in Known(w)) /\ (still => Once(s.uids))
      /\ s.field
  BY DEF Good, Restarts
<1>3. Placed(ds, s)
  <2>1. PICK p \in Part : TRUE
    <3>1. [i \in 1 .. PartLen |-> 0] \in Part
      BY DEF Part
    <3> QED
      BY <3>1
  <2>2. s.lvl = 1 /\ s.whole = <<>> /\ s.pc = "a.anticoll"
    BY DEF Restarts
  <2> QED
    BY <2>1, <2>2 DEF Placed
<1>4. r.pc \notin Ending
  BY DEF InRounds, Ending
<1>5. still => Alike(ds)
  BY <1>4 DEF Good, Follows
<1>6. still => Settled(ds, s)
  <2> SUFFICES ASSUME still, NEW c \in Near(ds), Whole(c) \in Ids(s.uids)
               PROVE  ds[c].st = "halt"
    BY DEF Settled
  <2>1. c \in Near(cs) /\ TypeA(c) /\ c \in Card
    BY DEF Near, Follows
  <2>2. Settled(cs, r) /\ s.uids = r.uids
    BY DEF Good, Restarts
  <2>3. cs[c].st = "halt"
    BY <2>1, <2>2 DEF Settled
  <2> QED
    BY <2>1, <2>3 DEF Follows
<1> QED
  BY <1>1, <1>2, <1>3, <1>5, <1>6 DEF Good

-----------------------------------------------------------------------------
(* The steps of collision resolution.                                      *)

LEMMA OnceMore ==
  ASSUME NEW S, NEW u \in Seq(S), NEW e
  PROVE  /\ Ids(Append(u, e)) = Ids(u) \cup {e}
         /\ Once(u) /\ e \notin Ids(u) => Once(Append(u, e))
<1> DEFINE v == Append(u, e)
<1>1. Len(u) \in Nat /\ Len(v) = Len(u) + 1 /\ v[Len(u) + 1] = e /\ \A i \in 1 .. Len(u) : v[i] = u[i]
  OBVIOUS
<1> HIDE DEF v
<1>2. Ids(v) = Ids(u) \cup {e}
  <2>1. \A i \in 1 .. Len(v) : v[i] \in Ids(u) \cup {e}
    BY <1>1 DEF Ids
  <2>2. \A a \in Ids(u) : a \in Ids(v)
    BY <1>1 DEF Ids
  <2>3. e \in Ids(v)
    BY <1>1 DEF Ids
  <2> QED
    BY <2>1, <2>2, <2>3 DEF Ids
<1>3. ASSUME Once(u), e \notin Ids(u)
      PROVE  Once(v)
  <2>1. IsFiniteSet(Ids(u) \cup {e}) /\ Cardinality(Ids(u) \cup {e}) = Cardinality(Ids(u)) + 1
    BY <1>3, FS_AddElement DEF Once
  <2> QED
    BY <1>1, <1>2, <1>3, <2>1 DEF Once
<1> QED
  BY <1>2, <1>3 DEF v

LEMMA DetectAIsGood ==
  ASSUME IsReader(rd), Good(cards, rd, world, calm), rd.pc = "a.detect",
         NEW x \in Send("REQA", "A", 0, None), NEW k \in BOOLEAN, k => calm
  PROVE  Good(x.cards, DetectA(rd, x), world, k)
<1> DEFINE cmd == Command("REQA", "A", 0, None)
           s == DetectA(rd, x)
<1>1. cmd.name \in Resolving
  BY DEF Command, Resolving
<1>2. x \in Exchanges(cmd, 1)
  BY DEF Send
<1> HIDE DEF cmd, s
<1>3. Follows(x.cards, cards)
  BY <1>1, <1>2, ResolvingFollows
<1>4. rd.pc \notin Ending
  BY DEF Ending
<1>5. CASE Keeps(s, rd)
  BY <1>3, <1>4, <1>5, KeepingIsGood DEF Follows, s
<1>6. CASE /\ x.status \in {"SUCCESS", "COLLISION_ERROR"}
           /\ s.uids = <<>> /\ IsReader(s) /\ s.op = rd.op /\ s.serial = rd.serial /\ s.complete = rd.complete
           /\ \/ s.pc \notin AtLevels \cup InRounds
              \/ s.field = rd.field /\ s.pc = "a.anticoll" /\ s.lvl = 1 /\ s.whole = <<>>
  <2>1. rd.field
    BY <1>2, <1>6, ExchangeIs
  <2>2. About(x.cards, world)
    BY <1>3 DEF Good, About, Follows
  <2>3. s.uids \in Seq(Known(world)) /\ (s.complete => s.serial \in Known(world))
    BY <1>6 DEF Good
  <2>4. Ids(s.uids) = {}
    BY <1>6 DEF Ids
  <2>5. Once(s.uids)
    BY <1>6, <2>4, FS_EmptySet DEF Once
  <2>6. PICK p \in Part : TRUE
    <3>1. [i \in 1 .. PartLen |-> 0] \in Part
      BY DEF Part
    <3> QED
      BY <3>1
  <2>7. s.pc \in AtLevels => Placed(x.cards, s)
    BY <1>6, <2>6 DEF Placed
  <2>8. s.pc \in InRounds => s.field
    BY <1>6, <2>1
  <2>9. k /\ s.op = "start" => Alike(x.cards)
    BY <1>3, <1>4, <1>6 DEF Good, Follows
  <2>10. Settled(x.cards, s)
    BY <2>4 DEF Settled
  <2> QED
    BY <2>2, <2>3, <2>5, <2>7, <2>8, <2>9, <2>10 DEF Good, s
<1> QED
  BY <1>5, <1>6, DetectAIs DEF s

LEMMA AnticollisionIsGood ==
  ASSUME NoTwins(Worlds), Bounded, Real, rd.pc = "a.anticoll",
         NEW x \in Send("ANTICOLL", "A", rd.lvl, rd.uid), NEW k \in BOOLEAN, k => calm
  PROVE  Good(x.cards, Anticollision(rd, x), world, k)
<1> DEFINE cmd == Command("ANTICOLL", "A", rd.lvl, rd.uid)
           s == Anticollision(rd, x)
           f == Forget(rd)
<1>1. cmd.name = "ANTICOLL" /\ cmd.tech = "A" /\ cmd.name \in Resolving /\ cmd.lvl = rd.lvl
  BY DEF Command, Resolving
<1>2. x \in Exchanges(cmd, 1)
  BY DEF Send
<1>3. /\ IsReader(rd) /\ rd.lvl \in {1, 2} /\ rd.uid \in Seq(0 .. 1) /\ SoundCards(cards)
      /\ rd.op = "start" /\ Good(cards, rd, world, calm) /\ world \in Worlds
  BY DEF Bounded, IsCall, WellPlaced, Polling, Real
<1>4. PICK p \in Part : /\ rd.lvl = 2 => rd.serial = Tail(p) /\ Below(cards, p)
                        /\ rd.whole = IF rd.lvl = 1 THEN <<>> ELSE p
  BY <1>3 DEF Good, Placed, AtLevels
<1>5. x.status = "COLLISION_ERROR" => Len(x.data) + 1 # PartLen
  <2> SUFFICES ASSUME x.status = "COLLISION_ERROR"
               PROVE  Len(x.data) + 1 # PartLen
    OBVIOUS
  <2>1. About(cards, world) /\ (rd.lvl = 2 => \E q : Below(cards, q))
    BY <1>3, <1>4 DEF Good
  <2>2. x \in Exchanges(Command("ANTICOLL", "A", rd.lvl, rd.uid), 1)
    BY <1>2
  <2> QED
    BY <1>3, <2>1, <2>2, LastBitNeverCollides
<1> HIDE DEF cmd
<1>6. Follows(x.cards, cards)
  BY <1>1, <1>2, ResolvingFollows
<1>7. /\ IsReader(f) /\ f.pc = rd.pc /\ f.op = rd.op /\ f.field = rd.field /\ f.lvl = rd.lvl
      /\ f.uids = rd.uids /\ f.complete = FALSE /\ f.serial = IF rd.lvl = 1 THEN <<>> ELSE rd.serial
  BY <1>3, ForgetIs
<1>8. Good(cards, f, world, calm)
  BY <1>3, ForgetIsGood
<1>9. \/ Keeps(s, f)
      \/ Restarts(s, f)
      \/ Same(s, f) /\ s.lvl = rd.lvl /\ Ok(x) /\ s.pc = "a.select" /\ s.uid = x.data /\ s.whole = rd.whole \o x.data
      \/ Same(s, f) /\ s.lvl = rd.lvl /\ s.pc = "a.anticoll" /\ s.whole = rd.whole
  BY <1>3, <1>5, AnticollisionIs
<1> HIDE DEF s, f
<1>10. f.pc \notin Ending /\ f.op = "start" /\ f.pc \in InRounds \ {"a.halt"}
  BY <1>3, <1>7 DEF Ending, InRounds
<1>11. CASE Keeps(s, f)
  BY <1>6, <1>8, <1>10, <1>11, KeepingIsGood DEF Follows, s
<1>12. CASE Restarts(s, f)
  BY <1>6, <1>8, <1>10, <1>12, RestartingIsGood DEF s
<1>13. ASSUME Same(s, f), s.lvl = rd.lvl, s.pc \in {"a.anticoll", "a.select"}, Placed(x.cards, s)
       PROVE  Good(x.cards, s, world, k)
  <2>1. About(x.cards, world)
    BY <1>6, <1>8 DEF Good, About, Follows
  <2>2. /\ s.uids \in Seq(Known(world)) /\ (s.complete => s.serial \in Known(world)) /\ (k => Once(s.uids))
        /\ s.field
    BY <1>8, <1>10, <1>13 DEF Good, Same
  <2>3. k => Alike(x.cards)
    BY <1>6, <1>8, <1>10 DEF Good, Follows
  <2>4. k => Settled(x.cards, s)
    <3> SUFFICES ASSUME k, NEW c \in Near(x.cards), Whole(c) \in Ids(s.uids)
                 PROVE  x.cards[c].st = "halt"
      BY DEF Settled
    <3>1. c \in Near(cards) /\ TypeA(c) /\ c \in Card
      BY <1>6 DEF Near, Follows
    <3>2. Settled(cards, f) /\ s.uids = f.uids
      BY <1>8, <1>10, <1>13 DEF Good, Same
    <3>3. cards[c].st = "halt"
      BY <1>10, <3>1, <3>2 DEF Settled
    <3> QED
      BY <1>6, <3>1, <3>3 DEF Follows
  <2> QED
    BY <1>13, <2>1, <2>2, <2>3, <2>4 DEF Good
<1>14. rd.lvl = 2 => Below(x.cards, p)
  <2> SUFFICES ASSUME rd.lvl = 2
               PROVE  Below(x.cards, p)
    OBVIOUS
  <2>1. ASSUME NEW d, x.cards = After(cards, cmd, d)
        PROVE  Below(x.cards, p)
    BY <1>1, <1>3, <1>4, <2>1, BelowAfterAnticollision
  <2> QED
    BY <1>2, <1>4, <2>1, ExchangeIs
<1>15. ASSUME Same(s, f), s.lvl = rd.lvl
       PROVE  s.lvl = 2 => s.serial = Tail(p) /\ Below(x.cards, p)
  BY <1>4, <1>7, <1>14, <1>15 DEF Same
<1>16. CASE Same(s, f) /\ s.lvl = rd.lvl /\ s.pc = "a.anticoll" /\ s.whole = rd.whole
  <2>1. Placed(x.cards, s)
    BY <1>4, <1>15, <1>16 DEF Placed
  <2> QED
    BY <1>13, <1>16, <2>1 DEF s
<1>17. CASE Same(s, f) /\ s.lvl = rd.lvl /\ Ok(x) /\ s.pc = "a.select" /\ s.uid = x.data /\ s.whole = rd.whole \o x.data
  <2>1. x.data \in Part
    <3>1. PICK c \in Card : /\ TypeA(c) /\ cards[c].st = "ready" /\ cards[c].lvl = rd.lvl
                            /\ x.data = Answer(c, cards[c], Command("ANTICOLL", "A", rd.lvl, rd.uid))
      BY <1>17, UnderstoodIs DEF Send
    <3>2. x.data = Kind[c].uid[rd.lvl]
      BY <3>1 DEF Answer, Command
    <3>3. rd.lvl \in DOMAIN Kind[c].uid
      BY <1>3, <3>1 DEF SoundCards, AtALevel, TypeA
    <3> QED
      BY <3>1, <3>2, <3>3, Identified DEF TypeA
  <2>2. <<>> \o x.data = x.data
    BY <2>1, PartsAreSequences
  <2>3. s.whole = IF s.lvl = 1 THEN s.uid ELSE p \o s.uid
    BY <1>4, <1>17, <2>2
  <2>4. Placed(x.cards, s)
    BY <1>15, <1>17, <2>1, <2>3 DEF Placed
  <2> QED
    BY <1>13, <1>17, <2>4 DEF s
<1> QED
  BY <1>9, <1>11, <1>12, <1>16, <1>17

\* A selection without cascade names the card that was selected.
LEMMA SelectionNames ==
  ASSUME Bounded, Real, rd.pc \in {"a.select", "aa.select"},
         NEW x \in Send("SELECT", "A", rd.lvl, rd.uid), Ok(x), ~x.data.cascade
  PROVE  LET cmd == Command("SELECT", "A", rd.lvl, rd.uid) IN
         \E d : /\ x.cards = After(cards, cmd, d)
                /\ \E c \in Card : /\ TypeA(c) /\ Heeds(c, cards[c], cmd) /\ cards[c].st = "ready"
                                   /\ c \in Near(cards) /\ Whole(c) \in Known(world)
                                   /\ cards[c].lvl = rd.lvl /\ rd.lvl = Len(Kind[c].uid) /\ rd.uid = Kind[c].uid[rd.lvl]
                                   /\ Selected(rd, x).serial = Whole(c) /\ x.data = Answer(c, cards[c], cmd)
<1> DEFINE cmd == Command("SELECT", "A", rd.lvl, rd.uid)
           t == Selected(rd, x)
           before == IF rd.lvl = 1 THEN <<>> ELSE rd.serial
<1>1. cmd.name = "SELECT"
  BY DEF Command
<1>2. /\ IsReader(rd) /\ rd.lvl \in {1, 2} /\ SoundCards(cards) /\ Good(cards, rd, world, calm)
  BY DEF Bounded, IsCall, WellPlaced, Real
<1>3. PICK p \in Part : rd.lvl = 2 => rd.serial = Tail(p) /\ Below(cards, p)
  BY <1>2 DEF Good, Placed, AtLevels
<1>4. PICK d : /\ x.cards = After(cards, cmd, d)
               /\ \E c \in Card : /\ TypeA(c) /\ Heeds(c, cards[c], cmd)
                                  /\ cards[c].st = "ready" /\ cards[c].lvl = rd.lvl
                                  /\ x.data = Answer(c, cards[c], cmd)
                                  /\ rd.uid = Kind[c].uid[rd.lvl]
  <2>1. "SELECT" \in {"ANTICOLL", "SELECT"}
    OBVIOUS
  <2> QED
    BY <2>1, UnderstoodIs DEF Send
<1>5. PICK c \in Card : /\ TypeA(c) /\ Heeds(c, cards[c], cmd)
                        /\ cards[c].st = "ready" /\ cards[c].lvl = rd.lvl
                        /\ x.data = Answer(c, cards[c], cmd)
                        /\ rd.uid = Kind[c].uid[rd.lvl]
  BY <1>4
<1> HIDE DEF cmd
<1>6. rd.lvl \in DOMAIN Kind[c].uid
  BY <1>2, <1>5 DEF SoundCards, AtALevel, TypeA
<1>7. rd.uid \in Part
  BY <1>5, <1>6, Identified DEF TypeA
<1>8. rd.lvl = Len(Kind[c].uid)
  <2>1. ~(rd.lvl < Len(Kind[c].uid))
    BY <1>1, <1>5 DEF Answer
  <2>2. \/ DOMAIN Kind[c].uid = 1 .. 1 /\ Len(Kind[c].uid) = 1
        \/ DOMAIN Kind[c].uid = 1 .. 2 /\ Len(Kind[c].uid) = 2
    BY <1>5, Identified DEF TypeA
  <2> QED
    BY <1>2, <1>6, <2>1, <2>2
<1>9. c \in Near(cards) /\ c \in world
  BY <1>2, <1>5 DEF Near, Good, About
<1>10. Whole(c) \in Known(world)
  BY <1>5, <1>9 DEF Known
<1>11. x.data.cascade \in BOOLEAN
  BY <1>1, <1>5 DEF Answer
<1>12. t.serial = before \o rd.uid
  BY <1>2, <1>11, SelectedIs
<1> HIDE DEF t, before
<1>13. t.serial = Whole(c)
  <2>1. CASE rd.lvl = 1
    <3>1. Whole(c) = rd.uid
      BY <1>5, <1>8, <2>1, WholeIs
    <3>2. before = <<>>
      BY <2>1 DEF before
    <3>3. <<>> \o rd.uid = rd.uid
      BY <1>7, PartsAreSequences
    <3> QED
      BY <1>12, <3>1, <3>2, <3>3, Zenon
  <2>2. CASE rd.lvl = 2
    <3>1. Kind[c].uid[1] = p
      BY <1>3, <1>5, <1>9, <2>2 DEF Below
    <3>2. Len(Kind[c].uid) # 1
      BY <1>8, <2>2
    <3>3. Whole(c) = Joined(Kind[c].uid[1], Kind[c].uid[2])
      BY <3>2, WholeIs
    <3>4. Whole(c) = Joined(p, rd.uid)
      BY <1>5, <2>2, <3>1, <3>3
    <3>5. before = Tail(p)
      BY <1>3, <2>2 DEF before
    <3>6. t.serial = Joined(p, rd.uid)
      BY <1>12, <3>5, Zenon DEF Joined
    <3> QED
      BY <3>4, <3>6
  <2> QED
    BY <1>2, <2>1, <2>2
<1>14. \E k \in Card : /\ TypeA(k) /\ Heeds(k, cards[k], cmd) /\ cards[k].st = "ready"
                       /\ k \in Near(cards) /\ Whole(k) \in Known(world)
                       /\ cards[k].lvl = rd.lvl /\ rd.lvl = Len(Kind[k].uid) /\ rd.uid = Kind[k].uid[rd.lvl]
                       /\ t.serial = Whole(k) /\ x.data = Answer(k, cards[k], cmd)
  BY <1>5, <1>8, <1>9, <1>10, <1>13
<1> QED
  BY <1>4, <1>14 DEF cmd, t

\* What is recorded is the identifier of the card that is selected.
LEMMA RecordedIs ==
  ASSUME Bounded, Real, rd.pc = "a.select", NEW c \in Near(cards), cards[c].st = "ready", cards[c].lvl = rd.lvl,
         rd.lvl = Len(Kind[c].uid), rd.uid = Kind[c].uid[rd.lvl]
  PROVE  Recorded(rd) = Whole(c)
<1>1. rd.lvl \in {1, 2} /\ Good(cards, rd, world, calm)
  BY DEF Bounded, WellPlaced, Real
<1>2. PICK p \in Part : /\ rd.lvl = 2 => Below(cards, p)
                        /\ rd.uid \in Part /\ rd.whole = IF rd.lvl = 1 THEN rd.uid ELSE p \o rd.uid
  BY <1>1 DEF Good, Placed, AtLevels
<1>3. CASE rd.lvl = 1
  <2>1. Whole(c) = rd.uid
    BY <1>3, WholeIs
  <2> QED
    BY <1>2, <1>3, <2>1 DEF Recorded
<1>4. CASE rd.lvl = 2
  <2>1. Kind[c].uid[1] = p
    BY <1>2, <1>4 DEF Below
  <2>2. Len(Kind[c].uid) # 1
    BY <1>4
  <2>3. Whole(c) = Joined(Kind[c].uid[1], Kind[c].uid[2])
    BY <2>2, WholeIs
  <2>4. Whole(c) = Joined(p, rd.uid)
    BY <1>4, <2>1, <2>3
  <2>5. rd.whole = p \o rd.uid
    BY <1>2, <1>4
  <2>6. Recorded(rd) = SubSeq(rd.whole, 2, Len(rd.whole))
    BY <1>4 DEF Recorded
  <2>7. SubSeq(p \o rd.uid, 2, Len(p \o rd.uid)) = Joined(p, rd.uid)
    BY <1>2, PartsAreTagged
  <2> QED
    BY <2>4, <2>5, <2>6, <2>7, Zenon
<1> QED
  BY <1>1, <1>3, <1>4

LEMMA SelectIsGood ==
  ASSUME Bounded, Real, rd.pc = "a.select",
         NEW x \in Send("SELECT", "A", rd.lvl, rd.uid), NEW k \in BOOLEAN, k => calm
  PROVE  Good(x.cards, Select(rd, x), world, k)
<1> DEFINE cmd == Command("SELECT", "A", rd.lvl, rd.uid)
           s == Select(rd, x)
           t == Selected(rd, x)
<1>1. cmd.name = "SELECT" /\ cmd.tech = "A" /\ cmd.name \in Resolving /\ cmd.lvl = rd.lvl /\ cmd.arg = rd.uid
  BY DEF Command, Resolving
<1>2. x \in Exchanges(cmd, 1)
  BY DEF Send
<1>3. /\ IsReader(rd) /\ rd.lvl \in {1, 2} /\ SoundCards(cards)
      /\ rd.op = "start" /\ Good(cards, rd, world, calm) /\ world \in Worlds
  BY DEF Bounded, IsCall, WellPlaced, Polling, Real
<1>4. PICK p \in Part : /\ rd.lvl = 2 => rd.serial = Tail(p) /\ Below(cards, p)
                        /\ rd.uid \in Part /\ rd.whole = IF rd.lvl = 1 THEN rd.uid ELSE p \o rd.uid
  BY <1>3 DEF Good, Placed, AtLevels
<1>5. CascadesOnce(x, rd.lvl)
  BY <1>3, SelectionsTell DEF Send
<1>6. Ok(x) => rd.field /\ \E d : /\ x.cards = After(cards, cmd, d)
                                  /\ \E c \in Card : /\ TypeA(c) /\ Heeds(c, cards[c], cmd)
                                                     /\ cards[c].st = "ready" /\ cards[c].lvl = rd.lvl
                                                     /\ x.data = Answer(c, cards[c], cmd)
                                                     /\ rd.uid = Kind[c].uid[rd.lvl]
  <2>1. "SELECT" \in {"ANTICOLL", "SELECT"}
    OBVIOUS
  <2> QED
    BY <2>1, UnderstoodIs DEF Send
<1> HIDE DEF cmd
<1>7. ASSUME NEW c \in Card, x.data = Answer(c, cards[c], cmd)
      PROVE  /\ x.data.cascade \in BOOLEAN
             /\ x.data.cascade <=> cards[c].lvl < Len(Kind[c].uid)
  BY <1>1, <1>7 DEF Answer
<1>8. Ok(x) => x.data.cascade \in BOOLEAN
  BY <1>6, <1>7
<1>9. Follows(x.cards, cards)
  BY <1>1, <1>2, ResolvingFollows
<1>10. About(x.cards, world)
  BY <1>3, <1>9 DEF Good, About, Follows
<1>11. rd.pc \notin Ending /\ rd.pc \in InRounds /\ rd.pc # "a.halt"
  BY DEF Ending, InRounds
<1>12. \/ ~Ok(x) /\ Ends(s, t)
       \/ /\ Ok(x) /\ x.data.cascade /\ rd.lvl = 1
          /\ Same(s, t) /\ s.pc = "a.anticoll" /\ s.lvl = 2 /\ s.whole = rd.whole
       \/ /\ Ok(x) /\ ~x.data.cascade
          /\ IsReader(s) /\ s.op = rd.op /\ s.uids = Append(rd.uids, Recorded(rd))
          /\ s.serial = t.serial /\ s.complete = t.complete
          /\ \/ s.pc \notin AtLevels \cup InRounds
             \/ s.pc = "a.halt" /\ s.field = rd.field
  BY <1>3, <1>5, <1>8, SelectIs
<1> DEFINE before == IF rd.lvl = 1 THEN <<>> ELSE rd.serial
<1>13. /\ IsReader(t) /\ t.pc = rd.pc /\ t.op = rd.op /\ t.field = rd.field /\ t.uids = rd.uids
       /\ Ok(x) => /\ t.complete = ~x.data.cascade
                   /\ t.serial = before \o (IF x.data.cascade THEN Tail(rd.uid) ELSE rd.uid)
  BY <1>3, <1>8, SelectedIs
<1>14. ~Ok(x) => t = Forget(rd)
  BY DEF Selected
<1> HIDE DEF s, t, before
<1>15. CASE ~Ok(x) /\ Ends(s, t)
  <2>1. Good(cards, t, world, calm)
    BY <1>3, <1>14, <1>15, ForgetIsGood
  <2>2. Keeps(s, t)
    BY <1>15 DEF Ends
  <2> QED
    BY <1>9, <1>15, <2>1, <2>2, KeepingIsGood DEF Follows, s
<1>16. k => Alike(cards) /\ Alike(x.cards) /\ Settled(cards, rd) /\ Once(rd.uids)
  BY <1>3, <1>9, <1>11 DEF Good, Follows
<1>17. CASE /\ Ok(x) /\ x.data.cascade /\ rd.lvl = 1
            /\ Same(s, t) /\ s.pc = "a.anticoll" /\ s.lvl = 2 /\ s.whole = rd.whole
  <2>1. s.serial = Tail(rd.uid)
    <3>1. before = <<>>
      BY <1>17 DEF before
    <3>2. t.serial = before \o Tail(rd.uid)
      BY <1>13, <1>17
    <3>3. <<>> \o Tail(rd.uid) = Tail(rd.uid)
      BY <1>4, PartsAreSequences, PartAssumption
    <3>4. s.serial = t.serial
      BY <1>17 DEF Same
    <3> QED
      BY <3>1, <3>2, <3>3, <3>4, Zenon
  <2>2. Below(x.cards, rd.uid)
    BY <1>1, <1>3, <1>6, <1>17, BelowAfterSelection
  <2>3. s.whole = rd.uid
    BY <1>4, <1>17
  <2>4. Placed(x.cards, s)
    BY <1>4, <1>17, <2>1, <2>2, <2>3 DEF Placed
  <2>5. s.uids = rd.uids /\ s.complete = FALSE /\ s.field
    BY <1>6, <1>13, <1>17 DEF Same
  <2>6. s.uids \in Seq(Known(world))
    BY <1>3, <2>5 DEF Good
  <2>7. k => Settled(x.cards, s)
    <3> SUFFICES ASSUME k, NEW c \in Near(x.cards), Whole(c) \in Ids(s.uids)
                 PROVE  x.cards[c].st = "halt"
      BY DEF Settled
    <3>1. c \in Near(cards) /\ TypeA(c) /\ c \in Card
      BY <1>9 DEF Near, Follows
    <3>2. cards[c].st = "halt"
      BY <1>11, <1>16, <2>5, <3>1 DEF Settled
    <3> QED
      BY <1>9, <3>1, <3>2 DEF Follows
  <2> QED
    BY <1>10, <1>16, <2>4, <2>5, <2>6, <2>7 DEF Good, s
<1>18. CASE /\ Ok(x) /\ ~x.data.cascade
            /\ IsReader(s) /\ s.op = rd.op /\ s.uids = Append(rd.uids, Recorded(rd))
            /\ s.serial = t.serial /\ s.complete = t.complete
            /\ \/ s.pc \notin AtLevels \cup InRounds
               \/ s.pc = "a.halt" /\ s.field = rd.field
  <2>1. PICK d : /\ x.cards = After(cards, cmd, d)
                 /\ \E c \in Card : /\ TypeA(c) /\ Heeds(c, cards[c], cmd) /\ cards[c].st = "ready"
                                    /\ c \in Near(cards) /\ Whole(c) \in Known(world)
                                    /\ cards[c].lvl = rd.lvl /\ rd.lvl = Len(Kind[c].uid)
                                    /\ rd.uid = Kind[c].uid[rd.lvl] /\ t.serial = Whole(c)
    BY <1>18, SelectionNames DEF cmd, t
  <2>2. PICK c \in Card : /\ TypeA(c) /\ Heeds(c, cards[c], cmd) /\ cards[c].st = "ready"
                          /\ c \in Near(cards) /\ Whole(c) \in Known(world)
                          /\ cards[c].lvl = rd.lvl /\ rd.lvl = Len(Kind[c].uid)
                          /\ rd.uid = Kind[c].uid[rd.lvl] /\ t.serial = Whole(c)
    BY <2>1
  <2>3. Recorded(rd) = Whole(c)
    BY <2>2, RecordedIs
  <2>8. rd.uids \in Seq(Known(world))
    BY <1>3 DEF Good
  <2>9. s.uids = Append(rd.uids, Whole(c))
    BY <1>18, <2>3
  <2>10. s.uids \in Seq(Known(world)) /\ (s.complete => s.serial \in Known(world))
    BY <1>18, <2>2, <2>8, <2>9
  <2>11. s.pc \notin AtLevels /\ (s.pc \in InRounds => s.field /\ s.pc = "a.halt")
    BY <1>6, <1>18 DEF AtLevels
  <2>12. Ids(s.uids) = Ids(rd.uids) \cup {Whole(c)}
    BY <2>8, <2>9, OnceMore
  <2>13. k => Once(s.uids)
    <3> SUFFICES ASSUME k
                 PROVE  Once(s.uids)
      OBVIOUS
    <3>1. Whole(c) \notin Ids(rd.uids)
      BY <1>11, <1>16, <2>2 DEF Settled
    <3> QED
      BY <1>16, <2>8, <2>9, <3>1, OnceMore
  <2>14. k /\ s.pc \in InRounds => Settled(x.cards, s)
    <3> SUFFICES ASSUME k, s.pc \in InRounds, NEW e \in Near(x.cards), Whole(e) \in Ids(s.uids)
                 PROVE  x.cards[e].st = "halt" \/ (s.pc = "a.halt" /\ x.cards[e].st = "active")
      BY DEF Settled
    <3>1. e \in Near(cards) /\ TypeA(e) /\ e \in Card
      BY <1>9 DEF Near, Follows
    <3>2. CASE Whole(e) \in Ids(rd.uids)
      <4>1. cards[e].st = "halt"
        BY <1>11, <1>16, <3>1, <3>2 DEF Settled
      <4> QED
        BY <1>9, <3>1, <4>1 DEF Follows
    <3>3. CASE Whole(e) = Whole(c)
      <4>1. Kind[e].uid = Kind[c].uid
        BY <2>2, <3>1, <3>3, WholeIdentifies
      <4>2. x.cards[c].st = "active"
        BY <1>1, <1>3, <2>1, <2>2, SelectedIsActive
      <4>3. c \in Near(x.cards)
        BY <2>2, <4>2 DEF Near
      <4>4. x.cards[e] = x.cards[c]
        BY <1>16, <4>1, <4>3 DEF Alike
      <4> QED
        BY <2>11, <4>2, <4>4
    <3> QED
      BY <2>12, <3>2, <3>3
  <2> QED
    BY <1>10, <1>16, <2>10, <2>11, <2>13, <2>14 DEF Good, s
<1> QED
  BY <1>12, <1>15, <1>17, <1>18

LEMMA HaltAIsGood ==
  ASSUME Bounded, Real, rd.pc = "a.halt",
         NEW x \in Send("HLTA", "A", 0, None), NEW k \in BOOLEAN, k => calm /\ x.faults = 0
  PROVE  Good(x.cards, HaltA(rd, x), world, k)
<1> DEFINE cmd == Command("HLTA", "A", 0, None)
           s == HaltA(rd, x)
<1>1. cmd.name = "HLTA" /\ cmd.tech = "A" /\ cmd.name \in Resolving
  BY DEF Command, Resolving
<1>2. x \in Exchanges(cmd, 1)
  BY DEF Send
<1>3. /\ IsReader(rd) /\ rd.op = "start" /\ Good(cards, rd, world, calm)
  BY DEF Bounded, IsCall, WellPlaced, Polling, Real
<1> HIDE DEF cmd, s
<1>4. Follows(x.cards, cards)
  BY <1>1, <1>2, ResolvingFollows
<1>5. rd.pc \notin Ending /\ rd.pc \in InRounds
  BY DEF Ending, InRounds
<1>6. CASE Ends(s, rd)
  <2>1. Keeps(s, rd)
    BY <1>6 DEF Ends
  <2> QED
    BY <1>3, <1>4, <1>6, <2>1, KeepingIsGood DEF Follows, s
<1>7. CASE Same(s, rd) /\ s.pc = "a.req"
  <2>1. About(x.cards, world)
    BY <1>3, <1>4 DEF Good, About, Follows
  <2>2. rd.field
    BY <1>3, <1>5 DEF Good
  <2>3. /\ s.uids \in Seq(Known(world)) /\ (s.complete => s.serial \in Known(world)) /\ (k => Once(s.uids))
        /\ s.field /\ s.pc \notin AtLevels
    BY <1>3, <1>7, <2>2 DEF Good, Same, AtLevels
  <2>4. k => Alike(x.cards)
    BY <1>3, <1>4, <1>5 DEF Good, Follows
  <2>5. k => Settled(x.cards, s)
    <3> SUFFICES ASSUME k, NEW c \in Near(x.cards), Whole(c) \in Ids(s.uids)
                 PROVE  x.cards[c].st = "halt"
      BY DEF Settled
    <3>1. c \in Near(cards) /\ TypeA(c) /\ c \in Card
      BY <1>4 DEF Near, Follows
    <3>2. cards[c].st = "halt" \/ cards[c].st = "active"
      BY <1>3, <1>5, <1>7, <3>1 DEF Settled, Good, Same
    <3>3. PICK d : x.cards = After(cards, cmd, d)
      BY <1>2, <2>2, ExchangeIs
    <3> QED
      BY <1>1, <1>4, <3>1, <3>2, <3>3, HaltHalts DEF Follows
  <2> QED
    BY <2>1, <2>3, <2>4, <2>5 DEF Good, s
<1> QED
  BY <1>3, <1>6, <1>7, HaltAIs DEF s

LEMMA RequestAIsGood ==
  ASSUME Bounded, Real, rd.pc = "a.req",
         NEW x \in Send("REQA", "A", 0, None), NEW k \in BOOLEAN, k => calm
  PROVE  Good(x.cards, RequestA(rd, x), world, k)
<1> DEFINE cmd == Command("REQA", "A", 0, None)
           s == RequestA(rd, x)
<1>1. cmd.name \in Resolving
  BY DEF Command, Resolving
<1>2. x \in Exchanges(cmd, 1)
  BY DEF Send
<1>3. /\ IsReader(rd) /\ rd.op = "start" /\ Good(cards, rd, world, calm)
  BY DEF Bounded, IsCall, WellPlaced, Polling, Real
<1> HIDE DEF cmd, s
<1>4. Follows(x.cards, cards)
  BY <1>1, <1>2, ResolvingFollows
<1>5. rd.pc \notin Ending /\ rd.pc \in InRounds \ {"a.halt"}
  BY DEF Ending, InRounds
<1>6. CASE Keeps(s, rd)
  BY <1>3, <1>4, <1>5, <1>6, KeepingIsGood DEF Follows, s
<1>7. CASE Restarts(s, rd)
  BY <1>3, <1>4, <1>5, <1>7, RestartingIsGood DEF s
<1>8. Keeps(s, rd) \/ Restarts(s, rd)
  BY <1>3, HaltAIs DEF Ends, s
<1> QED
  BY <1>6, <1>7, <1>8

-----------------------------------------------------------------------------
(* The steps of an activation of type A.                                   *)

LEMMA EndingIsGood ==
  ASSUME NEW r, NEW cs, NEW w, About(cs, w), r.uids \in Seq(Known(w)), r.complete => r.serial \in Known(w),
         NEW k \in BOOLEAN, k => Once(r.uids), NEW s, Ends(s, r), NEW ds,
         \A c \in Card : ds[c].st # "out" => cs[c].st # "out"
  PROVE  Good(ds, s, w, k)
<1>1. About(ds, w)
  BY DEF About
<1>2. /\ s.uids = r.uids /\ s.serial = r.serial /\ s.complete = r.complete
      /\ s.pc \notin AtLevels /\ s.pc \notin InRounds /\ s.pc \in Ending
  BY DEF Ends, Keeps
<1> QED
  BY <1>1, <1>2 DEF Good

LEMMA DescendingIsGood ==
  ASSUME NEW r, NEW cs, NEW w, About(cs, w), r.uids \in Seq(Known(w)), r.complete => r.serial \in Known(w),
         NEW k \in BOOLEAN, k => Once(r.uids), NEW s, NEW lvl \in {1, 2}, Descends(s, r, lvl), NEW ds,
         \A c \in Card : ds[c].st # "out" => cs[c].st # "out",
         lvl = 2 => \E p \in Part : r.serial = Tail(p) /\ Below(ds, p)
  PROVE  Good(ds, s, w, k)
<1>1. About(ds, w)
  BY DEF About
<1>2. /\ s.uids = r.uids /\ s.serial = r.serial /\ s.complete = r.complete
      /\ s.pc \in {"aa.anticoll", "aa.select"} /\ s.pc \notin InRounds /\ s.pc \in Ending /\ s.lvl = lvl
  BY DEF Descends, InRounds, Ending
<1>3. Placed(ds, s)
  <2>1. PICK p \in Part : TRUE
    <3>1. [i \in 1 .. PartLen |-> 0] \in Part
      BY DEF Part
    <3> QED
      BY <3>1
  <2> QED
    BY <1>2, <2>1 DEF Placed
<1> QED
  BY <1>1, <1>2, <1>3 DEF Good

LEMMA WakeUpIsGood ==
  ASSUME Bounded, Real, NEW cmd, NEW x \in Exchanges(cmd, 1), NEW k \in BOOLEAN, k => calm
  PROVE  Good(x.cards, WakeUp(rd, x), world, k)
<1>1. /\ IsReader(rd) /\ About(cards, world) /\ rd.uids \in Seq(Known(world)) /\ (k => Once(rd.uids))
      /\ rd.complete => rd.serial \in Known(world)
  BY DEF Bounded, IsCall, Real, Good
<1>2. \A c \in Card : x.cards[c].st # "out" => cards[c].st # "out"
  BY OtherExchanges
<1> DEFINE s == WakeUp(rd, x)
<1> HIDE DEF s
<1>3. CASE Ends(s, rd)
  BY <1>1, <1>2, <1>3, EndingIsGood DEF s
<1>4. CASE Descends(s, rd, 1)
  <2>1. 1 \in {1, 2} /\ (1 = 2 => \E p \in Part : rd.serial = Tail(p) /\ Below(x.cards, p))
    OBVIOUS
  <2> QED
    BY <1>1, <1>2, <1>4, <2>1, DescendingIsGood DEF s
<1> QED
  BY <1>1, <1>3, <1>4, WakeUpDescends DEF s

LEMMA AnticollisionOfIsGood ==
  ASSUME Bounded, Real, rd.pc = "aa.anticoll",
         NEW x \in Send("ANTICOLL", "A", rd.lvl, rd.uid), NEW k \in BOOLEAN, k => calm
  PROVE  Good(x.cards, AnticollisionOf(rd, x), world, k)
<1> DEFINE cmd == Command("ANTICOLL", "A", rd.lvl, rd.uid)
           s == AnticollisionOf(rd, x)
           f == Forget(rd)
<1>1. cmd.name = "ANTICOLL" /\ cmd.tech = "A"
  BY DEF Command
<1>2. x \in Exchanges(cmd, 1)
  BY DEF Send
<1>3. /\ IsReader(rd) /\ rd.lvl \in {1, 2} /\ SoundCards(cards) /\ Good(cards, rd, world, calm)
  BY DEF Bounded, IsCall, WellPlaced, Real
<1>4. PICK p \in Part : rd.lvl = 2 => rd.serial = Tail(p) /\ Below(cards, p)
  BY <1>3 DEF Good, Placed, AtLevels
<1> HIDE DEF cmd
<1>5. f.uids = rd.uids /\ f.complete = FALSE /\ (rd.lvl = 2 => f.serial = rd.serial)
  <2>1. f.uids = rd.uids /\ f.complete = FALSE /\ f.serial = IF rd.lvl = 1 THEN <<>> ELSE rd.serial
    BY <1>3, ForgetIs
  <2> HIDE DEF f
  <2> QED
    BY <2>1
<1>6. Ends(s, f) \/ Descends(s, f, rd.lvl)
  BY <1>3, AnticollisionOfDescends
<1> HIDE DEF s, f
<1>7. /\ About(cards, world) /\ f.uids \in Seq(Known(world)) /\ (k => Once(f.uids))
      /\ f.complete => f.serial \in Known(world)
  BY <1>3, <1>5 DEF Good
<1>8. \A c \in Card : x.cards[c].st # "out" => cards[c].st # "out"
  BY <1>2, OtherExchanges
<1>9. rd.lvl = 2 => Below(x.cards, p)
  <2> SUFFICES ASSUME rd.lvl = 2
               PROVE  Below(x.cards, p)
    OBVIOUS
  <2>1. ASSUME NEW d, x.cards = After(cards, cmd, d)
        PROVE  Below(x.cards, p)
    BY <1>1, <1>3, <1>4, <2>1, BelowAfterAnticollision
  <2> QED
    BY <1>2, <1>4, <2>1, ExchangeIs
<1>10. CASE Ends(s, f)
  BY <1>7, <1>8, <1>10, EndingIsGood DEF s
<1>11. CASE Descends(s, f, rd.lvl)
  BY <1>3, <1>4, <1>5, <1>7, <1>8, <1>9, <1>11, DescendingIsGood DEF s
<1> QED
  BY <1>6, <1>10, <1>11

LEMMA SelectOfIsGood ==
  ASSUME Bounded, Real, rd.pc = "aa.select",
         NEW x \in Send("SELECT", "A", rd.lvl, rd.uid), NEW k \in BOOLEAN, k => calm
  PROVE  Good(x.cards, SelectOf(rd, x), world, k)
<1> DEFINE cmd == Command("SELECT", "A", rd.lvl, rd.uid)
           s == SelectOf(rd, x)
           t == Selected(rd, x)
<1>1. cmd.name = "SELECT" /\ cmd.tech = "A" /\ cmd.lvl = rd.lvl /\ cmd.arg = rd.uid
  BY DEF Command
<1>2. x \in Exchanges(cmd, 1)
  BY DEF Send
<1>3. /\ IsReader(rd) /\ rd.lvl \in {1, 2} /\ SoundCards(cards) /\ Good(cards, rd, world, calm)
  BY DEF Bounded, IsCall, WellPlaced, Real
<1>4. CascadesOnce(x, rd.lvl)
  BY <1>3, SelectionsTell DEF Send
<1>5. Ok(x) => \E d : /\ x.cards = After(cards, cmd, d)
                      /\ \E c \in Card : /\ TypeA(c) /\ cards[c].st = "ready" /\ cards[c].lvl = rd.lvl
                                         /\ x.data = Answer(c, cards[c], cmd)
                                         /\ rd.uid = Kind[c].uid[rd.lvl]
  <2>1. "SELECT" \in {"ANTICOLL", "SELECT"}
    OBVIOUS
  <2> QED
    BY <2>1, UnderstoodIs DEF Send
<1> HIDE DEF cmd
<1>6. Ok(x) => x.data.cascade \in BOOLEAN
  <2> SUFFICES ASSUME Ok(x)
               PROVE  x.data.cascade \in BOOLEAN
    OBVIOUS
  <2>1. PICK c \in Card : x.data = Answer(c, cards[c], cmd)
    BY <1>5
  <2> QED
    BY <1>1, <2>1 DEF Answer
<1>7. Ends(s, t) \/ (Ok(x) /\ x.data.cascade /\ rd.lvl = 1 /\ Descends(s, t, 2))
  BY <1>3, <1>4, <1>6, SelectOfDescends
<1> DEFINE before == IF rd.lvl = 1 THEN <<>> ELSE rd.serial
<1>8. /\ t.uids = rd.uids /\ (~Ok(x) => t.complete = FALSE)
      /\ Ok(x) => /\ t.complete = ~x.data.cascade
                  /\ t.serial = before \o (IF x.data.cascade THEN Tail(rd.uid) ELSE rd.uid)
  BY <1>3, <1>6, SelectedIs
<1>9. ASSUME Ok(x), ~x.data.cascade
      PROVE  t.serial \in Known(world)
  BY <1>9, SelectionNames
<1> HIDE DEF s, t, before
<1>10. /\ About(cards, world) /\ t.uids \in Seq(Known(world)) /\ (k => Once(t.uids))
       /\ t.complete => t.serial \in Known(world)
  BY <1>3, <1>6, <1>8, <1>9 DEF Good
<1>11. \A c \in Card : x.cards[c].st # "out" => cards[c].st # "out"
  BY <1>2, OtherExchanges
<1>12. CASE Ends(s, t)
  BY <1>10, <1>11, <1>12, EndingIsGood DEF s
<1>13. CASE Ok(x) /\ x.data.cascade /\ rd.lvl = 1 /\ Descends(s, t, 2)
  <2>1. PICK c \in Card : TypeA(c) /\ cards[c].st = "ready" /\ cards[c].lvl = rd.lvl /\ rd.uid = Kind[c].uid[rd.lvl]
    BY <1>5, <1>13
  <2>2. rd.uid \in Part
    <3>1. rd.lvl \in DOMAIN Kind[c].uid
      BY <1>3, <2>1 DEF SoundCards, AtALevel, TypeA
    <3> QED
      BY <2>1, <3>1, Identified DEF TypeA
  <2>3. t.serial = Tail(rd.uid)
    <3>1. before = <<>>
      BY <1>13 DEF before
    <3>2. t.serial = before \o Tail(rd.uid)
      BY <1>8, <1>13
    <3>3. <<>> \o Tail(rd.uid) = Tail(rd.uid)
      BY <2>2, PartsAreSequences, PartAssumption
    <3> QED
      BY <3>1, <3>2, <3>3, Zenon
  <2>4. Below(x.cards, rd.uid)
    BY <1>1, <1>3, <1>5, <1>13, BelowAfterSelection
  <2>5. \E p \in Part : t.serial = Tail(p) /\ Below(x.cards, p)
    BY <2>2, <2>3, <2>4
  <2> QED
    BY <1>10, <1>11, <1>13, <2>5, DescendingIsGood DEF s
<1> QED
  BY <1>7, <1>12, <1>13

-----------------------------------------------------------------------------
(* The steps.                                                              *)

LEMMA OnAirIsReal ==
  ASSUME Real, NEW s, IsReader(s), NEW x, OnAir(x, s),
         \A k \in BOOLEAN : (k => calm /\ x.faults = 0) => Good(x.cards, s, world, k)
  PROVE  Real'
<1>1. /\ rd' = [s EXCEPT !.sent = IF s.pc = "idle" THEN 0 ELSE @ + 1]
      /\ cards' = x.cards /\ world' = world /\ calm' = (calm /\ x.faults = 0)
  BY DEF OnAir
<1>2. calm' \in BOOLEAN /\ (calm' => calm /\ x.faults = 0)
  BY <1>1
<1>3. Good(x.cards, s, world, calm')
  BY <1>2
<1>4. PICK n : rd' = [s EXCEPT !.sent = n]
  BY <1>1
<1>5. Good(x.cards, [s EXCEPT !.sent = n], world, calm')
  BY <1>3, SentAside
<1>6. Good(cards', rd', world', calm')
  BY <1>1, <1>4, <1>5
<1>7. world' \in Worlds
  BY <1>1 DEF Real
<1> QED
  BY <1>6, <1>7 DEF Real

LEMMA KeepingIsReal ==
  ASSUME Real, NEW cmd, NEW slots, NEW x \in Exchanges(cmd, slots), NEW s, OnAir(x, s), Keeps(s, rd),
         Ends(s, rd) \/ (rd.pc \notin Ending /\ (cmd.tech # "A" \/ cmd.name \in Resolving))
  PROVE  Real'
<1>1. /\ \A c \in Card : x.cards[c].st # "out" => cards[c].st # "out"
      /\ cmd.tech # "A" \/ cmd.name \in Resolving => (Alike(cards) => Alike(x.cards))
  BY OtherExchanges
<1>2. Good(cards, rd, world, calm) /\ IsReader(s)
  BY DEF Real, Keeps
<1>3. ASSUME NEW k \in BOOLEAN, k => calm
      PROVE  Good(x.cards, s, world, k)
  BY <1>1, <1>2, <1>3, KeepingIsGood
<1> QED
  BY <1>2, <1>3, OnAirIsReal

LEMMA PollAIsReal == NoTwins(Worlds) /\ Bounded /\ Real /\ PollA => Real'
<1> SUFFICES ASSUME NoTwins(Worlds), Bounded, Real, PollA
             PROVE  Real'
  OBVIOUS
<1>1. IsCall(rd) /\ IsReader(rd) /\ WellPlaced(rd) /\ SoundCards(cards) /\ Good(cards, rd, world, calm)
  BY DEF Bounded, IsCall, Real
<1>2. CASE /\ rd.pc = "a.detect"
           /\ \E x \in Send("REQA", "A", 0, None) : OnAir(x, DetectA(rd, x))
  <2>1. PICK x \in Send("REQA", "A", 0, None) : OnAir(x, DetectA(rd, x))
    BY <1>2
  <2>2. IsReader(DetectA(rd, x))
    BY <1>1, <1>2, DetectAGoesOn DEF GoesOn, IsCall
  <2>3. \A k \in BOOLEAN : (k => calm /\ x.faults = 0) => Good(x.cards, DetectA(rd, x), world, k)
    BY <1>1, <1>2, DetectAIsGood
  <2> QED
    BY <2>1, <2>2, <2>3, OnAirIsReal
<1>3. CASE /\ rd.pc = "a.anticoll"
           /\ \E x \in Send("ANTICOLL", "A", rd.lvl, rd.uid) : OnAir(x, Anticollision(rd, x))
  <2>1. PICK x \in Send("ANTICOLL", "A", rd.lvl, rd.uid) : OnAir(x, Anticollision(rd, x))
    BY <1>3
  <2>2. rd.uid \in Seq(0 .. 1)
    BY <1>1, <1>3 DEF WellPlaced
  <2>3. CollidesBeyond(x, rd.uid)
    BY <1>1, <2>2, AnticollisionsTell DEF Send
  <2>4. IsReader(Anticollision(rd, x))
    BY <1>1, <1>3, <2>3, AnticollisionGoesOn DEF GoesOn, IsCall
  <2>5. \A k \in BOOLEAN : (k => calm /\ x.faults = 0) => Good(x.cards, Anticollision(rd, x), world, k)
    BY <1>3, AnticollisionIsGood
  <2> QED
    BY <2>1, <2>4, <2>5, OnAirIsReal
<1>4. CASE /\ rd.pc = "a.select"
           /\ \E x \in Send("SELECT", "A", rd.lvl, rd.uid) : OnAir(x, Select(rd, x))
  <2>1. PICK x \in Send("SELECT", "A", rd.lvl, rd.uid) : OnAir(x, Select(rd, x))
    BY <1>4
  <2>2. rd.lvl \in {1, 2}
    BY <1>1, <1>4 DEF WellPlaced
  <2>3. CascadesOnce(x, rd.lvl)
    BY <1>1, <2>2, SelectionsTell DEF Send
  <2>4. IsReader(Select(rd, x))
    BY <1>1, <1>4, <2>3, SelectGoesOn DEF GoesOn, IsCall
  <2>5. \A k \in BOOLEAN : (k => calm /\ x.faults = 0) => Good(x.cards, Select(rd, x), world, k)
    BY <1>4, SelectIsGood
  <2> QED
    BY <2>1, <2>4, <2>5, OnAirIsReal
<1>5. CASE /\ rd.pc = "a.halt"
           /\ \E x \in Send("HLTA", "A", 0, None) : OnAir(x, HaltA(rd, x))
  <2>1. PICK x \in Send("HLTA", "A", 0, None) : OnAir(x, HaltA(rd, x))
    BY <1>5
  <2>2. IsReader(HaltA(rd, x))
    BY <1>1, <1>5, HaltAGoesOn DEF GoesOn, IsCall
  <2>3. \A k \in BOOLEAN : (k => calm /\ x.faults = 0) => Good(x.cards, HaltA(rd, x), world, k)
    BY <1>5, HaltAIsGood
  <2> QED
    BY <2>1, <2>2, <2>3, OnAirIsReal
<1>6. CASE /\ rd.pc = "a.req"
           /\ \E x \in Send("REQA", "A", 0, None) : OnAir(x, RequestA(rd, x))
  <2>1. PICK x \in Send("REQA", "A", 0, None) : OnAir(x, RequestA(rd, x))
    BY <1>6
  <2>2. IsReader(RequestA(rd, x))
    BY <1>1, <1>6, RequestAGoesOn DEF GoesOn, IsCall
  <2>3. \A k \in BOOLEAN : (k => calm /\ x.faults = 0) => Good(x.cards, RequestA(rd, x), world, k)
    BY <1>6, RequestAIsGood
  <2> QED
    BY <2>1, <2>2, <2>3, OnAirIsReal
<1> QED
  BY <1>2, <1>3, <1>4, <1>5, <1>6 DEF PollA

LEMMA CardActivationAIsReal == Bounded /\ Real /\ CardActivationA => Real'
<1> SUFFICES ASSUME Bounded, Real, CardActivationA
             PROVE  Real'
  OBVIOUS
<1>1. IsCall(rd) /\ IsReader(rd) /\ WellPlaced(rd) /\ SoundCards(cards)
  BY DEF Bounded, IsCall
<1>2. CASE /\ rd.pc = "aa.wake"
           /\ \E x \in Send(IF rd.given = <<>> THEN "REQA" ELSE "WUPA", "A", 0, None) : OnAir(x, WakeUp(rd, x))
  <2> DEFINE cmd == Command(IF rd.given = <<>> THEN "REQA" ELSE "WUPA", "A", 0, None)
  <2>1. PICK x \in Exchanges(cmd, 1) : OnAir(x, WakeUp(rd, x))
    BY <1>2 DEF Send
  <2> HIDE DEF cmd
  <2>2. IsReader(WakeUp(rd, x))
    BY <1>1, <1>2, WakeUpGoesOn DEF GoesOn, IsCall
  <2>3. \A k \in BOOLEAN : (k => calm /\ x.faults = 0) => Good(x.cards, WakeUp(rd, x), world, k)
    BY WakeUpIsGood
  <2> QED
    BY <2>1, <2>2, <2>3, OnAirIsReal
<1>3. CASE /\ rd.pc = "aa.anticoll"
           /\ \E x \in Send("ANTICOLL", "A", rd.lvl, rd.uid) : OnAir(x, AnticollisionOf(rd, x))
  <2>1. PICK x \in Send("ANTICOLL", "A", rd.lvl, rd.uid) : OnAir(x, AnticollisionOf(rd, x))
    BY <1>3
  <2>2. rd.uid \in Seq(0 .. 1)
    BY <1>1, <1>3 DEF WellPlaced
  <2>3. CollidesBeyond(x, rd.uid)
    BY <1>1, <2>2, AnticollisionsTell DEF Send
  <2>4. IsReader(AnticollisionOf(rd, x))
    BY <1>1, <1>3, <2>3, AnticollisionOfGoesOn DEF GoesOn, IsCall
  <2>5. \A k \in BOOLEAN : (k => calm /\ x.faults = 0) => Good(x.cards, AnticollisionOf(rd, x), world, k)
    BY <1>3, AnticollisionOfIsGood
  <2> QED
    BY <2>1, <2>4, <2>5, OnAirIsReal
<1>4. CASE /\ rd.pc = "aa.select"
           /\ \E x \in Send("SELECT", "A", rd.lvl, rd.uid) : OnAir(x, SelectOf(rd, x))
  <2>1. PICK x \in Send("SELECT", "A", rd.lvl, rd.uid) : OnAir(x, SelectOf(rd, x))
    BY <1>4
  <2>2. rd.lvl \in {1, 2}
    BY <1>1, <1>4 DEF WellPlaced
  <2>3. CascadesOnce(x, rd.lvl)
    BY <1>1, <2>2, SelectionsTell DEF Send
  <2>4. IsReader(SelectOf(rd, x))
    BY <1>1, <1>4, <2>3, SelectOfGoesOn DEF GoesOn, IsCall
  <2>5. \A k \in BOOLEAN : (k => calm /\ x.faults = 0) => Good(x.cards, SelectOf(rd, x), world, k)
    BY <1>4, SelectOfIsGood
  <2> QED
    BY <2>1, <2>4, <2>5, OnAirIsReal
<1> QED
  BY <1>2, <1>3, <1>4 DEF CardActivationA

LEMMA ProtocolActivationAIsReal == Bounded /\ Real /\ ProtocolActivationA => Real'
<1> SUFFICES ASSUME Bounded, Real, ProtocolActivationA
             PROVE  Real'
  OBVIOUS
<1>1. IsReader(rd)
  BY DEF Bounded, IsCall
<1>2. ASSUME NEW cmd, NEW x \in Exchanges(cmd, 1), NEW s, OnAir(x, s), Ends(s, rd)
      PROVE  Real'
  <2>1. Keeps(s, rd)
    BY <1>2 DEF Ends
  <2> QED
    BY <1>2, <2>1, KeepingIsReal
<1>3. PICK cmd : \E x \in Exchanges(cmd, 1) :
        \E s \in {Rats(rd, x), Deselect(rd, x), Peer(rd, rd.first), Pps(rd, x), DoneA(rd, x.status)} : OnAir(x, s)
  BY DEF ProtocolActivationA, Send
<1>4. PICK x \in Exchanges(cmd, 1) :
        \E s \in {Rats(rd, x), Deselect(rd, x), Peer(rd, rd.first), Pps(rd, x), DoneA(rd, x.status)} : OnAir(x, s)
  BY <1>3
<1>5. /\ Ends(Rats(rd, x), rd) /\ Ends(Deselect(rd, x), rd) /\ Ends(Peer(rd, rd.first), rd) /\ Ends(Pps(rd, x), rd)
      /\ Ends(DoneA(rd, x.status), rd)
  BY <1>1, ProtocolEnds, PeerEnds
<1> QED
  BY <1>2, <1>4, <1>5

LEMMA PollBIsReal == Bounded /\ Real /\ PollB => Real'
<1> SUFFICES ASSUME Bounded, Real, PollB
             PROVE  Real'
  OBVIOUS
<1> DEFINE s == [rd EXCEPT !.answered = None]
<1>1. IsReader(rd)
  BY DEF Bounded, IsCall
<1>2. /\ IsReader(s) /\ s.op = rd.op /\ s.uids = rd.uids /\ s.serial = rd.serial /\ s.complete = rd.complete
      /\ s.pc = rd.pc
  BY <1>1 DEF IsReader, Fields
<1>3. CASE rd.pc = "b.req"
  <2> DEFINE cmd == Command("REQB", "B", 0, None)
  <2>1. PICK x \in SendB("REQB") : OnAir(x, DetectB(s, x))
    BY <1>3 DEF PollB
  <2>2. cmd.tech # "A" /\ x \in Exchanges(cmd, 2 ^ rd.cfg.slots)
    BY <2>1 DEF SendB, Command
  <2>3. rd.pc \notin Ending /\ s.pc \notin AtLevels \cup InRounds
    BY <1>2, <1>3 DEF Ending, AtLevels, InRounds
  <2> HIDE DEF s, cmd
  <2>4. Keeps(DetectB(s, x), rd)
    BY <1>2, <2>3, DetectBKeeps, KeepsFrom
  <2> QED
    BY <2>1, <2>2, <2>3, <2>4, KeepingIsReal
<1>4. CASE rd.pc = "bb.req"
  <2> DEFINE cmd == Command(IF Directly(rd) THEN "REQB" ELSE "WUPB", "B", 0, None)
  <2>1. PICK x \in SendB(IF Directly(rd) THEN "REQB" ELSE "WUPB") : OnAir(x, TakeSlot(s, x))
    BY <1>4 DEF PollB
  <2>2. cmd.tech # "A" /\ x \in Exchanges(cmd, 2 ^ rd.cfg.slots)
    BY <2>1 DEF SendB, Command
  <2>3. rd.pc \notin Ending
    BY <1>4 DEF Ending
  <2> HIDE DEF s, cmd
  <2>4. Keeps(TakeSlot(s, x), rd)
    BY <1>2, TakeSlotKeeps, KeepsFrom
  <2> QED
    BY <2>1, <2>2, <2>3, <2>4, KeepingIsReal
<1>5. CASE rd.pc = "bb.slot"
  <2> DEFINE cmd == Command("SLOT", "B", 0, rd.slot)
  <2>1. PICK x \in Send("SLOT", "B", 0, rd.slot) : OnAir(x, SlotMarker(rd, x))
    BY <1>5 DEF PollB
  <2>2. cmd.tech # "A" /\ x \in Exchanges(cmd, 1)
    BY <2>1 DEF Send, Command
  <2>3. rd.pc \notin Ending
    BY <1>5 DEF Ending
  <2> HIDE DEF cmd
  <2>4. Keeps(SlotMarker(rd, x), rd)
    BY <1>1, TakeSlotKeeps
  <2> QED
    BY <2>1, <2>2, <2>3, <2>4, KeepingIsReal
<1>6. CASE rd.pc = "bb.attrib"
  <2> DEFINE rate == DecideBaudRate(rd.answered, rd.cfg.rate)
  <2>1. PICK x \in Send("ATTRIB", "B", 0, [pupi |-> rd.answered, rate |-> rate]) : OnAir(x, Attrib(rd, x))
    BY <1>6 DEF PollB
  <2> HIDE DEF rate
  <2> DEFINE cmd == Command("ATTRIB", "B", 0, [pupi |-> rd.answered, rate |-> rate])
  <2>2. cmd.tech # "A" /\ x \in Exchanges(cmd, 1)
    BY <2>1 DEF Send, Command
  <2>3. rd.pc \notin Ending
    BY <1>6 DEF Ending
  <2> HIDE DEF cmd
  <2>4. Keeps(Attrib(rd, x), rd)
    BY <1>1, AttribKeeps
  <2> QED
    BY <2>1, <2>2, <2>3, <2>4, KeepingIsReal
<1> QED
  BY <1>3, <1>4, <1>5, <1>6 DEF PollB

LEMMA PollFIsReal == Bounded /\ Real /\ (PollF \/ ActivePoll) => Real'
<1> SUFFICES ASSUME Bounded, Real, PollF \/ ActivePoll
             PROVE  Real'
  OBVIOUS
<1>1. IsReader(rd)
  BY DEF Bounded, IsCall
<1>2. CASE PollF
  <2>1. rd.pc \in {"f.reqc", "f.atr"}
    BY <1>2 DEF PollF
  <2>2. rd.pc \notin Ending /\ rd.pc \notin AtLevels \cup InRounds
    BY <2>1 DEF Ending, AtLevels, InRounds
  <2>3. PICK name : \E x \in Send(name, "F", 0, None) : OnAir(x, DetectF(rd, x)) \/ OnAir(x, AtrF(rd, x))
    BY <1>2 DEF PollF
  <2> DEFINE cmd == Command(name, "F", 0, None)
  <2>4. PICK x \in Exchanges(cmd, 1) : OnAir(x, DetectF(rd, x)) \/ OnAir(x, AtrF(rd, x))
    BY <2>3 DEF Send
  <2>5. cmd.tech # "A"
    BY DEF Command
  <2> HIDE DEF cmd
  <2>6. Keeps(DetectF(rd, x), rd) /\ Keeps(AtrF(rd, x), rd)
    BY <1>1, <2>2, PollFKeeps
  <2> QED
    BY <2>2, <2>4, <2>5, <2>6, KeepingIsReal
<1>3. CASE ActivePoll
  <2> DEFINE cmd == Command("ATR", "N", 0, None)
  <2>1. PICK x \in Exchanges(cmd, 1) : OnAir(x, ActiveAtr(rd, x))
    BY <1>3 DEF ActivePoll, Send
  <2>2. cmd.tech # "A"
    BY DEF Command
  <2>3. rd.pc \notin Ending
    BY <1>3 DEF ActivePoll, Ending
  <2> HIDE DEF cmd
  <2>4. Keeps(ActiveAtr(rd, x), rd)
    BY <1>1, BeginLoopKeeps
  <2> QED
    BY <2>1, <2>2, <2>3, <2>4, KeepingIsReal
<1> QED
  BY <1>2, <1>3

\* Steps without a frame.
LEMMA StillIsReal ==
  ASSUME Real, NEW r, Good(cards, r, world, calm), Keeps(rd', r), world' = world, calm' = calm,
         \A c \in Card : cards'[c].st # "out" => cards[c].st # "out",
         Ends(rd', r) \/ (r.pc \notin Ending /\ cards' = cards)
  PROVE  Real'
<1>1. Alike(cards) => (cards' = cards => Alike(cards'))
  <2>1. cards' = cards => (Alike(cards) => Alike(cards'))
    BY DEF Alike, Near
  <2> QED
    BY <2>1
<1>2. Good(cards', rd', world, calm)
  BY <1>1, KeepingIsGood
<1> QED
  BY <1>2 DEF Real

LEMMA NextLoopIsReal == Bounded /\ Real /\ (NextLoop \/ Listen) => Real'
<1> SUFFICES ASSUME Bounded, Real, NextLoop \/ Listen
             PROVE  Real'
  OBVIOUS
<1>1. IsReader(rd) /\ Good(cards, rd, world, calm)
  BY DEF Bounded, IsCall, Real
<1>2. CASE NextLoop
  <2>1. /\ rd.pc = "loop" /\ rd' = BeginLoop(rd)
        /\ cards' = cards /\ world' = world /\ calm' = calm
    BY <1>2 DEF NextLoop
  <2>2. Keeps(rd', rd) /\ rd.pc \notin Ending
    BY <1>1, <2>1, BeginLoopKeeps DEF Ending
  <2> QED
    BY <1>1, <2>1, <2>2, StillIsReal
<1>3. CASE Listen
  <2> DEFINE s == [rd EXCEPT !.field = FALSE]
  <2>1. /\ rd.pc = "listen" /\ rd' = Return(s, "SUCCESS") /\ cards' = Unpowered(cards)
        /\ world' = world /\ calm' = calm
    BY <1>3 DEF Listen
  <2>2. /\ IsReader(s) /\ s.op = rd.op /\ s.uids = rd.uids /\ s.serial = rd.serial /\ s.complete = rd.complete
    BY <1>1 DEF IsReader, Fields
  <2> HIDE DEF s
  <2>3. Ends(rd', rd)
    BY <2>1, <2>2, ReturnEnds, KeepsFrom
  <2>4. \A c \in Card : cards'[c].st # "out" => cards[c].st # "out"
    BY <2>1 DEF Unpowered, Away
  <2> QED
    BY <1>1, <2>1, <2>3, <2>4, StillIsReal DEF Ends
<1> QED
  BY <1>2, <1>3

-----------------------------------------------------------------------------
(* What the application does, and the cards.                               *)

LEMMA StartIsReal == Bounded /\ Real /\ Start => Real'
<1> SUFFICES ASSUME Bounded, Real, Start
             PROVE  Real'
  OBVIOUS
<1>1. IsReader(rd) /\ Good(cards, rd, world, calm) /\ world \in Worlds
  BY DEF Bounded, IsCall, Real
<1>2. PICK cfg \in Configs, ext \in {"off", "on", "unsupported"} :
        /\ rd' = Begin(rd, cfg, ext)
        /\ calm' => \A c \in Present : cards[c] = Idle
  BY DEF Start
<1>3. cards' = cards /\ world' = world
  BY DEF Start, Call
<1>4. /\ rd'.uids = <<>> /\ rd'.serial = rd.serial /\ rd'.complete = rd.complete
      /\ rd'.pc \notin AtLevels /\ rd'.pc \notin InRounds
  BY <1>1, <1>2, BeginKeeps
<1>5. rd'.uids \in Seq(Known(world)) /\ Once(rd'.uids)
  <2>1. <<>> \in Seq(Known(world)) /\ Len(<<>>) = 0
    OBVIOUS
  <2>2. Ids(<<>>) = {}
    BY DEF Ids
  <2>3. Once(<<>>)
    BY <2>1, <2>2, FS_EmptySet DEF Once
  <2>4. Once(rd'.uids)
    BY <1>4, <2>3, Zenon
  <2> QED
    BY <1>4, <2>1, <2>4
<1>6. calm' => Alike(cards)
  BY <1>2 DEF Alike, Near, Present
<1>7. About(cards, world) /\ (rd.complete => rd.serial \in Known(world))
  BY <1>1 DEF Good
<1>8. Good(cards, rd', world, calm')
  BY <1>4, <1>5, <1>6, <1>7 DEF Good
<1> QED
  BY <1>1, <1>3, <1>8 DEF Real

LEMMA ActivationIsReal == Bounded /\ Real /\ (ActivateCard \/ ActivateAnyA) => Real'
<1> SUFFICES ASSUME Bounded, Real, ActivateCard \/ ActivateAnyA
             PROVE  Real'
  OBVIOUS
<1>1. IsReader(rd) /\ Good(cards, rd, world, calm)
  BY DEF Bounded, IsCall, Real
<1>2. ASSUME NEW r, r.uids = rd.uids, r.serial = rd.serial, r.complete = rd.complete, r.op # "start",
             Keeps(rd', r), cards' = cards, world' = world, calm' = calm
      PROVE  Real'
  <2>1. /\ rd'.uids = rd.uids /\ rd'.serial = rd.serial /\ rd'.complete = rd.complete /\ rd'.op # "start"
        /\ rd'.pc \notin AtLevels /\ rd'.pc \notin InRounds
    BY <1>2 DEF Keeps
  <2>2. Good(cards, rd', world, calm)
    BY <1>1, <2>1 DEF Good
  <2> QED
    BY <1>2, <2>2 DEF Real
<1>3. CASE ActivateCard
  <2> DEFINE s == [rd EXCEPT !.op = "activate"]
  <2>1. cards' = cards /\ world' = world /\ calm' = calm
    BY <1>3 DEF ActivateCard, Call
  <2>2. (\E i \in 1 .. rd.n.A : rd' = ActivateA(s, i)) \/ rd' = ActivateB(s)
    BY <1>3 DEF ActivateCard
  <2>3. IsReader(s) /\ s.op # "start" /\ s.uids = rd.uids /\ s.serial = rd.serial /\ s.complete = rd.complete
    BY <1>1 DEF IsReader, Fields
  <2> HIDE DEF s
  <2>4. Keeps(rd', s)
    BY <2>2, <2>3, ActivateAEnds, ActivatedBKeeps DEF Ends
  <2> QED
    BY <1>2, <2>1, <2>3, <2>4
<1>4. CASE ActivateAnyA
  <2> DEFINE s == [rd EXCEPT !.op = "p3a", !.target = AnyCard]
  <2>1. cards' = cards /\ world' = world /\ calm' = calm /\ rd' = ActivateCardA(s, <<>>)
    BY <1>4 DEF ActivateAnyA, Call
  <2>2. IsReader(s) /\ s.op # "start" /\ s.uids = rd.uids /\ s.serial = rd.serial /\ s.complete = rd.complete
    BY <1>1 DEF IsReader, Fields
  <2> HIDE DEF s
  <2>3. Keeps(rd', s)
    BY <2>1, <2>2, ActivateCardAEnds DEF Ends
  <2> QED
    BY <1>2, <2>1, <2>2, <2>3
<1> QED
  BY <1>3, <1>4

LEMMA FieldResetIsReal == Bounded /\ Real /\ FieldReset => Real'
<1> SUFFICES ASSUME Bounded, Real, FieldReset
             PROVE  Real'
  OBVIOUS
<1> DEFINE s == [rd EXCEPT !.field = TRUE]
<1>1. IsReader(rd) /\ Good(cards, rd, world, calm)
  BY DEF Bounded, IsCall, Real
<1>2. rd.pc = "idle" /\ rd' = s /\ cards' = Unpowered(cards) /\ world' = world /\ calm' = calm
  BY DEF FieldReset
<1>3. Ends(s, rd)
  BY <1>1, <1>2 DEF IsReader, Fields, Ends, Keeps, Ending, AtLevels, InRounds
<1> HIDE DEF s
<1>4. \A c \in Card : cards'[c].st # "out" => cards[c].st # "out"
  BY <1>2 DEF Unpowered, Away
<1> QED
  BY <1>1, <1>2, <1>3, <1>4, StillIsReal DEF Ends

LEMMA DisturbanceIsReal == Bounded /\ Real /\ (SetStop \/ Move) => Real'
<1> SUFFICES ASSUME Bounded, Real, SetStop \/ Move
             PROVE  Real'
  OBVIOUS
<1>1. IsReader(rd) /\ Good(cards, rd, world, calm) /\ SoundCards(cards)
  BY DEF Bounded, IsCall, Real
<1>2. CASE SetStop
  <2> DEFINE s == [rd EXCEPT !.stop = TRUE]
  <2>1. rd' = s /\ cards' = cards /\ world' = world /\ calm' = FALSE
    BY <1>2 DEF SetStop
  <2>2. /\ s.uids = rd.uids /\ s.complete = rd.complete /\ s.serial = rd.serial /\ s.pc = rd.pc /\ s.field = rd.field
        /\ s.lvl = rd.lvl /\ s.whole = rd.whole /\ s.uid = rd.uid
    BY <1>1 DEF IsReader, Fields
  <2> HIDE DEF s
  <2>3. Good(cards, s, world, FALSE)
    BY <1>1, <2>2 DEF Good, Placed
  <2> QED
    BY <2>1, <2>3 DEF Real
<1>3. CASE Move
  <2>1. rd' = rd /\ world' = world /\ calm' = FALSE
    BY <1>3 DEF Move
  <2>2. PICK c \in world : cards' = [cards EXCEPT ![c] = IF @.st = "out" THEN Idle ELSE Away]
    BY <1>3 DEF Move
  <2> DEFINE n == [cards EXCEPT ![c] = IF @.st = "out" THEN Idle ELSE Away]
  <2>3. \A b \in Card : n[b] = cards[b] \/ (b = c /\ n[b] \in {Idle, Away})
    BY <1>1 DEF SoundCards, IsCards
  <2>4. Idle.st = "idle" /\ Away.st = "out"
    BY DEF Idle, Away
  <2> HIDE DEF n
  <2>5. About(n, world)
    BY <1>1, <2>3 DEF Good, About
  <2>6. ASSUME NEW p, Below(cards, p)
        PROVE  Below(n, p)
    BY <2>3, <2>4, <2>6 DEF Below, Near
  <2>7. Placed(cards, rd) => Placed(n, rd)
    BY <2>6 DEF Placed
  <2>8. Good(n, rd, world, FALSE)
    BY <1>1, <2>5, <2>7 DEF Good
  <2> QED
    BY <2>1, <2>2, <2>8 DEF Real, n
<1> QED
  BY <1>2, <1>3

LEMMA RealInitially == Init => Real
<1> SUFFICES ASSUME Init
             PROVE  Real
  OBVIOUS
<1>1. /\ world \in Worlds /\ rd = Reset /\ calm = FALSE
      /\ \E in \in SUBSET world : cards = [c \in Card |-> IF c \in in THEN Idle ELSE Away]
  BY DEF Init
<1>2. rd.pc = "idle" /\ rd.uids = <<>> /\ rd.complete = FALSE
  BY <1>1 DEF Reset
<1>3. About(cards, world)
  BY <1>1 DEF About, Away
<1>4. <<>> \in Seq(Known(world))
  OBVIOUS
<1>5. rd.pc \notin AtLevels /\ rd.pc \notin InRounds
  BY <1>2 DEF AtLevels, InRounds
<1> QED
  BY <1>1, <1>2, <1>3, <1>4, <1>5 DEF Real, Good

LEMMA RealIsFound == Real => FoundAreReal
<1> SUFFICES ASSUME Real
             PROVE  FoundAreReal
  OBVIOUS
<1>1. /\ world \in Worlds /\ rd.uids \in Seq(Known(world)) /\ (rd.complete => rd.serial \in Known(world))
      /\ calm => Once(rd.uids)
  BY DEF Real, Good
<1>2. Identifiers = Ids(rd.uids)
  BY DEF Identifiers, Ids
<1>3. Identifiers \subseteq Known(world)
  BY <1>1, <1>2 DEF Ids
<1>4. Known(world) = {Whole(c) : c \in {d \in world : Kind[d].tech = "A"}}
  BY DEF Known, TypeA
<1>5. calm => Cardinality(Identifiers) = Len(rd.uids)
  BY <1>1, <1>2 DEF Once
<1>6. rd.complete => \E c \in world : Kind[c].tech = "A" /\ rd.serial = Whole(c)
  BY <1>1, <1>4
<1> QED
  BY <1>3, <1>4, <1>5, <1>6 DEF FoundAreReal

LEMMA UnchangedKeepsReal == Bounded /\ Real /\ UNCHANGED vars => (Bounded /\ Real)'
<1> SUFFICES ASSUME Bounded, Real, UNCHANGED vars
             PROVE  (Bounded /\ Real)'
  OBVIOUS
<1>1. rd' = rd /\ cards' = cards /\ world' = world /\ calm' = calm
  BY DEF vars
<1>2. Real'
  BY <1>1 DEF Real
<1> QED
  BY <1>2, UnchangedKeepsBounded

LEMMA NextKeepsReal ==
  ASSUME NoTwins(Worlds), Bounded, Real, Next
  PROVE  (Bounded /\ Real)'
<1>1. Bounded'
  BY RunningKeepsBounded, OthersKeepBounded DEF Next
<1>2. Real'
  BY NextLoopIsReal, PollAIsReal, CardActivationAIsReal, ProtocolActivationAIsReal, PollBIsReal, PollFIsReal,
     StartIsReal, ActivationIsReal, FieldResetIsReal, DisturbanceIsReal DEF Next, Running
<1> QED
  BY <1>1, <1>2

\* Collision resolution records identifiers of cards that are about, no card
\* twice unless something disturbs it, and the serial number is that of a
\* card: whatever is lost and whoever comes and goes, provided that no two
\* identifiers part in the last bit of a level.
THEOREM FoundAreRealCorrect ==
  ASSUME NoTwins(Worlds)
  PROVE  Spec => []FoundAreReal
<1>1. Init => Bounded /\ Real
  BY BoundedInitially, RealInitially
<1>2. Bounded /\ Real /\ [Next]_vars => (Bounded /\ Real)'
  BY UnchangedKeepsReal, NextKeepsReal
<1>3. Bounded /\ Real => FoundAreReal
  BY RealIsFound
<1> QED
  BY <1>1, <1>2, <1>3, PTL DEF Spec

-----------------------------------------------------------------------------
(* Which card an activation has activated.                                 *)

Layers == {"T4A", "P2P"}
PlacesB == {"bb.req", "bb.slot", "bb.attrib"}
Selecting == {"aa.wake", "aa.anticoll", "aa.select"}
Protocol == {"a.rats", "a.deselect", "a.hlta", "a.pps", "a.atr"}

CardsB(w) == {c \in w : Kind[c].tech = "B"}

\* u identifies a card of type A of the only kind found.
Named(w, u, tags) == \E d \in w : TypeA(d) /\ u = Whole(d) /\ tags \cap Layers = {Kind[d].plat} \cap Layers

\* The activation selects a card, or one was selected.
Meant(r) == r.op = "activate" /\ r.n.A > 0 => r.n.A = 1 /\ ~Bails(r, "A")

\* What the application may have activated is known.
Remembers(r, w) ==
  /\ r.n = [A |-> r.n.A, B |-> r.n.B, F |-> r.n.F] /\ r.n.A \in Nat /\ r.n.B \in Nat
  /\ r.n.A = 1 => Len(r.uids) = 1 /\ "A" \in r.tags /\ Named(w, r.uids[1], r.tags)
  /\ r.n.B # 0 => Directly(r) \/ r.pupi \in CardsB(w)

\* What has been found in this poll loop.
Gathers(r, w) ==
  /\ r.pc \in {"loop", "active", "a.detect"} => r.tags = {}
  /\ r.pc \in InRounds \cup {"a.detect"} => r.n.A = 0 /\ r.rate = Lowest
  /\ r.pc \in InRounds => /\ "A" \in r.tags
                          /\ r.uids = <<>> => r.tags \cap Layers = {}
                          /\ Bails(r, "A") => r.uids = <<>>
                          /\ Len(r.uids) = 1 => Named(w, r.uids[1], r.tags)

AimsB(r, w) ==
  /\ r.op # "p3a"
  /\ r.target = IF Directly(r) THEN AnyCard ELSE r.pupi
  /\ ~Directly(r) => r.pupi \in CardsB(w)
  /\ r.pc # "bb.attrib" => r.first # "SUCCESS"
  /\ r.pc = "bb.attrib" /\ ~Directly(r) => r.answered = r.pupi

\* The selection goes after the identifier of d, level by level.
Leads(cs, r, d) ==
  /\ r.pc # "aa.anticoll"
  /\ r.pc = "aa.wake" => r.at = 0
  /\ r.pc = "aa.select" => /\ r.lvl \in DOMAIN Kind[d].uid /\ r.uid = Kind[d].uid[r.lvl]
                           /\ r.at = IF Len(Kind[d].uid) = 1 THEN 0 ELSE PartLen - 1
                           /\ r.lvl = 2 => Below(cs, Kind[d].uid[1])

AimsA(cs, r, w) ==
  /\ r.rate = Lowest
  /\ \/ r.op = "p3a" /\ r.target = AnyCard /\ r.given = <<>>
     \/ /\ r.op = "activate" /\ r.n.A = 1 /\ ~Bails(r, "A")
        /\ r.target = r.uids[1] /\ r.given = r.uids[1]
        /\ \E d \in w : TypeA(d) /\ r.given = Whole(d) /\ Leads(cs, r, d)

\* The only card of type A that is selected is the one that is meant.
Only(cs, d) == \A c \in Near(cs) : cs[c].st = "active" => Whole(c) = Whole(d)

Follows4(cs, r, w) ==
  /\ r.rate = Lowest /\ r.op # "p3a"
  /\ \E d \in w :
       /\ TypeA(d) /\ r.target = Whole(d)
       /\ r.pc # "a.atr" => Kind[d].plat = "T4A" /\ "P2P" \notin r.tags
       /\ r.pc \in {"a.rats", "a.atr"} => Only(cs, d)
       /\ r.pc \in {"a.deselect", "a.hlta"} => r.first # "SUCCESS"
       /\ r.pc = "a.pps" => r.cfg.rate # Lowest

Aims(cs, r, w) ==
  /\ Remembers(r, w) /\ Gathers(r, w)
  /\ r.pc \in Polling => r.target = None
  /\ r.pc \in PlacesB => AimsB(r, w)
  /\ r.pc \in Selecting => AimsA(cs, r, w)
  /\ r.pc \in Protocol /\ Meant(r) => Follows4(cs, r, w)

Aimed == Aims(cards, rd, world)

\* c is the card that was meant, and is ready.
Meets(r, c) ==
  \/ r.target = AnyCard /\ r.op # "p3a" /\ r.answered = c
  \/ r.target = AnyCard /\ r.op = "p3a" /\ r.complete /\ r.serial = Whole(c)
  \/ r.target # AnyCard /\ r.target \in {c} \cup (IF Kind[c].tech = "A" THEN {Whole(c)} ELSE {})

Serves(cs, r, c) ==
  \/ Kind[c].tech = "A" /\ cs[c].st = "active" /\ (Kind[c].plat = "T2T" \/ r.op = "p3a")
  \/ cs[c].st = "layer4" /\ cs[c].rate = r.rate

Hits(cs, r) == \E c \in Card : Meets(r, c) /\ Serves(cs, r, c)

\* The aim is kept, and when the call returns success it was hit.
Fine(cs, r, w) ==
  /\ IsReader(r) /\ Aims(cs, r, w)
  /\ r.pc = "idle" /\ r.ret = "SUCCESS" /\ r.target # None /\ Meant(r) => Hits(cs, r)

\* In a poll loop nothing is aimed at.
Free(r, w) == IsReader(r) /\ r.op = "start" /\ r.target = None /\ Remembers(r, w)

\* s and r agree in what is found and aimed at.
Agrees(s, r) ==
  /\ IsReader(s) /\ s.op = r.op /\ s.target = r.target /\ s.cfg = r.cfg /\ s.tags = r.tags
  /\ s.n = r.n /\ s.uids = r.uids /\ s.pupi = r.pupi

LEMMA AgreementRemembers ==
  ASSUME NEW r, NEW s, Agrees(s, r), NEW w
  PROVE  /\ Remembers(r, w) => Remembers(s, w)
         /\ Free(r, w) => Free(s, w)
         /\ Meant(s) <=> Meant(r)
         /\ Directly(s) <=> Directly(r)
         /\ Bails(s, "A") <=> Bails(r, "A")
         /\ Bails(s, "B") <=> Bails(r, "B")
<1>1. /\ s.op = r.op /\ s.target = r.target /\ s.cfg = r.cfg /\ s.tags = r.tags
      /\ s.n = r.n /\ s.uids = r.uids /\ s.pupi = r.pupi /\ IsReader(s)
  BY DEF Agrees
<1>2. (Bails(s, "A") <=> Bails(r, "A")) /\ (Bails(s, "B") <=> Bails(r, "B")) /\ (Directly(s) <=> Directly(r))
  BY <1>1 DEF Bails, Directly
<1>3. Meant(s) <=> Meant(r)
  BY <1>1, <1>2 DEF Meant
<1>4. Remembers(r, w) => Remembers(s, w)
  BY <1>1, <1>2 DEF Remembers
<1>5. Free(r, w) => Free(s, w)
  BY <1>1, <1>4 DEF Free
<1> QED
  BY <1>2, <1>3, <1>4, <1>5

LEMMA ReturnAgrees ==
  ASSUME NEW r, IsReader(r), NEW status
  PROVE  LET s == Return(r, status) IN
         /\ Agrees(s, r) /\ s.pc = "idle" /\ s.ret = status
         /\ s.answered = r.answered /\ s.rate = r.rate /\ s.serial = r.serial /\ s.complete = r.complete
<1> DEFINE s == Return(r, status)
           t == [r EXCEPT !.pc = "idle", !.ret = status, !.loop = 0, !.tries = 0, !.round = 0, !.lvl = 0]
           v == [t EXCEPT !.uid = <<>>, !.whole = <<>>, !.more = FALSE, !.given = <<>>, !.at = 0]
<1>1. IsReader(t)
  BY DEF IsReader
<1>2. s = [v EXCEPT !.slot = 0, !.first = "SUCCESS", !.listens = FALSE, !.sent = 0]
  BY DEF Return
<1>3. /\ Agrees(t, r) /\ t.pc = "idle" /\ t.ret = status
      /\ t.answered = r.answered /\ t.rate = r.rate /\ t.serial = r.serial /\ t.complete = r.complete
  BY <1>1 DEF IsReader, Fields, Agrees
<1> HIDE DEF t
<1>4. IsReader(v)
  BY <1>1 DEF IsReader
<1>5. /\ Agrees(v, r) /\ v.pc = "idle" /\ v.ret = status
      /\ v.answered = r.answered /\ v.rate = r.rate /\ v.serial = r.serial /\ v.complete = r.complete
  BY <1>1, <1>3, <1>4 DEF IsReader, Fields, Agrees
<1> HIDE DEF v, s
<1>6. IsReader(s)
  BY <1>2, <1>4 DEF IsReader
<1>7. /\ Agrees(s, r) /\ s.pc = "idle" /\ s.ret = status
      /\ s.answered = r.answered /\ s.rate = r.rate /\ s.serial = r.serial /\ s.complete = r.complete
  BY <1>2, <1>4, <1>5, <1>6 DEF IsReader, Fields, Agrees
<1> QED
  BY <1>7 DEF s

\* A call returns with success if it has hit.
LEMMA ReturnIsFine ==
  ASSUME NEW r, IsReader(r), NEW w, Remembers(r, w), NEW cs, NEW status,
         status = "SUCCESS" /\ r.target # None /\ Meant(r) => Hits(cs, r)
  PROVE  Fine(cs, Return(r, status), w)
<1> DEFINE s == Return(r, status)
<1>1. /\ Agrees(s, r) /\ s.pc = "idle" /\ s.ret = status
      /\ s.answered = r.answered /\ s.rate = r.rate /\ s.serial = r.serial /\ s.complete = r.complete
  BY ReturnAgrees
<1> HIDE DEF s
<1>2. Remembers(s, w) /\ (Meant(s) <=> Meant(r))
  BY <1>1, AgreementRemembers
<1>3. Hits(cs, r) => Hits(cs, s)
  BY <1>1 DEF Hits, Meets, Serves, Agrees
<1>4. s.target = r.target
  BY <1>1 DEF Agrees
<1>5. Aims(cs, s, w)
  BY <1>1, <1>2 DEF Aims, Gathers, InRounds, Polling, PlacesB, Selecting, Protocol
<1> QED
  BY <1>1, <1>2, <1>3, <1>4, <1>5 DEF Agrees, Fine, s

LEMMA FreeReturns ==
  ASSUME NEW r, NEW w, Free(r, w), NEW cs, NEW status
  PROVE  Fine(cs, Return(r, status), w)
  BY ReturnIsFine DEF Free

\* Waiting in a poll loop, beyond type A.
LEMMA FreeWaits ==
  ASSUME NEW r, NEW w, Free(r, w), NEW cs,
         r.pc \in Polling \ (InRounds \cup {"loop", "active", "a.detect"})
  PROVE  Fine(cs, r, w)
  BY DEF Free, Fine, Aims, Gathers, InRounds, Polling, PlacesB, Selecting, Protocol

-----------------------------------------------------------------------------
(* The end of a poll loop, and type F. *)

LEMMA EndOfLoopIsFine ==
  ASSUME NEW r, NEW w, Free(r, w), NEW cs
  PROVE  Fine(cs, AfterLoops(r), w) /\ Fine(cs, EndOfLoop(r), w)
<1> DEFINE s == [r EXCEPT !.pc = "listen"]
           t == [r EXCEPT !.pc = "loop", !.loop = @ - 1]
<1>1. Agrees(s, r) /\ s.pc = "listen" /\ Agrees(t, r) /\ t.pc = "loop"
  BY ZenonT(30) DEF Free, IsReader, Fields, Agrees
<1>2. AfterLoops(r) \in {s, Return(r, "SUCCESS")}
  BY DEF AfterLoops
<1>3. (r.tags = {} /\ EndOfLoop(r) = t) \/ EndOfLoop(r) \in {Return(r, "SUCCESS"), AfterLoops(r)}
  BY DEF EndOfLoop
<1> HIDE DEF s, t
<1>4. Free(s, w) /\ Free(t, w)
  BY <1>1, AgreementRemembers
<1>5. Fine(cs, s, w)
  BY <1>1, <1>4, FreeWaits DEF Polling, InRounds
<1>6. r.tags = {} => Fine(cs, t, w)
  <2> SUFFICES ASSUME r.tags = {}
               PROVE  Fine(cs, t, w)
    OBVIOUS
  <2>1. t.tags = {}
    BY <1>1 DEF Agrees
  <2> QED
    BY <1>1, <1>4, <2>1 DEF Free, Fine, Aims, Gathers, InRounds, Polling, PlacesB, Selecting, Protocol
<1> QED
  BY <1>2, <1>3, <1>5, <1>6, FreeReturns

\* The counters of the other technologies.
LEMMA CountsRemember ==
  ASSUME NEW r, NEW w, Remembers(r, w), NEW k
  PROVE  /\ [r.n EXCEPT !.F = k] = [A |-> r.n.A, B |-> r.n.B, F |-> k]
         /\ [r.n EXCEPT !.B = k] = [A |-> r.n.A, B |-> k, F |-> r.n.F]
         /\ [r.n EXCEPT !.A = k] = [A |-> k, B |-> r.n.B, F |-> r.n.F]
  BY DEF Remembers

LEMMA PhaseFIsFine ==
  ASSUME NEW r, NEW w, Free(r, w), NEW cs
  PROVE  Fine(cs, PhaseF(r), w)
<1> DEFINE n == [A |-> r.n.A, B |-> r.n.B, F |-> 0]
           s == [r EXCEPT !.pc = "f.reqc", !.tries = PollLimit, !.n = n, !.rate = Lowest]
<1>1. [r EXCEPT !.pc = "f.reqc", !.tries = PollLimit, !.n.F = 0, !.rate = Lowest] = s
  <2>1. [r.n EXCEPT !.F = 0] = n
    BY CountsRemember DEF Free
  <2> HIDE DEF n
  <2> QED
    BY <2>1 DEF Free, IsReader, Fields
<1>2. PhaseF(r) \in {s, Return(r, "SUCCESS"), EndOfLoop(r)}
  BY <1>1 DEF PhaseF
<1> HIDE DEF n
<1>3. /\ IsReader(s) /\ s.op = r.op /\ s.target = r.target /\ s.cfg = r.cfg /\ s.tags = r.tags
      /\ s.n = n /\ s.uids = r.uids /\ s.pupi = r.pupi /\ s.pc = "f.reqc"
  BY ZenonT(30) DEF Free, IsReader, Fields
<1> HIDE DEF s
<1>4. Directly(s) <=> Directly(r)
  BY <1>3 DEF Directly, Bails
<1>5. Free(s, w)
  BY <1>3, <1>4 DEF Free, Remembers, n
<1>6. Fine(cs, s, w)
  BY <1>3, <1>5, FreeWaits DEF Polling, InRounds
<1> QED
  BY <1>2, <1>6, FreeReturns, EndOfLoopIsFine

\* Tags of other technologies do not disturb what is remembered.
LEMMA TaggingRemembers ==
  ASSUME NEW r, NEW s, NEW w, Remembers(r, w), s.cfg = r.cfg, s.uids = r.uids,
         s.n = [A |-> r.n.A, B |-> s.n.B, F |-> s.n.F], s.n.B \in Nat,
         s.n.B # 0 => Directly(s) \/ s.pupi \in CardsB(w),
         "A" \in r.tags => "A" \in s.tags, s.tags \cap Layers = r.tags \cap Layers
  PROVE  Remembers(s, w)
<1>1. s.n.A = r.n.A /\ s.n = [A |-> s.n.A, B |-> s.n.B, F |-> s.n.F]
  OBVIOUS
<1>2. Named(w, r.uids[1], r.tags) => Named(w, s.uids[1], s.tags)
  BY DEF Named
<1> QED
  BY <1>1, <1>2 DEF Remembers

LEMMA PollFIsFine ==
  ASSUME NEW r, NEW w, Free(r, w), NEW cs, NEW x
  PROVE  /\ r.pc = "f.reqc" => Fine(cs, DetectF(r, x), w)
         /\ Fine(cs, AtrF(r, x), w)
<1> DEFINE n == [A |-> r.n.A, B |-> r.n.B, F |-> 1]
           more == IF Kind[x.data].plat = "P2P" THEN {"F P2P"} ELSE {"T3T"}
           tags == r.tags \cup {"F"} \cup more
           act == [r.act EXCEPT !.F = @ + 1]
           found == [r EXCEPT !.act = act, !.n = n, !.idm = x.data, !.tags = tags]
           atr == [found EXCEPT !.pc = "f.atr"]
           again == [r EXCEPT !.tries = @ - 1]
           gone == [r EXCEPT !.act = act]
           lost == [r EXCEPT !.act.F = @ - 1]
<1>1. [r EXCEPT !.act.F = @ + 1, !.n.F = 1, !.idm = x.data, !.tags = @ \cup {"F"} \cup more] = found
  <2>1. [r.n EXCEPT !.F = 1] = n
    BY CountsRemember DEF Free
  <2>2. [r EXCEPT !.act.F = @ + 1, !.n.F = 1, !.idm = x.data, !.tags = @ \cup {"F"} \cup more]
          = [r EXCEPT !.act = act, !.n = [r.n EXCEPT !.F = 1], !.idm = x.data, !.tags = tags]
    <3> HIDE DEF more
    <3> QED
      BY DEF Free, IsReader, Fields
  <2> HIDE DEF n, act, tags
  <2> QED
    BY <2>1, <2>2
<1>2. [r EXCEPT !.act.F = @ + 1] = gone
  BY DEF Free, IsReader, Fields
<1>3. DetectF(r, x) \in {atr, again, EndOfLoop(found), EndOfLoop(gone)}
  <2> DEFINE peer == Ok(x) /\ Kind[x.data].plat = "P2P"
             f == [r EXCEPT !.act.F = @ + 1, !.n.F = 1, !.idm = x.data,
                            !.tags = @ \cup {"F"} \cup (IF peer THEN {"F P2P"} ELSE {"T3T"})]
  <2>1. Ok(x) => f = found
    BY <1>1
  <2> HIDE DEF found, gone
  <2>2. CASE Ok(x) /\ peer
    <3>1. DetectF(r, x) = [f EXCEPT !.pc = "f.atr"]
      BY <2>2 DEF DetectF
    <3> QED
      BY <2>1, <2>2, <3>1
  <2>3. CASE Ok(x) /\ ~peer
    <3>1. DetectF(r, x) = EndOfLoop(f)
      BY <2>3 DEF DetectF
    <3> QED
      BY <2>1, <2>3, <3>1
  <2>4. CASE ~Ok(x)
    <3>1. DetectF(r, x) \in {again, EndOfLoop([r EXCEPT !.act.F = @ + 1])}
      BY <2>4 DEF DetectF
    <3> QED
      BY <1>2, <3>1
  <2> QED
    BY <2>2, <2>3, <2>4
<1>4. AtrF(r, x) \in {EndOfLoop(r), Return(lost, x.status)}
  BY DEF AtrF
<1>5. tags \cap Layers = r.tags \cap Layers /\ ("A" \in r.tags => "A" \in tags)
  BY DEF Layers
<1> HIDE DEF n, more, tags, act
<1>6. /\ IsReader(found) /\ found.op = r.op /\ found.target = r.target /\ found.cfg = r.cfg /\ found.tags = tags
      /\ found.n = n /\ found.uids = r.uids /\ found.pupi = r.pupi
  BY ZenonT(30) DEF Free, IsReader, Fields
<1>7. Agrees(again, r) /\ again.pc = r.pc /\ Agrees(gone, r) /\ Agrees(lost, r)
  BY ZenonT(30) DEF Free, IsReader, Fields, Agrees
<1> HIDE DEF found, again, gone, lost
<1>8. Free(found, w)
  <2>1. Directly(found) <=> Directly(r)
    BY <1>6 DEF Directly, Bails
  <2>2. n = [A |-> r.n.A, B |-> r.n.B, F |-> 1] /\ n.B = r.n.B /\ n.F = 1
    BY DEF n
  <2>3. Remembers(r, w)
    BY DEF Free
  <2>4. n.B \in Nat /\ (n.B # 0 => Directly(found) \/ found.pupi \in CardsB(w))
    BY <1>6, <2>1, <2>2, <2>3 DEF Remembers
  <2>5. Remembers(found, w)
    BY <1>5, <1>6, <2>2, <2>3, <2>4, TaggingRemembers
  <2> QED
    BY <1>6, <2>5 DEF Free
<1>9. Agrees(atr, found) /\ atr.pc = "f.atr"
  BY <1>6 DEF IsReader, Fields, Agrees
<1> HIDE DEF atr
<1>10. Free(atr, w) /\ Free(again, w) /\ Free(gone, w) /\ Free(lost, w)
  BY <1>7, <1>8, <1>9, AgreementRemembers
<1>11. Fine(cs, atr, w) /\ (r.pc = "f.reqc" => Fine(cs, again, w))
  BY <1>7, <1>9, <1>10, FreeWaits DEF Polling, InRounds
<1>12. Fine(cs, EndOfLoop(found), w) /\ Fine(cs, EndOfLoop(gone), w) /\ Fine(cs, EndOfLoop(r), w)
  BY <1>8, <1>10, EndOfLoopIsFine
<1>13. Fine(cs, Return(lost, x.status), w)
  BY <1>10, FreeReturns
<1> QED
  BY <1>3, <1>4, <1>11, <1>12, <1>13

-----------------------------------------------------------------------------
(* Type B. *)

LEMMA ActivateBIsFine ==
  ASSUME NEW r, IsReader(r), NEW w, Remembers(r, w), r.op # "p3a", Directly(r) \/ r.pupi \in CardsB(w), NEW cs
  PROVE  Fine(cs, ActivateB(r), w)
<1> DEFINE target == IF Directly(r) THEN AnyCard ELSE r.pupi
           s == [r EXCEPT !.pc = "bb.req", !.slot = 2, !.first = "IO_TIMEOUT", !.rate = Lowest, !.target = target]
<1>1. ActivateB(r) = s
  BY DEF ActivateB
<1> HIDE DEF target
<1>2. /\ IsReader(s) /\ s.op = r.op /\ s.target = target /\ s.cfg = r.cfg /\ s.tags = r.tags
      /\ s.n = r.n /\ s.uids = r.uids /\ s.pupi = r.pupi /\ s.pc = "bb.req" /\ s.first = "IO_TIMEOUT"
  BY ZenonT(30) DEF IsReader, Fields
<1> HIDE DEF s
<1>3. Directly(s) <=> Directly(r)
  BY <1>2 DEF Directly, Bails
<1>4. Remembers(s, w)
  BY <1>2, <1>3 DEF Remembers
<1>5. AimsB(s, w)
  BY <1>2, <1>3 DEF AimsB, target
<1> QED
  BY <1>1, <1>2, <1>4, <1>5 DEF Fine, Aims, Gathers, InRounds, Polling, PlacesB, Selecting, Protocol

\* The end of an activation: with success it has hit.
LEMMA ActivatedBIsFine ==
  ASSUME NEW r, IsReader(r), NEW w, Remembers(r, w), NEW cs, NEW status,
         status = "SUCCESS" => Hits(cs, r)
  PROVE  Fine(cs, ActivatedB(r, status), w)
<1> DEFINE n == [A |-> r.n.A, B |-> r.n.B + 1, F |-> r.n.F]
           tags == r.tags \cup {"B"}
           act == [r.act EXCEPT !.B = @ + 1]
           s == [r EXCEPT !.tags = tags, !.n = n, !.act = act]
           t == [r EXCEPT !.target = None]
<1>1. [r EXCEPT !.tags = @ \cup {"B"}, !.n.B = @ + 1, !.act.B = @ + 1] = s
  <2>1. [r.n EXCEPT !.B = r.n.B + 1] = n
    BY CountsRemember
  <2>2. [r EXCEPT !.tags = @ \cup {"B"}, !.n.B = @ + 1, !.act.B = @ + 1]
          = [r EXCEPT !.tags = tags, !.n = [r.n EXCEPT !.B = r.n.B + 1], !.act = act]
    BY DEF IsReader, Fields
  <2> HIDE DEF n, act, tags
  <2> QED
    BY <2>1, <2>2
<1>2. \/ ActivatedB(r, status) = Return(r, status)
      \/ Directly(r) /\ ActivatedB(r, status) = Return(s, status)
      \/ r.op = "start" /\ ActivatedB(r, status) = PhaseF(t)
  BY <1>1 DEF ActivatedB
<1>3. tags \cap Layers = r.tags \cap Layers /\ ("A" \in r.tags => "A" \in tags)
  BY DEF Layers
<1>4. n = [A |-> r.n.A, B |-> n.B, F |-> n.F] /\ n.B \in Nat
  BY DEF Remembers
<1> HIDE DEF n, tags, act
<1>5. /\ IsReader(s) /\ s.op = r.op /\ s.target = r.target /\ s.cfg = r.cfg /\ s.tags = tags
      /\ s.n = n /\ s.uids = r.uids /\ s.answered = r.answered /\ s.rate = r.rate
      /\ s.serial = r.serial /\ s.complete = r.complete
  BY ZenonT(30) DEF IsReader, Fields
<1>6. /\ IsReader(t) /\ t.op = r.op /\ t.target = None /\ t.cfg = r.cfg /\ t.tags = r.tags
      /\ t.n = r.n /\ t.uids = r.uids /\ t.pupi = r.pupi
  BY DEF IsReader, Fields
<1> HIDE DEF s, t
<1>7. CASE ActivatedB(r, status) = Return(r, status)
  BY <1>7, ReturnIsFine
<1>8. CASE Directly(r) /\ ActivatedB(r, status) = Return(s, status)
  <2>1. Directly(s)
    BY <1>5, <1>8 DEF Directly, Bails
  <2>2. Remembers(s, w)
    BY <1>3, <1>4, <1>5, <2>1, TaggingRemembers
  <2>3. Hits(cs, r) => Hits(cs, s)
    BY <1>5 DEF Hits, Meets, Serves
  <2> QED
    BY <1>5, <1>8, <2>2, <2>3, ReturnIsFine
<1>9. CASE r.op = "start" /\ ActivatedB(r, status) = PhaseF(t)
  <2>1. Directly(t) <=> Directly(r)
    BY <1>6 DEF Directly, Bails
  <2>2. Remembers(t, w)
    BY <1>6, <2>1 DEF Remembers
  <2>3. Free(t, w)
    BY <1>6, <1>9, <2>2 DEF Free
  <2> QED
    BY <1>9, <2>3, PhaseFIsFine
<1> QED
  BY <1>2, <1>7, <1>8, <1>9

\* What an answer of type B says.
LEMMA AnswersOfB ==
  ASSUME Bounded, Real, NEW cmd, cmd.tech = "B", cmd.name \in {"REQB", "WUPB", "SLOT", "ATTRIB"}, NEW slots,
         NEW x \in Exchanges(cmd, slots), Ok(x)
  PROVE  /\ x.data \in CardsB(world)
         /\ cmd.name = "ATTRIB" => /\ x.data = cmd.arg.pupi /\ x.data \in Card
                                   /\ x.cards[x.data].st = "layer4" /\ x.cards[x.data].rate = cmd.arg.rate
<1>1. PICK d : /\ x.cards = After(cards, cmd, d)
               /\ x.status = Received(Heard(cards, cmd, d), cmd).status
               /\ x.data = Received(Heard(cards, cmd, d), cmd).data
  BY ExchangeIs DEF Ok
<1>2. PICK c \in Card : /\ Answers(c, cards[c], cmd, d[c])
                        /\ x.data = Answer(c, cards[c], cmd)
  BY <1>1, SomebodyAnswered DEF Ok
<1>3. Heeds(c, cards[c], cmd) /\ cards[c].st # "out" /\ Kind[c].tech = "B"
  BY <1>2 DEF Answers, Heeds
<1>4. x.data = c
  BY <1>2 DEF Answer
<1>5. c \in world
  BY <1>3 DEF Real, Good, About
<1>6. ASSUME cmd.name = "ATTRIB"
      PROVE  c = cmd.arg.pupi /\ x.cards[c].st = "layer4" /\ x.cards[c].rate = cmd.arg.rate
  <2>1. c = cmd.arg.pupi
    BY <1>3, <1>6 DEF Heeds
  <2>2. x.cards[c] = Heeding(c, cards[c], cmd, d[c])
    BY <1>1, <1>3, AfterOf
  <2>3. Heeding(c, cards[c], cmd, d[c]) = [Away EXCEPT !.st = "layer4", !.rate = cmd.arg.rate]
    BY <1>6 DEF Heeding
  <2> QED
    BY <2>1, <2>2, <2>3 DEF Away
<1> QED
  BY <1>3, <1>4, <1>5, <1>6 DEF CardsB

\* Without another card of type B nobody else answers.
LEMMA TakeSlotIsFine ==
  ASSUME OneOfTypeB(Worlds), NEW w \in Worlds, NEW r, IsReader(r), Remembers(r, w), AimsB(r, w), r.pc # "bb.attrib",
         NEW x, Ok(x) => x.data \in CardsB(w), NEW cs
  PROVE  Fine(cs, TakeSlot(r, x), w)
<1> DEFINE first == IF r.first = "IO_TIMEOUT" THEN x.status ELSE r.first
           hit == Ok(x) /\ (Directly(r) \/ x.data = r.pupi)
           answered == IF Ok(x) THEN x.data ELSE r.answered
           s == [r EXCEPT !.answered = answered]
           t == [s EXCEPT !.pc = "bb.attrib", !.first = first]
           u == [s EXCEPT !.pc = "bb.slot", !.first = first]
<1>1. CheckATQB(r, x) = s
  BY DEF CheckATQB, IsReader, Fields
<1>2. \/ hit /\ TakeSlot(r, x) = t
      \/ ~hit /\ TakeSlot(r, x) \in {ActivatedB(s, first), u}
  BY <1>1 DEF TakeSlot
<1>3. ~hit => first # "SUCCESS"
  <2>1. Ok(x) /\ ~Directly(r) => x.data = r.pupi
    BY DEF OneOfTypeB, AimsB, CardsB
  <2>2. r.first # "SUCCESS"
    BY DEF AimsB
  <2> QED
    BY <2>1, <2>2 DEF Ok
<1> HIDE DEF first, answered
<1>4. Agrees(s, r) /\ s.answered = answered /\ s.pc = r.pc
  BY DEF IsReader, Fields, Agrees
<1> HIDE DEF s
<1>5. /\ Agrees(t, s) /\ t.pc = "bb.attrib" /\ t.answered = answered
      /\ Agrees(u, s) /\ u.pc = "bb.slot" /\ u.first = first
  BY <1>4, ZenonT(30) DEF IsReader, Fields, Agrees
<1> HIDE DEF t, u
<1>6. Agrees(t, r) /\ Agrees(u, r)
  BY <1>4, <1>5 DEF Agrees
<1>7. Remembers(s, w) /\ Remembers(t, w) /\ Remembers(u, w) /\ (Directly(t) <=> Directly(r)) /\ (Directly(u) <=> Directly(r))
  BY <1>4, <1>6, AgreementRemembers
<1>8. CASE hit /\ TakeSlot(r, x) = t
  <2>1. AimsB(t, w)
    BY <1>5, <1>6, <1>7, <1>8 DEF AimsB, Agrees, answered
  <2> QED
    BY <1>5, <1>7, <1>8, <2>1 DEF Agrees, Fine, Aims, Gathers, InRounds, Polling, PlacesB, Selecting, Protocol
<1>9. CASE ~hit /\ TakeSlot(r, x) = ActivatedB(s, first)
  BY <1>3, <1>4, <1>7, <1>9, ActivatedBIsFine DEF Agrees
<1>10. CASE ~hit /\ TakeSlot(r, x) = u
  <2>1. AimsB(u, w)
    BY <1>3, <1>5, <1>6, <1>7, <1>10 DEF AimsB, Agrees
  <2> QED
    BY <1>5, <1>7, <1>10, <2>1 DEF Agrees, Fine, Aims, Gathers, InRounds, Polling, PlacesB, Selecting, Protocol
<1> QED
  BY <1>2, <1>8, <1>9, <1>10

LEMMA AttribIsFine ==
  ASSUME NEW r, IsReader(r), NEW w, Remembers(r, w), AimsB(r, w), r.pc = "bb.attrib", NEW x, NEW cs,
         Ok(x) => /\ r.answered \in Card
                  /\ cs[r.answered].st = "layer4" /\ cs[r.answered].rate = DecideBaudRate(r.answered, r.cfg.rate)
  PROVE  Fine(cs, Attrib(r, x), w)
<1> DEFINE rate == DecideBaudRate(r.answered, r.cfg.rate)
           s == [r EXCEPT !.rate = rate]
           t == [r EXCEPT !.answered = None]
<1>1. \/ Ok(x) /\ Attrib(r, x) = ActivatedB(s, "SUCCESS")
      \/ ~Ok(x) /\ Attrib(r, x) = ActivatedB(t, x.status)
  BY DEF Attrib
<1>2. Ok(x) => cs[r.answered].st = "layer4" /\ cs[r.answered].rate = rate
  OBVIOUS
<1> HIDE DEF rate
<1>3. Agrees(s, r) /\ s.answered = r.answered /\ s.rate = rate /\ Agrees(t, r)
  BY DEF IsReader, Fields, Agrees
<1> HIDE DEF s, t
<1>4. Remembers(s, w) /\ Remembers(t, w)
  BY <1>3, AgreementRemembers
<1>5. Ok(x) => Hits(cs, s)
  <2> SUFFICES ASSUME Ok(x)
               PROVE  Hits(cs, s)
    OBVIOUS
  <2>1. Serves(cs, s, r.answered)
    BY <1>2, <1>3 DEF Serves
  <2>2. Meets(s, r.answered)
    BY <1>3 DEF Meets, AimsB, Agrees
  <2> QED
    BY <2>1, <2>2 DEF Hits
<1>6. ~Ok(x) => x.status # "SUCCESS"
  BY DEF Ok
<1> QED
  BY <1>1, <1>3, <1>4, <1>5, <1>6, ActivatedBIsFine DEF Agrees

LEMMA DetectBIsFine ==
  ASSUME NEW r, NEW w, Free(r, w), r.pc = "b.req", NEW x, Ok(x) => x.data \in CardsB(w), NEW cs
  PROVE  Fine(cs, DetectB(r, x), w)
<1> DEFINE answered == IF Ok(x) THEN x.data ELSE r.answered
           s == [r EXCEPT !.answered = answered]
           n == [A |-> s.n.A, B |-> 1, F |-> s.n.F]
           tags == s.tags \cup {"B"}
           found == [s EXCEPT !.n = n, !.pupi = x.data, !.tags = tags]
           again == [s EXCEPT !.tries = @ - 1]
<1>1. CheckATQB(r, x) = s
  BY DEF CheckATQB, Free, IsReader, Fields
<1> HIDE DEF answered
<1>2. Agrees(s, r) /\ s.pc = "b.req"
  BY DEF Free, IsReader, Fields, Agrees
<1> HIDE DEF s
<1>3. Free(s, w)
  BY <1>2, AgreementRemembers
<1>4. [s EXCEPT !.n.B = 1, !.pupi = x.data, !.tags = @ \cup {"B"}] = found
  <2>1. [s.n EXCEPT !.B = 1] = n
    BY <1>3, CountsRemember DEF Free
  <2>2. [s EXCEPT !.n.B = 1, !.pupi = x.data, !.tags = @ \cup {"B"}]
          = [s EXCEPT !.n = [s.n EXCEPT !.B = 1], !.pupi = x.data, !.tags = tags]
    BY <1>3 DEF Free, IsReader, Fields
  <2> HIDE DEF n, tags
  <2> QED
    BY <2>1, <2>2
<1>5. \/ DetectB(r, x) \in {again, PhaseF(s)}
      \/ Ok(x) /\ DetectB(r, x) = DetectedB(found)
  <2> HIDE DEF found
  <2> QED
    BY <1>1, <1>4 DEF DetectB
<1>6. tags \cap Layers = s.tags \cap Layers /\ ("A" \in s.tags => "A" \in tags)
  BY DEF Layers
<1>7. n = [A |-> s.n.A, B |-> n.B, F |-> n.F] /\ n.B = 1
  OBVIOUS
<1> HIDE DEF n, tags
<1>8. /\ IsReader(found) /\ found.op = s.op /\ found.target = s.target /\ found.cfg = s.cfg /\ found.tags = tags
      /\ found.n = n /\ found.uids = s.uids /\ found.pupi = x.data
      /\ Agrees(again, s) /\ again.pc = "b.req"
  BY <1>2, <1>3, ZenonT(30) DEF Free, IsReader, Fields, Agrees
<1> HIDE DEF found, again
<1>9. Ok(x) => Fine(cs, DetectedB(found), w)
  <2> SUFFICES ASSUME Ok(x)
               PROVE  Fine(cs, DetectedB(found), w)
    OBVIOUS
  <2>1. found.pupi \in CardsB(w)
    BY <1>8
  <2>2. Remembers(found, w)
    BY <1>3, <1>6, <1>7, <1>8, <2>1, TaggingRemembers DEF Free
  <2>3. Free(found, w) /\ found.op # "p3a"
    BY <1>3, <1>8, <2>2 DEF Free
  <2>4. DetectedB(found) \in {Return(found, "SUCCESS"), ActivateB(found), PhaseF(found)}
    BY DEF DetectedB
  <2> QED
    BY <2>1, <2>2, <2>3, <2>4, FreeReturns, ActivateBIsFine, PhaseFIsFine DEF Free
<1>10. Fine(cs, again, w)
  BY <1>3, <1>8, AgreementRemembers, FreeWaits DEF Polling, InRounds
<1> QED
  BY <1>3, <1>5, <1>9, <1>10, PhaseFIsFine

LEMMA PhaseBIsFine ==
  ASSUME NEW r, NEW w, Free(r, w), NEW cs
  PROVE  Fine(cs, PhaseB(r), w)
<1> DEFINE n == [A |-> r.n.A, B |-> 0, F |-> r.n.F]
           tags == r.tags \ {"B"}
           s == [r EXCEPT !.pc = "b.req", !.tries = PollLimit, !.n = n, !.tags = tags, !.rate = Lowest]
<1>1. [r EXCEPT !.pc = "b.req", !.tries = PollLimit, !.n.B = 0, !.tags = @ \ {"B"}, !.rate = Lowest] = s
  <2>1. [r.n EXCEPT !.B = 0] = n
    BY CountsRemember DEF Free
  <2>2. [r EXCEPT !.pc = "b.req", !.tries = PollLimit, !.n.B = 0, !.tags = @ \ {"B"}, !.rate = Lowest]
          = [r EXCEPT !.pc = "b.req", !.tries = PollLimit, !.n = [r.n EXCEPT !.B = 0], !.tags = tags, !.rate = Lowest]
    BY DEF Free, IsReader, Fields
  <2> HIDE DEF n, tags
  <2> QED
    BY <2>1, <2>2
<1>2. \/ PhaseB(r) \in {PhaseF(r), Return(r, "SUCCESS"), s}
      \/ Directly(r) /\ PhaseB(r) = ActivateB(r)
  BY <1>1 DEF PhaseB
<1>3. tags \cap Layers = r.tags \cap Layers /\ ("A" \in r.tags => "A" \in tags)
  BY DEF Layers
<1>4. n = [A |-> r.n.A, B |-> n.B, F |-> n.F] /\ n.B = 0
  OBVIOUS
<1> HIDE DEF n, tags
<1>5. /\ IsReader(s) /\ s.op = r.op /\ s.target = r.target /\ s.cfg = r.cfg /\ s.tags = tags
      /\ s.n = n /\ s.uids = r.uids /\ s.pc = "b.req"
  BY ZenonT(30) DEF Free, IsReader, Fields
<1> HIDE DEF s
<1>6. Remembers(s, w)
  BY <1>3, <1>4, <1>5, TaggingRemembers DEF Free
<1>7. Fine(cs, s, w)
  BY <1>5, <1>6, FreeWaits DEF Free, Polling, InRounds
<1>8. Directly(r) => Fine(cs, ActivateB(r), w)
  BY ActivateBIsFine DEF Free
<1> QED
  BY <1>2, <1>7, <1>8, FreeReturns, PhaseFIsFine

-----------------------------------------------------------------------------
(* Type A: the activation of a tag.                                        *)

LEMMA AgreementHits ==
  ASSUME NEW r, NEW s, Agrees(s, r), s.answered = r.answered, s.rate = r.rate, s.serial = r.serial,
         s.complete = r.complete, NEW cs, Hits(cs, r)
  PROVE  Hits(cs, s)
  BY DEF Agrees, Hits, Meets, Serves

LEMMA DoneAIsFine ==
  ASSUME NEW r, IsReader(r), NEW w, Remembers(r, w), NEW cs, NEW status,
         status = "SUCCESS" /\ Meant(r) => Hits(cs, r)
  PROVE  Fine(cs, DoneA(r, status), w)
<1> DEFINE s == [r EXCEPT !.act.A = @ + 1]
<1>1. DoneA(r, status) = Return(s, status)
  BY DEF DoneA, ActivatedA
<1>2. /\ Agrees(s, r) /\ s.answered = r.answered /\ s.rate = r.rate /\ s.serial = r.serial
      /\ s.complete = r.complete
  BY DEF IsReader, Fields, Agrees
<1> HIDE DEF s
<1>3. IsReader(s) /\ Remembers(s, w) /\ (Meant(s) <=> Meant(r))
  BY <1>2, AgreementRemembers DEF Agrees
<1>4. Hits(cs, r) => Hits(cs, s)
  BY <1>2, AgreementHits
<1> QED
  BY <1>1, <1>3, <1>4, ReturnIsFine

\* The selected card is the one that is meant.
Pointed(cs, r, w) ==
  /\ r.rate = Lowest /\ r.op # "p3a"
  /\ \E d \in w : TypeA(d) /\ r.target = Whole(d) /\ Only(cs, d)

LEMMA PeerIsFine ==
  ASSUME NEW r, IsReader(r), NEW w, Remembers(r, w), NEW cs, NEW status,
         Meant(r) /\ "P2P" \in r.tags => Pointed(cs, r, w),
         Meant(r) /\ "P2P" \notin r.tags /\ status = "SUCCESS" => Hits(cs, r)
  PROVE  Fine(cs, Peer(r, status), w)
<1> DEFINE s == [r EXCEPT !.pc = "a.atr"]
<1>1. \/ "P2P" \in r.tags /\ Peer(r, status) = s
      \/ "P2P" \notin r.tags /\ Peer(r, status) = DoneA(r, status)
  BY DEF Peer
<1>2. Agrees(s, r) /\ s.pc = "a.atr" /\ s.rate = r.rate
  BY DEF IsReader, Fields, Agrees
<1> HIDE DEF s
<1>3. Remembers(s, w) /\ (Meant(s) <=> Meant(r))
  BY <1>2, AgreementRemembers
<1>4. CASE "P2P" \in r.tags /\ Peer(r, status) = s
  <2>1. Meant(s) => Follows4(cs, s, w)
    BY <1>2, <1>3, <1>4 DEF Pointed, Follows4, Agrees
  <2> QED
    BY <1>2, <1>3, <1>4, <2>1 DEF Agrees, Fine, Aims, Gathers, InRounds, Polling, PlacesB, Selecting, Protocol
<1> QED
  BY <1>1, <1>4, DoneAIsFine

\* The card that is meant is selected, and no other.
Chosen(cs, r, w) ==
  /\ r.rate = Lowest
  /\ \E d \in w : /\ TypeA(d) /\ cs[d].st = "active" /\ r.target = Whole(d)
                  /\ r.tags \cap Layers = {Kind[d].plat} \cap Layers /\ Only(cs, d)

LEMMA Layer4IsFine ==
  ASSUME NEW r, IsReader(r), NEW w \in Worlds, Remembers(r, w), r.op # "p3a", NEW cs, Meant(r) => Chosen(cs, r, w)
  PROVE  Fine(cs, Layer4(r), w)
<1> DEFINE s == [r EXCEPT !.pc = "a.rats"]
<1>1. \/ "T4A" \in r.tags /\ Layer4(r) = s
      \/ "T4A" \notin r.tags /\ Layer4(r) = Peer(r, "SUCCESS")
  BY DEF Layer4
<1>2. Agrees(s, r) /\ s.pc = "a.rats" /\ s.rate = r.rate
  BY DEF IsReader, Fields, Agrees
<1> HIDE DEF s
<1>3. Remembers(s, w) /\ (Meant(s) <=> Meant(r))
  BY <1>2, AgreementRemembers
<1>4. CASE "T4A" \in r.tags /\ Layer4(r) = s
  <2>1. Meant(s) => Follows4(cs, s, w)
    <3> SUFFICES ASSUME Meant(r)
                 PROVE  Follows4(cs, s, w)
      BY <1>3
    <3>1. PICK d \in w : /\ TypeA(d) /\ r.target = Whole(d)
                         /\ r.tags \cap Layers = {Kind[d].plat} \cap Layers /\ Only(cs, d)
      BY DEF Chosen
    <3>2. "T4A" \in r.tags \cap Layers /\ "T4A" \in Layers /\ "P2P" \in Layers
      BY <1>4 DEF Layers
    <3>3. Kind[d].plat = "T4A" /\ "P2P" \notin r.tags
      BY <3>1, <3>2
    <3> QED
      BY <1>2, <3>1, <3>3 DEF Follows4, Chosen, Agrees
  <2> QED
    BY <1>2, <1>3, <1>4, <2>1 DEF Agrees, Fine, Aims, Gathers, InRounds, Polling, PlacesB, Selecting, Protocol
<1>5. CASE "T4A" \notin r.tags /\ Layer4(r) = Peer(r, "SUCCESS")
  <2>1. Meant(r) => Pointed(cs, r, w)
    BY DEF Chosen, Pointed
  <2>2. Meant(r) /\ "P2P" \notin r.tags => Hits(cs, r)
    <3> SUFFICES ASSUME Meant(r), "P2P" \notin r.tags
                 PROVE  Hits(cs, r)
      OBVIOUS
    <3>1. PICK d \in w : /\ TypeA(d) /\ cs[d].st = "active" /\ r.target = Whole(d)
                         /\ r.tags \cap Layers = {Kind[d].plat} \cap Layers
      BY DEF Chosen
    <3>2. d \in Card /\ Whole(d) # AnyCard
      BY <3>1, WorldsAssumption, AnyAssumption DEF TypeA
    <3>3. Kind[d].plat \notin Layers
      BY <1>5, <3>1 DEF Layers
    <3>4. Kind[d].plat = "T2T"
      BY <3>1, <3>2, <3>3, PlatAssumption DEF TypeA, Layers
    <3>5. Meets(r, d)
      BY <3>1, <3>2 DEF Meets, TypeA
    <3>6. Serves(cs, r, d)
      BY <3>1, <3>4 DEF Serves, TypeA
    <3> QED
      BY <3>2, <3>5, <3>6 DEF Hits
  <2> QED
    BY <1>5, <2>1, <2>2, PeerIsFine
<1> QED
  BY <1>1, <1>4, <1>5

\* Who answers a command of the protocol.
LEMMA AnswersOfA ==
  ASSUME Bounded, Real, NEW name \in {"RATS", "PPS", "ATR"}, NEW arg,
         NEW x \in Send(name, "A", 0, arg), Ok(x)
  PROVE  \E c \in Near(cards) :
           /\ c \in Card /\ c \in world /\ TypeA(c) /\ x.cards[c].st = "layer4"
           /\ name \in {"RATS", "ATR"} => cards[c].st = "active" /\ x.cards[c].rate = Lowest
           /\ name = "PPS" => Kind[c].plat = "T4A" /\ x.cards[c].rate = arg
<1> DEFINE cmd == Command(name, "A", 0, arg)
<1>1. x \in Exchanges(cmd, 1) /\ cmd.name = name /\ cmd.tech = "A" /\ cmd.arg = arg
  BY DEF Send, Command
<1> HIDE DEF cmd
<1>2. PICK d : /\ x.cards = After(cards, cmd, d)
               /\ x.status = Received(Heard(cards, cmd, d), cmd).status
               /\ x.data = Received(Heard(cards, cmd, d), cmd).data
  BY <1>1, ExchangeIs DEF Ok
<1>3. PICK c \in Card : Answers(c, cards[c], cmd, d[c])
  BY <1>2, SomebodyAnswered DEF Ok
<1>4. Heeds(c, cards[c], cmd) /\ cards[c].st # "out" /\ TypeA(c)
  BY <1>1, <1>3 DEF Answers, Heeds, TypeA
<1>5. c \in Near(cards) /\ c \in world
  BY <1>4 DEF Real, Good, About, Near
<1>6. x.cards[c] = Heeding(c, cards[c], cmd, d[c])
  BY <1>2, <1>4, AfterOf
<1>7. CASE name \in {"RATS", "ATR"}
  <2>1. cards[c].st = "active"
    BY <1>1, <1>4, <1>7 DEF Heeds
  <2>2. x.cards[c] = [Away EXCEPT !.st = "layer4"]
    BY <1>1, <1>6, <1>7 DEF Heeding
  <2> QED
    BY <1>4, <1>5, <1>7, <2>1, <2>2 DEF Away, Lowest
<1>8. CASE name = "PPS"
  <2>1. cards[c].st = "layer4" /\ Kind[c].plat = "T4A"
    BY <1>1, <1>4, <1>8 DEF Heeds
  <2>2. x.cards[c] = [cards[c] EXCEPT !.rate = arg]
    BY <1>1, <1>6, <1>8 DEF Heeding
  <2>3. IsCard(cards[c])
    BY SoundCardsAre DEF Bounded, SoundCards
  <2> QED
    BY <1>4, <1>5, <1>8, <2>1, <2>2, <2>3 DEF IsCard, CardFields
<1> QED
  BY <1>7, <1>8

\* Who answers while one card only may is the one that is meant.
LEMMA PointedHits ==
  ASSUME NEW r, NEW d, NEW c \in Card, TypeA(c), r.target = Whole(d), Whole(c) = Whole(d),
         NEW cs, cs[c].st = "layer4", cs[c].rate = r.rate
  PROVE  Hits(cs, r)
<1>1. Whole(c) # AnyCard
  BY AnyAssumption DEF TypeA
<1> QED
  BY <1>1 DEF Hits, Meets, Serves, TypeA

LEMMA AtrAIsFine ==
  ASSUME Bounded, Real, Aimed, rd.pc = "a.atr", NEW x \in Send("ATR", "A", 0, None)
  PROVE  Fine(x.cards, DoneA(rd, x.status), world)
<1>1. IsReader(rd) /\ Remembers(rd, world)
  BY DEF Bounded, IsCall, Aimed, Aims
<1>2. ASSUME x.status = "SUCCESS", Meant(rd)
      PROVE  Hits(x.cards, rd)
  <2>1. Follows4(cards, rd, world)
    BY <1>2 DEF Aimed, Aims, Protocol
  <2>2. PICK d \in world : rd.target = Whole(d) /\ Only(cards, d)
    BY <2>1 DEF Follows4
  <2>3. PICK c \in Near(cards) : /\ c \in Card /\ TypeA(c) /\ cards[c].st = "active"
                                 /\ x.cards[c].st = "layer4" /\ x.cards[c].rate = Lowest
    BY <1>2, AnswersOfA DEF Ok
  <2>4. Whole(c) = Whole(d)
    BY <2>2, <2>3 DEF Only
  <2>5. rd.rate = Lowest
    BY <2>1 DEF Follows4
  <2> QED
    BY <2>2, <2>3, <2>4, <2>5, PointedHits
<1> QED
  BY <1>1, <1>2, DoneAIsFine

LEMMA RatsIsFine ==
  ASSUME Bounded, Real, Aimed, rd.pc = "a.rats", NEW x \in Send("RATS", "A", 0, None)
  PROVE  Fine(x.cards, Rats(rd, x), world)
<1> DEFINE s == [rd EXCEPT !.pc = "a.pps"]
           t == [rd EXCEPT !.pc = "a.deselect", !.first = x.status]
<1>1. IsReader(rd) /\ Remembers(rd, world)
  BY DEF Bounded, IsCall, Aimed, Aims
<1>2. \/ Ok(x) /\ Rats(rd, x) = Peer(rd, "SUCCESS")
      \/ Ok(x) /\ rd.cfg.rate # Lowest /\ Rats(rd, x) = s
      \/ x.status # "SUCCESS" /\ Rats(rd, x) = t
  BY DEF Rats, Ok
<1>3. /\ Agrees(s, rd) /\ s.pc = "a.pps" /\ s.rate = rd.rate
      /\ Agrees(t, rd) /\ t.pc = "a.deselect" /\ t.rate = rd.rate /\ t.first = x.status
  BY <1>1, ZenonT(30) DEF IsReader, Fields, Agrees
<1> HIDE DEF s, t
<1>4. /\ Remembers(s, world) /\ (Meant(s) <=> Meant(rd))
      /\ Remembers(t, world) /\ (Meant(t) <=> Meant(rd))
  BY <1>1, <1>3, AgreementRemembers
<1>5. Meant(rd) => Follows4(cards, rd, world)
  BY DEF Aimed, Aims, Protocol
<1>6. CASE Ok(x) /\ Rats(rd, x) = Peer(rd, "SUCCESS")
  <2>1. Meant(rd) => "P2P" \notin rd.tags
    BY <1>5 DEF Follows4
  <2>2. ASSUME Meant(rd)
        PROVE  Hits(x.cards, rd)
    <3>1. PICK d \in world : rd.target = Whole(d) /\ Only(cards, d)
      BY <1>5, <2>2 DEF Follows4
    <3>2. PICK c \in Near(cards) : /\ c \in Card /\ TypeA(c) /\ cards[c].st = "active"
                                   /\ x.cards[c].st = "layer4" /\ x.cards[c].rate = Lowest
      BY <1>6, AnswersOfA
    <3>3. Whole(c) = Whole(d)
      BY <3>1, <3>2 DEF Only
    <3>4. rd.rate = Lowest
      BY <1>5, <2>2 DEF Follows4
    <3> QED
      BY <3>1, <3>2, <3>3, <3>4, PointedHits
  <2> QED
    BY <1>1, <1>6, <2>1, <2>2, PeerIsFine
<1>7. CASE rd.cfg.rate # Lowest /\ Rats(rd, x) = s
  <2>1. Meant(s) => Follows4(x.cards, s, world)
    BY <1>3, <1>4, <1>5, <1>7 DEF Follows4, Agrees
  <2> QED
    BY <1>3, <1>4, <1>7, <2>1 DEF Agrees, Fine, Aims, Gathers, InRounds, Polling, PlacesB, Selecting, Protocol
<1>8. CASE x.status # "SUCCESS" /\ Rats(rd, x) = t
  <2>1. Meant(t) => Follows4(x.cards, t, world)
    BY <1>3, <1>4, <1>5, <1>8 DEF Follows4, Agrees
  <2> QED
    BY <1>3, <1>4, <1>8, <2>1 DEF Agrees, Fine, Aims, Gathers, InRounds, Polling, PlacesB, Selecting, Protocol
<1> QED
  BY <1>2, <1>6, <1>7, <1>8

\* After RATS failed the call does not succeed any more.
LEMMA FailedIsFine ==
  ASSUME Bounded, Aimed, rd.pc \in {"a.deselect", "a.hlta"}, NEW cs
  PROVE  Fine(cs, Peer(rd, rd.first), world)
<1>1. IsReader(rd) /\ Remembers(rd, world)
  BY DEF Bounded, IsCall, Aimed, Aims
<1>2. Meant(rd) => "P2P" \notin rd.tags /\ rd.first # "SUCCESS"
  BY DEF Aimed, Aims, Protocol, Follows4
<1> QED
  BY <1>1, <1>2, PeerIsFine

LEMMA DeselectIsFine ==
  ASSUME Bounded, Aimed, rd.pc = "a.deselect", NEW x, NEW cs
  PROVE  Fine(cs, Deselect(rd, x), world)
<1> DEFINE s == [rd EXCEPT !.pc = "a.hlta"]
<1>1. IsReader(rd) /\ Remembers(rd, world)
  BY DEF Bounded, IsCall, Aimed, Aims
<1>2. Deselect(rd, x) \in {Peer(rd, rd.first), s}
  BY DEF Deselect
<1>3. Agrees(s, rd) /\ s.pc = "a.hlta" /\ s.rate = rd.rate /\ s.first = rd.first
  BY <1>1 DEF IsReader, Fields, Agrees
<1> HIDE DEF s
<1>4. Remembers(s, world) /\ (Meant(s) <=> Meant(rd))
  BY <1>1, <1>3, AgreementRemembers
<1>5. Meant(rd) => Follows4(cards, rd, world)
  BY DEF Aimed, Aims, Protocol
<1>6. Meant(s) => Follows4(cs, s, world)
  BY <1>3, <1>4, <1>5 DEF Follows4, Agrees
<1>7. Fine(cs, s, world)
  BY <1>3, <1>4, <1>6 DEF Agrees, Fine, Aims, Gathers, InRounds, Polling, PlacesB, Selecting, Protocol
<1> QED
  BY <1>2, <1>7, FailedIsFine

\* PPS, where another card that was activated before could answer.
LEMMA PpsIsFine ==
  ASSUME OneOfLayer4(Worlds) \/ \A c \in Configs : c.rate = Lowest,
         Bounded, Real, Aimed, rd.pc = "a.pps", NEW x \in Send("PPS", "A", 0, rd.cfg.rate)
  PROVE  Fine(x.cards, Pps(rd, x), world)
<1> DEFINE s == [rd EXCEPT !.rate = rd.cfg.rate]
<1>1. IsReader(rd) /\ Remembers(rd, world) /\ rd.cfg \in Configs
  BY DEF Bounded, IsCall, Aimed, Aims
<1>2. \/ Ok(x) /\ Pps(rd, x) = Peer(s, "SUCCESS")
      \/ x.status # "SUCCESS" /\ Pps(rd, x) = Peer(rd, x.status)
  BY DEF Pps, Ok
<1>3. Agrees(s, rd) /\ s.rate = rd.cfg.rate
  BY <1>1 DEF IsReader, Fields, Agrees
<1> HIDE DEF s
<1>4. IsReader(s) /\ Remembers(s, world) /\ (Meant(s) <=> Meant(rd)) /\ s.tags = rd.tags /\ s.target = rd.target
  BY <1>1, <1>3, AgreementRemembers DEF Agrees
<1>5. Meant(rd) => Follows4(cards, rd, world)
  BY DEF Aimed, Aims, Protocol
<1>6. Meant(rd) => "P2P" \notin rd.tags
  BY <1>5 DEF Follows4
<1>7. ASSUME Ok(x), Meant(rd)
      PROVE  Hits(x.cards, s)
  <2>1. PICK d \in world : TypeA(d) /\ rd.target = Whole(d) /\ Kind[d].plat = "T4A" /\ rd.cfg.rate # Lowest
    BY <1>5, <1>7 DEF Follows4
  <2>2. OneOfLayer4(Worlds)
    BY <1>1, <2>1
  <2>3. PICK c \in Near(cards) : /\ c \in Card /\ c \in world /\ TypeA(c) /\ Kind[c].plat = "T4A"
                                 /\ x.cards[c].st = "layer4" /\ x.cards[c].rate = rd.cfg.rate
    BY <1>7, AnswersOfA
  <2>4. c = d
    BY <2>1, <2>2, <2>3 DEF OneOfLayer4, Real
  <2> QED
    BY <1>3, <1>4, <2>1, <2>3, <2>4, PointedHits
<1> QED
  BY <1>1, <1>2, <1>4, <1>6, <1>7, PeerIsFine

\* The parts of an identifier, found again in it.
LEMMA PartsOfWhole ==
  ASSUME NEW p \in Part, NEW q \in Part, p[1] = 1
  PROVE  LET u == Joined(p, q) IN
         /\ Len(u) = PartLen + PartLen - 1
         /\ <<1>> \o SubSeq(u, 1, PartLen - 1) = p
         /\ SubSeq(u, PartLen, PartLen + PartLen - 1) = q
<1> DEFINE t == Tail(p)
           u == t \o q
           head == SubSeq(u, 1, PartLen - 1)
           rest == SubSeq(u, PartLen, PartLen + PartLen - 1)
<1>1. /\ p \in Seq(0 .. 1) /\ Len(p) = PartLen /\ q \in Seq(0 .. 1) /\ Len(q) = PartLen
      /\ PartLen \in Nat \ {0, 1}
  BY PartsAreSequences, PartAssumption
<1>2. t \in Seq(0 .. 1) /\ Len(t) = PartLen - 1 /\ \A i \in 1 .. PartLen - 1 : t[i] = p[i + 1]
  BY <1>1
<1> HIDE DEF t
<1>3. /\ u \in Seq(0 .. 1) /\ Len(u) = PartLen + PartLen - 1
      /\ \A i \in 1 .. PartLen - 1 : u[i] = t[i]
      /\ \A i \in 1 .. PartLen : u[i + PartLen - 1] = q[i]
  <2>1. u \in Seq(0 .. 1) /\ Len(u) = PartLen - 1 + PartLen
    <3>1. t \in Seq(0 .. 1) /\ q \in Seq(0 .. 1)
      BY <1>1, <1>2
    <3>2. u \in Seq(0 .. 1) /\ Len(u) = Len(t) + Len(q)
      BY <3>1
    <3> QED
      BY <1>1, <1>2, <3>2
  <2>2. \A i \in 1 .. PartLen - 1 : u[i] = t[i]
    BY <1>1, <1>2
  <2>3. \A i \in 1 .. PartLen : u[i + PartLen - 1] = q[i]
    BY <1>1, <1>2
  <2> HIDE DEF u
  <2>4. PartLen - 1 + PartLen = PartLen + PartLen - 1
    BY <1>1
  <2> QED
    BY <2>1, <2>2, <2>3, <2>4
<1> HIDE DEF u
<1>4. head \in Seq(0 .. 1) /\ Len(head) = PartLen - 1 /\ \A i \in 1 .. PartLen - 1 : head[i] = u[i]
  BY <1>1, <1>3
<1>5. rest \in Seq(0 .. 1) /\ Len(rest) = PartLen /\ \A i \in 1 .. PartLen : rest[i] = u[i + PartLen - 1]
  BY <1>1, <1>3
<1> HIDE DEF head, rest
<1>6. <<1>> \o head = p
  <2> DEFINE v == <<1>> \o head
  <2>1. /\ v \in Seq(0 .. 1) /\ Len(v) = PartLen /\ v[1] = 1
        /\ \A i \in 1 .. PartLen - 1 : v[i + 1] = head[i]
    BY <1>1, <1>4
  <2> HIDE DEF v
  <2>2. ASSUME NEW i \in 1 .. PartLen
        PROVE  v[i] = p[i]
    <3>1. CASE i = 1
      BY <2>1, <3>1
    <3>2. CASE i # 1
      <4>1. i - 1 \in 1 .. PartLen - 1 /\ (i - 1) + 1 = i
        BY <1>1, <3>2
      <4>2. v[(i - 1) + 1] = head[i - 1] /\ head[i - 1] = u[i - 1] /\ u[i - 1] = t[i - 1] /\ t[i - 1] = p[(i - 1) + 1]
        BY <1>2, <1>3, <1>4, <2>1, <4>1
      <4> QED
        BY <4>1, <4>2
    <3> QED
      BY <3>1, <3>2
  <2>3. v = p
    BY <1>1, <2>1, <2>2
  <2> QED
    BY <2>3 DEF v
<1>7. rest = q
  BY <1>1, <1>3, <1>5
<1> QED
  BY <1>3, <1>6, <1>7 DEF Joined, t, u, head, rest

LEMMA ActivateCardAIsFine ==
  ASSUME NEW r, IsReader(r), NEW w, Remembers(r, w), NEW uid, NEW cs,
         \/ r.op = "p3a" /\ r.target = AnyCard /\ uid = <<>>
         \/ r.op = "activate" /\ r.n.A = 1 /\ ~Bails(r, "A") /\ r.target = r.uids[1] /\ uid = r.uids[1]
  PROVE  Fine(cs, ActivateCardA(r, uid), w)
<1> DEFINE s == [r EXCEPT !.pc = "aa.wake", !.rate = Lowest, !.given = uid, !.at = 0]
<1>1. ActivateCardA(r, uid) \in {s, Return(r, "INVALID_PARAMETER")}
  BY DEF ActivateCardA, CardA
<1>2. Agrees(s, r) /\ s.pc = "aa.wake" /\ s.rate = Lowest /\ s.given = uid /\ s.at = 0
  BY ZenonT(30) DEF IsReader, Fields, Agrees
<1> HIDE DEF s
<1>3. Remembers(s, w) /\ (Bails(s, "A") <=> Bails(r, "A"))
  BY <1>2, AgreementRemembers
<1>4. r.op = "activate" => \E d \in w : TypeA(d) /\ uid = Whole(d) /\ Leads(cs, s, d)
  <2> SUFFICES ASSUME r.op = "activate"
               PROVE  \E d \in w : TypeA(d) /\ uid = Whole(d) /\ Leads(cs, s, d)
    OBVIOUS
  <2>1. Named(w, uid, r.tags)
    BY DEF Remembers
  <2>2. \A d : Leads(cs, s, d)
    BY <1>2 DEF Leads
  <2> QED
    BY <2>1, <2>2 DEF Named
<1>5. AimsA(cs, s, w)
  <2>1. CASE r.op = "p3a" /\ r.target = AnyCard /\ uid = <<>>
    BY <1>2, <2>1 DEF AimsA, Agrees
  <2>2. CASE r.op = "activate" /\ r.n.A = 1 /\ ~Bails(r, "A") /\ r.target = r.uids[1] /\ uid = r.uids[1]
    BY <1>2, <1>3, <1>4, <2>2 DEF AimsA, Agrees
  <2> QED
    BY <2>1, <2>2
<1>6. Fine(cs, s, w)
  BY <1>2, <1>3, <1>5 DEF Agrees, Fine, Aims, Gathers, InRounds, Polling, PlacesB, Selecting, Protocol
<1> QED
  BY <1>1, <1>6, ReturnIsFine

\* Another one of the tags that were found is not selected.
LEMMA ActivateAIsFine ==
  ASSUME NEW r, IsReader(r), NEW w \in Worlds, Remembers(r, w), r.op = "activate", NEW i \in 1 .. r.n.A, NEW cs
  PROVE  Fine(cs, ActivateA(r, i), w)
<1> DEFINE target == r.uids[i]
           s == [r EXCEPT !.target = target]
<1>1. \/ ~Bails(r, "A") /\ r.n.A = 1 /\ ActivateA(r, i) = ActivateCardA(s, target)
      \/ ~(~Bails(r, "A") /\ r.n.A = 1) /\ ActivateA(r, i) = Layer4(s)
  BY DEF ActivateA
<1> HIDE DEF target
<1>2. /\ IsReader(s) /\ s.op = r.op /\ s.target = target /\ s.cfg = r.cfg /\ s.tags = r.tags
      /\ s.n = r.n /\ s.uids = r.uids /\ s.pupi = r.pupi
  BY DEF IsReader, Fields
<1> HIDE DEF s
<1>3. (Directly(s) <=> Directly(r)) /\ (Bails(s, "A") <=> Bails(r, "A"))
  BY <1>2 DEF Directly, Bails
<1>4. Remembers(s, w)
  BY <1>2, <1>3 DEF Remembers
<1>5. CASE ~Bails(r, "A") /\ r.n.A = 1 /\ ActivateA(r, i) = ActivateCardA(s, target)
  <2>1. i = 1
    BY <1>5
  <2>2. target = s.uids[1]
    BY <1>2, <2>1 DEF target
  <2> QED
    BY <1>2, <1>3, <1>4, <1>5, <2>2, ActivateCardAIsFine
<1>6. CASE ~(~Bails(r, "A") /\ r.n.A = 1) /\ ActivateA(r, i) = Layer4(s)
  <2>1. r.n.A > 0
    BY DEF Remembers
  <2>2. ~Meant(s)
    BY <1>2, <1>3, <1>6, <2>1 DEF Meant
  <2> QED
    BY <1>2, <1>4, <1>6, <2>2, Layer4IsFine
<1> QED
  BY <1>1, <1>5, <1>6

\* Before the next level of a selection.
Descending(cs, r, w) ==
  /\ r.rate = Lowest
  /\ \/ r.op = "p3a" /\ r.target = AnyCard /\ r.given = <<>>
     \/ /\ r.op = "activate" /\ r.n.A = 1 /\ ~Bails(r, "A")
        /\ r.target = r.uids[1] /\ r.given = r.uids[1]
        /\ \E d \in w : /\ TypeA(d) /\ r.given = Whole(d) /\ r.lvl \in DOMAIN Kind[d].uid
                        /\ r.at = IF r.lvl = 1 THEN 0 ELSE PartLen - 1
                        /\ r.lvl = 2 => Below(cs, Kind[d].uid[1])

\* The part that is selected next is the card's.
LEMMA LevelLeads ==
  ASSUME NEW r, IsReader(r), NEW d \in Card, TypeA(d), r.given = Whole(d), r.lvl \in DOMAIN Kind[d].uid,
         r.at = IF r.lvl = 1 THEN 0 ELSE PartLen - 1, NEW cs, r.lvl = 2 => Below(cs, Kind[d].uid[1])
  PROVE  Leads(cs, Level(r), d) /\ Level(r).pc = "aa.select"
<1> DEFINE part == SubSeq(r.given, r.at + 1, r.at + PartLen)
           tagged == <<1>> \o SubSeq(r.given, r.at + 1, r.at + PartLen - 1)
           s == [r EXCEPT !.pc = "aa.select", !.uid = part]
           t == [r EXCEPT !.pc = "aa.select", !.uid = tagged, !.at = @ + PartLen - 1]
           u == Kind[d].uid
<1>1. /\ Len(r.given) = r.at + PartLen => Level(r) = s
      /\ Len(r.given) > r.at + PartLen /\ Len(r.given) # r.at + PartLen => Level(r) = t
  BY DEF Level
<1>2. /\ s.pc = "aa.select" /\ s.uid = part /\ s.at = r.at /\ s.lvl = r.lvl
      /\ t.pc = "aa.select" /\ t.uid = tagged /\ t.at = r.at + PartLen - 1 /\ t.lvl = r.lvl
  <2> HIDE DEF part, tagged
  <2> QED
    BY DEF IsReader, Fields
<1> HIDE DEF s, t
<1>3. PartLen \in Nat \ {0, 1}
  BY PartAssumption
<1>4. \/ DOMAIN u = 1 .. 1 /\ Len(u) = 1
      \/ DOMAIN u = 1 .. 2 /\ Len(u) = 2
  BY Identified DEF TypeA
<1>5. \A l \in DOMAIN u : u[l] \in Part
  BY Identified DEF TypeA
<1>6. CASE Len(u) = 1
  <2>1. r.lvl = 1 /\ r.at = 0 /\ u[1] \in Part
    BY <1>4, <1>5, <1>6
  <2>2. r.given = u[1] /\ Len(r.given) = PartLen /\ SubSeq(u[1], 1, PartLen) = u[1]
    BY <1>6, <2>1, WholeIs, PartsAreSequences
  <2>3. part = u[1]
    BY <1>3, <2>1, <2>2
  <2>4. Level(r) = s
    BY <1>1, <1>3, <2>1, <2>2
  <2> QED
    BY <1>2, <1>6, <2>1, <2>3, <2>4 DEF Leads
<1>7. CASE Len(u) = 2
  <2>1. u[1] \in Part /\ u[2] \in Part /\ r.given = Joined(u[1], u[2])
    BY <1>4, <1>5, <1>7, WholeIs
  <2>2. u[1][1] = 1
    <3>1. 1 \in DOMAIN u /\ 1 < Len(u)
      BY <1>4, <1>7
    <3> QED
      BY <3>1, KindAssumption DEF TypeA
  <2>3. /\ Len(r.given) = PartLen + PartLen - 1
        /\ <<1>> \o SubSeq(r.given, 1, PartLen - 1) = u[1]
        /\ SubSeq(r.given, PartLen, PartLen + PartLen - 1) = u[2]
    BY <2>1, <2>2, PartsOfWhole
  <2>4. CASE r.lvl = 1
    <3>1. r.at = 0 /\ r.at + 1 = 1 /\ r.at + PartLen - 1 = PartLen - 1 /\ r.at + PartLen = PartLen
      BY <1>3, <2>4
    <3>2. tagged = u[1]
      BY <2>3, <3>1
    <3>3. Level(r) = t
      BY <1>1, <1>3, <2>3, <3>1
    <3> HIDE DEF tagged
    <3> QED
      BY <1>2, <1>4, <1>7, <2>4, <3>1, <3>2, <3>3 DEF Leads
  <2>5. CASE r.lvl = 2
    <3>1. r.at = PartLen - 1 /\ r.at + 1 = PartLen /\ r.at + PartLen = PartLen + PartLen - 1
      BY <1>3, <2>5
    <3>2. part = u[2]
      BY <2>3, <3>1
    <3>3. Level(r) = s
      BY <1>1, <2>3, <3>1
    <3> HIDE DEF part
    <3> QED
      BY <1>2, <1>4, <1>7, <2>5, <3>1, <3>2, <3>3 DEF Leads
  <2> QED
    BY <1>4, <1>7, <2>4, <2>5
<1> QED
  BY <1>4, <1>6, <1>7

LEMMA LevelAgrees ==
  ASSUME NEW r, IsReader(r)
  PROVE  LET s == Level(r) IN
         Agrees(s, r) /\ s.given = r.given /\ s.rate = r.rate /\ s.pc \in {"aa.select", "aa.anticoll"}
<1> DEFINE part == SubSeq(r.given, r.at + 1, r.at + PartLen)
           tagged == <<1>> \o SubSeq(r.given, r.at + 1, r.at + PartLen - 1)
           s == [r EXCEPT !.pc = "aa.select", !.uid = part]
           t == [r EXCEPT !.pc = "aa.select", !.uid = tagged, !.at = @ + PartLen - 1]
           u == [r EXCEPT !.pc = "aa.anticoll", !.uid = <<>>]
<1>1. Level(r) \in {s, t, u}
  BY DEF Level
<1> HIDE DEF part, tagged
<1>2. Agrees(s, r) /\ s.given = r.given /\ s.rate = r.rate /\ s.pc = "aa.select"
  BY ZenonT(30) DEF IsReader, Fields, Agrees
<1>3. Agrees(t, r) /\ t.given = r.given /\ t.rate = r.rate /\ t.pc = "aa.select"
  BY ZenonT(30) DEF IsReader, Fields, Agrees
<1>4. Agrees(u, r) /\ u.given = r.given /\ u.rate = r.rate /\ u.pc = "aa.anticoll"
  BY ZenonT(30) DEF IsReader, Fields, Agrees
<1> HIDE DEF s, t, u
<1> QED
  BY <1>1, <1>2, <1>3, <1>4

LEMMA LevelIsFine ==
  ASSUME NEW r, IsReader(r), NEW w \in Worlds, Remembers(r, w), NEW cs, Descending(cs, r, w)
  PROVE  Fine(cs, Level(r), w)
<1> DEFINE s == Level(r)
<1>1. Agrees(s, r) /\ s.given = r.given /\ s.rate = r.rate /\ s.pc \in {"aa.select", "aa.anticoll"}
  BY LevelAgrees
<1>2. ASSUME NEW d \in w, TypeA(d), r.given = Whole(d), r.lvl \in DOMAIN Kind[d].uid,
             r.at = IF r.lvl = 1 THEN 0 ELSE PartLen - 1, r.lvl = 2 => Below(cs, Kind[d].uid[1])
      PROVE  Leads(cs, s, d)
  BY <1>2, LevelLeads, WorldsAssumption
<1> HIDE DEF s
<1>3. Remembers(s, w) /\ (Bails(s, "A") <=> Bails(r, "A"))
  BY <1>1, AgreementRemembers
<1>4. AimsA(cs, s, w)
  <2>1. CASE r.op = "p3a" /\ r.target = AnyCard /\ r.given = <<>>
    BY <1>1, <2>1 DEF AimsA, Agrees, Descending
  <2>2. CASE ~(r.op = "p3a" /\ r.target = AnyCard /\ r.given = <<>>)
    <3>1. /\ r.rate = Lowest /\ r.op = "activate" /\ r.n.A = 1 /\ ~Bails(r, "A")
          /\ r.target = r.uids[1] /\ r.given = r.uids[1]
      BY <2>2 DEF Descending
    <3>2. \E d \in w : TypeA(d) /\ r.given = Whole(d) /\ Leads(cs, s, d)
      BY <1>2, <2>2 DEF Descending
    <3> QED
      BY <1>1, <1>3, <3>1, <3>2 DEF AimsA, Agrees
  <2> QED
    BY <2>1, <2>2
<1> QED
  BY <1>1, <1>3, <1>4 DEF Agrees, s, Fine, Aims, Gathers, InRounds, Polling, PlacesB, Selecting, Protocol

LEMMA WakeUpIsFine ==
  ASSUME Bounded, Real, Aimed, rd.pc = "aa.wake", NEW x, NEW cs
  PROVE  Fine(cs, WakeUp(rd, x), world)
<1> DEFINE s == [rd EXCEPT !.lvl = 1]
<1>1. IsReader(rd) /\ Remembers(rd, world) /\ AimsA(cards, rd, world) /\ world \in Worlds /\ world \subseteq Card
  BY WorldsAssumption DEF Bounded, IsCall, Real, Aimed, Aims, Selecting
<1>2. \/ WakeUp(rd, x) = Level(s)
      \/ x.status # "SUCCESS" /\ WakeUp(rd, x) = Return(rd, x.status)
  BY DEF WakeUp, CardA
<1>3. Agrees(s, rd) /\ s.lvl = 1 /\ s.at = rd.at /\ s.given = rd.given /\ s.rate = rd.rate
  BY <1>1 DEF IsReader, Fields, Agrees
<1> HIDE DEF s
<1>4. IsReader(s) /\ Remembers(s, world) /\ (Bails(s, "A") <=> Bails(rd, "A"))
  BY <1>1, <1>3, AgreementRemembers DEF Agrees
<1>5. \A d \in world : TypeA(d) => 1 \in DOMAIN Kind[d].uid
  BY <1>1, Identified DEF TypeA
<1>6. Descending(cs, s, world)
  <2>1. CASE rd.op = "p3a" /\ rd.target = AnyCard /\ rd.given = <<>>
    BY <1>1, <1>3, <2>1 DEF AimsA, Agrees, Descending
  <2>2. CASE ~(rd.op = "p3a" /\ rd.target = AnyCard /\ rd.given = <<>>)
    <3>1. /\ rd.rate = Lowest /\ rd.op = "activate" /\ rd.n.A = 1 /\ ~Bails(rd, "A")
          /\ rd.target = rd.uids[1] /\ rd.given = rd.uids[1]
      BY <1>1, <2>2 DEF AimsA
    <3>2. PICK d \in world : TypeA(d) /\ rd.given = Whole(d) /\ Leads(cards, rd, d)
      BY <1>1, <2>2 DEF AimsA
    <3>3. rd.at = 0
      BY <3>2 DEF Leads
    <3> QED
      BY <1>3, <1>4, <1>5, <3>1, <3>2, <3>3 DEF Descending, Agrees
  <2> QED
    BY <2>1, <2>2
<1> QED
  BY <1>1, <1>2, <1>4, <1>6, LevelIsFine, ReturnIsFine

\* The locals of a selection of any card.
LEMMA AnyIsFine ==
  ASSUME NEW r, IsReader(r), NEW w, Remembers(r, w), r.op = "p3a", r.target = AnyCard, r.given = <<>>, r.rate = Lowest,
         r.pc \in Selecting, NEW cs
  PROVE  Fine(cs, r, w)
  BY DEF AimsA, Fine, Aims, Gathers, InRounds, Polling, PlacesB, Selecting, Protocol

LEMMA ForgetAgrees ==
  ASSUME NEW r, IsReader(r)
  PROVE  LET s == Forget(r) IN
         Agrees(s, r) /\ s.given = r.given /\ s.rate = r.rate /\ s.pc = r.pc /\ s.at = r.at
<1> DEFINE serial == IF r.lvl = 1 THEN <<>> ELSE r.serial
           s == [r EXCEPT !.complete = FALSE, !.serial = serial]
<1>1. Forget(r) = s
  BY DEF Forget, IsReader, Fields
<1> HIDE DEF serial
<1>2. Agrees(s, r) /\ s.given = r.given /\ s.rate = r.rate /\ s.pc = r.pc /\ s.at = r.at
  BY ZenonT(30) DEF IsReader, Fields, Agrees
<1> QED
  BY <1>1, <1>2

LEMMA AnticollisionOfIsFine ==
  ASSUME Bounded, Aimed, rd.pc = "aa.anticoll", NEW x, NEW cs
  PROVE  Fine(cs, AnticollisionOf(rd, x), world)
<1> DEFINE f == Forget(rd)
           pc == IF Len(x.data) + 1 = PartLen THEN "aa.select" ELSE f.pc
           uid == AfterCollision(x)
           s == [f EXCEPT !.pc = "aa.select", !.uid = x.data]
           t == [f EXCEPT !.uid = uid, !.pc = pc]
<1>1. IsReader(rd) /\ Remembers(rd, world) /\ AimsA(cards, rd, world)
  BY DEF Bounded, IsCall, Aimed, Aims, Selecting
<1>2. rd.op = "p3a" /\ rd.target = AnyCard /\ rd.given = <<>> /\ rd.rate = Lowest
  BY <1>1 DEF AimsA, Leads
<1>3. Agrees(f, rd) /\ f.given = rd.given /\ f.rate = rd.rate /\ f.pc = rd.pc
  BY <1>1, ForgetAgrees
<1> HIDE DEF f, uid
<1>4. \/ AnticollisionOf(rd, x) \in {s, t}
      \/ x.status # "SUCCESS" /\ AnticollisionOf(rd, x) = Return(f, x.status)
  <2>1. [f EXCEPT !.uid = uid, !.pc = IF Len(x.data) + 1 = PartLen THEN "aa.select" ELSE @] = t
    BY <1>3 DEF Agrees, IsReader, Fields
  <2> HIDE DEF t
  <2> QED
    BY <2>1 DEF AnticollisionOf, CardA, Ok, f, uid
<1>5. pc \in Selecting
  BY <1>3 DEF Selecting
<1> HIDE DEF pc
<1>6. /\ Agrees(s, f) /\ s.given = f.given /\ s.rate = f.rate /\ s.pc = "aa.select"
      /\ Agrees(t, f) /\ t.given = f.given /\ t.rate = f.rate /\ t.pc = pc
  BY <1>3, ZenonT(30) DEF Agrees, IsReader, Fields
<1> HIDE DEF s, t
<1>7. Remembers(f, world) /\ Remembers(s, world) /\ Remembers(t, world)
  <2>1. Remembers(f, world)
    BY <1>1, <1>3, AgreementRemembers
  <2> QED
    BY <1>6, <2>1, AgreementRemembers
<1>8. Fine(cs, s, world) /\ Fine(cs, t, world)
  BY <1>2, <1>3, <1>5, <1>6, <1>7, AnyIsFine DEF Agrees, Selecting
<1>9. x.status # "SUCCESS" => Fine(cs, Return(f, x.status), world)
  BY <1>3, <1>7, ReturnIsFine DEF Agrees
<1> QED
  BY <1>4, <1>8, <1>9

\* Of the cards that hear a SELECT only those with the identifier that is
\* complete with it are active afterwards.
LEMMA SelectionIsOnly ==
  ASSUME Bounded, Real, rd.pc \in {"a.select", "aa.select"},
         NEW x \in Send("SELECT", "A", rd.lvl, rd.uid), Ok(x), ~x.data.cascade
  PROVE  \E c \in Near(cards) :
           /\ c \in Card /\ TypeA(c) /\ c \in world /\ x.cards[c].st = "active"
           /\ rd.lvl = Len(Kind[c].uid) /\ rd.uid = Kind[c].uid[rd.lvl] /\ cards[c].st = "ready" /\ cards[c].lvl = rd.lvl
           /\ Selected(rd, x).serial = Whole(c) /\ x.data.plat = Kind[c].plat
           /\ Only(x.cards, c)
<1> DEFINE cmd == Command("SELECT", "A", rd.lvl, rd.uid)
           serial == Selected(rd, x).serial
<1>1. cmd.name = "SELECT" /\ cmd.tech = "A" /\ cmd.lvl = rd.lvl /\ cmd.arg = rd.uid
  BY DEF Command
<1>2. /\ rd.lvl \in {1, 2} /\ SoundCards(cards) /\ Good(cards, rd, world, calm)
  BY DEF Bounded, IsCall, WellPlaced, Real
<1>3. PICK p \in Part : rd.lvl = 2 => Below(cards, p)
  BY <1>2 DEF Good, Placed, AtLevels
<1>4. PICK d : /\ x.cards = After(cards, cmd, d)
               /\ \E c \in Card : /\ TypeA(c) /\ Heeds(c, cards[c], cmd) /\ cards[c].st = "ready"
                                  /\ c \in Near(cards) /\ Whole(c) \in Known(world)
                                  /\ cards[c].lvl = rd.lvl /\ rd.lvl = Len(Kind[c].uid) /\ rd.uid = Kind[c].uid[rd.lvl]
                                  /\ serial = Whole(c) /\ x.data = Answer(c, cards[c], cmd)
  BY SelectionNames
<1>5. PICK c \in Card : /\ TypeA(c) /\ Heeds(c, cards[c], cmd) /\ cards[c].st = "ready"
                        /\ c \in Near(cards) /\ Whole(c) \in Known(world)
                        /\ cards[c].lvl = rd.lvl /\ rd.lvl = Len(Kind[c].uid) /\ rd.uid = Kind[c].uid[rd.lvl]
                        /\ serial = Whole(c) /\ x.data = Answer(c, cards[c], cmd)
  BY <1>4
<1> HIDE DEF cmd, serial
<1>6. c \in world
  BY <1>2, <1>5 DEF Good, About
<1>7. x.cards[c].st = "active"
  BY <1>1, <1>2, <1>4, <1>5, SelectedIsActive
<1>8. x.data.plat = Kind[c].plat
  BY <1>1, <1>5 DEF Answer
<1>9. ASSUME NEW e \in Near(x.cards), x.cards[e].st = "active"
      PROVE  Whole(e) = Whole(c)
  <2>1. e \in Card /\ TypeA(e)
    BY DEF Near
  <2>2. Heeds(e, cards[e], cmd)
    <3> SUFFICES ASSUME ~Heeds(e, cards[e], cmd)
                 PROVE  FALSE
      OBVIOUS
    <3>1. x.cards[e] = Back(cards[e])
      BY <1>1, <1>4, <2>1, AfterOf
    <3> QED
      BY <1>9, <3>1 DEF Back, Halted, Idle, Away
  <2>3. cards[e].st = "ready" /\ cards[e].lvl = rd.lvl /\ rd.uid = Kind[e].uid[rd.lvl]
    BY <1>1, <2>2 DEF Heeds
  <2>4. cards[e].lvl = Len(Kind[e].uid)
    <3> SUFFICES ASSUME cards[e].lvl # Len(Kind[e].uid)
                 PROVE  FALSE
      OBVIOUS
    <3>1. cards[e].lvl \in DOMAIN Kind[e].uid
      BY <1>2, <2>1, <2>3 DEF SoundCards, AtALevel, TypeA
    <3>2. cards[e].lvl < Len(Kind[e].uid)
      BY <2>1, <3>1, Identified DEF TypeA
    <3>3. x.cards[e] = [cards[e] EXCEPT !.lvl = @ + 1]
      <4>1. x.cards[e] = Heeding(e, cards[e], cmd, d[e])
        BY <1>4, <2>1, <2>2, AfterOf
      <4> QED
        BY <1>1, <3>2, <4>1 DEF Heeding
    <3>4. IsCard(cards[e])
      BY <1>2, <2>1, SoundCardsAre DEF SoundCards
    <3>5. x.cards[e].st = cards[e].st
      BY <3>3, <3>4 DEF IsCard, CardFields
    <3> QED
      BY <1>9, <2>3, <3>5
  <2>5. e \in Near(cards)
    BY <2>1, <2>3 DEF Near
  <2>6. CASE rd.lvl = 1
    <3>1. Whole(e) = Kind[e].uid[1] /\ Whole(c) = Kind[c].uid[1]
      BY <1>5, <2>3, <2>4, <2>6, WholeIs
    <3> QED
      BY <1>5, <2>3, <2>6, <3>1
  <2>7. CASE rd.lvl = 2
    <3>1. Kind[e].uid[1] = p /\ Kind[c].uid[1] = p
      BY <1>3, <1>5, <2>3, <2>5, <2>7 DEF Below
    <3>2. Len(Kind[e].uid) # 1 /\ Len(Kind[c].uid) # 1
      BY <1>5, <2>3, <2>4, <2>7
    <3>3. Whole(e) = Joined(Kind[e].uid[1], Kind[e].uid[2]) /\ Whole(c) = Joined(Kind[c].uid[1], Kind[c].uid[2])
      BY <3>2, WholeIs
    <3> QED
      BY <1>5, <2>3, <2>7, <3>1, <3>3
  <2> QED
    BY <1>2, <2>6, <2>7
<1>10. Only(x.cards, c)
  BY <1>9 DEF Only
<1> QED
  BY <1>5, <1>6, <1>7, <1>8, <1>10 DEF serial

LEMMA SelectedAgrees ==
  ASSUME NEW r, IsReader(r), NEW x
  PROVE  LET s == Selected(r, x) IN
         /\ Agrees(s, r) /\ s.given = r.given /\ s.rate = r.rate /\ s.pc = r.pc /\ s.at = r.at /\ s.lvl = r.lvl
         /\ Ok(x) /\ ~x.data.cascade => s.complete = TRUE
<1> DEFINE f == Forget(r)
           serial == f.serial \o (IF x.data.cascade THEN Tail(r.uid) ELSE r.uid)
           complete == ~x.data.cascade
           s == [f EXCEPT !.complete = complete, !.serial = serial]
<1>1. Agrees(f, r) /\ f.given = r.given /\ f.rate = r.rate /\ f.pc = r.pc /\ f.at = r.at /\ f.lvl = r.lvl
  BY ForgetAgrees, ForgetIs
<1> HIDE DEF f
<1>2. (Ok(x) /\ Selected(r, x) = s) \/ (~Ok(x) /\ Selected(r, x) = f)
  BY <1>1 DEF Selected, f, Agrees, IsReader, Fields
<1> HIDE DEF serial, complete
<1>3. /\ Agrees(s, f) /\ s.given = f.given /\ s.rate = f.rate /\ s.pc = f.pc /\ s.at = f.at /\ s.lvl = f.lvl
      /\ s.complete = complete
  BY <1>1, ZenonT(30) DEF Agrees, IsReader, Fields
<1> HIDE DEF s
<1>4. Agrees(s, r)
  BY <1>1, <1>3 DEF Agrees
<1>5. ~x.data.cascade => complete = TRUE
  BY DEF complete
<1> QED
  BY <1>1, <1>2, <1>3, <1>4, <1>5

\* Who is selected at the last level is who the selection went after.
LEMMA SelectOfIsFine ==
  ASSUME OwnIdentifiers(Worlds), Bounded, Real, Aimed, rd.pc = "aa.select",
         NEW x \in Send("SELECT", "A", rd.lvl, rd.uid)
  PROVE  Fine(x.cards, SelectOf(rd, x), world)
<1> DEFINE cmd == Command("SELECT", "A", rd.lvl, rd.uid)
           s == Selected(rd, x)
           t == [s EXCEPT !.lvl = @ + 1]
<1>1. cmd.name = "SELECT" /\ cmd.tech = "A" /\ cmd.lvl = rd.lvl /\ cmd.arg = rd.uid
  BY DEF Command
<1>2. /\ IsReader(rd) /\ rd.lvl \in {1, 2} /\ SoundCards(cards) /\ Good(cards, rd, world, calm)
      /\ world \in Worlds /\ world \subseteq Card /\ Remembers(rd, world) /\ AimsA(cards, rd, world)
  BY WorldsAssumption DEF Bounded, IsCall, WellPlaced, Real, Aimed, Aims, Selecting
<1>3. CascadesOnce(x, rd.lvl)
  BY <1>2, SelectionsTell DEF Send
<1>4. Ok(x) => \E d : /\ x.cards = After(cards, cmd, d)
                      /\ \E c \in Card : /\ TypeA(c) /\ Heeds(c, cards[c], cmd)
                                         /\ cards[c].st = "ready" /\ cards[c].lvl = rd.lvl
                                         /\ x.data = Answer(c, cards[c], cmd)
                                         /\ rd.uid = Kind[c].uid[rd.lvl]
  <2>1. "SELECT" \in {"ANTICOLL", "SELECT"}
    OBVIOUS
  <2> QED
    BY <2>1, UnderstoodIs DEF Send
<1> HIDE DEF cmd
<1>5. /\ Agrees(s, rd) /\ s.given = rd.given /\ s.rate = rd.rate /\ s.at = rd.at /\ s.lvl = rd.lvl
      /\ Ok(x) /\ ~x.data.cascade => s.complete = TRUE
  BY <1>2, SelectedAgrees
<1>6. \/ Ok(x) /\ x.data.cascade /\ SelectOf(rd, x) = Level(t)
      \/ ~(Ok(x) /\ x.data.cascade) /\ SelectOf(rd, x) = CardA(s, x.status)
  BY DEF SelectOf
<1> HIDE DEF s
<1>7. Agrees(t, s) /\ t.given = s.given /\ t.rate = s.rate /\ t.at = s.at /\ t.lvl = s.lvl + 1
  BY <1>5 DEF Agrees, IsReader, Fields
<1> HIDE DEF t
<1>8. IsReader(s) /\ Remembers(s, world) /\ (Bails(s, "A") <=> Bails(rd, "A"))
  BY <1>2, <1>5, AgreementRemembers DEF Agrees
<1>9. IsReader(t) /\ Remembers(t, world) /\ (Bails(t, "A") <=> Bails(rd, "A")) /\ Agrees(t, rd)
  BY <1>5, <1>7, <1>8, AgreementRemembers DEF Agrees
<1>10. CASE Ok(x) /\ x.data.cascade /\ SelectOf(rd, x) = Level(t)
  <2>1. rd.lvl = 1 /\ t.lvl = 2
    BY <1>3, <1>5, <1>7, <1>10 DEF CascadesOnce
  <2>2. PICK c \in Card : /\ TypeA(c) /\ cards[c].st = "ready" /\ cards[c].lvl = 1
                          /\ x.data = Answer(c, cards[c], cmd) /\ rd.uid = Kind[c].uid[1]
    BY <1>4, <1>10, <2>1
  <2>3. Len(Kind[c].uid) > 1 /\ 1 \in DOMAIN Kind[c].uid
    <3>1. cards[c].lvl < Len(Kind[c].uid)
      BY <1>1, <1>10, <2>2 DEF Answer
    <3> QED
      BY <2>2, <3>1, Identified DEF TypeA
  <2>4. rd.uid[1] = 1
    BY <2>2, <2>3, KindAssumption DEF TypeA
  <2>5. Below(x.cards, rd.uid)
    BY <1>1, <1>2, <1>4, <1>10, <2>1, BelowAfterSelection
  <2>6. Descending(x.cards, t, world)
    <3>1. CASE rd.op = "p3a" /\ rd.target = AnyCard /\ rd.given = <<>>
      BY <1>2, <1>5, <1>7, <1>9, <3>1 DEF AimsA, Agrees, Descending
    <3>2. CASE ~(rd.op = "p3a" /\ rd.target = AnyCard /\ rd.given = <<>>)
      <4>1. /\ rd.rate = Lowest /\ rd.op = "activate" /\ rd.n.A = 1 /\ ~Bails(rd, "A")
            /\ rd.target = rd.uids[1] /\ rd.given = rd.uids[1]
        BY <1>2, <3>2 DEF AimsA
      <4>2. PICK d \in world : TypeA(d) /\ rd.given = Whole(d) /\ Leads(cards, rd, d)
        BY <1>2, <3>2 DEF AimsA
      <4>3. rd.uid = Kind[d].uid[1] /\ 1 \in DOMAIN Kind[d].uid
            /\ rd.at = IF Len(Kind[d].uid) = 1 THEN 0 ELSE PartLen - 1
        BY <2>1, <4>2 DEF Leads
      <4>4. 1 < Len(Kind[d].uid)
        BY <1>2, <2>4, <4>2, <4>3, KindAssumption DEF TypeA
      <4>5. 2 \in DOMAIN Kind[d].uid /\ Len(Kind[d].uid) # 1
        <5>1. \/ DOMAIN Kind[d].uid = 1 .. 1 /\ Len(Kind[d].uid) = 1
              \/ DOMAIN Kind[d].uid = 1 .. 2 /\ Len(Kind[d].uid) = 2
          BY <1>2, <4>2, Identified DEF TypeA
        <5>2. CASE DOMAIN Kind[d].uid = 1 .. 1 /\ Len(Kind[d].uid) = 1
          BY <4>4, <5>2
        <5>3. CASE DOMAIN Kind[d].uid = 1 .. 2 /\ Len(Kind[d].uid) = 2
          <6>1. 2 \in 1 .. 2 /\ 2 # 1
            OBVIOUS
          <6> QED
            BY <5>3, <6>1, Zenon
        <5> QED
          BY <5>1, <5>2, <5>3
      <4>6. t.at = PartLen - 1
        BY <1>5, <1>7, <4>3, <4>5
      <4>7. \E e \in world : /\ TypeA(e) /\ t.given = Whole(e) /\ t.lvl \in DOMAIN Kind[e].uid
                             /\ t.at = IF t.lvl = 1 THEN 0 ELSE PartLen - 1
                             /\ t.lvl = 2 => Below(x.cards, Kind[e].uid[1])
        BY <1>5, <1>7, <2>1, <2>5, <4>2, <4>3, <4>5, <4>6
      <4> QED
        BY <1>5, <1>7, <1>9, <4>1, <4>7 DEF Descending, Agrees
    <3> QED
      BY <3>1, <3>2
  <2> QED
    BY <1>2, <1>9, <1>10, <2>6, LevelIsFine
<1>11. CASE ~Ok(x) /\ SelectOf(rd, x) = CardA(s, x.status)
  <2>1. x.status # "SUCCESS"
    BY <1>11 DEF Ok
  <2>2. CardA(s, x.status) = Return(s, x.status)
    BY <2>1 DEF CardA
  <2> QED
    BY <1>8, <1>11, <2>1, <2>2, ReturnIsFine
<1>12. CASE Ok(x) /\ ~x.data.cascade /\ SelectOf(rd, x) = CardA(s, x.status)
  <2>1. x.status = "SUCCESS" /\ s.complete = TRUE
    BY <1>5, <1>12 DEF Ok
  <2>2. PICK c \in Near(cards) :
           /\ c \in Card /\ TypeA(c) /\ c \in world /\ x.cards[c].st = "active"
           /\ rd.lvl = Len(Kind[c].uid) /\ rd.uid = Kind[c].uid[rd.lvl] /\ cards[c].st = "ready" /\ cards[c].lvl = rd.lvl
           /\ s.serial = Whole(c) /\ Only(x.cards, c)
    BY <1>12, SelectionIsOnly DEF s
  <2>3. CASE rd.op = "p3a" /\ rd.target = AnyCard
    <3>1. CardA(s, x.status) = Return(s, "SUCCESS")
      BY <1>5, <2>1, <2>3 DEF CardA, Agrees
    <3>2. Meets(s, c)
      BY <1>5, <2>1, <2>2, <2>3 DEF Meets, Agrees
    <3>3. Serves(x.cards, s, c)
      BY <1>5, <2>2, <2>3 DEF Serves, TypeA, Agrees
    <3>4. Hits(x.cards, s)
      BY <2>2, <3>2, <3>3 DEF Hits
    <3> QED
      BY <1>8, <1>12, <3>1, <3>4, ReturnIsFine
  <2>4. CASE ~(rd.op = "p3a" /\ rd.target = AnyCard)
    <3>1. /\ rd.rate = Lowest /\ rd.op = "activate" /\ rd.n.A = 1
          /\ rd.target = rd.uids[1] /\ rd.given = rd.uids[1]
      BY <1>2, <2>4 DEF AimsA
    <3>2. PICK d \in world : TypeA(d) /\ rd.given = Whole(d) /\ Leads(cards, rd, d)
      BY <1>2, <2>4 DEF AimsA
    <3>3. /\ rd.uid = Kind[d].uid[rd.lvl] /\ rd.lvl \in DOMAIN Kind[d].uid
          /\ rd.lvl = 2 => Below(cards, Kind[d].uid[1])
      BY <3>2 DEF Leads
    <3>4. Whole(c) = Whole(d)
      <4>1. CASE rd.lvl = 1
        <5>1. 1 \in DOMAIN Kind[c].uid /\ ~(1 < Len(Kind[c].uid)) /\ Len(Kind[c].uid) = 1
          BY <2>2, <4>1, Identified DEF TypeA
        <5>2. rd.uid[1] # 1
          BY <2>2, <4>1, <5>1, KindAssumption DEF TypeA
        <5>3. ~(1 < Len(Kind[d].uid))
          BY <1>2, <3>2, <3>3, <4>1, <5>2, KindAssumption DEF TypeA
        <5>4. Len(Kind[d].uid) = 1
          BY <1>2, <3>2, <5>3, Identified DEF TypeA
        <5> QED
          BY <2>2, <3>3, <4>1, <5>1, <5>4, WholeIs
      <4>2. CASE rd.lvl = 2
        <5>1. Kind[c].uid[1] = Kind[d].uid[1]
          BY <2>2, <3>3, <4>2 DEF Below
        <5>2. Len(Kind[c].uid) # 1 /\ Len(Kind[d].uid) # 1
          BY <1>2, <2>2, <3>2, <3>3, <4>2, Identified DEF TypeA
        <5>3. Whole(c) = Joined(Kind[c].uid[1], Kind[c].uid[2]) /\ Whole(d) = Joined(Kind[d].uid[1], Kind[d].uid[2])
          BY <5>2, WholeIs
        <5> QED
          BY <2>2, <3>3, <4>2, <5>1, <5>3
      <4> QED
        BY <1>2, <4>1, <4>2
    <3>5. PICK e \in world : TypeA(e) /\ rd.uids[1] = Whole(e) /\ rd.tags \cap Layers = {Kind[e].plat} \cap Layers
      BY <1>2, <3>1 DEF Remembers, Named
    <3>6. e = c
      BY <1>2, <2>2, <3>1, <3>2, <3>4, <3>5 DEF OwnIdentifiers
    <3>7. Chosen(x.cards, s, world)
      BY <1>5, <2>2, <3>1, <3>5, <3>6 DEF Chosen, Agrees
    <3>8. CardA(s, x.status) = Layer4(s)
      BY <1>5, <2>1, <3>1 DEF CardA, Agrees
    <3>9. s.op # "p3a"
      BY <1>5, <3>1 DEF Agrees
    <3> QED
      BY <1>2, <1>8, <1>12, <3>7, <3>8, <3>9, Layer4IsFine
  <2> QED
    BY <2>3, <2>4
<1> QED
  BY <1>6, <1>10, <1>11, <1>12

-----------------------------------------------------------------------------
(* Type A: detection and collision resolution.                             *)

LEMMA BailedAIsFine ==
  ASSUME NEW r, NEW w, Free(r, w), NEW cs
  PROVE  Fine(cs, BailedA(r), w)
  BY FreeReturns, PhaseBIsFine DEF BailedA

\* Collision resolution, between two rounds.
Gathering(r, w) ==
  /\ Free(r, w) /\ r.n.A = 0 /\ r.rate = Lowest /\ r.uids \in Seq(Known(w))
  /\ "A" \in r.tags
  /\ r.uids = <<>> => r.tags \cap Layers = {}
  /\ Bails(r, "A") => r.uids = <<>>
  /\ Len(r.uids) = 1 => Named(w, r.uids[1], r.tags)

LEMMA AgreementGathers ==
  ASSUME NEW r, NEW s, Agrees(s, r), s.rate = r.rate, NEW w, Gathering(r, w)
  PROVE  Gathering(s, w)
  BY AgreementRemembers DEF Gathering, Agrees

LEMMA GatheringWaits ==
  ASSUME NEW r, NEW w, Gathering(r, w), r.pc \in InRounds, NEW cs
  PROVE  Fine(cs, r, w)
  BY DEF Gathering, Free, Fine, Aims, Gathers, InRounds, Polling, PlacesB, Selecting, Protocol

\* The only card that was found may be activated at once.
LEMMA ResolvedIsFine ==
  ASSUME NEW r, NEW w \in Worlds, Free(r, w), r.uids \in Seq(Known(w)), "A" \in r.tags, NEW cs, r.rate = Lowest,
         Len(r.uids) = 1 => Named(w, r.uids[1], r.tags),
         Len(r.uids) = 1 /\ Bails(r, "A") =>
           \E d \in w : /\ TypeA(d) /\ cs[d].st = "active" /\ r.uids[1] = Whole(d)
                        /\ r.tags \cap Layers = {Kind[d].plat} \cap Layers /\ Only(cs, d)
  PROVE  Fine(cs, Resolved(r), w)
<1> DEFINE n == [A |-> Len(r.uids), B |-> r.n.B, F |-> r.n.F]
           s == [r EXCEPT !.n = n]
           target == r.uids[1]
           t == [s EXCEPT !.target = target]
<1>1. [r EXCEPT !.n.A = Len(r.uids)] = s
  <2>1. [r.n EXCEPT !.A = Len(r.uids)] = n
    BY CountsRemember DEF Free
  <2> HIDE DEF n
  <2> QED
    BY <2>1 DEF Free, IsReader, Fields
<1>2. n.A = Len(r.uids) /\ n.B = r.n.B /\ n.F = r.n.F /\ n = [A |-> n.A, B |-> n.B, F |-> n.F] /\ n.A \in Nat
  OBVIOUS
<1> HIDE DEF n
<1>3. /\ IsReader(s) /\ s.op = r.op /\ s.target = r.target /\ s.cfg = r.cfg /\ s.tags = r.tags
      /\ s.n = n /\ s.uids = r.uids /\ s.pupi = r.pupi /\ s.rate = r.rate
  BY DEF Free, IsReader, Fields
<1>4. \/ Resolved(r) \in {Return(s, "SUCCESS"), BailedA(s)}
      \/ Len(r.uids) = 1 /\ Bails(r, "A") /\ Resolved(r) = ActivateA(s, 1)
  <2> HIDE DEF s
  <2> QED
    BY <1>1 DEF Resolved
<1> HIDE DEF s, target
<1>5. /\ IsReader(t) /\ t.op = s.op /\ t.target = target /\ t.cfg = s.cfg /\ t.tags = s.tags
      /\ t.n = s.n /\ t.uids = s.uids /\ t.pupi = s.pupi /\ t.rate = s.rate
  BY <1>3 DEF IsReader, Fields
<1>6. Bails(r, "A") => ActivateA(s, 1) = Layer4(t)
  <2>1. Bails(s, "A") <=> Bails(r, "A")
    BY <1>3 DEF Bails
  <2>2. s.uids[1] = target
    BY <1>3 DEF target
  <2> QED
    BY <2>1, <2>2 DEF ActivateA
<1> HIDE DEF t
<1>7. Remembers(s, w) /\ Remembers(t, w)
  <2>1. (Directly(s) <=> Directly(r)) /\ (Directly(t) <=> Directly(r))
    BY <1>3, <1>5 DEF Directly, Bails
  <2> QED
    BY <1>2, <1>3, <1>5, <2>1 DEF Remembers, Free
<1>8. Free(s, w)
  BY <1>3, <1>7 DEF Free
<1>9. CASE Len(r.uids) = 1 /\ Bails(r, "A") /\ Resolved(r) = ActivateA(s, 1)
  <2>1. Chosen(cs, t, w)
    BY <1>3, <1>5, <1>9 DEF Chosen, target
  <2>2. t.op # "p3a"
    BY <1>3, <1>5 DEF Free
  <2> QED
    BY <1>5, <1>6, <1>7, <1>9, <2>1, <2>2, Layer4IsFine
<1> QED
  BY <1>4, <1>8, <1>9, FreeReturns, BailedAIsFine

LEMMA RoundIsFine ==
  ASSUME NEW r, NEW w \in Worlds, Gathering(r, w), NEW cs
  PROVE  Fine(cs, Round(r), w) /\ Fine(cs, NextRound(r), w)
<1>1. ASSUME NEW s, Gathering(s, w)
      PROVE  Fine(cs, Round(s), w)
  <2> DEFINE t == [s EXCEPT !.pc = "a.anticoll", !.lvl = 1, !.uid = <<>>, !.whole = <<>>, !.more = FALSE]
  <2>1. Round(s) \in {t, Resolved(s)}
    BY DEF Round
  <2>2. Agrees(t, s) /\ t.pc = "a.anticoll" /\ t.rate = s.rate
    BY <1>1, ZenonT(30) DEF Gathering, Free, IsReader, Fields, Agrees
  <2> HIDE DEF t
  <2>3. Fine(cs, t, w)
    BY <1>1, <2>2, AgreementGathers, GatheringWaits DEF InRounds
  <2>4. Fine(cs, Resolved(s), w)
    <3>1. Len(s.uids) = 1 => ~Bails(s, "A")
      BY <1>1 DEF Gathering
    <3> QED
      BY <1>1, <3>1, ResolvedIsFine DEF Gathering
  <2> QED
    BY <2>1, <2>3, <2>4
<1> DEFINE u == [r EXCEPT !.round = @ + 1]
<1>2. Agrees(u, r) /\ u.rate = r.rate
  BY DEF Gathering, Free, IsReader, Fields, Agrees
<1>3. NextRound(r) = Round(u)
  BY DEF NextRound
<1> HIDE DEF u
<1>4. Gathering(u, w)
  BY <1>2, AgreementGathers
<1> QED
  BY <1>1, <1>3, <1>4

LEMMA GatheringNow ==
  ASSUME Bounded, Real, Aimed, rd.pc \in InRounds
  PROVE  Gathering(rd, world) /\ world \in Worlds
<1>1. rd.pc \in Polling
  BY DEF InRounds, Polling
<1>2. rd.op = "start" /\ IsReader(rd) /\ rd.target = None /\ rd.uids \in Seq(Known(world))
  BY <1>1 DEF Bounded, WellPlaced, IsCall, Real, Good, Aimed, Aims
<1> QED
  BY <1>2 DEF Gathering, Free, Real, Aimed, Aims, Gathers

LEMMA HaltAIsFine ==
  ASSUME Bounded, Real, Aimed, NEW x, NEW cs
  PROVE  /\ rd.pc = "a.halt" => Fine(cs, HaltA(rd, x), world)
         /\ rd.pc = "a.req" => Fine(cs, RequestA(rd, x), world)
<1> SUFFICES ASSUME rd.pc \in {"a.halt", "a.req"}
             PROVE  Fine(cs, HaltA(rd, x), world) /\ Fine(cs, RequestA(rd, x), world)
  OBVIOUS
<1> DEFINE s == [rd EXCEPT !.pc = "a.req"]
<1>1. Gathering(rd, world) /\ world \in Worlds
  BY GatheringNow DEF InRounds
<1>2. HaltA(rd, x) \in {s, Return(rd, "PROTOCOL_ERROR")} /\ RequestA(rd, x) \in {NextRound(rd), Return(rd, x.status)}
  BY DEF HaltA, RequestA
<1>3. Agrees(s, rd) /\ s.pc = "a.req" /\ s.rate = rd.rate
  BY <1>1 DEF Gathering, Free, IsReader, Fields, Agrees
<1> HIDE DEF s
<1>4. Fine(cs, s, world)
  BY <1>1, <1>3, AgreementGathers, GatheringWaits DEF InRounds
<1> QED
  BY <1>1, <1>2, <1>4, RoundIsFine, FreeReturns DEF Gathering

LEMMA AnticollisionIsFine ==
  ASSUME Bounded, Real, Aimed, rd.pc = "a.anticoll", NEW x, NEW cs
  PROVE  Fine(cs, Anticollision(rd, x), world)
<1> DEFINE f == Forget(rd)
           whole == f.whole \o x.data
           uid == AfterCollision(x)
           pc == IF Len(x.data) + 1 = PartLen THEN "a.select" ELSE f.pc
           s == [f EXCEPT !.pc = "a.select", !.uid = x.data, !.whole = whole]
           t == [f EXCEPT !.more = TRUE, !.uid = uid, !.pc = pc]
<1>1. Gathering(rd, world) /\ world \in Worlds /\ IsReader(rd)
  BY GatheringNow DEF InRounds, Gathering, Free
<1>2. Agrees(f, rd) /\ f.rate = rd.rate /\ f.pc = rd.pc
  BY <1>1, ForgetAgrees
<1> HIDE DEF f, uid
<1>3. Anticollision(rd, x) \in {s, t, NextRound(f)}
  <2>1. /\ [f EXCEPT !.pc = "a.select", !.uid = x.data, !.whole = @ \o x.data] = s
        /\ [f EXCEPT !.more = TRUE, !.uid = uid, !.pc = IF Len(x.data) + 1 = PartLen THEN "a.select" ELSE @] = t
    BY <1>2 DEF Agrees, IsReader, Fields
  <2> HIDE DEF s, t
  <2> QED
    BY <2>1 DEF Anticollision, f, uid
<1>4. pc \in InRounds
  BY <1>2 DEF InRounds
<1> HIDE DEF pc, whole
<1>5. /\ Agrees(s, f) /\ s.rate = f.rate /\ s.pc = "a.select"
      /\ Agrees(t, f) /\ t.rate = f.rate /\ t.pc = pc
  BY <1>2, ZenonT(30) DEF Agrees, IsReader, Fields
<1> HIDE DEF s, t
<1>6. Gathering(f, world)
  BY <1>1, <1>2, AgreementGathers
<1>7. Gathering(s, world) /\ Gathering(t, world)
  BY <1>5, <1>6, AgreementGathers
<1> QED
  BY <1>1, <1>3, <1>4, <1>5, <1>6, <1>7, RoundIsFine, GatheringWaits DEF InRounds

\* The first tag that is found tells the kind of the only one.
LEMMA SelectIsFine ==
  ASSUME Bounded, Real, Aimed, rd.pc = "a.select", NEW x \in Send("SELECT", "A", rd.lvl, rd.uid)
  PROVE  Fine(x.cards, Select(rd, x), world)
<1> DEFINE s == Selected(rd, x)
           tags == s.tags \cup {x.data.plat}
           uids == Append(s.uids, Recorded(rd))
           found == [s EXCEPT !.tags = tags, !.uids = uids]
           next == [s EXCEPT !.pc = "a.anticoll", !.lvl = @ + 1, !.uid = <<>>]
           halt == [found EXCEPT !.pc = "a.halt"]
<1>1. Gathering(rd, world) /\ world \in Worlds /\ IsReader(rd)
  BY GatheringNow DEF InRounds, Gathering, Free
<1>2. Agrees(s, rd) /\ s.rate = rd.rate /\ s.pc = rd.pc
  BY <1>1, SelectedAgrees
<1> HIDE DEF s
<1>3. [s EXCEPT !.tags = @ \cup {x.data.plat}, !.uids = Append(@, Recorded(rd))] = found
  BY <1>2 DEF Agrees, IsReader, Fields
<1> HIDE DEF found, next, halt
<1>4. \/ Select(rd, x) \in {Return(s, x.status), next}
      \/ Ok(x) /\ ~x.data.cascade /\ ~Bails(rd, "A") /\ Select(rd, x) = halt
      \/ Ok(x) /\ ~x.data.cascade /\ Select(rd, x) = Resolved(found)
  BY <1>3 DEF Select, s, next, halt
<1> HIDE DEF tags, uids
<1>5. Agrees(next, s) /\ next.rate = s.rate /\ next.pc = "a.anticoll"
  BY <1>2, ZenonT(30) DEF next, Agrees, IsReader, Fields
<1>6. Gathering(s, world)
  BY <1>1, <1>2, AgreementGathers
<1>7. Fine(x.cards, next, world)
  BY <1>5, <1>6, AgreementGathers, GatheringWaits DEF InRounds
<1>8. Fine(x.cards, Return(s, x.status), world)
  BY <1>6, FreeReturns DEF Gathering
<1>9. ASSUME Ok(x), ~x.data.cascade
      PROVE  Fine(x.cards, Resolved(found), world) /\ (~Bails(rd, "A") => Fine(x.cards, halt, world))
  <2>1. PICK c \in Near(cards) :
           /\ c \in Card /\ TypeA(c) /\ c \in world /\ x.cards[c].st = "active"
           /\ rd.lvl = Len(Kind[c].uid) /\ rd.uid = Kind[c].uid[rd.lvl] /\ cards[c].st = "ready" /\ cards[c].lvl = rd.lvl
           /\ x.data.plat = Kind[c].plat /\ Only(x.cards, c)
    BY <1>9, SelectionIsOnly
  <2>2. Recorded(rd) = Whole(c)
    BY <2>1, RecordedIs
  <2>3. Whole(c) \in Known(world)
    BY <2>1 DEF Known
  <2>4. /\ IsReader(found) /\ found.op = s.op /\ found.target = s.target /\ found.cfg = s.cfg /\ found.tags = tags
        /\ found.n = s.n /\ found.uids = uids /\ found.pupi = s.pupi /\ found.rate = s.rate
    BY <1>2, ZenonT(30) DEF found, Agrees, IsReader, Fields
  <2>5. s.uids \in Seq(Known(world)) /\ uids = Append(s.uids, Whole(c)) /\ tags = s.tags \cup {Kind[c].plat}
    BY <1>6, <2>1, <2>2 DEF Gathering, uids, tags
  <2>6. uids \in Seq(Known(world)) /\ Len(uids) = Len(s.uids) + 1 /\ uids # <<>>
    BY <2>3, <2>5
  <2>7. Len(uids) = 1 => uids[1] = Whole(c) /\ tags \cap Layers = {Kind[c].plat} \cap Layers
    <3> SUFFICES ASSUME Len(uids) = 1
                 PROVE  uids[1] = Whole(c) /\ tags \cap Layers = {Kind[c].plat} \cap Layers
      OBVIOUS
    <3>1. s.uids = <<>>
      BY <2>5, <2>6
    <3>2. s.tags \cap Layers = {}
      BY <1>6, <3>1 DEF Gathering
    <3> QED
      BY <2>3, <2>5, <3>1, <3>2
  <2>8. Len(uids) = 1 => Named(world, uids[1], tags)
    BY <2>1, <2>7 DEF Named
  <2>9. (Directly(found) <=> Directly(s)) /\ (Bails(found, "A") <=> Bails(s, "A"))
    BY <2>4 DEF Directly, Bails
  <2>10. "A" \in tags /\ found.n.A = 0
    BY <1>6, <2>4, <2>5 DEF Gathering
  <2>11. Free(found, world)
    <3>1. Remembers(found, world)
      BY <1>6, <2>4, <2>9, <2>10 DEF Gathering, Free, Remembers
    <3> QED
      BY <1>6, <2>4, <3>1 DEF Gathering, Free
  <2>12. Fine(x.cards, Resolved(found), world)
    <3>1. found.rate = Lowest
      BY <1>6, <2>4 DEF Gathering
    <3>2. Len(found.uids) = 1 =>
            \E d \in world : /\ TypeA(d) /\ x.cards[d].st = "active" /\ found.uids[1] = Whole(d)
                             /\ found.tags \cap Layers = {Kind[d].plat} \cap Layers /\ Only(x.cards, d)
      BY <2>1, <2>4, <2>7
    <3> QED
      BY <1>1, <2>4, <2>6, <2>8, <2>10, <2>11, <3>1, <3>2, ResolvedIsFine
  <2>13. ASSUME ~Bails(rd, "A")
         PROVE  Fine(x.cards, halt, world)
    <3>1. ~Bails(found, "A")
      BY <1>2, <2>9, <2>13 DEF Agrees, Bails
    <3>2. Gathering(found, world)
      BY <1>6, <2>4, <2>6, <2>8, <2>10, <2>11, <3>1 DEF Gathering
    <3>3. Agrees(halt, found) /\ halt.rate = found.rate /\ halt.pc = "a.halt"
      BY <2>4 DEF halt, Agrees, IsReader, Fields
    <3> QED
      BY <3>2, <3>3, AgreementGathers, GatheringWaits DEF InRounds
  <2> QED
    BY <2>12, <2>13
<1> QED
  BY <1>4, <1>7, <1>8, <1>9

LEMMA DetectAIsFine ==
  ASSUME Bounded, Aimed, world \in Worlds, rd.pc = "a.detect", NEW x, NEW cs
  PROVE  Fine(cs, DetectA(rd, x), world)
<1> DEFINE tags == rd.tags \cup {"A"}
           s == [rd EXCEPT !.tags = tags]
           t == [rd EXCEPT !.tags = tags, !.round = 0, !.uids = <<>>]
<1>1. /\ IsReader(rd) /\ rd.op = "start" /\ rd.target = None /\ rd.n.A = 0 /\ rd.rate = Lowest /\ rd.tags = {}
      /\ Remembers(rd, world)
  BY DEF Bounded, WellPlaced, IsCall, Polling, Aimed, Aims, Gathers
<1>2. DetectA(rd, x) \in {PhaseB(rd), BailedA(s), Round(t)}
  <2>1. /\ [rd EXCEPT !.tags = @ \cup {"A"}] = s
        /\ [rd EXCEPT !.tags = @ \cup {"A"}, !.round = 0, !.uids = <<>>] = t
    BY <1>1 DEF IsReader, Fields
  <2> HIDE DEF s, t
  <2> QED
    BY <2>1 DEF DetectA
<1>3. tags = {"A"}
  BY <1>1
<1> HIDE DEF tags
<1>4. /\ IsReader(s) /\ s.op = rd.op /\ s.target = rd.target /\ s.cfg = rd.cfg /\ s.tags = tags
      /\ s.n = rd.n /\ s.uids = rd.uids /\ s.pupi = rd.pupi
      /\ IsReader(t) /\ t.op = rd.op /\ t.target = rd.target /\ t.cfg = rd.cfg /\ t.tags = tags
      /\ t.n = rd.n /\ t.uids = <<>> /\ t.pupi = rd.pupi /\ t.rate = rd.rate
  BY <1>1, ZenonT(30) DEF IsReader, Fields
<1> HIDE DEF s, t
<1>5. (Directly(s) <=> Directly(rd)) /\ (Directly(t) <=> Directly(rd))
  BY <1>4 DEF Directly, Bails
<1>6. Remembers(s, world) /\ Remembers(t, world)
  BY <1>1, <1>4, <1>5 DEF Remembers
<1>7. Free(rd, world) /\ Free(s, world) /\ Free(t, world)
  BY <1>1, <1>4, <1>6 DEF Free
<1>8. Gathering(t, world)
  <2>1. {"A"} \cap Layers = {}
    BY DEF Layers
  <2>2. <<>> \in Seq(Known(world)) /\ Len(<<>>) # 1
    OBVIOUS
  <2> QED
    BY <1>1, <1>3, <1>4, <1>7, <2>1, <2>2 DEF Gathering
<1> QED
  BY <1>2, <1>7, <1>8, PhaseBIsFine, BailedAIsFine, RoundIsFine

LEMMA PhaseAIsFine ==
  ASSUME NEW r, NEW w, Free(r, w), r.tags = {}, NEW cs
  PROVE  Fine(cs, PhaseA(r), w)
<1> DEFINE s == [r EXCEPT !.field = TRUE, !.rate = Lowest]
           n == [A |-> 0, B |-> s.n.B, F |-> s.n.F]
           t == [s EXCEPT !.pc = "a.detect", !.n = n]
<1>1. Agrees(s, r) /\ s.rate = Lowest
  BY ZenonT(30) DEF Free, IsReader, Fields, Agrees
<1>2. [s EXCEPT !.pc = "a.detect", !.n.A = 0] = t
  <2> HIDE DEF s
  <2>1. [s.n EXCEPT !.A = 0] = n
    BY <1>1, AgreementRemembers, CountsRemember DEF Free
  <2> HIDE DEF n
  <2> QED
    BY <1>1, <2>1 DEF Agrees, IsReader, Fields
<1>3. PhaseA(r) \in {PhaseB(r), Return(s, "SUCCESS"), t}
  <2> HIDE DEF t
  <2> QED
    BY <1>2 DEF PhaseA
<1>4. n = [A |-> n.A, B |-> n.B, F |-> n.F] /\ n.A = 0 /\ n.B = s.n.B
  OBVIOUS
<1> HIDE DEF s, n
<1>5. Free(s, w)
  BY <1>1, AgreementRemembers
<1>6. /\ IsReader(t) /\ t.op = s.op /\ t.target = s.target /\ t.cfg = s.cfg /\ t.tags = s.tags
      /\ t.n = n /\ t.uids = s.uids /\ t.pupi = s.pupi /\ t.rate = Lowest /\ t.pc = "a.detect"
  BY <1>1, ZenonT(30) DEF Agrees, IsReader, Fields
<1> HIDE DEF t
<1>7. Remembers(t, w)
  <2>1. Directly(t) <=> Directly(s)
    BY <1>6 DEF Directly, Bails
  <2> QED
    BY <1>4, <1>5, <1>6, <2>1 DEF Free, Remembers
<1>8. Fine(cs, t, w)
  BY <1>1, <1>4, <1>5, <1>6, <1>7 DEF Agrees, Free, Fine, Aims, Gathers, InRounds, Polling, PlacesB, Selecting, Protocol
<1> QED
  BY <1>3, <1>5, <1>8, PhaseBIsFine, FreeReturns

-----------------------------------------------------------------------------
(* The loop.                                                               *)

LEMMA BeginLoopIsFine ==
  ASSUME NEW r, NEW w, Free(r, w), r.n.A # 1, NEW cs
  PROVE  Fine(cs, BeginLoop(r), w)
<1> DEFINE s == [r EXCEPT !.tags = {}]
           t == [s EXCEPT !.pc = "active"]
<1>1. BeginLoop(r) \in {PhaseA(s), t}
  BY DEF BeginLoop
<1>2. /\ IsReader(s) /\ s.op = r.op /\ s.target = r.target /\ s.cfg = r.cfg /\ s.tags = {}
      /\ s.n = r.n /\ s.uids = r.uids /\ s.pupi = r.pupi
  BY DEF Free, IsReader, Fields
<1> HIDE DEF s
<1>3. Agrees(t, s) /\ t.pc = "active"
  BY <1>2 DEF IsReader, Fields, Agrees
<1> HIDE DEF t
<1>4. Free(s, w)
  <2>1. Directly(s) <=> Directly(r)
    BY <1>2 DEF Directly, Bails
  <2>2. Remembers(s, w)
    BY <1>2, <2>1 DEF Free, Remembers
  <2> QED
    BY <1>2, <2>2 DEF Free
<1>5. Free(t, w) /\ t.tags = {}
  BY <1>2, <1>3, <1>4, AgreementRemembers DEF Agrees
<1>6. Fine(cs, t, w)
  BY <1>3, <1>5 DEF Free, Fine, Aims, Gathers, InRounds, Polling, PlacesB, Selecting, Protocol
<1> QED
  BY <1>1, <1>2, <1>4, <1>6, PhaseAIsFine

LEMMA ActiveAtrIsFine ==
  ASSUME Bounded, Aimed, rd.pc = "active", NEW x, NEW cs
  PROVE  Fine(cs, ActiveAtr(rd, x), world)
<1> DEFINE tags == rd.tags \cup {ActiveTech(rd), IF ActiveTech(rd) = "A" THEN "P2P" ELSE "F P2P"}
           act == [rd.act EXCEPT ![ActiveTech(rd)] = (@ + 255) % 256]
           s == [rd EXCEPT !.tags = tags]
           t == [rd EXCEPT !.act = act]
<1>1. /\ IsReader(rd) /\ rd.op = "start" /\ rd.target = None /\ rd.tags = {} /\ Remembers(rd, world)
  BY DEF Bounded, WellPlaced, IsCall, Polling, Aimed, Aims, Gathers
<1>2. ActiveAtr(rd, x) \in {Return(s, "SUCCESS"), PhaseA(t)}
  <2>1. /\ [rd EXCEPT !.tags = @ \cup {ActiveTech(rd), IF ActiveTech(rd) = "A" THEN "P2P" ELSE "F P2P"}] = s
        /\ [rd EXCEPT !.act[ActiveTech(rd)] = (@ + 255) % 256] = t
    BY <1>1 DEF IsReader, Fields
  <2> HIDE DEF s, t
  <2> QED
    BY <2>1 DEF ActiveAtr
<1> HIDE DEF tags, act
<1>3. /\ IsReader(s) /\ s.op = rd.op /\ s.target = rd.target /\ s.cfg = rd.cfg
      /\ s.n = rd.n /\ s.uids = rd.uids /\ s.pupi = rd.pupi
      /\ Agrees(t, rd) /\ t.tags = {}
  BY <1>1, ZenonT(30) DEF IsReader, Fields, Agrees
<1> HIDE DEF s, t
<1>4. rd.n.A # 1
  BY <1>1 DEF Remembers
<1>5. Free(rd, world)
  BY <1>1 DEF Free
<1>6. Free(s, world)
  <2>1. Directly(s) <=> Directly(rd)
    BY <1>3 DEF Directly, Bails
  <2>2. Remembers(s, world)
    BY <1>1, <1>3, <1>4, <2>1 DEF Remembers
  <2> QED
    BY <1>1, <1>3, <2>2 DEF Free
<1>7. Free(t, world)
  BY <1>3, <1>5, AgreementRemembers
<1> QED
  BY <1>2, <1>3, <1>6, <1>7, FreeReturns, PhaseAIsFine

LEMMA BeginIsFine ==
  ASSUME NEW r, IsReader(r), NEW cfg, NEW ext, NEW w, NEW cs
  PROVE  Fine(cs, Begin(r, cfg, ext), w)
<1> DEFINE zero == [A |-> 0, B |-> 0, F |-> 0]
           listens == cfg.mode # "poll pause" /\ ext # "unsupported"
           t == [r EXCEPT !.op = "start", !.cfg = cfg, !.target = None, !.tags = {}, !.loop = cfg.loops]
           s == [t EXCEPT !.n = zero, !.act = zero, !.uids = <<>>, !.listens = listens]
<1>1. Begin(r, cfg, ext) \in {BeginLoop(s), AfterLoops(s)}
  BY DEF Begin
<1>2. zero = [A |-> zero.A, B |-> zero.B, F |-> zero.F] /\ zero.A = 0 /\ zero.B = 0
  OBVIOUS
<1> HIDE DEF zero, listens
<1>3. IsReader(t) /\ t.op = "start" /\ t.target = None /\ t.tags = {}
  BY ZenonT(30) DEF IsReader, Fields
<1> HIDE DEF t
<1>4. IsReader(s) /\ s.op = "start" /\ s.target = None /\ s.tags = {} /\ s.n = zero
  BY <1>3, ZenonT(30) DEF IsReader, Fields
<1> HIDE DEF s
<1>5. Free(s, w) /\ s.n.A # 1
  BY <1>2, <1>4 DEF Free, Remembers
<1> QED
  BY <1>1, <1>5, BeginLoopIsFine, EndOfLoopIsFine

-----------------------------------------------------------------------------
(* The steps.                                                              *)

Hit == Fine(cards, rd, world)

LEMMA SameAims ==
  ASSUME NEW r, NEW s, NEW w, NEW cs, Aims(cs, r, w), Agrees(s, r), s.pc = r.pc,
         s.answered = r.answered, s.rate = r.rate, s.first = r.first, s.given = r.given, s.at = r.at,
         s.lvl = r.lvl, s.uid = r.uid
  PROVE  Aims(cs, s, w)
<1>1. /\ Remembers(r, w) => Remembers(s, w)
      /\ Meant(s) <=> Meant(r)
      /\ Directly(s) <=> Directly(r)
      /\ Bails(s, "A") <=> Bails(r, "A")
  BY AgreementRemembers
<1>2. Gathers(r, w) => Gathers(s, w)
  BY <1>1 DEF Gathers, Agrees
<1>3. AimsB(r, w) => AimsB(s, w)
  BY <1>1 DEF AimsB, Agrees
<1>4. AimsA(cs, r, w) => AimsA(cs, s, w)
  BY <1>1 DEF AimsA, Leads, Agrees
<1>5. Follows4(cs, r, w) => Follows4(cs, s, w)
  BY <1>1 DEF Follows4, Agrees
<1> QED
  BY <1>1, <1>2, <1>3, <1>4, <1>5 DEF Aims, Agrees

LEMMA SentAsideFine ==
  ASSUME NEW r, NEW w, NEW cs, Fine(cs, r, w), NEW k
  PROVE  Fine(cs, [r EXCEPT !.sent = k], w)
<1> DEFINE s == [r EXCEPT !.sent = k]
<1>1. /\ Agrees(s, r) /\ s.pc = r.pc /\ s.ret = r.ret /\ s.answered = r.answered /\ s.rate = r.rate
      /\ s.serial = r.serial /\ s.complete = r.complete /\ s.first = r.first /\ s.given = r.given /\ s.at = r.at
      /\ s.lvl = r.lvl /\ s.uid = r.uid
  BY DEF Fine, IsReader, Fields, Agrees
<1> HIDE DEF s
<1>2. Aims(cs, s, w)
  BY <1>1, SameAims DEF Fine
<1>3. Meant(s) <=> Meant(r)
  BY <1>1, AgreementRemembers
<1>4. Hits(cs, r) => Hits(cs, s)
  BY <1>1, AgreementHits
<1> QED
  BY <1>1, <1>2, <1>3, <1>4 DEF Fine, Agrees, s

LEMMA OnAirHits ==
  ASSUME NEW s, NEW x, OnAir(x, s), Fine(x.cards, s, world)
  PROVE  Hit'
<1>1. cards' = x.cards /\ world' = world /\ \E k : rd' = [s EXCEPT !.sent = k]
  BY DEF OnAir
<1> QED
  BY <1>1, SentAsideFine DEF Hit

LEMMA PollAHits == Bounded /\ Real /\ Aimed /\ PollA => Hit'
<1> SUFFICES ASSUME Bounded, Real, Aimed, PollA
             PROVE  Hit'
  OBVIOUS
<1>1. CASE /\ rd.pc = "a.detect"
           /\ \E x \in Send("REQA", "A", 0, None) : OnAir(x, DetectA(rd, x))
  BY <1>1, DetectAIsFine, OnAirHits DEF Real
<1>2. CASE /\ rd.pc = "a.anticoll"
           /\ \E x \in Send("ANTICOLL", "A", rd.lvl, rd.uid) : OnAir(x, Anticollision(rd, x))
  BY <1>2, AnticollisionIsFine, OnAirHits
<1>3. CASE /\ rd.pc = "a.select"
           /\ \E x \in Send("SELECT", "A", rd.lvl, rd.uid) : OnAir(x, Select(rd, x))
  BY <1>3, SelectIsFine, OnAirHits
<1>4. CASE /\ rd.pc = "a.halt"
           /\ \E x \in Send("HLTA", "A", 0, None) : OnAir(x, HaltA(rd, x))
  BY <1>4, HaltAIsFine, OnAirHits
<1>5. CASE /\ rd.pc = "a.req"
           /\ \E x \in Send("REQA", "A", 0, None) : OnAir(x, RequestA(rd, x))
  BY <1>5, HaltAIsFine, OnAirHits
<1> QED
  BY <1>1, <1>2, <1>3, <1>4, <1>5 DEF PollA

LEMMA CardActivationAHits == OwnIdentifiers(Worlds) /\ Bounded /\ Real /\ Aimed /\ CardActivationA => Hit'
<1> SUFFICES ASSUME OwnIdentifiers(Worlds), Bounded, Real, Aimed, CardActivationA
             PROVE  Hit'
  OBVIOUS
<1>1. CASE /\ rd.pc = "aa.wake"
           /\ \E x \in Send(IF rd.given = <<>> THEN "REQA" ELSE "WUPA", "A", 0, None) : OnAir(x, WakeUp(rd, x))
  BY <1>1, WakeUpIsFine, OnAirHits
<1>2. CASE /\ rd.pc = "aa.anticoll"
           /\ \E x \in Send("ANTICOLL", "A", rd.lvl, rd.uid) : OnAir(x, AnticollisionOf(rd, x))
  BY <1>2, AnticollisionOfIsFine, OnAirHits
<1>3. CASE /\ rd.pc = "aa.select"
           /\ \E x \in Send("SELECT", "A", rd.lvl, rd.uid) : OnAir(x, SelectOf(rd, x))
  BY <1>3, SelectOfIsFine, OnAirHits
<1> QED
  BY <1>1, <1>2, <1>3 DEF CardActivationA

LEMMA ProtocolActivationAHits ==
  ASSUME OneOfLayer4(Worlds) \/ \A c \in Configs : c.rate = Lowest, Bounded, Real, Aimed, ProtocolActivationA
  PROVE  Hit'
<1>1. CASE /\ rd.pc = "a.rats"
           /\ \E x \in Send("RATS", "A", 0, None) : OnAir(x, Rats(rd, x))
  BY <1>1, RatsIsFine, OnAirHits
<1>2. CASE /\ rd.pc = "a.deselect"
           /\ \E x \in Send("DESELECT", "A", 0, None) : OnAir(x, Deselect(rd, x))
  BY <1>2, DeselectIsFine, OnAirHits
<1>3. CASE /\ rd.pc = "a.hlta"
           /\ \E x \in Send("HLTA", "A", 0, None) : OnAir(x, Peer(rd, rd.first))
  BY <1>3, FailedIsFine, OnAirHits
<1>4. CASE /\ rd.pc = "a.pps"
           /\ \E x \in Send("PPS", "A", 0, rd.cfg.rate) : OnAir(x, Pps(rd, x))
  BY <1>4, PpsIsFine, OnAirHits
<1>5. CASE /\ rd.pc = "a.atr"
           /\ \E x \in Send("ATR", "A", 0, None) : OnAir(x, DoneA(rd, x.status))
  BY <1>5, AtrAIsFine, OnAirHits
<1> QED
  BY <1>1, <1>2, <1>3, <1>4, <1>5 DEF ProtocolActivationA

LEMMA PollBHits ==
  ASSUME OneOfTypeB(Worlds), Bounded, Real, Aimed, PollB
  PROVE  Hit'
<1> DEFINE s == [rd EXCEPT !.answered = None]
           t == [rd EXCEPT !.slot = @ + 1]
<1>1. IsReader(rd) /\ Remembers(rd, world) /\ world \in Worlds
  BY DEF Bounded, IsCall, Aimed, Aims, Real
<1>2. rd.pc \in PlacesB => AimsB(rd, world)
  BY DEF Aimed, Aims
<1>3. Agrees(s, rd) /\ s.pc = rd.pc /\ s.first = rd.first /\ Agrees(t, rd) /\ t.pc = rd.pc /\ t.first = rd.first
  BY <1>1, ZenonT(30) DEF IsReader, Fields, Agrees
<1> HIDE DEF s, t
<1>4. IsReader(s) /\ Remembers(s, world) /\ IsReader(t) /\ Remembers(t, world)
  BY <1>1, <1>3, AgreementRemembers DEF Agrees
<1>5. rd.pc \in PlacesB \ {"bb.attrib"} => AimsB(s, world) /\ AimsB(t, world)
  BY <1>2, <1>3, AgreementRemembers DEF AimsB, Agrees
<1>6. CASE rd.pc = "b.req"
  <2>1. PICK x \in SendB("REQB") : OnAir(x, DetectB(s, x))
    BY <1>6 DEF PollB, s
  <2>2. Ok(x) => x.data \in CardsB(world)
    <3> DEFINE cmd == Command("REQB", "B", 0, None)
    <3>1. cmd.tech = "B" /\ cmd.name = "REQB" /\ x \in Exchanges(cmd, 2 ^ rd.cfg.slots)
      BY <2>1 DEF SendB, Command
    <3> HIDE DEF cmd
    <3> QED
      BY <3>1, AnswersOfB
  <2>3. Free(s, world)
    <3>1. rd.op = "start" /\ rd.target = None
      BY <1>6 DEF Bounded, WellPlaced, Polling, Aimed, Aims
    <3> QED
      BY <1>3, <1>4, <3>1 DEF Free, Agrees
  <2> QED
    BY <1>3, <1>6, <2>1, <2>2, <2>3, DetectBIsFine, OnAirHits
<1>7. CASE rd.pc = "bb.req"
  <2>1. PICK x \in SendB(IF Directly(rd) THEN "REQB" ELSE "WUPB") : OnAir(x, TakeSlot(s, x))
    BY <1>7 DEF PollB, s
  <2>2. Ok(x) => x.data \in CardsB(world)
    <3> DEFINE cmd == Command(IF Directly(rd) THEN "REQB" ELSE "WUPB", "B", 0, None)
    <3>1. cmd.tech = "B" /\ cmd.name \in {"REQB", "WUPB"} /\ x \in Exchanges(cmd, 2 ^ rd.cfg.slots)
      BY <2>1 DEF SendB, Command
    <3> HIDE DEF cmd
    <3> QED
      BY <3>1, AnswersOfB
  <2> QED
    BY <1>1, <1>3, <1>4, <1>5, <1>7, <2>1, <2>2, TakeSlotIsFine, OnAirHits DEF PlacesB
<1>8. CASE rd.pc = "bb.slot"
  <2>1. PICK x \in Send("SLOT", "B", 0, rd.slot) : OnAir(x, TakeSlot(t, x))
    BY <1>8 DEF PollB, SlotMarker, t
  <2>2. Ok(x) => x.data \in CardsB(world)
    <3> DEFINE cmd == Command("SLOT", "B", 0, rd.slot)
    <3>1. cmd.tech = "B" /\ cmd.name = "SLOT" /\ x \in Exchanges(cmd, 1)
      BY <2>1 DEF Send, Command
    <3> HIDE DEF cmd
    <3> QED
      BY <3>1, AnswersOfB
  <2> QED
    BY <1>1, <1>3, <1>4, <1>5, <1>8, <2>1, <2>2, TakeSlotIsFine, OnAirHits DEF PlacesB
<1>9. CASE rd.pc = "bb.attrib"
  <2> DEFINE rate == DecideBaudRate(rd.answered, rd.cfg.rate)
             arg == [pupi |-> rd.answered, rate |-> rate]
             cmd == Command("ATTRIB", "B", 0, arg)
  <2>1. PICK x \in Send("ATTRIB", "B", 0, arg) : OnAir(x, Attrib(rd, x))
    BY <1>9 DEF PollB
  <2> HIDE DEF rate
  <2>2. cmd.tech = "B" /\ cmd.name = "ATTRIB" /\ x \in Exchanges(cmd, 1) /\ cmd.arg.pupi = rd.answered /\ cmd.arg.rate = rate
    BY <2>1 DEF Send, Command
  <2> HIDE DEF cmd
  <2>3. Ok(x) => /\ rd.answered \in Card
                 /\ x.cards[rd.answered].st = "layer4" /\ x.cards[rd.answered].rate = rate
    BY <2>2, AnswersOfB
  <2> QED
    BY <1>1, <1>2, <1>9, <2>1, <2>3, AttribIsFine, OnAirHits DEF PlacesB, rate
<1> QED
  BY <1>6, <1>7, <1>8, <1>9 DEF PollB

LEMMA PollFHits == Bounded /\ Aimed /\ (PollF \/ ActivePoll) => Hit'
<1> SUFFICES ASSUME Bounded, Aimed, PollF \/ ActivePoll
             PROVE  Hit'
  OBVIOUS
<1>1. rd.pc \in {"f.reqc", "f.atr"} => Free(rd, world)
  BY DEF Bounded, IsCall, WellPlaced, Polling, Aimed, Aims, Free
<1>2. CASE ActivePoll
  BY <1>2, ActiveAtrIsFine, OnAirHits DEF ActivePoll
<1>3. CASE PollF
  BY <1>1, <1>3, PollFIsFine, OnAirHits DEF PollF
<1> QED
  BY <1>2, <1>3

LEMMA NextLoopHits == Bounded /\ Aimed /\ (NextLoop \/ Listen) => Hit'
<1> SUFFICES ASSUME Bounded, Aimed, NextLoop \/ Listen
             PROVE  Hit'
  OBVIOUS
<1>1. Free(rd, world) /\ (rd.pc = "loop" => rd.n.A # 1)
  BY DEF NextLoop, Listen, Bounded, IsCall, WellPlaced, Polling, Aimed, Aims, Gathers, Remembers, Free
<1>2. CASE NextLoop
  <2>1. rd' = BeginLoop(rd) /\ rd.pc = "loop" /\ cards' = cards /\ world' = world
    BY <1>2 DEF NextLoop
  <2>2. Fine(cards, BeginLoop(rd), world)
    BY <1>1, <2>1, BeginLoopIsFine
  <2> QED
    BY <2>1, <2>2 DEF Hit
<1>3. CASE Listen
  <2> DEFINE s == [rd EXCEPT !.field = FALSE]
  <2>1. rd' = Return(s, "SUCCESS") /\ world' = world
    BY <1>3 DEF Listen
  <2>2. Agrees(s, rd)
    BY <1>1, ZenonT(30) DEF Free, IsReader, Fields, Agrees
  <2> HIDE DEF s
  <2>3. Free(s, world)
    BY <1>1, <2>2, AgreementRemembers
  <2>4. Fine(cards', rd', world)
    BY <2>1, <2>3, FreeReturns
  <2> QED
    BY <2>1, <2>4 DEF Hit
<1> QED
  BY <1>2, <1>3

LEMMA CallHits == Bounded /\ Real /\ Aimed /\ (Start \/ ActivateCard \/ ActivateAnyA) => Hit'
<1> SUFFICES ASSUME Bounded, Real, Aimed, Start \/ ActivateCard \/ ActivateAnyA
             PROVE  Hit'
  OBVIOUS
<1>1. IsReader(rd) /\ Remembers(rd, world) /\ world \in Worlds
  BY DEF Bounded, IsCall, Real, Aimed, Aims
<1>2. cards' = cards /\ world' = world
  BY DEF Start, ActivateCard, ActivateAnyA, Call
<1>3. CASE Start
  <2>1. Fine(cards, rd', world)
    BY <1>1, <1>3, BeginIsFine DEF Start
  <2> QED
    BY <1>2, <2>1 DEF Hit
<1>4. CASE ActivateCard
  <2> DEFINE s == [rd EXCEPT !.op = "activate"]
  <2>1. /\ IsReader(s) /\ s.op = "activate" /\ s.target = rd.target /\ s.cfg = rd.cfg /\ s.tags = rd.tags
        /\ s.n = rd.n /\ s.uids = rd.uids /\ s.pupi = rd.pupi
    BY <1>1 DEF IsReader, Fields
  <2>2. \/ \E i \in 1 .. rd.n.A : rd' = ActivateA(s, i)
        \/ rd.n.B = 1 /\ rd' = ActivateB(s)
    BY <1>4 DEF ActivateCard
  <2> HIDE DEF s
  <2>3. Directly(s) <=> Directly(rd)
    BY <2>1 DEF Directly, Bails
  <2>4. Remembers(s, world)
    BY <1>1, <2>1, <2>3 DEF Remembers
  <2>5. CASE \E i \in 1 .. rd.n.A : rd' = ActivateA(s, i)
    <3>1. Fine(cards, rd', world)
      BY <1>1, <2>1, <2>4, <2>5, ActivateAIsFine
    <3> QED
      BY <1>2, <3>1 DEF Hit
  <2>6. CASE rd.n.B = 1 /\ rd' = ActivateB(s)
    <3>1. Directly(s) \/ s.pupi \in CardsB(world)
      BY <2>1, <2>4, <2>6 DEF Remembers
    <3>2. Fine(cards, rd', world)
      BY <2>1, <2>4, <2>6, <3>1, ActivateBIsFine
    <3> QED
      BY <1>2, <3>2 DEF Hit
  <2> QED
    BY <2>2, <2>5, <2>6
<1>5. CASE ActivateAnyA
  <2> DEFINE s == [rd EXCEPT !.op = "p3a", !.target = AnyCard]
  <2>1. /\ IsReader(s) /\ s.op = "p3a" /\ s.target = AnyCard /\ s.cfg = rd.cfg /\ s.tags = rd.tags
        /\ s.n = rd.n /\ s.uids = rd.uids /\ s.pupi = rd.pupi
    BY <1>1, ZenonT(30) DEF IsReader, Fields
  <2>2. rd' = ActivateCardA(s, <<>>)
    BY <1>5 DEF ActivateAnyA
  <2> HIDE DEF s
  <2>3. Directly(s) <=> Directly(rd)
    BY <2>1 DEF Directly, Bails
  <2>4. Remembers(s, world)
    BY <1>1, <2>1, <2>3 DEF Remembers
  <2>5. Fine(cards, rd', world)
    BY <2>1, <2>2, <2>4, ActivateCardAIsFine
  <2> QED
    BY <1>2, <2>5 DEF Hit
<1> QED
  BY <1>3, <1>4, <1>5

LEMMA HitIsAimed == Hit' => Aimed'
<1> SUFFICES ASSUME Hit'
             PROVE  Aimed'
  OBVIOUS
<1> QED
  BY DEF Hit, Aimed, Fine

\* Whatever happens between two commands.
LEMMA DisturbanceAims == Bounded /\ Real /\ Aimed /\ (FieldReset \/ SetStop \/ Move) => Aimed'
<1> SUFFICES ASSUME Bounded, Real, Aimed, FieldReset \/ SetStop \/ Move
             PROVE  Aimed'
  OBVIOUS
<1>1. IsReader(rd) /\ Aims(cards, rd, world) /\ SoundCards(cards) /\ world' = world
  BY DEF Bounded, IsCall, Aimed, FieldReset, SetStop, Move
<1>2. ASSUME NEW s, rd' = s, s \in {[rd EXCEPT !.field = TRUE], [rd EXCEPT !.stop = TRUE]}
      PROVE  /\ Aims(cards, s, world)
             /\ Remembers(s, world) /\ s.pc = rd.pc
  <2>1. /\ Agrees(s, rd) /\ s.pc = rd.pc /\ s.answered = rd.answered /\ s.rate = rd.rate /\ s.first = rd.first
        /\ s.given = rd.given /\ s.at = rd.at /\ s.lvl = rd.lvl /\ s.uid = rd.uid
    BY <1>1, <1>2 DEF IsReader, Fields, Agrees
  <2>2. Aims(cards, s, world)
    BY <1>1, <2>1, SameAims
  <2> QED
    BY <2>1, <2>2 DEF Aims
<1>3. CASE FieldReset
  <2>1. rd.pc = "idle" /\ rd' = [rd EXCEPT !.field = TRUE]
    BY <1>3 DEF FieldReset
  <2>2. rd'.pc = "idle" /\ Remembers(rd', world)
    BY <1>2, <2>1
  <2>3. Aims(cards', rd', world)
    BY <2>2 DEF Aims, Gathers, InRounds, Polling, PlacesB, Selecting, Protocol
  <2> QED
    BY <1>1, <2>3 DEF Aimed
<1>4. CASE SetStop
  <2>1. cards' = cards /\ rd' = [rd EXCEPT !.stop = TRUE]
    BY <1>4 DEF SetStop
  <2>2. Aims(cards, rd', world)
    BY <1>2, <2>1
  <2> QED
    BY <1>1, <2>1, <2>2 DEF Aimed
<1>5. CASE Move
  <2>1. rd' = rd
    BY <1>5 DEF Move
  <2>2. PICK c \in world : cards' = [cards EXCEPT ![c] = IF @.st = "out" THEN Idle ELSE Away]
    BY <1>5 DEF Move
  <2> DEFINE n == [cards EXCEPT ![c] = IF @.st = "out" THEN Idle ELSE Away]
  <2>3. \A b \in Card : n[b] = cards[b] \/ (b = c /\ n[b] \in {Idle, Away})
    BY <1>1 DEF SoundCards, IsCards
  <2>4. Idle.st = "idle" /\ Away.st = "out"
    BY DEF Idle, Away
  <2> HIDE DEF n
  <2>5. ASSUME NEW p, Below(cards, p)
        PROVE  Below(n, p)
    BY <2>3, <2>4, <2>5 DEF Below, Near
  <2>6. ASSUME NEW d, Only(cards, d)
        PROVE  Only(n, d)
    BY <2>3, <2>4, <2>6 DEF Only, Near
  <2>7. ASSUME NEW d, Leads(cards, rd, d)
        PROVE  Leads(n, rd, d)
    BY <2>5, <2>7 DEF Leads
  <2>8. AimsA(cards, rd, world) => AimsA(n, rd, world)
    BY <2>7 DEF AimsA
  <2>9. Follows4(cards, rd, world) => Follows4(n, rd, world)
    BY <2>6 DEF Follows4
  <2>10. Aims(n, rd, world)
    BY <1>1, <2>8, <2>9 DEF Aims
  <2> QED
    BY <1>1, <2>1, <2>2, <2>10 DEF Aimed, n
<1> QED
  BY <1>3, <1>4, <1>5

LEMMA AimedInitially == Init => Aimed
<1> SUFFICES ASSUME Init
             PROVE  Aimed
  OBVIOUS
<1>1. rd = Reset
  BY DEF Init
<1>2. rd.pc = "idle" /\ rd.n = [A |-> 0, B |-> 0, F |-> 0]
  BY <1>1 DEF Reset
<1>3. Remembers(rd, world)
  BY <1>2 DEF Remembers
<1> QED
  BY <1>2, <1>3 DEF Aimed, Aims, Gathers, InRounds, Polling, PlacesB, Selecting, Protocol

\* A call that returns has hit.
LEMMA HitIsSelected ==
  Hit' => (ActivationReturned' /\ (rd'.op = "activate" /\ rd'.n.A > 0 => rd'.n.A = 1 /\ ~Bails(rd', "A"))
             => \E c \in Card : (IsTarget(c) /\ Ready(c))')
<1> SUFFICES ASSUME Hit', ActivationReturned', rd'.op = "activate" /\ rd'.n.A > 0 => rd'.n.A = 1 /\ ~Bails(rd', "A")
             PROVE  \E c \in Card : (IsTarget(c) /\ Ready(c))'
  OBVIOUS
<1>1. Fine(cards', rd', world')
  BY DEF Hit
<1>2. Meant(rd') /\ rd'.pc = "idle" /\ rd'.ret = "SUCCESS" /\ rd'.target # None
  BY DEF Meant, ActivationReturned
<1>3. PICK c \in Card : Meets(rd', c) /\ Serves(cards', rd', c)
  BY <1>1, <1>2 DEF Fine, Hits
<1>4. IsTarget(c)'
  BY <1>3 DEF Meets, IsTarget
<1>5. Ready(c)'
  BY <1>3 DEF Serves, Ready
<1> QED
  BY <1>4, <1>5

LEMMA RunningHits ==
  ASSUME OwnIdentifiers(Worlds), OneOfTypeB(Worlds), OneOfLayer4(Worlds) \/ \A c \in Configs : c.rate = Lowest,
         Bounded, Real, Aimed, Running
  PROVE  Hit'
  BY NextLoopHits, PollAHits, CardActivationAHits, ProtocolActivationAHits, PollBHits, PollFHits DEF Running

\* An activation that succeeds has activated the card that was meant, though
\* frames are lost and cards come and go between any two of its commands,
\* provided that no card about has the identifier of another and one is of
\* type B, and that one speaks ISO/IEC 14443-4 if higher bit rates are wanted.
THEOREM ActivatedIsSelectedCorrect ==
  ASSUME NoTwins(Worlds), OwnIdentifiers(Worlds), OneOfTypeB(Worlds),
         OneOfLayer4(Worlds) \/ \A c \in Configs : c.rate = Lowest
  PROVE  Spec => ActivatedIsSelected
<1> DEFINE Inv == Bounded /\ Real /\ Aimed
           Returned == rd'.op = "activate" /\ rd'.n.A > 0 => rd'.n.A = 1 /\ ~Bails(rd', "A")
           Activated == rd.pc # "idle" /\ ActivationReturned' /\ Returned => \E c \in Card : (IsTarget(c) /\ Ready(c))'
<1>1. Init => Inv
  BY BoundedInitially, RealInitially, AimedInitially
<1>2. Inv /\ [Next]_vars => Inv'
  <2>1. ASSUME Inv, UNCHANGED vars
        PROVE  Inv'
    <3>1. rd' = rd /\ cards' = cards /\ world' = world /\ calm' = calm
      BY <2>1 DEF vars
    <3>2. Aimed'
      BY <2>1, <3>1 DEF Aimed
    <3> QED
      BY <2>1, <3>2, UnchangedKeepsReal
  <2>2. ASSUME Inv, Next
        PROVE  Bounded' /\ Real'
    BY <2>2, NextKeepsReal
  <2>3. ASSUME Inv, Next
        PROVE  Aimed'
    BY <2>3, RunningHits, CallHits, HitIsAimed, DisturbanceAims DEF Next
  <2> QED
    BY <2>1, <2>2, <2>3
<1>3. Inv /\ [Next]_vars => [Activated]_vars
  <2>1. ASSUME Inv, Running
        PROVE  Activated
    BY <2>1, RunningHits, HitIsSelected
  <2>2. ASSUME Start \/ ActivateCard \/ ActivateAnyA \/ FieldReset
        PROVE  rd.pc = "idle"
    BY <2>2 DEF Start, ActivateCard, ActivateAnyA, FieldReset, Call
  <2>3. ASSUME Inv, SetStop \/ Move
        PROVE  rd'.pc = rd.pc
    BY <2>3 DEF SetStop, Move, Bounded, IsCall, IsReader, Fields
  <2>4. ASSUME ActivationReturned'
        PROVE  rd'.pc = "idle"
    BY <2>4 DEF ActivationReturned
  <2> QED
    BY <2>1, <2>2, <2>3, <2>4 DEF Next
<1>4. ActivatedIsSelected <=> [][Activated]_vars
  BY DEF ActivatedIsSelected
<1> QED
  BY <1>1, <1>2, <1>3, <1>4, PTL DEF Spec
=============================================================================
