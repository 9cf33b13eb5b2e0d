------------------------------ MODULE DiscLoop ------------------------------
(***************************************************************************)
(* Discovery: phacDiscLoop_Sw over the protocol abstraction layers of      *)
(* ISO/IEC 14443-3A, -3B, -4A and FeliCa.  The code runs in the caller's   *)
(* thread; control leaves it in phhalHw_Exchange only, so a step is one    *)
(* command on the air and what the code makes of its answer up to the next *)
(* one.  Meanwhile cards enter and leave the field, frames are lost, and a *)
(* callback or another thread may ask the loop to stop.                    *)
(***************************************************************************)
EXTENDS Cards

CONSTANTS
  Worlds,      \* the sets of cards that may be about
  Configs,     \* the configurations
  PollLimit,   \* bLoopLimit_B and bLoopLimit_F
  None,        \* no card, no identifier
  AnyCard,         \* whatever card answers
  MaxCalls, MaxEvents  \* bounds: calls; moves of cards, disturbed frames and stops

ASSUME WorldsAssumption == \A w \in Worlds : w \subseteq Card
ASSUME AnyAssumption == \A c \in Card : Kind[c].tech = "A" => Whole(c) # AnyCard
ASSUME LimitAssumption ==
  /\ PollLimit \in Nat \ {0} /\ Configs # {}
  /\ \A c \in Configs : c.limitA \in 1 .. 3 /\ c.loops \in 1 .. 32 /\ c.slots \in 0 .. 4

VARIABLES
  cards,   \* the cards
  rd,      \* the reader: parameters of the components and locals of the call
  world,   \* the cards about
  left,    \* what is left of the bounds
  calm     \* (ghost) the call polls, all cards were idle and nothing has disturbed it

vars == <<cards, rd, world, left, calm>>

\* pc: where the call waits for an answer; ret: its status; target: what it
\* activates.  tags: wTagsFound.  n, act: bTotalTagsFound and
\* bActivatedTagNumber of each technology; uids, pupi, idm: what was found.
\* round, uid, whole, more: locals of collision resolution; given, at: those of
\* the activation of type A; slot, first: of type B.  serial, complete,
\* answered: the parameters of ISO/IEC 14443-3A and B; rate: the reader's.  sent: (ghost) frames exchanged by the call.
Reset ==
  [pc |-> "idle", op |-> "none", ret |-> "SUCCESS", target |-> None, cfg |-> CHOOSE c \in Configs : TRUE,
   stop |-> FALSE, field |-> TRUE, listens |-> FALSE, loop |-> 0, tries |-> 0, tags |-> {},
   n |-> [A |-> 0, B |-> 0, F |-> 0], act |-> [A |-> 0, B |-> 0, F |-> 0],
   uids |-> <<>>, pupi |-> None, idm |-> None,
   round |-> 0, lvl |-> 0, uid |-> <<>>, whole |-> <<>>, more |-> FALSE, given |-> <<>>, at |-> 0,
   slot |-> 0, first |-> "SUCCESS",
   serial |-> <<>>, complete |-> FALSE, answered |-> None, rate |-> <<0, 0>>, sent |-> 0]

Lowest == <<0, 0>>
Polls(r, t) == t \in r.cfg.poll
Bails(r, t) == t \in r.cfg.bail
Ok(x) == x.status = "SUCCESS"

\* A call returns; locals of calls do not outlive it.
Return(r, status) ==
  [r EXCEPT !.pc = "idle", !.ret = status, !.loop = 0, !.tries = 0, !.round = 0, !.lvl = 0, !.uid = <<>>,
            !.whole = <<>>, !.more = FALSE, !.given = <<>>, !.at = 0, !.slot = 0, !.first = "SUCCESS",
            !.listens = FALSE, !.sent = 0]

-----------------------------------------------------------------------------
(* The end of a poll loop, and type F. *)

AfterLoops(r) == IF r.listens THEN [r EXCEPT !.pc = "listen"] ELSE Return(r, "SUCCESS")

EndOfLoop(r) ==
  IF r.tags # {} THEN Return(r, "SUCCESS")
  ELSE IF r.loop > 1 THEN [r EXCEPT !.pc = "loop", !.loop = @ - 1]
  ELSE AfterLoops(r)

PhaseF(r) ==
  CASE ~Polls(r, "F") -> EndOfLoop(r)
    [] Polls(r, "F") /\ r.stop -> Return(r, "SUCCESS")
    [] OTHER -> [r EXCEPT !.pc = "f.reqc", !.tries = PollLimit, !.n.F = 0, !.rate = Lowest]

\* bActivatedTagNumber_F counts a detection that found nothing too.
DetectF(r, x) ==
  LET peer == Ok(x) /\ Kind[x.data].plat = "P2P"
      found == [r EXCEPT !.act.F = @ + 1, !.n.F = 1, !.idm = x.data,
                         !.tags = @ \cup {"F"} \cup (IF peer THEN {"F P2P"} ELSE {"T3T"})] IN
  CASE Ok(x) /\ peer -> [found EXCEPT !.pc = "f.atr"]
    [] Ok(x) /\ ~peer -> EndOfLoop(found)
    [] ~Ok(x) /\ r.tries > 1 -> [r EXCEPT !.tries = @ - 1]
    [] OTHER -> EndOfLoop([r EXCEPT !.act.F = @ + 1])

AtrF(r, x) == IF Ok(x) THEN EndOfLoop(r) ELSE Return([r EXCEPT !.act.F = @ - 1], x.status)

-----------------------------------------------------------------------------
(* Type B. *)

\* The answers the layer has checked last: the PUPI it would halt.
CheckATQB(r, x) == [r EXCEPT !.answered = IF Ok(x) THEN x.data ELSE @]

Highest(rates, wanted) ==
  CHOOSE n \in {0} \cup rates : n <= wanted /\ \A k \in rates : k <= wanted => k <= n

\* <<bDri, bDsi>>: the bit rates to and from the card.
DecideBaudRate(c, wanted) ==
  LET least == IF wanted[1] < wanted[2] THEN wanted[1] ELSE wanted[2]
      both == Highest(Kind[c].rates.dr \cap Kind[c].rates.ds, least) IN
  CASE Kind[c].rates.low -> Lowest
    [] ~Kind[c].rates.low /\ Kind[c].rates.symmetric /\ wanted[1] # wanted[2] -> <<both, both>>
    [] OTHER -> <<Highest(Kind[c].rates.dr, wanted[1]), Highest(Kind[c].rates.ds, wanted[2])>>

\* Activation without a detection of its own: whatever answers is taken.
Directly(r) == Bails(r, "B") /\ r.cfg.limitB = 1

ActivateB(r) ==
  [r EXCEPT !.pc = "bb.req", !.slot = 2, !.first = "IO_TIMEOUT", !.rate = Lowest,
            !.target = IF Directly(r) THEN AnyCard ELSE r.pupi]

ActivatedB(r, status) ==
  CASE r.op # "start" -> Return(r, status)
    [] r.op = "start" /\ Directly(r) /\ status = "SUCCESS" ->
         Return([r EXCEPT !.tags = @ \cup {"B"}, !.n.B = @ + 1, !.act.B = @ + 1], status)
    [] r.op = "start" /\ Directly(r) /\ status # "SUCCESS" -> PhaseF([r EXCEPT !.target = None])
    [] OTHER -> Return(r, status)

\* bNumSlots counts by powers of two.
Slots(r) == IF r.cfg.slots = 0 THEN 0 ELSE <<2, 4, 8, 16>>[r.cfg.slots]

\* What phpalI14443p3b_ActivateCard makes of the answer in a slot.  The status
\* it returns when no slot brought the card it looks for is that of the first
\* slot in which something happened.
TakeSlot(r, x) ==
  LET first == IF r.first = "IO_TIMEOUT" THEN x.status ELSE r.first
      hit == Ok(x) /\ (Directly(r) \/ x.data = r.pupi)
      s == CheckATQB(r, x) IN
  CASE hit -> [s EXCEPT !.pc = "bb.attrib", !.first = first]
    [] ~hit /\ r.slot > Slots(r) -> ActivatedB(s, first)
    [] OTHER -> [s EXCEPT !.pc = "bb.slot", !.first = first]

SlotMarker(r, x) == TakeSlot([r EXCEPT !.slot = @ + 1], x)

(* (mutant) The status of ATTRIB is not looked at. *)
AttribUnchecked(r, x) == ActivatedB([r EXCEPT !.rate = DecideBaudRate(r.answered, r.cfg.rate)], "SUCCESS")

Attrib(r, x) ==
  IF Ok(x) THEN ActivatedB([r EXCEPT !.rate = DecideBaudRate(r.answered, r.cfg.rate)], "SUCCESS")
  ELSE ActivatedB([r EXCEPT !.answered = None], x.status)

\* A tag was found: activated when the loop is to bail out.
DetectedB(r) ==
  CASE r.stop -> Return(r, "SUCCESS")
    [] ~r.stop /\ Bails(r, "B") -> ActivateB(r)
    [] OTHER -> PhaseF(r)

\* phpalI14443p3b's status carries its component, so that a collision
\* (INTEGRITY_ERROR) is no different from silence.
DetectB(r, x) ==
  LET s == CheckATQB(r, x) IN
  CASE Ok(x) -> DetectedB([s EXCEPT !.n.B = 1, !.pupi = x.data, !.tags = @ \cup {"B"}])
    [] ~Ok(x) /\ r.tries > 1 -> [s EXCEPT !.tries = @ - 1]
    [] OTHER -> PhaseF(s)

PhaseB(r) ==
  CASE ~Polls(r, "B") -> PhaseF(r)
    [] Polls(r, "B") /\ r.stop -> Return(r, "SUCCESS")
    [] Polls(r, "B") /\ ~r.stop /\ Directly(r) -> ActivateB(r)
    [] OTHER -> [r EXCEPT !.pc = "b.req", !.tries = PollLimit, !.n.B = 0, !.tags = @ \ {"B"}, !.rate = Lowest]

-----------------------------------------------------------------------------
(* Type A: the activation of a tag. *)

ActivatedA(r, status) == Return(r, status)

DoneA(r, status) == ActivatedA([r EXCEPT !.act.A = @ + 1], status)

Peer(r, status) == IF "P2P" \in r.tags THEN [r EXCEPT !.pc = "a.atr"] ELSE DoneA(r, status)

\* The kind of the tag is taken from wTagsFound, which is of all tags.
Layer4(r) == IF "T4A" \in r.tags THEN [r EXCEPT !.pc = "a.rats"] ELSE Peer(r, "SUCCESS")

Rats(r, x) ==
  CASE Ok(x) /\ r.cfg.rate = Lowest -> Peer(r, "SUCCESS")
    [] Ok(x) /\ r.cfg.rate # Lowest -> [r EXCEPT !.pc = "a.pps"]
    [] OTHER -> [r EXCEPT !.pc = "a.deselect", !.first = x.status]

Deselect(r, x) == IF Ok(x) THEN Peer(r, r.first) ELSE [r EXCEPT !.pc = "a.hlta"]

Pps(r, x) == IF Ok(x) THEN Peer([r EXCEPT !.rate = r.cfg.rate], "SUCCESS") ELSE Peer(r, x.status)

(* (mutant) Anticollision does not choose a value for the bit that collided. *)
AfterCollisionUndecided(x) == x.data

\* phpalI14443p3a_Anticollision: the bits known after a collision, with a
\* further one for the cards that sent 0 in it.
AfterCollision(x) == x.data \o <<0>>

\* It forgets the identifier of a card selected before, Select adds a part.
Forget(r) == [r EXCEPT !.complete = FALSE, !.serial = IF r.lvl = 1 THEN <<>> ELSE @]
Selected(r, x) ==
  IF ~Ok(x) THEN Forget(r)
  ELSE LET s == Forget(r) IN
       [s EXCEPT !.complete = ~x.data.cascade, !.serial = @ \o (IF x.data.cascade THEN Tail(r.uid) ELSE r.uid)]

CardA(r, status) == IF r.op = "p3a" \/ status # "SUCCESS" THEN Return(r, status) ELSE Layer4(r)

\* phpalI14443p3a_ActivateCard at a cascade level: the part of the identifier
\* it was given, or anticollision.
Level(r) ==
  CASE Len(r.given) = r.at + PartLen ->
         [r EXCEPT !.pc = "aa.select", !.uid = SubSeq(r.given, r.at + 1, r.at + PartLen)]
    [] Len(r.given) > r.at + PartLen ->
         [r EXCEPT !.pc = "aa.select", !.uid = <<1>> \o SubSeq(r.given, r.at + 1, r.at + PartLen - 1), !.at = @ + PartLen - 1]
    [] OTHER -> [r EXCEPT !.pc = "aa.anticoll", !.uid = <<>>]

WakeUp(r, x) ==
  IF x.status \in {"SUCCESS", "COLLISION_ERROR"} THEN Level([r EXCEPT !.lvl = 1]) ELSE CardA(r, x.status)

AnticollisionOf(r, x) ==
  CASE Ok(x) -> [Forget(r) EXCEPT !.pc = "aa.select", !.uid = x.data]
    [] x.status = "COLLISION_ERROR" ->
         [Forget(r) EXCEPT !.uid = AfterCollision(x), !.pc = IF Len(x.data) + 1 = PartLen THEN "aa.select" ELSE @]
    [] OTHER -> CardA(Forget(r), x.status)

SelectOf(r, x) ==
  LET s == Selected(r, x) IN
  IF Ok(x) /\ x.data.cascade THEN Level([s EXCEPT !.lvl = @ + 1]) ELSE CardA(s, x.status)

Lengths == {0, PartLen, 2 * PartLen - 1, 3 * PartLen - 2}

ActivateCardA(r, uid) ==
  IF Len(uid) \notin Lengths THEN CardA(r, "INVALID_PARAMETER")
  ELSE [r EXCEPT !.pc = "aa.wake", !.rate = Lowest, !.given = uid, !.at = 0]

\* Only a tag that is the only one is selected again.
ActivateA(r, i) ==
  LET s == [r EXCEPT !.target = r.uids[i]] IN
  IF ~Bails(r, "A") /\ r.n.A = 1 THEN ActivateCardA(s, r.uids[i]) ELSE Layer4(s)

-----------------------------------------------------------------------------
(* Type A: detection and collision resolution. *)

BailedA(r) == IF Bails(r, "A") THEN Return(r, "SUCCESS") ELSE PhaseB(r)

Resolved(r) ==
  LET s == [r EXCEPT !.n.A = Len(r.uids)] IN
  CASE Len(r.uids) = 1 /\ Bails(r, "A") /\ r.stop -> Return(s, "SUCCESS")
    [] Len(r.uids) = 1 /\ Bails(r, "A") /\ ~r.stop -> ActivateA(s, 1)
    [] OTHER -> BailedA(s)

Round(r) ==
  IF r.round < r.cfg.limitA
  THEN [r EXCEPT !.pc = "a.anticoll", !.lvl = 1, !.uid = <<>>, !.whole = <<>>, !.more = FALSE]
  ELSE Resolved(r)

NextRound(r) == Round([r EXCEPT !.round = @ + 1])

\* After a collision in the last bit of a part Select follows at once: the
\* part does not get into the identifier that is recorded.
Anticollision(r, x) ==
  CASE Ok(x) -> [Forget(r) EXCEPT !.pc = "a.select", !.uid = x.data, !.whole = @ \o x.data]
    [] x.status = "COLLISION_ERROR" ->
         [Forget(r) EXCEPT !.more = TRUE, !.uid = AfterCollision(x),
                           !.pc = IF Len(x.data) + 1 = PartLen THEN "a.select" ELSE @]
    [] OTHER -> NextRound(Forget(r))

(* (mutant) The cascade tag is recorded with the identifier. *)
RecordedWithTag(r) == r.whole

\* The identifier recorded has no cascade tag.
Recorded(r) == IF r.lvl = 1 THEN r.whole ELSE SubSeq(r.whole, 2, Len(r.whole))

Select(r, x) ==
  LET s == Selected(r, x)
      found == [s EXCEPT !.tags = @ \cup {x.data.plat}, !.uids = Append(@, Recorded(r))] IN
  CASE ~Ok(x) -> Return(s, x.status)
    [] Ok(x) /\ x.data.cascade -> [s EXCEPT !.pc = "a.anticoll", !.lvl = @ + 1, !.uid = <<>>]
    [] Ok(x) /\ ~x.data.cascade /\ r.more /\ ~Bails(r, "A") -> [found EXCEPT !.pc = "a.halt"]
    [] OTHER -> Resolved(found)

(* (mutant) The cards that are left are not requested again. *)
HaltAOnly(r, x) == IF x.status = "IO_TIMEOUT" THEN NextRound(r) ELSE Return(r, "PROTOCOL_ERROR")

\* HLTA has no answer; an answer is an error.
HaltA(r, x) == IF x.status = "IO_TIMEOUT" THEN [r EXCEPT !.pc = "a.req"] ELSE Return(r, "PROTOCOL_ERROR")

RequestA(r, x) == IF Ok(x) THEN NextRound(r) ELSE Return(r, x.status)

\* Errors of detection are not reported: the check of its status is always
\* false.  bLoopLimit_A has no effect, for IO_TIMEOUT is looked for without
\* PH_ERR_MASK.
DetectA(r, x) ==
  CASE x.status \notin {"SUCCESS", "COLLISION_ERROR"} -> PhaseB(r)
    [] x.status \in {"SUCCESS", "COLLISION_ERROR"} /\ r.cfg.noColl -> BailedA([r EXCEPT !.tags = @ \cup {"A"}])
    [] OTHER -> Round([r EXCEPT !.tags = @ \cup {"A"}, !.round = 0, !.uids = <<>>])

PhaseA(r) ==
  LET s == [r EXCEPT !.field = TRUE, !.rate = Lowest] IN
  CASE ~Polls(r, "A") -> PhaseB(r)
    [] Polls(r, "A") /\ r.stop -> Return(s, "SUCCESS")
    [] OTHER -> [s EXCEPT !.pc = "a.detect", !.n.A = 0]

-----------------------------------------------------------------------------
(* The loop. *)

\* The counter is one of type F unless the rate is 106 kBit/s; it has 8 bits.
ActiveTech(r) == IF r.cfg.active106 THEN "A" ELSE "F"
ActiveAtr(r, x) ==
  LET t == ActiveTech(r) IN
  IF Ok(x) THEN Return([r EXCEPT !.tags = @ \cup {t, IF t = "A" THEN "P2P" ELSE "F P2P"}], "SUCCESS")
  ELSE PhaseA([r EXCEPT !.act[t] = (@ + 255) % 256])

BeginLoop(r) == LET s == [r EXCEPT !.tags = {}] IN
                IF Polls(r, "active") THEN [s EXCEPT !.pc = "active"] ELSE PhaseA(s)

\* ext: what the reader says of the field of another device.
Begin(r, cfg, ext) ==
  LET s == [r EXCEPT !.op = "start", !.cfg = cfg, !.target = None, !.tags = {}, !.loop = cfg.loops,
                     !.n = [A |-> 0, B |-> 0, F |-> 0], !.act = [A |-> 0, B |-> 0, F |-> 0],
                     !.uids = <<>>, !.listens = cfg.mode # "poll pause" /\ ext # "unsupported"] IN
  IF cfg.mode # "listen" /\ ext # "on" THEN BeginLoop(s) ELSE AfterLoops(s)

-----------------------------------------------------------------------------
(* Steps. *)

Init ==
  /\ world \in Worlds
  /\ \E in \in SUBSET world : cards = [c \in Card |-> IF c \in in THEN Idle ELSE Away]
  /\ rd = Reset
  /\ left = [calls |-> MaxCalls, events |-> MaxEvents]
  /\ calm = FALSE

Silence == [cards |-> cards, status |-> "IO_TIMEOUT", data |-> <<>>, faults |-> 0]
Exchanges(cmd, slots) ==
  IF rd.field THEN {x \in Outcomes(cards, cmd, slots) : x.faults <= left.events} ELSE {Silence}

\* A command goes out, x comes of it and leaves the reader as r.
OnAir(x, r) ==
  /\ rd' = [r EXCEPT !.sent = IF r.pc = "idle" THEN 0 ELSE @ + 1]
  /\ cards' = x.cards
  /\ left' = [left EXCEPT !.events = @ - x.faults]
  /\ calm' = (calm /\ x.faults = 0)
  /\ UNCHANGED world

Send(name, tech, lvl, arg) == Exchanges(Command(name, tech, lvl, arg), 1)
SendB(name) == Exchanges(Command(name, "B", 0, None), 2 ^ rd.cfg.slots)

ActivePoll ==
  /\ rd.pc = "active"
  /\ \E x \in Send("ATR", "N", 0, None) : OnAir(x, ActiveAtr(rd, x))

PollA ==
  \/ /\ rd.pc = "a.detect"
     /\ \E x \in Send("REQA", "A", 0, None) : OnAir(x, DetectA(rd, x))
  \/ /\ rd.pc = "a.anticoll"
     /\ \E x \in Send("ANTICOLL", "A", rd.lvl, rd.uid) : OnAir(x, Anticollision(rd, x))
  \/ /\ rd.pc = "a.select"
     /\ \E x \in Send("SELECT", "A", rd.lvl, rd.uid) : OnAir(x, Select(rd, x))
  \/ /\ rd.pc = "a.halt"
     /\ \E x \in Send("HLTA", "A", 0, None) : OnAir(x, HaltA(rd, x))
  \/ /\ rd.pc = "a.req"
     /\ \E x \in Send("REQA", "A", 0, None) : OnAir(x, RequestA(rd, x))

CardActivationA ==
  \/ /\ rd.pc = "aa.wake"
     /\ \E x \in Send(IF rd.given = <<>> THEN "REQA" ELSE "WUPA", "A", 0, None) : OnAir(x, WakeUp(rd, x))
  \/ /\ rd.pc = "aa.anticoll"
     /\ \E x \in Send("ANTICOLL", "A", rd.lvl, rd.uid) : OnAir(x, AnticollisionOf(rd, x))
  \/ /\ rd.pc = "aa.select"
     /\ \E x \in Send("SELECT", "A", rd.lvl, rd.uid) : OnAir(x, SelectOf(rd, x))

ProtocolActivationA ==
  \/ /\ rd.pc = "a.rats"
     /\ \E x \in Send("RATS", "A", 0, None) : OnAir(x, Rats(rd, x))
  \/ /\ rd.pc = "a.deselect"
     /\ \E x \in Send("DESELECT", "A", 0, None) : OnAir(x, Deselect(rd, x))
  \/ /\ rd.pc = "a.hlta"
     /\ \E x \in Send("HLTA", "A", 0, None) : OnAir(x, Peer(rd, rd.first))
  \/ /\ rd.pc = "a.pps"
     /\ \E x \in Send("PPS", "A", 0, rd.cfg.rate) : OnAir(x, Pps(rd, x))
  \/ /\ rd.pc = "a.atr"
     /\ \E x \in Send("ATR", "A", 0, None) : OnAir(x, DoneA(rd, x.status))

PollB ==
  \/ /\ rd.pc = "b.req"
     /\ \E x \in SendB("REQB") : OnAir(x, DetectB([rd EXCEPT !.answered = None], x))
  \/ /\ rd.pc = "bb.req"
     /\ \E x \in SendB(IF Directly(rd) THEN "REQB" ELSE "WUPB") : OnAir(x, TakeSlot([rd EXCEPT !.answered = None], x))
  \/ /\ rd.pc = "bb.slot"
     /\ \E x \in Send("SLOT", "B", 0, rd.slot) : OnAir(x, SlotMarker(rd, x))
  \/ /\ rd.pc = "bb.attrib"
     /\ LET rate == DecideBaudRate(rd.answered, rd.cfg.rate) IN
        \E x \in Send("ATTRIB", "B", 0, [pupi |-> rd.answered, rate |-> rate]) : OnAir(x, Attrib(rd, x))

PollF ==
  \/ /\ rd.pc = "f.reqc"
     /\ \E x \in Send("REQC", "F", 0, None) : OnAir(x, DetectF(rd, x))
  \/ /\ rd.pc = "f.atr"
     /\ \E x \in Send("ATR", "F", 0, None) : OnAir(x, AtrF(rd, x))

\* The next poll loop, after a guard time.
NextLoop ==
  /\ rd.pc = "loop" /\ rd' = BeginLoop(rd)
  /\ UNCHANGED <<cards, world, left, calm>>

\* The reader's own field is off while it listens, and stays off; what
\* phpalI18092mT_Listen returns is not looked at.
Listen ==
  /\ rd.pc = "listen" /\ rd' = Return([rd EXCEPT !.field = FALSE], "SUCCESS")
  /\ cards' = Unpowered(cards)
  /\ UNCHANGED <<world, left, calm>>

Running == NextLoop \/ Listen \/ ActivePoll \/ PollA \/ CardActivationA \/ ProtocolActivationA \/ PollB \/ PollF

-----------------------------------------------------------------------------
(* What the application does, and the cards. *)

Call ==
  /\ rd.pc = "idle" /\ left.calls > 0
  /\ left' = [left EXCEPT !.calls = @ - 1]
  /\ UNCHANGED <<cards, world>>

Present == {c \in Card : cards[c].st # "out"}

Start ==
  /\ Call
  /\ \E cfg \in Configs, ext \in {"off", "on", "unsupported"} :
       /\ rd' = Begin(rd, cfg, ext)
       /\ calm' = /\ ~rd.stop /\ \A c \in Present : cards[c] = Idle
                  /\ cfg.mode # "listen" /\ ext # "on" /\ (rd.field \/ "A" \in cfg.poll)

\* phacDiscLoop_ActivateCard of a tag that was found.
ActivateCard ==
  /\ Call /\ UNCHANGED calm
  /\ LET s == [rd EXCEPT !.op = "activate"] IN
     \/ \E i \in 1 .. rd.n.A : rd' = ActivateA(s, i)
     \/ rd.n.B = 1 /\ rd' = ActivateB(s)

\* phpalI14443p3a_ActivateCard of any card.
ActivateAnyA ==
  /\ Call /\ UNCHANGED calm
  /\ rd' = ActivateCardA([rd EXCEPT !.op = "p3a", !.target = AnyCard], <<>>)

\* phhalHw_FieldReset: cards lose their state.
FieldReset ==
  /\ rd.pc = "idle" /\ left.calls > 0 /\ (~rd.field \/ \E c \in Present : cards[c] # Idle)
  /\ cards' = Unpowered(cards) /\ rd' = [rd EXCEPT !.field = TRUE]
  /\ UNCHANGED <<world, left, calm>>

\* PHAC_DISCLOOP_CONFIG_STOP; only Init clears the flag.
SetStop ==
  /\ left.events > 0 /\ rd' = [rd EXCEPT !.stop = TRUE]
  /\ left' = [left EXCEPT !.events = @ - 1] /\ calm' = FALSE
  /\ UNCHANGED <<cards, world>>

Move ==
  /\ left.events > 0 /\ left' = [left EXCEPT !.events = @ - 1] /\ calm' = FALSE
  /\ \E c \in world : cards' = [cards EXCEPT ![c] = IF @.st = "out" THEN Idle ELSE Away]
  /\ UNCHANGED <<rd, world>>

Next == Running \/ Start \/ ActivateCard \/ ActivateAnyA \/ FieldReset \/ SetStop \/ Move

Spec == Init /\ [][Next]_vars

-----------------------------------------------------------------------------
(* Properties. *)

Of(tech) == {c \in Present : Kind[c].tech = tech}
Identifiers == {rd.uids[i] : i \in 1 .. Len(rd.uids)}

TypeA(c) == Kind[c].tech = "A"

\* Two parts that differ before their last bit.
Differ(p, q) == \E i \in 1 .. PartLen - 1 : p[i] # q[i]

\* No two cards that may be about differ, at the first level where they do,
\* in the last bit only.
NoTwins(worlds) ==
  \A w \in worlds : \A c, d \in w : TypeA(c) /\ TypeA(d) =>
    \A l \in DOMAIN Kind[c].uid \cap DOMAIN Kind[d].uid :
      (\A k \in 1 .. l - 1 : Kind[c].uid[k] = Kind[d].uid[k]) =>
        Kind[c].uid[l] = Kind[d].uid[l] \/ Differ(Kind[c].uid[l], Kind[d].uid[l])

\* Cards that are about together: none has the identifier of another, one is
\* of type B, one of those of type A speaks ISO/IEC 14443-4.
OwnIdentifiers(worlds) ==
  \A w \in worlds : \A c, d \in w : TypeA(c) /\ TypeA(d) /\ Whole(c) = Whole(d) => c = d
OneOfTypeB(worlds) == \A w \in worlds : \A c, d \in w : Kind[c].tech = "B" /\ Kind[d].tech = "B" => c = d
OneOfLayer4(worlds) ==
  \A w \in worlds : \A c, d \in w : TypeA(c) /\ TypeA(d) /\ Kind[c].plat = "T4A" /\ Kind[d].plat = "T4A" => c = d

\* The identifiers recorded are those of cards, whatever is lost and whoever
\* comes and goes between two cascade levels, and undisturbed no card is
\* recorded twice; so is the one phpalI14443p3a_GetSerialNo returns.
FoundAreReal ==
  /\ Identifiers \subseteq {Whole(c) : c \in {d \in world : Kind[d].tech = "A"}}
  /\ calm => Cardinality(Identifiers) = Len(rd.uids)
  /\ rd.complete => \E c \in world : Kind[c].tech = "A" /\ rd.serial = Whole(c)

\* After HLTA the cards that are left answer REQA together; when two are left
\* whose ATQAs differ, Start fails with COLLISION_ERROR.  AllFound is about
\* the other calls.
OneATQA ==
  \/ Bails(rd, "A") \/ Cardinality(Of("A")) < 3
  \/ \A c, d \in Of("A") : Kind[c].atqa = Kind[d].atqa

\* Undisturbed, phacDiscLoop_Start succeeds and finds every card of type A up
\* to the device limit, the only card of type B and the only one of type F.
AllFound ==
  rd.pc = "idle" /\ rd.op = "start" /\ calm /\ OneATQA =>
    /\ rd.ret = "SUCCESS"
    /\ rd.cfg.bail = {} /\ ~(Polls(rd, "active") /\ Of("N") # {}) =>
         /\ Polls(rd, "A") /\ ~rd.cfg.noColl =>
              rd.n.A = IF Cardinality(Of("A")) < rd.cfg.limitA THEN Cardinality(Of("A")) ELSE rd.cfg.limitA
         /\ Polls(rd, "B") /\ rd.cfg.slots = 0 /\ Cardinality(Of("B")) = 1 => rd.n.B = 1 /\ Of("B") = {rd.pupi}
         /\ Polls(rd, "F") /\ Cardinality(Of("F")) = 1 => rd.n.F = 1 /\ Of("F") = {rd.idm}

\* The card is ready for its protocol, at the reader's bit rates.
Ready(c) ==
  \/ /\ Kind[c].tech = "A" /\ cards[c].st = "active"
     /\ Kind[c].plat = "T2T" \/ rd.op = "p3a"
  \/ cards[c].st = "layer4" /\ cards[c].rate = rd.rate

IsTarget(c) ==
  \/ rd.target = AnyCard /\ rd.op # "p3a" /\ rd.answered = c
  \/ rd.target = AnyCard /\ rd.op = "p3a" /\ rd.complete /\ rd.serial = Whole(c)
  \/ rd.target # AnyCard /\ rd.target \in {c} \cup (IF Kind[c].tech = "A" THEN {Whole(c)} ELSE {})

\* An activation that succeeds has activated the card that was meant, though
\* cards come and go and frames are lost between any two of its commands.
\* (With several tags of type A found phacDiscLoop_ActivateCard selects none.)
ActivationReturned == rd.pc = "idle" /\ rd.ret = "SUCCESS" /\ rd.target # None
ActivatedIsSelected ==
  [][rd.pc # "idle" /\ ActivationReturned' /\ (rd'.op = "activate" /\ rd'.n.A > 0 => rd'.n.A = 1 /\ ~Bails(rd', "A"))
       => \E c \in Card : (IsTarget(c) /\ Ready(c))']_vars

\* A call exchanges a bounded number of frames, whoever is in the field and
\* whatever is lost: collision resolution learns a bit of an identifier with
\* every collision, and rounds, slots and loops end.
CallIsBounded ==
  LET level == PartLen + 1
      detectA == 1 + rd.cfg.limitA * (2 * level + 2)
      activateA == 1 + 2 * level + 4
      pollB == PollLimit + 2 + Slots(rd)
      pollF == PollLimit + 1
      waits == IF rd.pc \in {"idle", "loop", "listen"} THEN 0 ELSE 1 IN
  rd.sent + waits <= IF rd.op = "start" THEN rd.cfg.loops * (1 + detectA + activateA + pollB + pollF)
             ELSE activateA + pollB
=============================================================================
