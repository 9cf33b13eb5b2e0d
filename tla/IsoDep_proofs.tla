---------------------------- MODULE IsoDep_proofs ----------------------------
(***************************************************************************)
(* Theorems about IsoDep for every value of its constants: its types, the  *)
(* agreement of the block numbers of reader and card, that the block       *)
(* protocol implements BlockAlternation, and what one Exchange promises:   *)
(* that an answer it returns is complete, and that recovery costs a        *)
(* bounded number of frames.                                               *)
(***************************************************************************)
EXTENDS IsoDep, TLAPS

-----------------------------------------------------------------------------
(* Types. *)

(* The blocks that are built are frames. *)
LEMMA BlocksTyped ==
  /\ \A type \in {"I", "ACK", "NAK", "WTX", "DESELECT", "none"}, bn \in 0 .. 1, t \in Nat :
       Block(type, bn, t) \in Frame
  /\ NoFrame \in Frame /\ BuildDeselect \in Frame
  /\ \A bn \in 0 .. 1, more \in BOOLEAN, nad \in BOOLEAN, t \in Nat :
       BuildIBlock(bn, more, nad, t) \in Frame
  /\ \A bn \in 0 .. 1, isAck \in BOOLEAN, t \in Nat : BuildRBlock(bn, isAck, t) \in Frame
  /\ \A m \in 0 .. 63 : BuildWtx(m) \in Frame
<1>1. \A type \in {"I", "ACK", "NAK", "WTX", "DESELECT", "none"}, bn \in 0 .. 1, t \in Nat :
        Block(type, bn, t) \in Frame
  BY DEF Block, Frame
<1>2. NoFrame \in Frame /\ BuildDeselect \in Frame
  BY <1>1 DEF NoFrame, BuildDeselect
<1>3. \A bn \in 0 .. 1, more \in BOOLEAN, nad \in BOOLEAN, t \in Nat :
        BuildIBlock(bn, more, nad, t) \in Frame
  <2> SUFFICES ASSUME NEW bn \in 0 .. 1, NEW more \in BOOLEAN, NEW nad \in BOOLEAN, NEW t \in Nat
               PROVE  BuildIBlock(bn, more, nad, t) \in Frame
    OBVIOUS
  <2>1. PICK f \in Frame : f = Block("I", bn, t)
    BY <1>1
  <2>2. [f EXCEPT !.more = more, !.nad = nad] \in Frame
    BY DEF Frame
  <2> QED BY <2>1, <2>2 DEF BuildIBlock
<1>4. \A bn \in 0 .. 1, isAck \in BOOLEAN, t \in Nat : BuildRBlock(bn, isAck, t) \in Frame
  BY <1>1 DEF BuildRBlock
<1>5. \A m \in 0 .. 63 : BuildWtx(m) \in Frame
  <2> SUFFICES ASSUME NEW m \in 0 .. 63
               PROVE  BuildWtx(m) \in Frame
    OBVIOUS
  <2>1. PICK f \in Frame : f = Block("WTX", 0, 0)
    BY <1>1
  <2>2. [f EXCEPT !.wtxm = m] \in Frame
    BY DEF Frame
  <2> QED BY <2>1, <2>2 DEF BuildWtx
<1> QED BY <1>1, <1>2, <1>3, <1>4, <1>5

(* So are the records that a step of the reader writes. *)
Ats == {"idle", "tx", "rx", "deselect", "presence"}
Retries == 0 .. RetryModulus - 1

LEMMA CallTyped ==
  ASSUME NEW c \in Call
  PROVE  /\ \A at \in Ats, k \in Retries, b \in BOOLEAN : [c EXCEPT !.at = at, !.retry = k, !.responded = b] \in Call
         /\ \A at \in Ats, status \in Statuses, n \in Nat : [c EXCEPT !.at = at, !.status = status, !.effort = n] \in Call
         /\ \A at \in Ats, n \in Nat, status \in Statuses : [c EXCEPT !.at = at, !.tries = n, !.status = status, !.effort = 0] \in Call
         /\ \A at \in Ats : [c EXCEPT !.at = at] \in Call
         /\ \A n \in Nat : [c EXCEPT !.effort = n] \in Call
         /\ \A k \in Retries : [c EXCEPT !.retry = k] \in Call
         /\ \A n \in Nat : [c EXCEPT !.held = n] \in Call
         /\ \A n \in Nat : [c EXCEPT !.tries = n] \in Call
         /\ \A k \in Retries : [c EXCEPT !.retransmits = k] \in Call
         /\ \A n \in Nat, k \in Retries : [c EXCEPT !.left = n, !.retransmits = k] \in Call
         /\ \A b \in BOOLEAN, n \in Nat : [c EXCEPT !.overflow = b, !.effort = n] \in Call
         /\ \A k \in Retries, b \in BOOLEAN, n \in Nat : [c EXCEPT !.retry = k, !.responded = b, !.effort = n] \in Call
         /\ \A k \in Retries, n \in Nat : [c EXCEPT !.retransmits = k, !.effort = n] \in Call
<1>1. /\ \A at \in Ats, k \in Retries, b \in BOOLEAN : [c EXCEPT !.at = at, !.retry = k, !.responded = b] \in Call
      /\ \A at \in Ats, status \in Statuses, n \in Nat : [c EXCEPT !.at = at, !.status = status, !.effort = n] \in Call
      /\ \A at \in Ats, n \in Nat, status \in Statuses : [c EXCEPT !.at = at, !.tries = n, !.status = status, !.effort = 0] \in Call
      /\ \A at \in Ats : [c EXCEPT !.at = at] \in Call
      /\ \A n \in Nat : [c EXCEPT !.effort = n] \in Call
      /\ \A k \in Retries : [c EXCEPT !.retry = k] \in Call
  BY DEF Call, Ats, Retries
<1>2. /\ \A n \in Nat : [c EXCEPT !.held = n] \in Call
      /\ \A n \in Nat : [c EXCEPT !.tries = n] \in Call
      /\ \A k \in Retries : [c EXCEPT !.retransmits = k] \in Call
      /\ \A n \in Nat, k \in Retries : [c EXCEPT !.left = n, !.retransmits = k] \in Call
      /\ \A b \in BOOLEAN, n \in Nat : [c EXCEPT !.overflow = b, !.effort = n] \in Call
      /\ \A k \in Retries, b \in BOOLEAN, n \in Nat : [c EXCEPT !.retry = k, !.responded = b, !.effort = n] \in Call
      /\ \A k \in Retries, n \in Nat : [c EXCEPT !.retransmits = k, !.effort = n] \in Call
  BY DEF Call, Ats, Retries
<1> QED BY <1>1, <1>2

(* The retry counts stay in the range of their type. *)
LEMMA IncrementedTyped == \A n \in Nat : Incremented(n) \in Retries
BY RetryAssumption DEF Incremented, Retries

LEMMA InitCallTyped ==
  /\ InitPal \in Pal /\ InitCall \in Call
  /\ \A mode \in AllModes : [InitCall EXCEPT !.mode = mode] \in Call
  /\ \A mode \in AllModes, n \in Nat : [InitCall EXCEPT !.mode = mode, !.left = n] \in Call
<1>1. InitPal \in Pal
  BY DEF InitPal, Pal
<1>2. InitCall \in Call
  BY RetryAssumption DEF InitCall, Call, AllModes, Statuses
<1>3. ASSUME NEW c \in Call, NEW mode \in AllModes, NEW n \in Nat
      PROVE  [c EXCEPT !.mode = mode] \in Call /\ [c EXCEPT !.mode = mode, !.left = n] \in Call
  BY DEF Call
<1> QED BY <1>1, <1>2, <1>3

-----------------------------------------------------------------------------
(* What the ends of a reader's step do. *)

ReaderTypeOK == pal \in Pal /\ call \in Call /\ req \in Frame

LEMMA SendEffect ==
  ASSUME NEW p \in Pal, NEW c \in Call, NEW f \in Frame, Send(p, c, f)
  PROVE  /\ ReaderTypeOK'
         /\ pal' = p /\ req' = f
         /\ call'.at = c.at /\ call'.status = c.status
<1>1. Spent(c) \in Nat
  BY DEF Call, Spent
<1>2. call' \in Call
  BY <1>1, CallTyped DEF Send
<1>3. call'.at = c.at /\ call'.status = c.status
  BY DEF Send, Call
<1> QED BY <1>2, <1>3 DEF Send, ReaderTypeOK

LEMMA ReturnEffect ==
  ASSUME NEW p \in Pal, NEW c \in Call, NEW status \in Statuses, Return(p, c, status)
  PROVE  /\ ReaderTypeOK'
         /\ pal' = p /\ req' = NoFrame
         /\ call'.at = "idle" /\ call'.status = status
<1>1. call' \in Call
  BY CallTyped DEF Return, Ats
<1>2. call'.at = "idle" /\ call'.status = status
  BY DEF Return, Call
<1> QED BY <1>1, <1>2, BlocksTyped DEF Return, ReaderTypeOK

LEMMA StartDeselectEffect ==
  ASSUME NEW p \in Pal, NEW c \in Call, NEW n \in Nat, NEW status \in Statuses,
         StartDeselect(p, c, n, status)
  PROVE  /\ ReaderTypeOK'
         /\ pal' = p /\ req' = BuildDeselect
         /\ call'.at = "deselect" /\ call'.status = status
<1>1. call' \in Call
  BY CallTyped DEF StartDeselect, Ats
<1>2. call'.at = "deselect" /\ call'.status = status
  BY DEF StartDeselect, Call
<1> QED BY <1>1, <1>2, BlocksTyped DEF StartDeselect, ReaderTypeOK

(* An I-block goes out under the current number, as the next request. *)
LEMMA SendIBlockEffect ==
  ASSUME NEW p \in Pal, NEW c \in Call, NEW t \in Nat, SendIBlock(p, c, t)
  PROVE  /\ ReaderTypeOK'
         /\ pal'.bn = p.bn /\ pal'.state = p.state
         /\ call'.at = "tx" /\ call'.status = c.status
         /\ req'.type = "I" /\ req'.bn = p.bn /\ req'.turn = t + 1
<1> DEFINE more == MoreFollow(c)
           nad == UseNad(p)
           q == [p EXCEPT !.chaining = more]
           d == EnterIsoHandling(c, "tx", c.retransmits)
           f == BuildIBlock(p.bn, more, nad, t + 1)
<1>1. more \in BOOLEAN /\ nad \in BOOLEAN
  BY ModeAssumption DEF MoreFollow, UseNad, Pal
<1>2. p.bn \in 0 .. 1 /\ c.retransmits \in 0 .. RetryModulus - 1
  BY DEF Pal, Call
<1> HIDE DEF more, nad
<1>3. q \in Pal /\ q.bn = p.bn /\ q.state = p.state
  BY <1>1 DEF Pal
<1>4. d \in Call
  BY <1>2, CallTyped DEF EnterIsoHandling, Ats, Retries
<1>5. d.at = "tx" /\ d.status = c.status
  BY DEF EnterIsoHandling, Call
<1>6. f \in Frame
  BY <1>1, <1>2, BlocksTyped
<1>7. f.type = "I" /\ f.bn = p.bn /\ f.turn = t + 1
  BY DEF BuildIBlock, Block
<1>8. Send(q, d, f)
  BY DEF SendIBlock, more, nad
<1> HIDE DEF q, d, f
<1> QED BY <1>3, <1>4, <1>5, <1>6, <1>7, <1>8, SendEffect

LEMMA AskNextEffect ==
  ASSUME NEW p \in Pal, NEW c \in Call, NEW t \in Nat, NEW at \in {"tx", "rx"},
         AskNext(p, c, at, t)
  PROVE  /\ ReaderTypeOK'
         /\ pal' = p
         /\ call'.at = at /\ call'.status = c.status
         /\ req'.type = "ACK" /\ req'.bn = p.bn /\ req'.turn = t + 1
<1> DEFINE d == EnterIsoHandling(c, at, 0)
           f == BuildRBlock(p.bn, TRUE, t + 1)
<1>0. PICK k \in Retries : k = 0
  BY RetryAssumption DEF Retries
<1>1. d \in Call
  BY <1>0, CallTyped DEF EnterIsoHandling, Ats
<1>2. d.at = at /\ d.status = c.status
  BY DEF EnterIsoHandling, Call
<1>3. f \in Frame
  BY BlocksTyped DEF Pal, BuildRBlock
<1>4. f.type = "ACK" /\ f.bn = p.bn /\ f.turn = t + 1
  BY DEF BuildRBlock, Block
<1>5. Send(p, d, f)
  BY DEF AskNext
<1> HIDE DEF d, f
<1> QED BY <1>1, <1>2, <1>3, <1>4, <1>5, SendEffect

(* After a block of an answer the reader asks for the next one or returns. *)
LEMMA ReceptionLoopEffect ==
  ASSUME NEW p \in Pal, NEW c \in Call, NEW t \in Nat, ReceptionLoop(p, c, t)
  PROVE  /\ ReaderTypeOK'
         /\ pal'.bn = p.bn
         /\ \/ call'.at = "idle" /\ call'.status \in InSession /\ req' = NoFrame
            \/ /\ call'.at = "rx" /\ pal' = p /\ p.chaining
               /\ req'.type = "ACK" /\ req'.bn = p.bn /\ req'.turn = t + 1
<1>1. CASE p.chaining /\ LeavesRest(c) /\ Return(p, c, "SUCCESS_CHAINING")
  BY <1>1, ReturnEffect DEF Statuses, InSession
<1>2. CASE p.chaining /\ ~LeavesRest(c) /\ AskNext(p, c, "rx", t)
  BY <1>2, AskNextEffect
<1>3. CASE /\ ~p.chaining
           /\ Return([p EXCEPT !.state = "FINISHED"], c,
                     IF c.overflow THEN "BUFFER_OVERFLOW" ELSE "SUCCESS")
  <2> DEFINE q == [p EXCEPT !.state = "FINISHED"]
             status == IF c.overflow THEN "BUFFER_OVERFLOW" ELSE "SUCCESS"
  <2>1. q \in Pal /\ q.bn = p.bn
    BY DEF Pal
  <2>2. status \in Statuses /\ status \in InSession
    BY DEF Statuses, InSession
  <2>3. Return(q, c, status)
    BY <1>3
  <2> HIDE DEF q, status
  <2> QED BY <2>1, <2>2, <2>3, ReturnEffect
<1> QED BY <1>1, <1>2, <1>3 DEF ReceptionLoop

(* After the acknowledgement of a block of a command the reader sends the  *)
(* next one or returns.                                                    *)
LEMMA NextBlockEffect ==
  ASSUME NEW p \in Pal, NEW c \in Call, NEW t \in Nat, NextBlock(p, c, t)
  PROVE  /\ ReaderTypeOK'
         /\ pal'.bn = p.bn /\ pal'.state = p.state
         /\ \/ call'.at = "idle" /\ call'.status = "SUCCESS" /\ req' = NoFrame
            \/ /\ call'.at = "tx"
               /\ req'.type = "I" /\ req'.bn = p.bn /\ req'.turn = t + 1
<1>0. 0 \in 0 .. RetryModulus - 1 /\ c.left \in Nat
  BY RetryAssumption DEF Call
<1>1. CASE Return(p, [c EXCEPT !.left = 0, !.retransmits = 0], "SUCCESS")
  <2> DEFINE d == [c EXCEPT !.left = 0, !.retransmits = 0]
  <2>1. d \in Call
    BY <1>0, CallTyped DEF Retries
  <2> HIDE DEF d
  <2> QED BY <1>1, <2>1, ReturnEffect DEF Statuses, d
<1>2. CASE c.left > 1 /\ SendIBlock(p, [c EXCEPT !.left = @ - 1, !.retransmits = 0], t)
  <2> DEFINE n == c.left - 1
             d == [c EXCEPT !.left = n, !.retransmits = 0]
  <2>1. n \in Nat
    BY <1>0, <1>2
  <2> HIDE DEF n
  <2>2. d \in Call
    BY <1>0, <2>1, CallTyped DEF Retries
  <2>3. SendIBlock(p, d, t)
    BY <1>2 DEF n
  <2> HIDE DEF d
  <2> QED BY <2>2, <2>3, SendIBlockEffect
<1> QED BY <1>1, <1>2 DEF NextBlock
-----------------------------------------------------------------------------
(* The inductive invariant: what a frame in the field says of the two      *)
(* ends, and what they say of each other.                                  *)

Numbering == BlockNumbersAgree /\ RequestTakenOnce

TxWaits == Exchanging /\ pal.state = "TX"

(* A request in the field is the next one; an I-block has not been taken.  *)
RequestOK ==
  /\ req.type \in {"I", "ACK"} => Exchanging /\ req.turn = turn + 1 /\ req.bn = pal.bn
  /\ req.type = "NAK" => req.bn = pal.bn /\ (TxWaits \/ call.at = "presence")
  /\ req.type = "I" => card.turn = turn /\ pal.state = "TX"
  /\ req.type = "ACK" => pal.state = "RX"
  /\ req.type = "WTX" => Exchanging /\ card.turn = turn + 1 /\ card.reply.type \in {"I", "ACK"}
  /\ req.type = "DESELECT" => call.at = "deselect"

(* A response in the field is of the last request the card took.           *)
ResponseOK ==
  /\ rsp.type \in {"I", "ACK", "WTX", "DESELECT", "none"}
  /\ rsp.type \in {"I", "ACK"} => rsp.bn = card.bn /\ rsp.turn = card.turn
  /\ rsp.type \in {"I", "WTX"} => Exchanging /\ card.turn = turn + 1
  /\ rsp.type = "ACK" => TxWaits \/ call.at = "presence"
  /\ rsp.type = "WTX" => card.reply.type \in {"I", "ACK"}
  /\ rsp.type = "DESELECT" => call.at = "deselect"

(* So is what the card would send again, and what it delays.               *)
ReplyOK(f) ==
  /\ f.type \in {"I", "ACK"} => f.bn = card.bn /\ f.turn = card.turn
  /\ f.type = "ACK" /\ card.turn = turn + 1 => pal.state = "TX"

CardOK ==
  /\ ReplyOK(card.last) /\ ReplyOK(card.reply)
  /\ card.last.type \in {"I", "ACK", "WTX", "none"}
  /\ card.reply.type \in {"I", "ACK", "none"}
  /\ card.last.type = "WTX" => card.reply.type \in {"I", "ACK"}

ReaderOK ==
  /\ call.at \in {"idle", "presence"} /\ call.status \in InSession => card.turn = turn
  /\ call.at = "presence" => call.status \in InSession
  /\ call.at = "deselect" => call.status \notin InSession
  /\ Exchanging => pal.state \in {"TX", "RX"}
  /\ call.at = "rx" => pal.state = "RX"
  /\ Exchanging /\ pal.state = "RX" => pal.chaining
  /\ call.at = "idle" => req = NoFrame /\ rsp = NoFrame
  /\ rsp.type # "none" => req.type = "none"

Agreement == Numbering /\ RequestOK /\ ResponseOK /\ CardOK /\ ReaderOK

-----------------------------------------------------------------------------
(* The numbers. *)

LEMMA Parity == \A n \in Nat : n % 2 \in 0 .. 1 /\ (n + 1) % 2 = 1 - (n % 2)
OBVIOUS

(* Equal block numbers mean that the card is one request ahead. *)
LEMMA NumbersTell ==
  ASSUME TypeOK, BlockNumbersAgree
  PROVE  /\ card.bn = pal.bn <=> card.turn = turn + 1
         /\ card.bn # pal.bn <=> card.turn = turn
<1>1. card.turn \in Nat /\ turn \in Nat
  BY DEF TypeOK, Card
<1>2. turn % 2 \in 0 .. 1 /\ (turn + 1) % 2 = 1 - (turn % 2)
      /\ ((turn + 1) + 1) % 2 = 1 - ((turn + 1) % 2)
  BY <1>1, Parity
<1>3. CASE card.turn = turn
  BY <1>1, <1>2, <1>3 DEF BlockNumbersAgree
<1>4. CASE card.turn = turn + 1
  BY <1>1, <1>2, <1>4 DEF BlockNumbersAgree
<1> QED BY <1>3, <1>4 DEF BlockNumbersAgree

(* The reader catches up. *)
LEMMA ReaderCounts ==
  ASSUME TypeOK, Numbering, card.turn = turn + 1, turn' = turn + 1,
         pal'.bn = Toggle(pal.bn), card' = card
  PROVE  Numbering' /\ turn' \in Nat
<1>1. turn \in Nat
  BY DEF TypeOK
<1>2. (turn + 1) % 2 = 1 - (turn % 2)
  BY <1>1, Parity
<1> QED BY <1>1, <1>2 DEF Numbering, BlockNumbersAgree, RequestTakenOnce, Toggle

(* The card goes ahead. *)
LEMMA CardCounts ==
  ASSUME TypeOK, Numbering, card.turn = turn, turn' = turn, pal' = pal,
         card'.turn = card.turn + 1, card'.bn = Toggle(card.bn), card'.taken = turn + 1
  PROVE  Numbering'
<1>1. turn \in Nat
  BY DEF TypeOK
<1>2. ((turn + 1) + 1) % 2 = 1 - ((turn + 1) % 2)
  BY <1>1, Parity
<1> QED BY <1>1, <1>2 DEF Numbering, BlockNumbersAgree, RequestTakenOnce, Toggle

LEMMA FrameTypes ==
  /\ NoFrame.type = "none" /\ BuildDeselect.type = "DESELECT"
  /\ \A m : BuildWtx(m).type = "WTX"
  /\ \A bn, more, nad, t :
       /\ BuildIBlock(bn, more, nad, t).type = "I"
       /\ BuildIBlock(bn, more, nad, t).bn = bn
       /\ BuildIBlock(bn, more, nad, t).turn = t
  /\ \A bn, t :
       /\ BuildRBlock(bn, TRUE, t).type = "ACK" /\ BuildRBlock(bn, FALSE, t).type = "NAK"
       /\ BuildRBlock(bn, TRUE, t).bn = bn /\ BuildRBlock(bn, FALSE, t).bn = bn
       /\ BuildRBlock(bn, TRUE, t).turn = t
BY DEF NoFrame, BuildDeselect, BuildWtx, BuildIBlock, BuildRBlock, Block

(* The card's frames stay right while the card does nothing. *)
LEMMA CardKept ==
  ASSUME CardOK, card' = card,
         (turn' = turn /\ pal'.state = pal.state) \/ card.turn # turn' + 1
  PROVE  CardOK'
BY DEF CardOK, ReplyOK

(* The reader gives up, or has given up. *)
LEMMA SessionEnds ==
  ASSUME Agreement, turn' = turn, card' = card, pal' = pal, rsp' = NoFrame,
         call'.status \notin InSession,
         \/ call'.at = "idle" /\ req' = NoFrame
         \/ call'.at = "deselect" /\ req' = BuildDeselect
  PROVE  Agreement'
<1>1. Numbering'
  BY DEF Agreement, Numbering, BlockNumbersAgree, RequestTakenOnce
<1>2. RequestOK' /\ ResponseOK'
  BY FrameTypes DEF RequestOK, ResponseOK
<1>3. CardOK'
  BY CardKept DEF Agreement
<1>4. ReaderOK'
  BY FrameTypes DEF ReaderOK, Exchanging
<1> QED BY <1>1, <1>2, <1>3, <1>4 DEF Agreement

-----------------------------------------------------------------------------
(* The steps of the reader that receive. *)

Typed == ReaderTypeOK /\ turn \in Nat

(* How a step that waited for a block can end: the reader gives up, sends  *)
(* again, or counts the request as answered.                               *)
GivesUp ==
  turn' = turn /\ call'.at \in {"idle", "deselect"} /\ call'.status \notin InSession
GoesOn == turn' = turn /\ call'.at \in {"tx", "rx"}
Counts ==
  /\ turn' = turn + 1
  /\ call'.at \in {"tx", "rx"} \/ (call'.at = "idle" /\ call'.status \in InSession)

Outcome == GivesUp \/ GoesOn \/ Counts

(* A block of an answer is accepted: it is the answer of this request.     *)
LEMMA BlockAccepted ==
  ASSUME TypeOK, Agreement, rsp.type = "I", Exchanging,
         NEW p \in Pal, NEW c \in Call,
         p.bn = Toggle(pal.bn), p.state = "RX",
         turn' = turn + 1, card' = card, rsp' = NoFrame,
         ReceptionLoop(p, c, turn + 1)
  PROVE  Agreement' /\ Typed' /\ Counts
<1>1. card.turn = turn + 1 /\ turn \in Nat
  BY DEF Agreement, ResponseOK, TypeOK
<1>2. /\ ReaderTypeOK'
      /\ pal'.bn = p.bn
      /\ \/ call'.at = "idle" /\ call'.status \in InSession /\ req' = NoFrame
         \/ /\ call'.at = "rx" /\ pal' = p /\ p.chaining
            /\ req'.type = "ACK" /\ req'.bn = p.bn /\ req'.turn = (turn + 1) + 1
  BY <1>1, ReceptionLoopEffect
<1>3. Numbering' /\ turn' \in Nat
  BY <1>1, <1>2, ReaderCounts DEF Agreement
<1>4. RequestOK'
  BY <1>2, FrameTypes DEF RequestOK, Exchanging
<1>5. ResponseOK'
  BY FrameTypes DEF ResponseOK
<1>6. CardOK'
  BY <1>1, CardKept DEF Agreement
<1>7. ReaderOK'
  BY <1>1, <1>2, FrameTypes DEF ReaderOK, Exchanging
<1> QED BY <1>2, <1>3, <1>4, <1>5, <1>6, <1>7 DEF Agreement, Typed, Counts

LEMMA ProtocolErrorKeeps ==
  ASSUME TypeOK, Agreement, ProtocolError, card' = card, rsp' = NoFrame
  PROVE  Agreement' /\ Typed' /\ GivesUp
<1>1. "PROTOCOL_ERROR" \in Statuses /\ "PROTOCOL_ERROR" \notin InSession
  BY DEF Statuses, InSession
<1>2. CASE StartDeselect(pal, call, MaxRetryCount + 1, "PROTOCOL_ERROR")
  <2>1. /\ ReaderTypeOK' /\ pal' = pal /\ req' = BuildDeselect
        /\ call'.at = "deselect" /\ call'.status = "PROTOCOL_ERROR"
    BY <1>1, <1>2, RetryAssumption, StartDeselectEffect DEF TypeOK
  <2> QED BY <1>1, <2>1, SessionEnds DEF ProtocolError, Typed, TypeOK, GivesUp
<1>3. CASE Return(pal, call, "PROTOCOL_ERROR")
  <2>1. /\ ReaderTypeOK' /\ pal' = pal /\ req' = NoFrame
        /\ call'.at = "idle" /\ call'.status = "PROTOCOL_ERROR"
    BY <1>1, <1>3, ReturnEffect DEF TypeOK
  <2> QED BY <1>1, <2>1, SessionEnds DEF ProtocolError, Typed, TypeOK, GivesUp
<1> QED BY <1>2, <1>3 DEF ProtocolError

LEMMA HandleOverflowKeeps ==
  ASSUME TypeOK, Agreement, Overflows(call, rsp), HandleOverflow, card' = card, rsp' = NoFrame
  PROVE  Agreement' /\ Typed' /\ Counts
<1> DEFINE n == Toggle(pal.bn)
           p == [pal EXCEPT !.bn = n]
           c == [call EXCEPT !.overflow = TRUE, !.effort = 0]
<1>1. rsp.type = "I" /\ Exchanging /\ pal.state = "RX"
  BY DEF Overflows, Exchanging, Agreement, ReaderOK
<1>2. n \in 0 .. 1
  BY DEF TypeOK, Pal, Toggle
<1>3. p \in Pal /\ p.bn = n /\ p.state = "RX"
  <2> HIDE DEF n
  <2> QED BY <1>1, <1>2 DEF TypeOK, Pal
<1>4. c \in Call
  <2>1. PICK b \in BOOLEAN : b = TRUE
    OBVIOUS
  <2>2. PICK e \in Nat : e = 0
    OBVIOUS
  <2>3. [call EXCEPT !.overflow = b, !.effort = e] \in Call
    BY CallTyped DEF TypeOK
  <2> QED BY <2>1, <2>2, <2>3
<1>5. turn' = turn + 1 /\ ReceptionLoop(p, c, turn + 1)
  BY DEF HandleOverflow
<1> HIDE DEF p, c
<1> QED BY <1>1, <1>3, <1>4, <1>5, BlockAccepted

LEMMA HandleIBlockKeeps ==
  ASSUME TypeOK, Agreement, rsp.type = "I", Exchanging, HandleIBlock(rsp),
         card' = card, rsp' = NoFrame
  PROVE  Agreement' /\ Typed' /\ Outcome
<1>1. CASE ValidIBlock(rsp) /\ turn' = turn + 1
           /\ ReceptionLoop([state |-> "RX", chaining |-> rsp.more, bn |-> Toggle(pal.bn)],
                            [Hold(call) EXCEPT !.retransmits = 0, !.effort = 0], turn + 1)
  <2> DEFINE n == Toggle(pal.bn)
             p == [state |-> "RX", chaining |-> rsp.more, bn |-> n]
             h == Hold(call)
             c == [h EXCEPT !.retransmits = 0, !.effort = 0]
  <2>1. n \in 0 .. 1 /\ rsp.more \in BOOLEAN
    BY DEF TypeOK, Pal, Toggle, Frame
  <2>2. p \in Pal /\ p.bn = n /\ p.state = "RX"
    <3> HIDE DEF n
    <3> QED BY <2>1 DEF Pal
  <2>3. h \in Call
    <3>1. call \in Call /\ call.held + 1 \in Nat
      BY DEF TypeOK, Call
    <3> QED BY <3>1, CallTyped DEF Hold
  <2>4. c \in Call
    <3> HIDE DEF h
    <3>1. PICK k \in Retries : k = 0
      BY RetryAssumption DEF Retries
    <3>2. PICK e \in Nat : e = 0
      OBVIOUS
    <3>3. [h EXCEPT !.retransmits = k, !.effort = e] \in Call
      BY <2>3, CallTyped
    <3> QED BY <3>1, <3>2, <3>3
  <2>5. turn' = turn + 1 /\ ReceptionLoop(p, c, turn + 1)
    BY <1>1
  <2> HIDE DEF p, c
  <2> QED BY <2>2, <2>4, <2>5, BlockAccepted DEF Outcome
<1>2. CASE ProtocolError
  BY <1>2, ProtocolErrorKeeps DEF Outcome
<1> QED BY <1>1, <1>2 DEF HandleIBlock

(* An R(ACK) with the current number: the card has the block of the chain. *)
LEMMA BlockAcknowledged ==
  ASSUME TypeOK, Agreement, rsp.type = "ACK", Exchanging, rsp.bn = pal.bn, TxChaining(pal),
         turn' = turn + 1, card' = card, rsp' = NoFrame,
         NextBlock([pal EXCEPT !.bn = Toggle(@)], [call EXCEPT !.effort = 0], turn + 1)
  PROVE  /\ Agreement' /\ Typed' /\ Counts
         /\ card.turn = turn + 1
<1> DEFINE n == Toggle(pal.bn)
           p == [pal EXCEPT !.bn = n]
           c == [call EXCEPT !.effort = 0]
<1>1. n \in 0 .. 1 /\ turn \in Nat
  BY DEF TypeOK, Pal, Toggle
<1>2. p \in Pal /\ p.bn = n /\ p.state = "TX"
  <2> HIDE DEF n
  <2> QED BY <1>1 DEF TypeOK, Pal, TxChaining
<1>3. c \in Call
  BY CallTyped DEF TypeOK
<1>4. NextBlock(p, c, turn + 1)
  OBVIOUS
<1> HIDE DEF p, c
<1>5. /\ ReaderTypeOK'
      /\ pal'.bn = n /\ pal'.state = "TX"
      /\ \/ call'.at = "idle" /\ call'.status = "SUCCESS" /\ req' = NoFrame
         \/ /\ call'.at = "tx"
            /\ req'.type = "I" /\ req'.bn = n /\ req'.turn = (turn + 1) + 1
  BY <1>1, <1>2, <1>3, <1>4, NextBlockEffect
<1>6. card.turn = turn + 1
  BY NumbersTell DEF Agreement, Numbering, ResponseOK
<1>7. Numbering' /\ turn' \in Nat
  BY <1>5, <1>6, ReaderCounts DEF Agreement
<1>8. RequestOK'
  BY <1>5, <1>6, FrameTypes DEF RequestOK, Exchanging
<1>9. ResponseOK'
  BY FrameTypes DEF ResponseOK
<1>10. CardOK'
  BY <1>1, <1>6, CardKept DEF Agreement
<1>11. ReaderOK'
  BY <1>5, <1>6, FrameTypes DEF ReaderOK, Exchanging
<1> QED BY <1>5, <1>6, <1>7, <1>8, <1>9, <1>10, <1>11 DEF Agreement, Typed, Counts, InSession

(* The last I-block goes out again only when the card has not taken it.    *)
LEMMA RetransmissionKeeps ==
  ASSUME TypeOK, Agreement, Exchanging, pal.state = "TX", card.turn = turn,
         SendIBlock(pal, [call EXCEPT !.retransmits = Incremented(call.retransmits)], turn),
         turn' = turn, card' = card, rsp' = NoFrame
  PROVE  Agreement' /\ Typed' /\ GoesOn
<1> DEFINE k == Incremented(call.retransmits)
           c == [call EXCEPT !.retransmits = k]
<1>1. k \in Retries /\ turn \in Nat
  BY IncrementedTyped DEF TypeOK, Call
<1>2. c \in Call /\ c.at = call.at
  <2> HIDE DEF k
  <2> QED BY <1>1 DEF TypeOK, Call, Retries
<1>3. SendIBlock(pal, c, turn)
  OBVIOUS
<1> HIDE DEF c
<1>4. /\ ReaderTypeOK'
      /\ pal'.bn = pal.bn /\ pal'.state = "TX" /\ call'.at = "tx"
      /\ req'.type = "I" /\ req'.bn = pal.bn /\ req'.turn = turn + 1
  BY <1>1, <1>2, <1>3, SendIBlockEffect DEF TypeOK
<1>5. Numbering'
  BY <1>4 DEF Agreement, Numbering, BlockNumbersAgree, RequestTakenOnce
<1>6. RequestOK'
  BY <1>4, FrameTypes DEF RequestOK, Exchanging
<1>7. ResponseOK'
  BY FrameTypes DEF ResponseOK
<1>8. CardOK'
  BY <1>4, CardKept DEF Agreement
<1>9. ReaderOK'
  BY <1>4, FrameTypes DEF ReaderOK, Exchanging
<1> QED BY <1>1, <1>4, <1>5, <1>6, <1>7, <1>8, <1>9 DEF Agreement, Typed, GoesOn

LEMMA HandleAckKeeps ==
  ASSUME TypeOK, Agreement, rsp.type = "ACK", Exchanging, HandleAck(rsp),
         card' = card, rsp' = NoFrame
  PROVE  Agreement' /\ Typed' /\ Outcome
<1>1. rsp.bn # pal.bn => card.turn = turn
  BY NumbersTell DEF Agreement, Numbering, ResponseOK
<1>2. CASE /\ rsp.bn = pal.bn /\ TxChaining(pal) /\ turn' = turn + 1
           /\ NextBlock([pal EXCEPT !.bn = Toggle(@)], [call EXCEPT !.effort = 0], turn + 1)
  BY <1>2, BlockAcknowledged DEF Outcome
<1>3. CASE /\ rsp.bn # pal.bn /\ pal.state = "TX" /\ UNCHANGED turn
           /\ SendIBlock(pal, [call EXCEPT !.retransmits = Incremented(call.retransmits)], turn)
  BY <1>1, <1>3, RetransmissionKeeps DEF Outcome
<1>4. CASE ProtocolError
  BY <1>4, ProtocolErrorKeeps DEF Outcome
<1> QED BY <1>2, <1>3, <1>4 DEF HandleAck

LEMMA HandleWtxKeeps ==
  ASSUME TypeOK, Agreement, Exchanging, rsp.type = "WTX", HandleWtx(rsp), card' = card, rsp' = NoFrame
  PROVE  Agreement' /\ Typed' /\ Outcome
<1>1. CASE Send(pal, [call EXCEPT !.retry = 0, !.responded = TRUE, !.effort = 0],
                BuildWtx(rsp.wtxm))
  <2> DEFINE c == [call EXCEPT !.retry = 0, !.responded = TRUE, !.effort = 0]
             f == BuildWtx(rsp.wtxm)
  <2>1. PICK k \in Retries : k = 0
    BY RetryAssumption DEF Retries
  <2>2. PICK e \in Nat : e = 0
    OBVIOUS
  <2>3. PICK b \in BOOLEAN : b = TRUE
    OBVIOUS
  <2>4. [call EXCEPT !.retry = k, !.responded = b, !.effort = e] \in Call
    BY CallTyped DEF TypeOK
  <2>5. c \in Call
    BY <2>1, <2>2, <2>3, <2>4
  <2>6. c.at = call.at /\ c.status = call.status
    BY DEF TypeOK, Call
  <2>7. f \in Frame /\ f.type = "WTX"
    BY BlocksTyped, FrameTypes DEF TypeOK, Frame
  <2> HIDE DEF c, f
  <2>8. /\ ReaderTypeOK' /\ pal' = pal /\ req' = f
        /\ call'.at = call.at /\ call'.status = call.status
    BY <1>1, <2>5, <2>6, <2>7, SendEffect DEF TypeOK, c, f
  <2>9. turn' = turn /\ turn \in Nat
    BY DEF HandleWtx, TypeOK
  <2>10. Numbering'
    BY <2>8, <2>9 DEF Agreement, Numbering, BlockNumbersAgree, RequestTakenOnce
  <2>11. RequestOK'
    BY <2>7, <2>8, <2>9 DEF Agreement, RequestOK, ResponseOK, Exchanging
  <2>12. ResponseOK'
    BY FrameTypes DEF ResponseOK
  <2>13. CardOK'
    BY <2>8, <2>9, CardKept DEF Agreement
  <2>14. ReaderOK'
    BY <2>7, <2>8, <2>9, FrameTypes DEF Agreement, ReaderOK, ResponseOK, Exchanging
  <2> QED BY <2>8, <2>9, <2>10, <2>11, <2>12, <2>13, <2>14
          DEF Agreement, Typed, Outcome, GoesOn, Exchanging
<1>2. CASE Return(pal, call, "PROTOCOL_ERROR")
  <2>1. "PROTOCOL_ERROR" \in Statuses /\ "PROTOCOL_ERROR" \notin InSession
    BY DEF Statuses, InSession
  <2>2. /\ ReaderTypeOK' /\ pal' = pal /\ req' = NoFrame
        /\ call'.at = "idle" /\ call'.status = "PROTOCOL_ERROR"
    BY <1>2, <2>1, ReturnEffect DEF TypeOK
  <2> QED BY <2>1, <2>2, SessionEnds DEF HandleWtx, Typed, TypeOK, Outcome, GivesUp
<1> QED BY <1>1, <1>2 DEF HandleWtx

LEMMA ReceiveKeeps ==
  ASSUME TypeOK, Agreement, Receive
  PROVE  TypeOK' /\ Agreement' /\ Outcome
<1>1. card' = card /\ rsp' = NoFrame /\ Exchanging
  BY DEF Receive, TypeOK
<1>2. Agreement' /\ Typed' /\ Outcome
  BY <1>1, HandleOverflowKeeps, HandleIBlockKeeps, HandleAckKeeps, HandleWtxKeeps
     DEF Receive, Outcome
<1> QED BY <1>1, <1>2, BlocksTyped DEF TypeOK, Typed, ReaderTypeOK

-----------------------------------------------------------------------------
(* The other steps of the reader. *)

LEMMA RecoverKeeps ==
  ASSUME TypeOK, Agreement, Exchanging, Recover, Silence, card' = card, rsp' = rsp
  PROVE  Agreement' /\ Typed' /\ GoesOn
<1> DEFINE k == Incremented(call.retry)
           c == [call EXCEPT !.retry = k]
           f == BuildRBlock(pal.bn, RxChaining(pal), turn + 1)
<1>1. k \in Retries /\ turn \in Nat /\ turn' = turn
  BY IncrementedTyped DEF TypeOK, Call, Recover
<1>2. c \in Call /\ c.at = call.at /\ c.status = call.status
  <2> HIDE DEF k
  <2> QED BY <1>1 DEF TypeOK, Call, Retries
<1>3. /\ f \in Frame /\ f.bn = pal.bn
      /\ \/ RxChaining(pal) /\ f.type = "ACK" /\ f.turn = turn + 1
         \/ ~RxChaining(pal) /\ f.type = "NAK"
  <2>1. CASE RxChaining(pal)
    <3>1. f = Block("ACK", pal.bn, turn + 1)
      BY <2>1 DEF BuildRBlock
    <3> HIDE DEF f
    <3>2. f \in Frame
      BY <1>1, <3>1, BlocksTyped DEF TypeOK, Pal
    <3>3. f.type = "ACK" /\ f.bn = pal.bn /\ f.turn = turn + 1
      BY <3>1 DEF Block
    <3> QED BY <2>1, <3>2, <3>3
  <2>2. CASE ~RxChaining(pal)
    <3>1. f = Block("NAK", pal.bn, turn + 1)
      BY <2>2 DEF BuildRBlock
    <3> HIDE DEF f
    <3>2. f \in Frame
      BY <1>1, <3>1, BlocksTyped DEF TypeOK, Pal
    <3>3. f.type = "NAK" /\ f.bn = pal.bn /\ f.turn = turn + 1
      BY <3>1 DEF Block
    <3> QED BY <2>2, <3>2, <3>3
  <2> QED BY <2>1, <2>2
<1>4. Send(pal, c, f)
  BY DEF Recover
<1> HIDE DEF c, f
<1>5. /\ ReaderTypeOK' /\ pal' = pal /\ req' = f
      /\ call'.at = call.at /\ call'.status = call.status
  BY <1>2, <1>3, <1>4, SendEffect DEF TypeOK
<1>6. Numbering'
  BY <1>1, <1>5 DEF Agreement, Numbering, BlockNumbersAgree, RequestTakenOnce
<1>7. RequestOK'
  BY <1>1, <1>3, <1>5 DEF Agreement, RequestOK, ReaderOK, Exchanging, TxWaits, RxChaining
<1>8. ResponseOK'
  BY FrameTypes DEF Silence, ResponseOK
<1>9. CardOK'
  BY <1>1, <1>5, CardKept DEF Agreement
<1>10. ReaderOK'
  BY <1>1, <1>5, FrameTypes DEF Agreement, ReaderOK, Silence, Exchanging
<1> QED BY <1>1, <1>5, <1>6, <1>7, <1>8, <1>9, <1>10 DEF Agreement, Typed, GoesOn, Exchanging

LEMMA GiveUpKeeps ==
  ASSUME TypeOK, Agreement, GiveUp, card' = card, rsp' = NoFrame
  PROVE  Agreement' /\ Typed' /\ GivesUp
<1> DEFINE status == IF call.responded /\ MaxRetryCount > 0
                     THEN "RECOVERY_FAILED" ELSE "IO_TIMEOUT"
<1>1. status \in Statuses /\ status \notin InSession
  BY DEF Statuses, InSession
<1>2. /\ turn' = turn
      /\ StartDeselect(pal, call, 1, status) \/ Return(pal, call, status)
  BY DEF GiveUp
<1> HIDE DEF status
<1>3. CASE StartDeselect(pal, call, 1, status)
  <2>1. /\ ReaderTypeOK' /\ pal' = pal /\ req' = BuildDeselect
        /\ call'.at = "deselect" /\ call'.status = status
    BY <1>1, <1>3, StartDeselectEffect DEF TypeOK
  <2> QED BY <1>1, <1>2, <2>1, SessionEnds DEF Typed, TypeOK, GivesUp
<1>4. CASE Return(pal, call, status)
  <2>1. /\ ReaderTypeOK' /\ pal' = pal /\ req' = NoFrame
        /\ call'.at = "idle" /\ call'.status = status
    BY <1>1, <1>4, ReturnEffect DEF TypeOK
  <2> QED BY <1>1, <1>2, <2>1, SessionEnds DEF Typed, TypeOK, GivesUp
<1> QED BY <1>2, <1>3, <1>4

LEMMA NoResponseKeeps ==
  ASSUME TypeOK, Agreement, NoResponse
  PROVE  TypeOK' /\ Agreement' /\ Outcome
<1>1. Silence /\ Exchanging /\ (Recover \/ GiveUp)
  BY DEF NoResponse, InvalidBlock
<1>2. card' = card /\ rsp' = rsp /\ rsp = NoFrame
  BY DEF NoResponse, Silence
<1>3. Agreement' /\ Typed' /\ Outcome
  BY <1>1, <1>2, RecoverKeeps, GiveUpKeeps DEF Outcome
<1> QED BY <1>2, <1>3 DEF TypeOK, Typed, ReaderTypeOK

LEMMA DeselectedKeeps ==
  ASSUME TypeOK, Agreement, Deselected
  PROVE  TypeOK' /\ Agreement'
<1>1. call.status \in Statuses /\ call.status \notin InSession
  BY DEF TypeOK, Call, Agreement, ReaderOK, Deselected
<1>2. /\ ReaderTypeOK' /\ pal' = pal /\ req' = NoFrame
      /\ call'.at = "idle" /\ call'.status = call.status
  BY <1>1, ReturnEffect DEF TypeOK, Deselected
<1> QED BY <1>1, <1>2, BlocksTyped, SessionEnds DEF Deselected, TypeOK, ReaderTypeOK

LEMMA NotDeselectedKeeps ==
  ASSUME TypeOK, Agreement, NotDeselected
  PROVE  TypeOK' /\ Agreement'
<1>1. call.status \in Statuses /\ call.status \notin InSession /\ call.tries \in Nat
  BY DEF TypeOK, Call, Agreement, ReaderOK, NotDeselected
<1>2. turn' = turn /\ card' = card /\ rsp' = NoFrame
  BY DEF NotDeselected, Silence
<1>3. CASE call.tries > 1 /\ pal' = pal /\ call' = [call EXCEPT !.tries = @ - 1]
           /\ req' = BuildDeselect
  <2> DEFINE n == call.tries - 1
  <2>1. n \in Nat
    BY <1>1, <1>3
  <2> HIDE DEF n
  <2>2. call' = [call EXCEPT !.tries = n]
    BY <1>3 DEF n
  <2>3. call' \in Call
    BY <2>1, <2>2, CallTyped DEF TypeOK
  <2>4. call'.at = "deselect" /\ call'.status = call.status
    BY <2>2 DEF TypeOK, Call, NotDeselected
  <2> QED BY <1>1, <1>2, <1>3, <2>3, <2>4, BlocksTyped, SessionEnds DEF TypeOK
<1>4. CASE Return(pal, call, IF call.status = "DESELECTED" THEN "IO_TIMEOUT" ELSE call.status)
  <2> DEFINE status == IF call.status = "DESELECTED" THEN "IO_TIMEOUT" ELSE call.status
  <2>1. status \in Statuses /\ status \notin InSession
    BY <1>1 DEF Statuses, InSession
  <2>2. Return(pal, call, status)
    BY <1>4
  <2> HIDE DEF status
  <2>3. /\ ReaderTypeOK' /\ pal' = pal /\ req' = NoFrame
        /\ call'.at = "idle" /\ call'.status = status
    BY <2>1, <2>2, ReturnEffect DEF TypeOK
  <2> QED BY <1>2, <2>1, <2>3, BlocksTyped, SessionEnds DEF TypeOK, ReaderTypeOK
<1> QED BY <1>3, <1>4 DEF NotDeselected

LEMMA PresenceKeeps ==
  ASSUME TypeOK, Agreement, Presence
  PROVE  TypeOK' /\ Agreement'
<1>1. /\ turn' = turn /\ card' = card /\ pal' = pal
      /\ rsp' = NoFrame /\ req' = NoFrame
  BY DEF Presence
<1>2. call' \in Call /\ call'.at = "idle" /\ call'.status = call.status
  BY DEF Presence, TypeOK, Call
<1>3. card.turn = turn
  BY DEF Presence, Agreement, ReaderOK
<1>4. Numbering'
  BY <1>1 DEF Agreement, Numbering, BlockNumbersAgree, RequestTakenOnce
<1>5. RequestOK' /\ ResponseOK'
  BY <1>1, FrameTypes DEF RequestOK, ResponseOK
<1>6. CardOK'
  BY <1>1, CardKept DEF Agreement
<1>7. ReaderOK'
  BY <1>1, <1>2, <1>3, FrameTypes DEF ReaderOK, Exchanging
<1> QED BY <1>1, <1>2, <1>4, <1>5, <1>6, <1>7, BlocksTyped DEF Agreement, TypeOK

LEMMA HalErrorKeeps ==
  ASSUME TypeOK, Agreement, HalError
  PROVE  TypeOK' /\ Agreement'
<1> DEFINE status == IF Exchanging \/ call.status = "DESELECTED" THEN "HAL" ELSE call.status
<1>1. status \in Statuses /\ status \notin InSession
  BY DEF HalError, TypeOK, Call, Statuses, InSession, Agreement, ReaderOK
<1>2. Return(pal, call, status) /\ rsp' = NoFrame /\ turn' = turn /\ card' = card
  BY DEF HalError
<1> HIDE DEF status
<1>3. /\ ReaderTypeOK' /\ pal' = pal /\ req' = NoFrame
      /\ call'.at = "idle" /\ call'.status = status
  BY <1>1, <1>2, ReturnEffect DEF TypeOK
<1> QED BY <1>1, <1>2, <1>3, BlocksTyped, SessionEnds DEF TypeOK, ReaderTypeOK

-----------------------------------------------------------------------------
(* The calls of the application. *)

LEMMA StartExchangeKeeps ==
  ASSUME TypeOK, Agreement, NEW mode \in AllModes, NEW n \in 1 .. MaxBlocks,
         StartExchange(mode, n)
  PROVE  TypeOK' /\ Agreement'
<1> DEFINE p == IF pal.state = "TX" THEN pal ELSE [pal EXCEPT !.state = "TX", !.chaining = FALSE]
           c == [InitCall EXCEPT !.mode = mode, !.left = n]
<1>1. /\ turn' = turn /\ card' = card /\ rsp' = rsp
      /\ SendIBlock(p, c, turn)
  BY DEF StartExchange
<1>2. /\ turn \in Nat /\ card.turn = turn
      /\ rsp = NoFrame
  BY DEF TypeOK, StartExchange, Idle, Agreement, ReaderOK
<1>3. p \in Pal /\ p.bn = pal.bn /\ p.state = "TX"
  <2>1. PICK b \in BOOLEAN : b = FALSE
    OBVIOUS
  <2>2. /\ [pal EXCEPT !.state = "TX", !.chaining = b] \in Pal
        /\ [pal EXCEPT !.state = "TX", !.chaining = b].bn = pal.bn
        /\ [pal EXCEPT !.state = "TX", !.chaining = b].state = "TX"
    BY DEF TypeOK, Pal
  <2> QED BY <2>1, <2>2 DEF TypeOK
<1>4. c \in Call
  <2>1. n \in Nat
    BY SizeAssumption
  <2> QED BY <2>1, InitCallTyped
<1> HIDE DEF p, c
<1>5. /\ ReaderTypeOK'
      /\ pal'.bn = pal.bn /\ pal'.state = "TX" /\ call'.at = "tx"
      /\ req'.type = "I" /\ req'.bn = pal.bn /\ req'.turn = turn + 1
  BY <1>1, <1>2, <1>3, <1>4, SendIBlockEffect
<1>6. Numbering'
  BY <1>1, <1>5 DEF Agreement, Numbering, BlockNumbersAgree, RequestTakenOnce
<1>7. RequestOK'
  BY <1>1, <1>2, <1>5, FrameTypes DEF RequestOK, Exchanging
<1>8. ResponseOK'
  BY <1>1, <1>2, FrameTypes DEF ResponseOK
<1>9. CardOK'
  BY <1>1, <1>2, CardKept DEF Agreement
<1>10. ReaderOK'
  BY <1>1, <1>2, <1>5, FrameTypes DEF ReaderOK, Exchanging
<1> QED BY <1>1, <1>5, <1>6, <1>7, <1>8, <1>9, <1>10 DEF Agreement, TypeOK, ReaderTypeOK

LEMMA ContinueReceptionKeeps ==
  ASSUME TypeOK, Agreement, NEW mode \in AllModes, ContinueReception(mode)
  PROVE  TypeOK' /\ Agreement'
<1> DEFINE p == [pal EXCEPT !.state = "RX", !.chaining = TRUE]
           c == [InitCall EXCEPT !.mode = mode]
<1>1. /\ turn' = turn /\ card' = card /\ rsp' = rsp
      /\ AskNext(p, c, "tx", turn)
  BY DEF ContinueReception
<1>2. turn \in Nat /\ card.turn = turn /\ rsp = NoFrame
  BY DEF TypeOK, ContinueReception, Idle, Agreement, ReaderOK
<1>3. p \in Pal /\ p.bn = pal.bn /\ p.state = "RX" /\ p.chaining
  <2>1. PICK b \in BOOLEAN : b = TRUE
    OBVIOUS
  <2>2. /\ [pal EXCEPT !.state = "RX", !.chaining = b] \in Pal
        /\ [pal EXCEPT !.state = "RX", !.chaining = b].bn = pal.bn
        /\ [pal EXCEPT !.state = "RX", !.chaining = b].state = "RX"
        /\ [pal EXCEPT !.state = "RX", !.chaining = b].chaining = b
    BY DEF TypeOK, Pal
  <2> QED BY <2>1, <2>2
<1>4. c \in Call
  BY InitCallTyped
<1> HIDE DEF p, c
<1>5. /\ ReaderTypeOK' /\ pal' = p /\ call'.at = "tx"
      /\ req'.type = "ACK" /\ req'.bn = pal.bn /\ req'.turn = turn + 1
  BY <1>1, <1>2, <1>3, <1>4, AskNextEffect
<1>6. Numbering'
  BY <1>1, <1>3, <1>5 DEF Agreement, Numbering, BlockNumbersAgree, RequestTakenOnce
<1>7. RequestOK'
  BY <1>1, <1>3, <1>5, FrameTypes DEF RequestOK, Exchanging
<1>8. ResponseOK'
  BY <1>1, <1>2, FrameTypes DEF ResponseOK
<1>9. CardOK'
  BY <1>1, <1>2, CardKept DEF Agreement
<1>10. ReaderOK'
  BY <1>1, <1>2, <1>3, <1>5, FrameTypes DEF ReaderOK, Exchanging
<1> QED BY <1>1, <1>5, <1>6, <1>7, <1>8, <1>9, <1>10 DEF Agreement, TypeOK, ReaderTypeOK

LEMMA PresCheckKeeps ==
  ASSUME TypeOK, Agreement, PresCheck
  PROVE  TypeOK' /\ Agreement'
<1>1. /\ turn' = turn /\ card' = card /\ rsp' = rsp /\ pal' = pal
      /\ req' = Block("NAK", pal.bn, turn)
  BY DEF PresCheck, BuildRBlock
<1>2. /\ turn \in Nat /\ card.turn = turn /\ rsp = NoFrame
      /\ call.status \in InSession
  BY DEF TypeOK, PresCheck, Idle, Agreement, ReaderOK
<1>3. call' \in Call /\ call'.at = "presence" /\ call'.status = call.status
  BY DEF PresCheck, TypeOK, Call
<1>4. req' \in Frame /\ req'.type = "NAK" /\ req'.bn = pal.bn
  <2>1. Block("NAK", pal.bn, turn) \in Frame
    BY <1>2, BlocksTyped DEF TypeOK, Pal
  <2> QED BY <1>1, <2>1 DEF Block
<1>5. Numbering'
  BY <1>1 DEF Agreement, Numbering, BlockNumbersAgree, RequestTakenOnce
<1>6. RequestOK'
  BY <1>1, <1>3, <1>4 DEF RequestOK
<1>7. ResponseOK'
  BY <1>1, <1>2, FrameTypes DEF ResponseOK
<1>8. CardOK'
  BY <1>1, CardKept DEF Agreement
<1>9. ReaderOK'
  BY <1>1, <1>2, <1>3, FrameTypes DEF ReaderOK, Exchanging
<1> QED BY <1>1, <1>3, <1>4, <1>5, <1>6, <1>7, <1>8, <1>9 DEF Agreement, TypeOK

LEMMA DeselectKeeps ==
  ASSUME TypeOK, Agreement, Deselect
  PROVE  TypeOK' /\ Agreement'
<1>1. "DESELECTED" \in Statuses /\ "DESELECTED" \notin InSession
  BY DEF Statuses, InSession
<1>2. /\ turn' = turn /\ card' = card /\ rsp' = NoFrame
  BY FrameTypes DEF Deselect, Idle, Agreement, ReaderOK
<1>3. /\ ReaderTypeOK' /\ pal' = pal /\ req' = BuildDeselect
      /\ call'.at = "deselect" /\ call'.status = "DESELECTED"
  BY <1>1, RetryAssumption, StartDeselectEffect DEF Deselect, TypeOK
<1> QED BY <1>1, <1>2, <1>3, BlocksTyped, SessionEnds DEF TypeOK, ReaderTypeOK

LEMMA InitCardTyped == InitCard \in Card
BY BlocksTyped DEF InitCard, Card

(* A session begins in agreement. *)
LEMMA SessionBegins ==
  ASSUME pal.bn = 0, call = InitCall, turn = 0, card = InitCard,
         req = NoFrame, rsp = NoFrame
  PROVE  Agreement
<1>1. Numbering
  BY DEF Numbering, BlockNumbersAgree, RequestTakenOnce, InitCard
<1>2. RequestOK /\ ResponseOK
  BY FrameTypes DEF RequestOK, ResponseOK
<1>3. CardOK
  BY FrameTypes DEF CardOK, ReplyOK, InitCard
<1>4. ReaderOK
  BY FrameTypes DEF ReaderOK, Exchanging, InitCall, InitCard
<1> QED BY <1>1, <1>2, <1>3, <1>4 DEF Agreement

LEMMA InitKeeps == Init => TypeOK /\ Agreement
<1>1. InitPal.bn = 0
  BY DEF InitPal
<1>2. Init => Agreement
  BY <1>1, SessionBegins DEF Init
<1>3. Init => TypeOK
  <2>1. Init => pal \in Pal /\ call \in Call
    BY InitCallTyped DEF Init
  <2>2. Init => card \in Card /\ req \in Frame /\ rsp \in Frame
    BY InitCardTyped, BlocksTyped DEF Init
  <2>3. Init => turn \in Nat
    BY DEF Init
  <2> QED BY <2>1, <2>2, <2>3 DEF TypeOK
<1> QED BY <1>2, <1>3

LEMMA ActivateKeeps ==
  ASSUME TypeOK, Agreement, Activate
  PROVE  TypeOK' /\ Agreement'
<1>1. pal' \in Pal /\ pal'.bn = 0
  <2>1. SetProtocol(pal) \in Pal /\ SetProtocol(pal).bn = 0
    <3>1. PICK n \in 0 .. 1 : n = 0
      OBVIOUS
    <3>2. [pal EXCEPT !.bn = n] \in Pal /\ [pal EXCEPT !.bn = n].bn = n
      BY DEF TypeOK, Pal
    <3> QED BY <3>1, <3>2 DEF SetProtocol
  <2>2. ResetProtocol \in Pal /\ ResetProtocol.bn = 0
    BY InitCallTyped DEF ResetProtocol, InitPal
  <2> QED BY <2>1, <2>2 DEF Activate
<1>2. /\ call' = InitCall /\ turn' = 0 /\ card' = InitCard
      /\ req' = NoFrame /\ rsp' = NoFrame
  BY DEF Activate, Agreement, ReaderOK
<1>3. Numbering'
  BY <1>1, <1>2 DEF Numbering, BlockNumbersAgree, RequestTakenOnce, InitCard
<1>4. RequestOK' /\ ResponseOK'
  BY <1>2, FrameTypes DEF RequestOK, ResponseOK
<1>5. CardOK'
  BY <1>2, FrameTypes DEF CardOK, ReplyOK, InitCard
<1>6. ReaderOK'
  BY <1>2, FrameTypes DEF ReaderOK, Exchanging, InitCall, InitCard
<1> QED BY <1>1, <1>2, <1>3, <1>4, <1>5, <1>6, InitCallTyped, InitCardTyped, BlocksTyped
        DEF Agreement, TypeOK

-----------------------------------------------------------------------------
(* The steps of the card and of the channel. *)

CardTyped == card \in Card /\ rsp \in Frame

(* The card takes the request that is open, or none.                       *)
MayTake ==
  \/ card'.turn = card.turn
  \/ Exchanging /\ card.turn = turn /\ card'.turn = turn + 1

(* What a card that replies keeps, and what it puts into the field.        *)
LEMMA ReplyEffect ==
  ASSUME NEW c \in Card, NEW f \in Frame, Reply(c, f)
  PROVE  /\ CardTyped'
         /\ card'.bn = c.bn /\ card'.turn = c.turn /\ card'.taken = c.taken
         /\ rsp' = card'.last
         /\ \/ card'.last = f /\ card'.reply = NoFrame
            \/ card'.last.type = "WTX" /\ card'.reply = f
<1>1. CASE card' = [c EXCEPT !.last = f, !.reply = NoFrame, !.waits = 0] /\ rsp' = f
  <2>1. PICK g \in Frame : g = NoFrame
    BY BlocksTyped
  <2>2. PICK n \in Nat : n = 0
    OBVIOUS
  <2> DEFINE d == [c EXCEPT !.last = f, !.reply = g, !.waits = n]
  <2>3. d \in Card /\ d.bn = c.bn /\ d.turn = c.turn /\ d.taken = c.taken
        /\ d.last = f /\ d.reply = g
    BY DEF Card
  <2>4. card' = d
    BY <1>1, <2>1, <2>2
  <2> HIDE DEF d
  <2> QED BY <1>1, <2>1, <2>3, <2>4 DEF CardTyped
<1>2. ASSUME NEW m \in Wtxm,
             card' = [c EXCEPT !.last = BuildWtx(m), !.reply = f, !.waits = @ + 1],
             rsp' = BuildWtx(m)
      PROVE  /\ CardTyped'
             /\ card'.bn = c.bn /\ card'.turn = c.turn /\ card'.taken = c.taken
             /\ rsp' = card'.last
             /\ card'.last.type = "WTX" /\ card'.reply = f
  <2>1. PICK g \in Frame : g = BuildWtx(m) /\ g.type = "WTX"
    BY BlocksTyped, FrameTypes, SizeAssumption
  <2>2. PICK n \in Nat : n = c.waits + 1
    BY DEF Card
  <2> DEFINE d == [c EXCEPT !.last = g, !.reply = f, !.waits = n]
  <2>3. d \in Card /\ d.bn = c.bn /\ d.turn = c.turn /\ d.taken = c.taken
        /\ d.last = g /\ d.reply = f
    BY DEF Card
  <2>4. card' = d
    BY <1>2, <2>1, <2>2
  <2> HIDE DEF d
  <2> QED BY <1>2, <2>1, <2>3, <2>4 DEF CardTyped
<1> QED BY <1>1, <1>2 DEF Reply

(* The record of a card that has taken f. *)
LEMMA TakenEffect ==
  ASSUME TypeOK, NEW f \in Frame, NEW b \in BOOLEAN, NEW n \in Nat
  PROVE  /\ Taken(f) \in Card
         /\ \A d \in {[Taken(f) EXCEPT !.chain = b], [Taken(f) EXCEPT !.toSend = n],
                      [Taken(f) EXCEPT !.chain = b, !.toSend = n]} :
              /\ d \in Card
              /\ d.bn = Toggle(card.bn) /\ d.turn = card.turn + 1 /\ d.taken = f.turn
<1> DEFINE bn == Toggle(card.bn)
           t == card.turn + 1
           k == f.turn
           d == [card EXCEPT !.bn = bn, !.turn = t, !.taken = k]
<1>1. bn \in 0 .. 1 /\ t \in Nat /\ k \in Nat
  BY DEF TypeOK, Card, Toggle, Frame
<1> HIDE DEF bn, t, k
<1>2. d \in Card /\ d.bn = bn /\ d.turn = t /\ d.taken = k
  BY <1>1 DEF TypeOK, Card
<1>3. Taken(f) = d
  BY DEF Taken, bn, t, k
<1> HIDE DEF d
<1>4. \A e \in {[d EXCEPT !.chain = b], [d EXCEPT !.toSend = n],
                [d EXCEPT !.chain = b, !.toSend = n]} :
        /\ e \in Card /\ e.bn = d.bn /\ e.turn = d.turn /\ e.taken = d.taken
  BY <1>2 DEF Card
<1> QED BY <1>2, <1>3, <1>4 DEF bn, t, k

(* A request is taken and a reply of the given type is sent or delayed.    *)
LEMMA TakeKeeps ==
  ASSUME TypeOK, Agreement, Exchanging, req.turn = turn + 1, card.turn = turn,
         NEW c \in Card, NEW f \in Frame, Reply(c, f),
         c.bn = Toggle(card.bn), c.turn = card.turn + 1, c.taken = req.turn,
         f.type = "I" \/ (f.type = "ACK" /\ pal.state = "TX"),
         f.bn = Toggle(card.bn), f.turn = card.turn + 1,
         req' = NoFrame, turn' = turn, pal' = pal, call' = call
  PROVE  Agreement' /\ CardTyped' /\ MayTake
<1>1. /\ CardTyped'
      /\ card'.bn = c.bn /\ card'.turn = c.turn /\ card'.taken = c.taken
      /\ rsp' = card'.last
      /\ \/ card'.last = f /\ card'.reply = NoFrame
         \/ card'.last.type = "WTX" /\ card'.reply = f
  BY ReplyEffect
<1>2. Numbering'
  BY <1>1, CardCounts DEF Agreement
<1>3. RequestOK'
  BY FrameTypes DEF RequestOK
<1>4. ResponseOK'
  BY <1>1 DEF ResponseOK, Exchanging, TxWaits
<1>5. CardOK'
  BY <1>1, FrameTypes DEF CardOK, ReplyOK
<1>6. ReaderOK'
  BY FrameTypes DEF Agreement, ReaderOK, Exchanging
<1> QED BY <1>1, <1>2, <1>3, <1>4, <1>5, <1>6 DEF Agreement, MayTake

LEMMA TakeIBlockKeeps ==
  ASSUME TypeOK, Agreement, req.type = "I", TakeIBlock(req),
         req' = NoFrame, turn' = turn, pal' = pal, call' = call
  PROVE  Agreement' /\ CardTyped' /\ MayTake
<1>1. /\ Exchanging /\ req.turn = turn + 1 /\ card.turn = turn /\ pal.state = "TX"
      /\ card.turn + 1 \in Nat /\ Toggle(card.bn) \in 0 .. 1 /\ req \in Frame
  BY DEF Agreement, RequestOK, TypeOK, Card, Toggle
<1>2. CASE Reply([Taken(req) EXCEPT !.chain = TRUE],
                 BuildRBlock(Toggle(card.bn), TRUE, card.turn + 1))
  <2> DEFINE f == BuildRBlock(Toggle(card.bn), TRUE, card.turn + 1)
             c == [Taken(req) EXCEPT !.chain = TRUE]
  <2>1. PICK b \in BOOLEAN : b = TRUE
    OBVIOUS
  <2>2. c \in Card /\ c.bn = Toggle(card.bn) /\ c.turn = card.turn + 1 /\ c.taken = req.turn
    BY <1>1, <2>1, TakenEffect
  <2>3. f.type = "ACK" /\ f.bn = Toggle(card.bn) /\ f.turn = card.turn + 1
    BY DEF BuildRBlock, Block
  <2>4. f \in Frame
    BY <1>1, BlocksTyped DEF BuildRBlock
  <2> HIDE DEF f, c
  <2> QED BY <1>1, <1>2, <2>2, <2>3, <2>4, TakeKeeps DEF f, c
<1>3. ASSUME NEW n \in 1 .. AnswerBlocks,
             Reply([Taken(req) EXCEPT !.chain = FALSE, !.toSend = n - 1],
                   BuildIBlock(Toggle(card.bn), n > 1, NadEnabled, card.turn + 1))
      PROVE  Agreement' /\ CardTyped' /\ MayTake
  <2> DEFINE k == n - 1
             more == n > 1
             f == BuildIBlock(Toggle(card.bn), more, NadEnabled, card.turn + 1)
             c == [Taken(req) EXCEPT !.chain = FALSE, !.toSend = k]
  <2>1. PICK b \in BOOLEAN : b = FALSE
    OBVIOUS
  <2>2. k \in Nat /\ more \in BOOLEAN
    BY SizeAssumption
  <2> HIDE DEF k, more
  <2>3. c \in Card /\ c.bn = Toggle(card.bn) /\ c.turn = card.turn + 1 /\ c.taken = req.turn
    BY <1>1, <2>1, <2>2, TakenEffect
  <2>4. f.type = "I" /\ f.bn = Toggle(card.bn) /\ f.turn = card.turn + 1
    BY FrameTypes
  <2>5. f \in Frame
    BY <1>1, <2>2, BlocksTyped, ModeAssumption
  <2>6. Reply(c, f)
    BY <1>3 DEF k, more
  <2> HIDE DEF f, c
  <2> QED BY <1>1, <2>3, <2>4, <2>5, <2>6, TakeKeeps
<1> QED BY <1>2, <1>3 DEF TakeIBlock

(* A reply that was sent before, or says nothing new, goes out.            *)
LEMMA RepeatKeeps ==
  ASSUME TypeOK, Agreement, req.type \in {"ACK", "NAK"}, card' = card,
         \/ req.bn = card.bn /\ rsp' = card.last
         \/ /\ req.bn # card.bn /\ req.type = "NAK"
            /\ rsp'.type = "ACK" /\ rsp'.bn = card.bn /\ rsp'.turn = card.turn
         \/ rsp' = rsp,
         req' = NoFrame, turn' = turn, pal' = pal, call' = call
  PROVE  Agreement'
<1>1. Numbering'
  BY DEF Agreement, Numbering, BlockNumbersAgree, RequestTakenOnce
<1>2. RequestOK'
  BY FrameTypes DEF RequestOK
<1>3. /\ call' = call /\ pal' = pal /\ turn' = turn /\ card' = card
      /\ req.bn = pal.bn
      /\ req.type = "ACK" => Exchanging /\ pal.state = "RX"
      /\ req.type = "NAK" => TxWaits \/ call.at = "presence"
  BY DEF Agreement, RequestOK
<1>4. ResponseOK'
  <2>1. CASE req.bn = card.bn /\ rsp' = card.last
    <3>1. card.turn = turn + 1 /\ card.turn # turn
      BY <1>3, <2>1, NumbersTell DEF Agreement, Numbering, TypeOK
    <3>2. TxWaits \/ (Exchanging /\ pal.state = "RX")
      BY <1>3, <3>1 DEF Agreement, ReaderOK
    <3>3. Exchanging
      BY <3>2 DEF TxWaits
    <3> QED BY <1>3, <2>1, <3>1, <3>3 DEF Agreement, CardOK, ReplyOK, ResponseOK, Exchanging, TxWaits
  <2>2. CASE /\ req.type = "NAK"
             /\ rsp'.type = "ACK" /\ rsp'.bn = card.bn /\ rsp'.turn = card.turn
    BY <1>3, <2>2 DEF ResponseOK, Exchanging, TxWaits
  <2>3. CASE rsp' = rsp
    BY <1>3, <2>3 DEF Agreement, ResponseOK, Exchanging, TxWaits
  <2> QED BY <2>1, <2>2, <2>3
<1>5. CardOK'
  BY CardKept DEF Agreement
<1>6. ReaderOK'
  <2>1. call.at # "idle"
    BY <1>3 DEF TxWaits, Exchanging
  <2> QED BY <2>1, FrameTypes DEF Agreement, ReaderOK, Exchanging
<1> QED BY <1>1, <1>2, <1>4, <1>5, <1>6 DEF Agreement

LEMMA TakeRBlockKeeps ==
  ASSUME TypeOK, Agreement, req.type \in {"ACK", "NAK"}, TakeRBlock(req),
         req' = NoFrame, turn' = turn, pal' = pal, call' = call
  PROVE  Agreement' /\ CardTyped' /\ MayTake
<1>1. /\ card \in Card /\ rsp \in Frame /\ req \in Frame /\ card.last \in Frame
      /\ card.bn \in 0 .. 1 /\ card.turn \in Nat /\ card.turn + 1 \in Nat /\ card.toSend \in Nat
      /\ Toggle(card.bn) \in 0 .. 1
  BY DEF TypeOK, Card, Toggle
<1>2. CASE req.bn = card.bn /\ rsp' = card.last /\ UNCHANGED card
  BY <1>1, <1>2, RepeatKeeps DEF CardTyped, MayTake
<1>3. CASE /\ req.bn # card.bn /\ req.type = "NAK"
           /\ rsp' = BuildRBlock(card.bn, TRUE, card.turn) /\ UNCHANGED card
  <2>1. rsp' = Block("ACK", card.bn, card.turn)
    BY <1>3 DEF BuildRBlock
  <2>2. rsp'.type = "ACK" /\ rsp'.bn = card.bn /\ rsp'.turn = card.turn
    BY <2>1 DEF Block
  <2>3. rsp' \in Frame
    BY <1>1, <2>1, BlocksTyped
  <2> QED BY <1>1, <1>3, <2>2, <2>3, RepeatKeeps DEF CardTyped, MayTake
<1>4. CASE /\ req.bn # card.bn /\ req.type = "ACK" /\ card.toSend > 0
           /\ Reply([Taken(req) EXCEPT !.toSend = @ - 1],
                    BuildIBlock(Toggle(card.bn), card.toSend > 1, FALSE, card.turn + 1))
  <2> DEFINE k == card.toSend - 1
             more == card.toSend > 1
             f == BuildIBlock(Toggle(card.bn), more, FALSE, card.turn + 1)
             c == [Taken(req) EXCEPT !.toSend = k]
  <2>1. Taken(req).toSend = card.toSend
    BY <1>1 DEF Taken, Card
  <2>2. k \in Nat /\ more \in BOOLEAN
    BY <1>1, <1>4
  <2>3. Reply([Taken(req) EXCEPT !.toSend = Taken(req).toSend - 1], f)
    BY <1>4
  <2> HIDE DEF more
  <2>4. Reply(c, f)
    BY <2>1, <2>3
  <2> HIDE DEF k
  <2>5. c \in Card /\ c.bn = Toggle(card.bn) /\ c.turn = card.turn + 1 /\ c.taken = req.turn
    BY <1>1, <2>2, TakenEffect
  <2>6. f.type = "I" /\ f.bn = Toggle(card.bn) /\ f.turn = card.turn + 1
    BY DEF BuildIBlock, Block
  <2>7. f \in Frame
    <3>1. PICK b \in BOOLEAN : b = FALSE
      OBVIOUS
    <3> QED BY <1>1, <2>2, <3>1, BlocksTyped
  <2>8. Exchanging /\ req.turn = turn + 1 /\ card.turn = turn
    BY <1>4, NumbersTell DEF Agreement, RequestOK, Numbering
  <2> HIDE DEF f, c
  <2> QED BY <2>4, <2>5, <2>6, <2>7, <2>8, TakeKeeps
<1>5. CASE UNCHANGED <<card, rsp>>
  BY <1>1, <1>5, RepeatKeeps DEF CardTyped, MayTake
<1> QED BY <1>2, <1>3, <1>4, <1>5 DEF TakeRBlock

(* After a granted time extension the delayed reply comes, or another      *)
(* request for time.                                                       *)
LEMMA GrantKeeps ==
  ASSUME TypeOK, Agreement, req.type = "WTX", Reply(card, card.reply),
         req' = NoFrame, turn' = turn, pal' = pal, call' = call
  PROVE  Agreement' /\ CardTyped' /\ MayTake
<1>1. card \in Card /\ card.reply \in Frame
  BY DEF TypeOK, Card
<1>2. /\ CardTyped'
      /\ card'.bn = card.bn /\ card'.turn = card.turn /\ card'.taken = card.taken
      /\ rsp' = card'.last
      /\ \/ card'.last = card.reply /\ card'.reply = NoFrame
         \/ card'.last.type = "WTX" /\ card'.reply = card.reply
  BY <1>1, ReplyEffect
<1>3. /\ Exchanging /\ card.turn = turn + 1 /\ card.reply.type \in {"I", "ACK"}
      /\ ReplyOK(card.reply)
  BY DEF Agreement, RequestOK, CardOK
<1>4. /\ card.reply.bn = card.bn /\ card.reply.turn = card.turn
      /\ card.reply.type = "ACK" => pal.state = "TX"
  BY <1>3 DEF ReplyOK
<1>5. Numbering'
  BY <1>2 DEF Agreement, Numbering, BlockNumbersAgree, RequestTakenOnce
<1>6. RequestOK'
  BY FrameTypes DEF RequestOK
<1>7. ResponseOK'
  BY <1>2, <1>3, <1>4 DEF ResponseOK, Exchanging, TxWaits
<1>8. CardOK'
  BY <1>2, <1>3, <1>4, FrameTypes DEF CardOK, ReplyOK
<1>9. ReaderOK'
  BY <1>3, FrameTypes DEF Agreement, ReaderOK, Exchanging
<1> QED BY <1>2, <1>5, <1>6, <1>7, <1>8, <1>9 DEF Agreement, MayTake

LEMMA CardReceiveKeeps ==
  ASSUME TypeOK, Agreement, CardReceive
  PROVE  TypeOK' /\ Agreement' /\ MayTake
<1>1. /\ req' = NoFrame /\ turn' = turn /\ pal' = pal /\ call' = call
  BY DEF CardReceive
<1>2. CASE req.type = "I" /\ TakeIBlock(req)
  BY <1>1, <1>2, TakeIBlockKeeps, BlocksTyped DEF TypeOK, CardTyped
<1>3. CASE req.type \in {"ACK", "NAK"} /\ TakeRBlock(req)
  BY <1>1, <1>3, TakeRBlockKeeps, BlocksTyped DEF TypeOK, CardTyped
<1>4. CASE req.type = "WTX" /\ Reply(card, card.reply)
  BY <1>1, <1>4, GrantKeeps, BlocksTyped DEF TypeOK, CardTyped
<1>5. CASE req.type = "DESELECT" /\ card' = [card EXCEPT !.active = FALSE] /\ rsp' = req
  <2>1. /\ card' \in Card
        /\ card'.bn = card.bn /\ card'.turn = card.turn /\ card'.taken = card.taken
        /\ card'.last = card.last /\ card'.reply = card.reply
    <3>1. PICK b \in BOOLEAN : b = FALSE
      OBVIOUS
    <3> DEFINE d == [card EXCEPT !.active = b]
    <3>2. /\ d \in Card /\ d.bn = card.bn /\ d.turn = card.turn /\ d.taken = card.taken
          /\ d.last = card.last /\ d.reply = card.reply
      BY DEF TypeOK, Card
    <3>3. card' = d
      BY <1>5, <3>1
    <3> HIDE DEF d
    <3> QED BY <3>2, <3>3
  <2>2. Numbering'
    BY <1>1, <2>1 DEF Agreement, Numbering, BlockNumbersAgree, RequestTakenOnce
  <2>3. RequestOK'
    BY <1>1, FrameTypes DEF RequestOK
  <2>4. ResponseOK'
    BY <1>1, <1>5, <2>1 DEF Agreement, RequestOK, ResponseOK
  <2>5. CardOK'
    BY <1>1, <2>1 DEF Agreement, CardOK, ReplyOK
  <2>6. ReaderOK'
    <3>1. call.at = "deselect"
      BY <1>5 DEF Agreement, RequestOK
    <3> QED BY <1>1, <3>1, FrameTypes DEF Agreement, ReaderOK, Exchanging
  <2> QED BY <1>1, <1>5, <2>1, <2>2, <2>3, <2>4, <2>5, <2>6, BlocksTyped
         DEF Agreement, TypeOK, MayTake
<1>6. CASE UNCHANGED <<card, rsp>>
  <2>1. Numbering'
    BY <1>1, <1>6 DEF Agreement, Numbering, BlockNumbersAgree, RequestTakenOnce
  <2>2. RequestOK' /\ ResponseOK'
    BY <1>1, <1>6, FrameTypes DEF Agreement, RequestOK, ResponseOK, Exchanging, TxWaits
  <2>3. CardOK'
    BY <1>1, <1>6, CardKept DEF Agreement
  <2>4. ReaderOK'
    BY <1>1, <1>6, FrameTypes DEF Agreement, ReaderOK, Exchanging
  <2> QED BY <1>1, <1>6, <2>1, <2>2, <2>3, <2>4, BlocksTyped DEF Agreement, TypeOK, MayTake
<1> QED BY <1>2, <1>3, <1>4, <1>5, <1>6 DEF CardReceive

LEMMA LossKeeps ==
  ASSUME TypeOK, Agreement, LoseRequest \/ LoseResponse
  PROVE  TypeOK' /\ Agreement'
<1>1. /\ turn' = turn /\ pal' = pal /\ call' = call /\ card' = card
      /\ req' \in {req, NoFrame} /\ rsp' \in {rsp, NoFrame}
  BY DEF LoseRequest, LoseResponse
<1>2. Numbering'
  BY <1>1 DEF Agreement, Numbering, BlockNumbersAgree, RequestTakenOnce
<1>3. RequestOK'
  BY <1>1, FrameTypes DEF Agreement, RequestOK, Exchanging, TxWaits
<1>4. ResponseOK'
  BY <1>1, FrameTypes DEF Agreement, ResponseOK, Exchanging, TxWaits
<1>5. CardOK'
  BY <1>1, CardKept DEF Agreement
<1>6. ReaderOK'
  BY <1>1, FrameTypes DEF Agreement, ReaderOK, Exchanging
<1> QED BY <1>1, <1>2, <1>3, <1>4, <1>5, <1>6, BlocksTyped DEF Agreement, TypeOK

LEMMA StepKeeps ==
  ASSUME TypeOK, Agreement, [Next]_vars
  PROVE  TypeOK' /\ Agreement'
<1>1. CASE \E mode \in AllModes, n \in 1 .. MaxBlocks : StartExchange(mode, n)
  BY <1>1, StartExchangeKeeps
<1>2. CASE \E mode \in AllModes : ContinueReception(mode)
  BY <1>2, ContinueReceptionKeeps
<1>3. CASE PresCheck
  BY <1>3, PresCheckKeeps
<1>4. CASE Deselect
  BY <1>4, DeselectKeeps
<1>5. CASE Activate
  BY <1>5, ActivateKeeps
<1>6. CASE Receive
  BY <1>6, ReceiveKeeps
<1>7. CASE NoResponse
  BY <1>7, NoResponseKeeps
<1>8. CASE HalError
  BY <1>8, HalErrorKeeps
<1>9. CASE Deselected
  BY <1>9, DeselectedKeeps
<1>10. CASE NotDeselected
  BY <1>10, NotDeselectedKeeps
<1>11. CASE Presence
  BY <1>11, PresenceKeeps
<1>12. CASE CardReceive
  BY <1>12, CardReceiveKeeps
<1>13. CASE LoseRequest \/ LoseResponse
  BY <1>13, LossKeeps
<1>14. CASE UNCHANGED vars
  <2>1. /\ pal' = pal /\ call' = call /\ turn' = turn /\ card' = card
        /\ req' = req /\ rsp' = rsp
    BY <1>14 DEF vars
  <2>2. TypeOK'
    BY <2>1 DEF TypeOK
  <2>3. Numbering' /\ RequestOK' /\ ResponseOK'
    BY <2>1 DEF Agreement, Numbering, BlockNumbersAgree, RequestTakenOnce,
                RequestOK, ResponseOK, Exchanging, TxWaits
  <2>4. CardOK' /\ ReaderOK'
    BY <2>1 DEF Agreement, CardOK, ReplyOK, ReaderOK, Exchanging
  <2> QED BY <2>2, <2>3, <2>4 DEF Agreement
<1> QED BY <1>1, <1>2, <1>3, <1>4, <1>5, <1>6, <1>7, <1>8, <1>9, <1>10, <1>11, <1>12,
           <1>13, <1>14 DEF Next

-----------------------------------------------------------------------------
(* The theorems. *)

(* The inductive invariant holds in every reachable state. *)
THEOREM AgreementInvariant == Spec => [](TypeOK /\ Agreement)
<1>1. TypeOK /\ Agreement /\ [Next]_vars => (TypeOK /\ Agreement)'
  BY StepKeeps
<1> QED BY <1>1, InitKeeps, PTL DEF Spec

(* The state of reader, card and channel has its type. *)
THEOREM TypeCorrect == Spec => []TypeOK
BY AgreementInvariant, PTL

(* Whatever is lost and sent again, the block numbers of the two ends stay *)
(* the parity of the requests each has counted.                            *)
THEOREM BlockNumbersCorrect == Spec => []BlockNumbersAgree
<1>1. Agreement => BlockNumbersAgree
  BY DEF Agreement, Numbering
<1> QED BY <1>1, AgreementInvariant, PTL

(* The card executes no command twice and misses none.                     *)
THEOREM TakenOnce == Spec => []RequestTakenOnce
<1>1. Agreement => RequestTakenOnce
  BY DEF Agreement, Numbering
<1> QED BY <1>1, AgreementInvariant, PTL

(* A reader in reception is never sent an R(ACK).                          *)
THEOREM ReceptionCorrect == Spec => []NoAckInReception
<1>1. Agreement => NoAckInReception
  BY DEF Agreement, ResponseOK, NoAckInReception, TxWaits, Exchanging
<1> QED BY <1>1, AgreementInvariant, PTL

(* What the reader accepts as an answer was sent for that request.         *)
THEOREM AnswerCorrect == Spec => AnswerIsForRequest
<1>1. TypeOK /\ Agreement /\ [Next]_vars => [turn' > turn => rsp.turn = turn']_vars
  <2> SUFFICES ASSUME TypeOK, Agreement, Next, turn' > turn
               PROVE  rsp.turn = turn'
    OBVIOUS
  <2>1. turn \in Nat
    BY DEF TypeOK
  <2>2. Receive
    <3>1. turn' # turn /\ turn' # 0
      BY <2>1
    <3>2. /\ ~(\E mode \in AllModes, n \in 1 .. MaxBlocks : StartExchange(mode, n))
          /\ ~(\E mode \in AllModes : ContinueReception(mode))
          /\ ~PresCheck /\ ~Deselect /\ ~Activate
      BY <3>1 DEF StartExchange, ContinueReception, PresCheck, Deselect, Activate
    <3>3. ~NoResponse
      BY <3>1 DEF NoResponse, InvalidBlock, Recover, GiveUp
    <3>4. /\ ~HalError /\ ~Deselected /\ ~NotDeselected /\ ~Presence
          /\ ~CardReceive /\ ~LoseRequest /\ ~LoseResponse
      BY <3>1 DEF HalError, Deselected, NotDeselected, Presence,
                  CardReceive, LoseRequest, LoseResponse
    <3> QED BY <3>2, <3>3, <3>4 DEF Next
  <2>3. turn' = turn + 1 /\ (rsp.type = "I" \/ (rsp.type = "ACK" /\ rsp.bn = pal.bn))
    BY <2>1, <2>2 DEF Receive, Overflows, HandleOverflow, HandleIBlock, HandleAck,
                      HandleWtx, ProtocolError
  <2>4. rsp.turn = card.turn
    BY <2>3 DEF Agreement, ResponseOK
  <2>5. CASE rsp.type = "I"
    BY <2>3, <2>4, <2>5 DEF Agreement, ResponseOK
  <2>6. CASE rsp.type = "ACK" /\ rsp.bn = pal.bn
    BY <2>3, <2>4, <2>6, NumbersTell DEF Agreement, Numbering, ResponseOK
  <2> QED BY <2>3, <2>5, <2>6
<1> QED BY <1>1, AgreementInvariant, PTL DEF Spec, AnswerIsForRequest

-----------------------------------------------------------------------------
(***************************************************************************)
(* The block protocol implements BlockAlternation: whatever is lost, every *)
(* step of reader, card and channel asks, takes or answers one request in  *)
(* turn, ends or restarts the session, or changes nothing of that.         *)
(***************************************************************************)

Asked == IF Exchanging THEN turn + 1 ELSE turn

(* Nothing that the abstract specification sees changes. *)
Unseen ==
  Asked' = Asked /\ card'.turn = card.turn /\ turn' = turn /\ SessionOver' = SessionOver

(* What the abstract steps are in terms of the block protocol.             *)
LEMMA AbstractStep ==
  ASSUME \/ Unseen
         \/ /\ ~SessionOver /\ Asked = turn /\ Asked' = Asked + 1
            /\ card'.turn = card.turn /\ turn' = turn /\ SessionOver' = SessionOver
         \/ /\ ~SessionOver /\ card.turn < Asked /\ card'.turn = Asked
            /\ Asked' = Asked /\ turn' = turn /\ SessionOver' = SessionOver
         \/ /\ ~SessionOver /\ turn < card.turn /\ turn' = card.turn
            /\ Asked' \in {Asked, Asked + 1}
            /\ card'.turn = card.turn /\ SessionOver' = SessionOver
         \/ /\ ~SessionOver /\ SessionOver' = TRUE /\ Asked' = turn
            /\ card'.turn = card.turn /\ turn' = turn
         \/ /\ SessionOver /\ Asked' = 0 /\ card'.turn = 0 /\ turn' = 0
            /\ SessionOver' = FALSE
  PROVE  [Alternation!Next]_(Alternation!alt)
<1>1. CASE Unseen
  BY <1>1 DEF Unseen, Asked, Alternation!alt
<1>2. CASE /\ ~SessionOver /\ Asked = turn /\ Asked' = Asked + 1
           /\ card'.turn = card.turn /\ turn' = turn /\ SessionOver' = SessionOver
  BY <1>2 DEF Asked, Alternation!Next, Alternation!Ask
<1>3. CASE /\ ~SessionOver /\ card.turn < Asked /\ card'.turn = Asked
           /\ Asked' = Asked /\ turn' = turn /\ SessionOver' = SessionOver
  BY <1>3 DEF Asked, Alternation!Next, Alternation!Take
<1>4. CASE /\ ~SessionOver /\ turn < card.turn /\ turn' = card.turn
           /\ Asked' \in {Asked, Asked + 1}
           /\ card'.turn = card.turn /\ SessionOver' = SessionOver
  BY <1>4 DEF Asked, Alternation!Next, Alternation!Answer
<1>5. CASE /\ ~SessionOver /\ SessionOver' = TRUE /\ Asked' = turn
           /\ card'.turn = card.turn /\ turn' = turn
  BY <1>5 DEF Asked, Alternation!Next, Alternation!GiveUp
<1>6. CASE /\ SessionOver /\ Asked' = 0 /\ card'.turn = 0 /\ turn' = 0
           /\ SessionOver' = FALSE
  BY <1>6 DEF Asked, Alternation!Next, Alternation!Restart
<1> QED BY <1>1, <1>2, <1>3, <1>4, <1>5, <1>6

(* The reader's reaction to a reply, or to silence: a request is answered, *)
(* and possibly the next one asked, or the session ends, or nothing.       *)
LEMMA OutcomeAbstract ==
  ASSUME TypeOK, TypeOK', Agreement, Agreement', Exchanging, Outcome, card' = card
  PROVE  [Alternation!Next]_(Alternation!alt)
<1>1. /\ turn \in Nat /\ card.turn \in {turn, turn + 1} /\ card'.turn \in {turn', turn' + 1}
      /\ ~SessionOver /\ Asked = turn + 1
  BY DEF TypeOK, Agreement, Numbering, BlockNumbersAgree, SessionOver, Exchanging, Asked
<1>2. CASE GivesUp
  <2>1. SessionOver' = TRUE /\ Asked' = turn
    BY <1>2 DEF GivesUp, SessionOver, Idle, Asked, Exchanging
  <2> QED BY <1>1, <1>2, <2>1, AbstractStep DEF GivesUp
<1>3. CASE GoesOn
  <2>1. SessionOver' = SessionOver /\ Asked' = Asked
    BY <1>1, <1>3 DEF GoesOn, SessionOver, Asked, Exchanging
  <2> QED BY <1>3, <2>1, AbstractStep DEF GoesOn, Unseen
<1>4. CASE Counts
  <2>1. card.turn = turn + 1
    BY <1>1, <1>4 DEF Counts
  <2>2. SessionOver' = SessionOver
    BY <1>1, <1>4 DEF Counts, SessionOver, Idle
  <2>3. Asked' \in {Asked, Asked + 1}
    BY <1>1, <1>4 DEF Counts, Asked, Exchanging
  <2>4. turn < card.turn /\ turn' = card.turn
    BY <1>1, <1>4, <2>1 DEF Counts
  <2>5. ~SessionOver /\ card'.turn = card.turn
    BY <1>1
  <2> QED BY <2>2, <2>3, <2>4, <2>5, AbstractStep
<1> QED BY <1>2, <1>3, <1>4 DEF Outcome

(* The application begins: an exchange asks the next request.              *)
LEMMA ExchangeAbstract ==
  ASSUME Idle, turn' = turn, card' = card, call'.at = "tx"
  PROVE  [Alternation!Next]_(Alternation!alt)
<1>1. ~SessionOver /\ SessionOver' = SessionOver
  BY DEF Idle, SessionOver
<1>2. Asked = turn /\ Asked' = Asked + 1
  BY DEF Idle, Asked, Exchanging
<1> QED BY <1>1, <1>2, AbstractStep

(* What the calls that wait for no block do.                               *)
LEMMA CallStep ==
  ASSUME TypeOK, Agreement
  PROVE  /\ \A mode \in AllModes, n \in 1 .. MaxBlocks :
              StartExchange(mode, n) => Idle /\ turn' = turn /\ card' = card /\ call'.at = "tx"
         /\ \A mode \in AllModes :
              ContinueReception(mode) => Idle /\ turn' = turn /\ card' = card /\ call'.at = "tx"
<1>1. ASSUME NEW mode \in AllModes, NEW n \in 1 .. MaxBlocks, StartExchange(mode, n)
      PROVE  Idle /\ turn' = turn /\ card' = card /\ call'.at = "tx"
  <2> DEFINE c == [InitCall EXCEPT !.mode = mode, !.left = n]
             d == EnterIsoHandling(c, "tx", c.retransmits)
  <2>1. c \in Call
    <3>1. n \in Nat
      BY SizeAssumption
    <3> QED BY <3>1, InitCallTyped
  <2>2. call' = [d EXCEPT !.effort = Spent(d)]
    BY <1>1 DEF StartExchange, SendIBlock, Send
  <2> HIDE DEF c
  <2>3. call'.at = "tx"
    BY <2>1, <2>2 DEF EnterIsoHandling, Call
  <2> QED BY <1>1, <2>3 DEF StartExchange
<1>2. ASSUME NEW mode \in AllModes, ContinueReception(mode)
      PROVE  Idle /\ turn' = turn /\ card' = card /\ call'.at = "tx"
  <2> DEFINE c == [InitCall EXCEPT !.mode = mode]
             d == EnterIsoHandling(c, "tx", 0)
  <2>1. c \in Call
    BY InitCallTyped
  <2>2. call' = [d EXCEPT !.effort = Spent(d)]
    BY <1>2 DEF ContinueReception, AskNext, Send
  <2> HIDE DEF c
  <2>3. call'.at = "tx"
    BY <2>1, <2>2 DEF EnterIsoHandling, Call
  <2> QED BY <1>2, <2>3 DEF ContinueReception
<1> QED BY <1>1, <1>2

LEMMA DeselectAbstract ==
  ASSUME TypeOK, Deselect
  PROVE  [Alternation!Next]_(Alternation!alt)
<1>1. /\ turn' = turn /\ card' = card
      /\ call'.at = "deselect"
  BY DEF Deselect, StartDeselect, TypeOK, Call
<1>2. ~SessionOver /\ SessionOver' = TRUE
  BY <1>1 DEF Deselect, Idle, SessionOver
<1>3. Asked' = turn
  BY <1>1 DEF Asked, Exchanging
<1> QED BY <1>1, <1>2, <1>3, AbstractStep

(* A presence check is not seen. *)
LEMMA PresenceAbstract ==
  ASSUME TypeOK, Agreement, PresCheck \/ Presence
  PROVE  [Alternation!Next]_(Alternation!alt)
<1>1. turn' = turn /\ card' = card
  BY DEF PresCheck, Presence
<1>2. CASE PresCheck
  <2>1. call'.at = "presence"
    BY <1>2 DEF PresCheck, TypeOK, Call
  <2>2. SessionOver' = SessionOver /\ Asked' = Asked
    BY <1>1, <1>2, <2>1 DEF PresCheck, Idle, SessionOver, Asked, Exchanging
  <2> QED BY <1>1, <2>2, AbstractStep DEF Unseen
<1>3. CASE Presence
  <2>1. call'.at = "idle" /\ call'.status = call.status
    BY <1>3 DEF Presence, TypeOK, Call
  <2>2. call.at = "presence" /\ call.status \in InSession
    BY <1>3 DEF Presence, Agreement, ReaderOK
  <2>3. SessionOver' = SessionOver /\ Asked' = Asked
    BY <1>1, <2>1, <2>2 DEF Idle, SessionOver, Asked, Exchanging
  <2> QED BY <1>1, <2>3, AbstractStep DEF Unseen
<1> QED BY <1>2, <1>3

(* The end of a deselection is the end of a session that was over before;  *)
(* an error of the HAL ends it, if it was not.                             *)
LEMMA EndAbstract ==
  ASSUME TypeOK, Agreement, Agreement', Deselected \/ NotDeselected \/ HalError
  PROVE  [Alternation!Next]_(Alternation!alt)
<1>1. turn' = turn /\ card' = card
  BY DEF Deselected, NotDeselected, HalError
<1>2. call'.at \in {"idle", "deselect"} /\ call'.status \notin InSession
  <2>1. CASE Deselected
    BY <2>1 DEF Deselected, Return, TypeOK, Call, Agreement, ReaderOK
  <2>2. CASE NotDeselected
    <3>1. call.at = "deselect" /\ call.status \notin InSession
      BY <2>2 DEF NotDeselected, Agreement, ReaderOK
    <3>2. CASE call' = [call EXCEPT !.tries = @ - 1]
      BY <3>1, <3>2 DEF TypeOK, Call
    <3>3. CASE Return(pal, call, IF call.status = "DESELECTED" THEN "IO_TIMEOUT" ELSE call.status)
      BY <3>1, <3>3 DEF Return, TypeOK, Call, InSession
    <3> QED BY <2>2, <3>2, <3>3 DEF NotDeselected
  <2>3. CASE HalError
    BY <2>3 DEF HalError, Return, TypeOK, Call, Agreement, ReaderOK, InSession
  <2> QED BY <2>1, <2>2, <2>3
<1>3. SessionOver' = TRUE /\ Asked' = turn
  BY <1>1, <1>2 DEF SessionOver, Idle, Asked, Exchanging
<1>4. CASE SessionOver
  <2>1. Asked = turn /\ SessionOver = TRUE
    BY <1>4 DEF SessionOver, Asked, Exchanging
  <2> QED BY <1>1, <1>3, <2>1, AbstractStep DEF Unseen
<1>5. CASE ~SessionOver
  BY <1>1, <1>3, <1>5, AbstractStep
<1> QED BY <1>4, <1>5

LEMMA ActivateAbstract ==
  ASSUME Activate
  PROVE  [Alternation!Next]_(Alternation!alt)
<1>1. turn' = 0 /\ card'.turn = 0 /\ call'.at = "idle" /\ call'.status = "SUCCESS"
  BY DEF Activate, InitCard, InitCall
<1>2. SessionOver /\ SessionOver' = FALSE /\ Asked' = 0
  BY <1>1 DEF Activate, Idle, SessionOver, Asked, Exchanging, InSession
<1> QED BY <1>1, <1>2, AbstractStep

LEMMA CardAbstract ==
  ASSUME TypeOK, turn' = turn, call' = call, MayTake
  PROVE  [Alternation!Next]_(Alternation!alt)
<1>1. SessionOver' = SessionOver /\ Asked' = Asked /\ turn \in Nat
  BY DEF SessionOver, Idle, Asked, Exchanging, TypeOK
<1>2. CASE card'.turn = card.turn
  BY <1>1, <1>2, AbstractStep DEF Unseen
<1>3. CASE Exchanging /\ card.turn = turn /\ card'.turn = turn + 1
  <2>1. ~SessionOver /\ Asked = turn + 1
    BY <1>3 DEF SessionOver, Asked, Exchanging
  <2>2. card.turn < Asked /\ card'.turn = Asked
    BY <1>1, <1>3, <2>1
  <2> QED BY <1>1, <2>1, <2>2, AbstractStep
<1> QED BY <1>2, <1>3 DEF MayTake

LEMMA StepAbstract ==
  ASSUME TypeOK, Agreement, [Next]_vars
  PROVE  [Alternation!Next]_(Alternation!alt)
<1>0. TypeOK' /\ Agreement'
  BY StepKeeps
<1>1. CASE \/ \E mode \in AllModes, n \in 1 .. MaxBlocks : StartExchange(mode, n)
           \/ \E mode \in AllModes : ContinueReception(mode)
  BY <1>1, CallStep, ExchangeAbstract
<1>2. CASE PresCheck \/ Presence
  BY <1>2, PresenceAbstract
<1>3. CASE Deselect
  BY <1>3, DeselectAbstract
<1>4. CASE Activate
  BY <1>4, ActivateAbstract
<1>5. CASE Receive
  BY <1>0, <1>5, ReceiveKeeps, OutcomeAbstract DEF Receive
<1>6. CASE NoResponse
  BY <1>0, <1>6, NoResponseKeeps, OutcomeAbstract DEF NoResponse, InvalidBlock
<1>7. CASE Deselected \/ NotDeselected \/ HalError
  BY <1>0, <1>7, EndAbstract
<1>8. CASE CardReceive
  BY <1>8, CardReceiveKeeps, CardAbstract DEF CardReceive
<1>9. CASE LoseRequest \/ LoseResponse \/ UNCHANGED vars
  <2>1. turn' = turn /\ call' = call /\ card'.turn = card.turn
    BY <1>9 DEF LoseRequest, LoseResponse, vars
  <2> QED BY <2>1, CardAbstract DEF MayTake
<1> QED BY <1>1, <1>2, <1>3, <1>4, <1>5, <1>6, <1>7, <1>8, <1>9 DEF Next

LEMMA InitAbstract == Init => Alternation!Init
<1>1. Init => turn = 0 /\ card.turn = 0 /\ call.at = "idle" /\ call.status = "SUCCESS"
  BY DEF Init, InitCard, InitCall
<1>2. Init => SessionOver = FALSE /\ ~Exchanging
  BY <1>1 DEF SessionOver, Idle, Exchanging, InSession
<1> QED BY <1>1, <1>2 DEF Alternation!Init

(* Blocks are asked, taken and answered strictly in turn.                  *)
THEOREM AlternationImplemented == Spec => ImplementsAlternation
BY StepAbstract, InitAbstract, AgreementInvariant, PTL
   DEF Spec, ImplementsAlternation, Alternation!Spec

-----------------------------------------------------------------------------
(* What the ends of a reader's step do to the counts of the call.          *)

LEMMA SendFields ==
  ASSUME NEW p \in Pal, NEW c \in Call, NEW f, Send(p, c, f)
  PROVE  /\ pal' = p /\ req' = f
         /\ call'.at = c.at /\ call'.mode = c.mode /\ call'.status = c.status
         /\ call'.retransmits = c.retransmits /\ call'.retry = c.retry
         /\ call'.effort <= c.effort + 1
<1>1. c.effort \in Nat /\ Spent(c) <= c.effort + 1
  BY DEF Call, Spent
<1> QED BY <1>1 DEF Send, Call

LEMMA ReturnFields ==
  ASSUME NEW p \in Pal, NEW c \in Call, NEW status, Return(p, c, status)
  PROVE  /\ pal' = p /\ req' = NoFrame
         /\ call'.at = "idle" /\ call'.mode = c.mode /\ call'.status = status
         /\ call'.retransmits = c.retransmits /\ call'.retry = c.retry
         /\ call'.effort = 0
BY DEF Return, Call

LEMMA StartDeselectFields ==
  ASSUME NEW p \in Pal, NEW c \in Call, NEW n, NEW status, StartDeselect(p, c, n, status)
  PROVE  /\ pal' = p /\ req' = BuildDeselect
         /\ call'.at = "deselect" /\ call'.mode = c.mode /\ call'.status = status
         /\ call'.retransmits = c.retransmits /\ call'.retry = c.retry
         /\ call'.effort = 0
BY DEF StartDeselect, Call

(* IsoHandling begins with the retransmissions counted so far.             *)
LEMMA SendIBlockFields ==
  ASSUME NEW p \in Pal, NEW c \in Call, NEW t, SendIBlock(p, c, t)
  PROVE  /\ pal'.state = p.state /\ req'.type = "I"
         /\ call'.at = "tx" /\ call'.mode = c.mode
         /\ call'.retransmits = c.retransmits /\ call'.retry = c.retransmits
         /\ call'.effort <= c.effort + 1
<1> DEFINE more == MoreFollow(c)
           q == [p EXCEPT !.chaining = more]
           d == EnterIsoHandling(c, "tx", c.retransmits)
           f == BuildIBlock(p.bn, more, UseNad(p), t + 1)
<1>1. more \in BOOLEAN
  BY DEF MoreFollow
<1> HIDE DEF more
<1>2. q \in Pal /\ q.state = p.state
  BY <1>1 DEF Pal
<1>3. c.retransmits \in Retries
  BY DEF Call, Retries
<1>4. d \in Call
  BY <1>3, CallTyped DEF EnterIsoHandling, Ats
<1>5. /\ d.at = "tx" /\ d.mode = c.mode /\ d.effort = c.effort
      /\ d.retransmits = c.retransmits /\ d.retry = c.retransmits
  BY DEF EnterIsoHandling, Call
<1>6. f.type = "I"
  BY FrameTypes
<1>7. Send(q, d, f)
  BY DEF SendIBlock, more
<1> HIDE DEF q, d, f
<1> QED BY <1>2, <1>4, <1>5, <1>6, <1>7, SendFields

LEMMA AskNextFields ==
  ASSUME NEW p \in Pal, NEW c \in Call, NEW at \in {"tx", "rx"}, NEW t, AskNext(p, c, at, t)
  PROVE  /\ pal' = p /\ req'.type = "ACK"
         /\ call'.at = at /\ call'.mode = c.mode
         /\ call'.retransmits = c.retransmits /\ call'.retry = 0
         /\ call'.effort <= c.effort + 1
<1> DEFINE d == EnterIsoHandling(c, at, 0)
           f == BuildRBlock(p.bn, TRUE, t + 1)
<1>1. PICK k \in Retries : k = 0
  BY RetryAssumption DEF Retries
<1>2. d \in Call
  BY <1>1, CallTyped DEF EnterIsoHandling, Ats
<1>3. /\ d.at = at /\ d.mode = c.mode /\ d.effort = c.effort
      /\ d.retransmits = c.retransmits /\ d.retry = 0
  BY DEF EnterIsoHandling, Call
<1>4. f.type = "ACK"
  BY DEF BuildRBlock, Block
<1>5. Send(p, d, f)
  BY DEF AskNext
<1> HIDE DEF d, f
<1> QED BY <1>2, <1>3, <1>4, <1>5, SendFields

-----------------------------------------------------------------------------
(* The ways a step ends in which the reader has waited for a block.        *)

(* It gives up.  *)
Stops ==
  /\ turn' = turn
  /\ call'.at \in {"idle", "deselect"} /\ call'.status \notin InSession /\ call'.effort = 0
  /\ call'.retransmits = call.retransmits /\ call'.retry = call.retry

(* It asks for the block again, with an R-block. *)
AsksAgain ==
  /\ turn' = turn /\ pal' = pal
  /\ call.retry <= MaxRetryCount
  /\ call'.at = call.at
  /\ call'.retransmits = call.retransmits /\ call'.retry = Incremented(call.retry)
  /\ call'.effort <= call.effort + 1

(* It sends its I-block again. *)
SendsAgain ==
  /\ rsp.type = "ACK" /\ rsp.bn # pal.bn /\ pal.state = "TX"
  /\ turn' = turn /\ pal'.state = pal.state
  /\ call.retry <= MaxRetryCount
  /\ call'.at = "tx" /\ req'.type = "I"
  /\ call'.retransmits = Incremented(call.retransmits)
  /\ call'.retry = Incremented(call.retransmits)
  /\ call'.effort <= call.effort + 1

(* It grants more time. *)
Grants ==
  /\ rsp.type = "WTX"
  /\ turn' = turn /\ pal' = pal
  /\ call'.at = call.at
  /\ call'.retransmits = call.retransmits /\ call'.retry = 0
  /\ call'.effort <= 1

(* Its request is answered: it makes the next one of the call, or returns. *)
AsksNext ==
  /\ turn' = turn + 1
  /\ call'.at \in {"tx", "rx"}
  /\ \/ rsp.type = "I" /\ pal'.state = "RX" /\ call'.retransmits \in {0, call.retransmits}
     \/ pal'.state = "TX" /\ call'.retransmits = 0
  /\ call'.retry = 0 /\ call'.effort <= 1 /\ req'.type # "NAK"

Returns ==
  /\ turn' = turn + 1
  /\ call'.at = "idle" /\ call'.effort = 0
  /\ call'.retransmits \in {0, call.retransmits} /\ call'.retry = call.retry
  /\ \/ rsp.type = "I" /\ call'.status = "SUCCESS_CHAINING"
     \/ rsp.type = "I" /\ ~rsp.more /\ call'.status \in {"SUCCESS", "BUFFER_OVERFLOW"}
     \/ call'.mode = "TXCHAINING" /\ call'.status = "SUCCESS"

Ending == Stops \/ AsksAgain \/ SendsAgain \/ Grants \/ AsksNext \/ Returns

LEMMA ProtocolErrorEnds ==
  ASSUME TypeOK, ProtocolError
  PROVE  Stops
<1>1. "PROTOCOL_ERROR" \notin InSession
  BY DEF InSession
<1> QED BY <1>1, ReturnFields, StartDeselectFields DEF ProtocolError, Stops, TypeOK

LEMMA GiveUpEnds ==
  ASSUME TypeOK, GiveUp
  PROVE  Stops
<1>1. "RECOVERY_FAILED" \notin InSession /\ "IO_TIMEOUT" \notin InSession
  BY DEF InSession
<1> DEFINE status == IF call.responded /\ MaxRetryCount > 0
                     THEN "RECOVERY_FAILED" ELSE "IO_TIMEOUT"
<1>2. status \notin InSession
  BY <1>1
<1>3. turn' = turn /\ (StartDeselect(pal, call, 1, status) \/ Return(pal, call, status))
  BY DEF GiveUp
<1> HIDE DEF status
<1> QED BY <1>2, <1>3, ReturnFields, StartDeselectFields DEF Stops, TypeOK

LEMMA RecoverEnds ==
  ASSUME TypeOK, RetryLeft(call), Recover
  PROVE  AsksAgain
<1> DEFINE k == Incremented(call.retry)
           c == [call EXCEPT !.retry = k]
           f == BuildRBlock(pal.bn, RxChaining(pal), turn + 1)
<1>1. k \in Retries
  BY IncrementedTyped DEF TypeOK, Call
<1>2. /\ c \in Call /\ c.at = call.at /\ c.retransmits = call.retransmits
      /\ c.retry = k /\ c.effort = call.effort
  <2> HIDE DEF k
  <2> QED BY <1>1 DEF TypeOK, Call, Retries
<1>3. Send(pal, c, f) /\ turn' = turn
  BY DEF Recover
<1> HIDE DEF c, f
<1> QED BY <1>2, <1>3, SendFields DEF AsksAgain, TypeOK, RetryLeft

(* An accepted block: p and c are what the reception loop goes on with.    *)
LEMMA ReceptionEnds ==
  ASSUME TypeOK, rsp.type = "I", NEW p \in Pal, NEW c \in Call,
         p.state = "RX", ~p.chaining => ~rsp.more,
         c.retransmits \in {0, call.retransmits}, c.retry = call.retry, c.effort = 0,
         turn' = turn + 1, ReceptionLoop(p, c, turn + 1)
  PROVE  AsksNext \/ Returns
<1>1. CASE p.chaining /\ Return(p, c, "SUCCESS_CHAINING")
  BY <1>1, ReturnFields DEF Returns
<1>2. CASE AskNext(p, c, "rx", turn + 1)
  BY <1>2, AskNextFields DEF AsksNext
<1>3. CASE /\ ~p.chaining
           /\ Return([p EXCEPT !.state = "FINISHED"], c,
                     IF c.overflow THEN "BUFFER_OVERFLOW" ELSE "SUCCESS")
  <2> DEFINE q == [p EXCEPT !.state = "FINISHED"]
             status == IF c.overflow THEN "BUFFER_OVERFLOW" ELSE "SUCCESS"
  <2>1. q \in Pal /\ status \in {"SUCCESS", "BUFFER_OVERFLOW"}
    BY DEF Pal
  <2>2. Return(q, c, status)
    BY <1>3
  <2> HIDE DEF q, status
  <2> QED BY <1>3, <2>1, <2>2, ReturnFields DEF Returns
<1> QED BY <1>1, <1>2, <1>3 DEF ReceptionLoop

LEMMA HandleOverflowEnds ==
  ASSUME TypeOK, Agreement, Overflows(call, rsp), HandleOverflow
  PROVE  AsksNext \/ Returns
<1> DEFINE n == Toggle(pal.bn)
           p == [pal EXCEPT !.bn = n]
           c == [call EXCEPT !.overflow = TRUE, !.effort = 0]
<1>1. rsp.type = "I" /\ pal.state = "RX" /\ pal.chaining
  BY DEF Overflows, Exchanging, Agreement, ReaderOK
<1>2. n \in 0 .. 1
  BY DEF TypeOK, Pal, Toggle
<1>3. p \in Pal /\ p.state = "RX" /\ p.chaining
  <2> HIDE DEF n
  <2> QED BY <1>1, <1>2 DEF TypeOK, Pal
<1>4. c \in Call
  <2>1. PICK b \in BOOLEAN : b = TRUE
    OBVIOUS
  <2>2. PICK e \in Nat : e = 0
    OBVIOUS
  <2>3. [call EXCEPT !.overflow = b, !.effort = e] \in Call
    BY CallTyped DEF TypeOK
  <2> QED BY <2>1, <2>2, <2>3
<1>5. c.retransmits = call.retransmits /\ c.retry = call.retry /\ c.effort = 0
  BY DEF TypeOK, Call
<1>6. turn' = turn + 1 /\ ReceptionLoop(p, c, turn + 1)
  BY DEF HandleOverflow
<1> HIDE DEF p, c
<1> QED BY <1>1, <1>3, <1>4, <1>5, <1>6, ReceptionEnds

LEMMA HandleIBlockEnds ==
  ASSUME TypeOK, rsp.type = "I", HandleIBlock(rsp)
  PROVE  Ending
<1>1. CASE turn' = turn + 1
           /\ ReceptionLoop([state |-> "RX", chaining |-> rsp.more, bn |-> Toggle(pal.bn)],
                            [Hold(call) EXCEPT !.retransmits = 0, !.effort = 0], turn + 1)
  <2> DEFINE n == Toggle(pal.bn)
             p == [state |-> "RX", chaining |-> rsp.more, bn |-> n]
             h == Hold(call)
             c == [h EXCEPT !.retransmits = 0, !.effort = 0]
  <2>1. n \in 0 .. 1 /\ rsp.more \in BOOLEAN
    BY DEF TypeOK, Pal, Toggle, Frame
  <2>2. p \in Pal /\ p.state = "RX" /\ p.chaining = rsp.more
    <3> HIDE DEF n
    <3> QED BY <2>1 DEF Pal
  <2>3. h \in Call /\ h.retry = call.retry
    <3>1. call \in Call /\ call.held + 1 \in Nat
      BY DEF TypeOK, Call
    <3>2. [call EXCEPT !.held = call.held + 1].retry = call.retry
      BY <3>1 DEF Call
    <3> QED BY <3>1, <3>2, CallTyped DEF Hold
  <2> HIDE DEF h
  <2>4. PICK k \in Retries : k = 0
    BY RetryAssumption DEF Retries
  <2>5. PICK e \in Nat : e = 0
    OBVIOUS
  <2>6. [h EXCEPT !.retransmits = k, !.effort = e] \in Call
    BY <2>3, CallTyped
  <2>7. c \in Call /\ c.retransmits = 0 /\ c.retry = h.retry /\ c.effort = 0
    BY <2>3, <2>4, <2>5, <2>6 DEF Call
  <2>8. turn' = turn + 1 /\ ReceptionLoop(p, c, turn + 1)
    BY <1>1 DEF h
  <2> HIDE DEF p, c
  <2> QED BY <2>1, <2>2, <2>3, <2>7, <2>8, ReceptionEnds DEF Ending
<1>2. CASE ProtocolError
  BY <1>2, ProtocolErrorEnds DEF Ending
<1> QED BY <1>1, <1>2 DEF HandleIBlock

(* A block of the command is acknowledged. *)
LEMMA NextBlockEnds ==
  ASSUME TypeOK, TxChaining(pal), turn' = turn + 1,
         NextBlock([pal EXCEPT !.bn = Toggle(@)], [call EXCEPT !.effort = 0], turn + 1)
  PROVE  AsksNext \/ Returns
<1> DEFINE n == Toggle(pal.bn)
           p == [pal EXCEPT !.bn = n]
           c == [call EXCEPT !.effort = 0]
<1>1. n \in 0 .. 1
  BY DEF TypeOK, Pal, Toggle
<1>2. p \in Pal /\ p.state = "TX"
  <2> HIDE DEF n
  <2> QED BY <1>1 DEF TypeOK, Pal, TxChaining
<1>3. /\ c \in Call /\ c.retry = call.retry /\ c.effort = 0 /\ c.mode = call.mode
      /\ c.left \in Nat
  <2>1. PICK e \in Nat : e = 0
    OBVIOUS
  <2>2. [call EXCEPT !.effort = e] \in Call
    BY CallTyped DEF TypeOK
  <2> QED BY <2>1, <2>2 DEF TypeOK, Call
<1>4. NextBlock(p, c, turn + 1)
  OBVIOUS
<1> HIDE DEF p, c
<1>5. PICK k \in Retries : k = 0
  BY RetryAssumption DEF Retries
<1>6. CASE c.mode = "TXCHAINING" /\ Return(p, [c EXCEPT !.left = 0, !.retransmits = 0], "SUCCESS")
  <2> DEFINE d == [c EXCEPT !.left = 0, !.retransmits = 0]
  <2>1. PICK m \in Nat : m = 0
    OBVIOUS
  <2>2. [c EXCEPT !.left = m, !.retransmits = k] \in Call
    BY <1>3, CallTyped
  <2>3. d \in Call /\ d.retransmits = 0 /\ d.retry = c.retry /\ d.mode = c.mode
    BY <1>3, <1>5, <2>1, <2>2 DEF Call
  <2>4. Return(p, d, "SUCCESS")
    BY <1>6
  <2> HIDE DEF d
  <2> QED BY <1>2, <1>3, <1>6, <2>3, <2>4, ReturnFields DEF Returns
<1>7. CASE c.left > 1 /\ SendIBlock(p, [c EXCEPT !.left = @ - 1, !.retransmits = 0], turn + 1)
  <2> DEFINE m == c.left - 1
             d == [c EXCEPT !.left = m, !.retransmits = 0]
  <2>1. m \in Nat
    BY <1>3, <1>7
  <2> HIDE DEF m
  <2>2. [c EXCEPT !.left = m, !.retransmits = k] \in Call
    BY <1>3, <2>1, CallTyped
  <2>3. d \in Call /\ d.retransmits = 0 /\ d.effort = c.effort
    BY <1>3, <1>5, <2>2 DEF Call
  <2>4. SendIBlock(p, d, turn + 1)
    BY <1>7 DEF m
  <2> HIDE DEF d
  <2> QED BY <1>2, <1>3, <2>3, <2>4, SendIBlockFields DEF AsksNext
<1> QED BY <1>4, <1>6, <1>7 DEF NextBlock

LEMMA HandleAckEnds ==
  ASSUME TypeOK, rsp.type = "ACK", HandleAck(rsp)
  PROVE  Ending
<1>1. CASE /\ TxChaining(pal) /\ turn' = turn + 1
           /\ NextBlock([pal EXCEPT !.bn = Toggle(@)], [call EXCEPT !.effort = 0], turn + 1)
  BY <1>1, NextBlockEnds DEF Ending
<1>2. CASE /\ rsp.bn # pal.bn /\ pal.state = "TX" /\ RetryLeft(call) /\ UNCHANGED turn
           /\ SendIBlock(pal, [call EXCEPT !.retransmits = Incremented(call.retransmits)], turn)
  <2> DEFINE k == Incremented(call.retransmits)
             c == [call EXCEPT !.retransmits = k]
  <2>1. k \in Retries
    BY IncrementedTyped DEF TypeOK, Call
  <2>2. c \in Call /\ c.retransmits = k /\ c.effort = call.effort
    <3> HIDE DEF k
    <3> QED BY <2>1 DEF TypeOK, Call, Retries
  <2>3. SendIBlock(pal, c, turn)
    BY <1>2
  <2> HIDE DEF c
  <2> QED BY <1>2, <2>2, <2>3, SendIBlockFields DEF Ending, SendsAgain, TypeOK, RetryLeft
<1>3. CASE ProtocolError
  BY <1>3, ProtocolErrorEnds DEF Ending
<1> QED BY <1>1, <1>2, <1>3 DEF HandleAck

LEMMA HandleWtxEnds ==
  ASSUME TypeOK, rsp.type = "WTX", HandleWtx(rsp)
  PROVE  Ending
<1>1. CASE Send(pal, [call EXCEPT !.retry = 0, !.responded = TRUE, !.effort = 0],
                BuildWtx(rsp.wtxm))
  <2> DEFINE c == [call EXCEPT !.retry = 0, !.responded = TRUE, !.effort = 0]
  <2>1. PICK k \in Retries : k = 0
    BY RetryAssumption DEF Retries
  <2>2. PICK e \in Nat : e = 0
    OBVIOUS
  <2>3. PICK b \in BOOLEAN : b = TRUE
    OBVIOUS
  <2>4. [call EXCEPT !.retry = k, !.responded = b, !.effort = e] \in Call
    BY CallTyped DEF TypeOK
  <2>5. /\ c \in Call /\ c.at = call.at /\ c.retransmits = call.retransmits
        /\ c.retry = 0 /\ c.effort = 0
    BY <2>1, <2>2, <2>3, <2>4 DEF TypeOK, Call
  <2>6. Send(pal, c, BuildWtx(rsp.wtxm)) /\ turn' = turn
    BY <1>1 DEF HandleWtx
  <2> HIDE DEF c
  <2> QED BY <2>5, <2>6, SendFields DEF Ending, Grants, TypeOK
<1>2. CASE Return(pal, call, "PROTOCOL_ERROR")
  <2>1. "PROTOCOL_ERROR" \notin InSession /\ turn' = turn
    BY DEF InSession, HandleWtx
  <2> QED BY <1>2, <2>1, ReturnFields DEF Ending, Stops, TypeOK
<1> QED BY <1>1, <1>2 DEF HandleWtx

(* So every step from one HAL exchange of IsoHandling to the next has one  *)
(* of these ends.                                                          *)
LEMMA ReaderEnds ==
  ASSUME TypeOK, Agreement, Receive \/ NoResponse
  PROVE  Ending /\ card' = card /\ rsp' = NoFrame /\ Exchanging
<1>1. card' = card /\ rsp' = NoFrame /\ Exchanging
  BY DEF Receive, NoResponse, Silence, InvalidBlock
<1>2. CASE Receive
  BY <1>1, <1>2, HandleOverflowEnds, HandleIBlockEnds, HandleAckEnds, HandleWtxEnds
     DEF Receive, Ending
<1>3. CASE NoResponse
  <2>1. (RetryLeft(call) /\ Recover) \/ GiveUp
    BY <1>3 DEF NoResponse, InvalidBlock
  <2> QED BY <1>1, <2>1, RecoverEnds, GiveUpEnds DEF Ending
<1> QED BY <1>1, <1>2, <1>3

-----------------------------------------------------------------------------
(* Complete answers.                                                       *)

(* A block of an answer says truly whether the card has more to send, and  *)
(* there is none before the card has the whole command.                    *)
AnswerBlockOK(f) == f.type = "I" => ~card.chain /\ f.more = (card.toSend > 0)

AnswerInv ==
  /\ AnswerBlockOK(rsp) /\ AnswerBlockOK(card.last) /\ AnswerBlockOK(card.reply)
  /\ Exchanging /\ pal.state = "RX" => ~card.chain
  /\ call.at \in {"idle", "presence"} /\ call.status = "SUCCESS_CHAINING" => ~card.chain
  /\ call.at \in {"idle", "presence"} /\ call.status \in {"SUCCESS", "BUFFER_OVERFLOW"}
       /\ call.mode # "TXCHAINING" => card.toSend = 0 /\ ~card.chain

(* The invariant is about two ends: what the reader's steps have to keep.  *)
LEMMA ReaderKeepsAnswer ==
  ASSUME AnswerInv, card' = card, rsp' \in {rsp, NoFrame},
         (Exchanging /\ pal.state = "RX")' => ~card.chain,
         (call.at \in {"idle", "presence"} /\ call.status = "SUCCESS_CHAINING")' => ~card.chain,
         (call.at \in {"idle", "presence"} /\ call.status \in {"SUCCESS", "BUFFER_OVERFLOW"}
            /\ call.mode # "TXCHAINING")' => card.toSend = 0 /\ ~card.chain
  PROVE  AnswerInv'
<1>1. AnswerBlockOK(rsp)'
  BY FrameTypes DEF AnswerInv, AnswerBlockOK
<1>2. AnswerBlockOK(card.last)' /\ AnswerBlockOK(card.reply)'
  BY DEF AnswerInv, AnswerBlockOK
<1> QED BY <1>1, <1>2 DEF AnswerInv

(* The end of an answer, and every block before it, is what the card sent. *)
LEMMA EndingKeepsAnswer ==
  ASSUME TypeOK, AnswerInv, Exchanging, Ending, card' = card, rsp' = NoFrame
  PROVE  AnswerInv'
<1>1. card.toSend \in Nat
  BY DEF TypeOK, Card
<1>2. rsp.type = "I" => ~card.chain /\ (~rsp.more => card.toSend = 0)
  <2> DEFINE more == card.toSend > 0
  <2>1. rsp.type = "I" => ~card.chain /\ rsp.more = more
    BY DEF AnswerInv, AnswerBlockOK
  <2>2. ~more => card.toSend = 0
    BY <1>1
  <2> HIDE DEF more
  <2> QED BY <2>1, <2>2, Zenon
<1>3. CASE Stops
  BY <1>3, ReaderKeepsAnswer DEF Stops, Exchanging, InSession
<1>4. CASE AsksAgain \/ SendsAgain \/ Grants
  BY <1>4, ReaderKeepsAnswer DEF AsksAgain, SendsAgain, Grants, Exchanging, AnswerInv
<1>5. CASE AsksNext
  BY <1>2, <1>5, ReaderKeepsAnswer DEF AsksNext, Exchanging
<1>6. CASE Returns
  BY <1>2, <1>6, ReaderKeepsAnswer DEF Returns, Exchanging
<1> QED BY <1>3, <1>4, <1>5, <1>6 DEF Ending

(* What the application's calls and their ends do.                         *)
LEMMA CallsKeepAnswer ==
  ASSUME TypeOK, Agreement, AnswerInv,
         \/ \E mode \in AllModes, n \in 1 .. MaxBlocks : StartExchange(mode, n)
         \/ \E mode \in AllModes : ContinueReception(mode)
         \/ PresCheck \/ Deselect \/ Deselected \/ NotDeselected \/ Presence \/ HalError
  PROVE  AnswerInv'
<1>1. ASSUME NEW mode \in AllModes, NEW n \in 1 .. MaxBlocks, StartExchange(mode, n)
      PROVE  AnswerInv'
  <2> DEFINE p == IF pal.state = "TX" THEN pal ELSE [pal EXCEPT !.state = "TX", !.chaining = FALSE]
             c == [InitCall EXCEPT !.mode = mode, !.left = n]
  <2>1. p \in Pal /\ p.state = "TX"
    BY DEF TypeOK, Pal
  <2>2. n \in Nat
    BY SizeAssumption
  <2>3. c \in Call
    BY <2>2, InitCallTyped
  <2>4. SendIBlock(p, c, turn) /\ card' = card /\ rsp' = rsp
    BY <1>1 DEF StartExchange
  <2> HIDE DEF p, c
  <2>5. pal'.state = "TX" /\ call'.at = "tx"
    BY <2>1, <2>3, <2>4, SendIBlockFields
  <2> QED BY <2>4, <2>5, ReaderKeepsAnswer
<1>2. ASSUME NEW mode \in AllModes, ContinueReception(mode)
      PROVE  AnswerInv'
  <2> DEFINE p == [pal EXCEPT !.state = "RX", !.chaining = TRUE]
             c == [InitCall EXCEPT !.mode = mode]
  <2>1. p \in Pal /\ c \in Call
    BY InitCallTyped DEF TypeOK, Pal
  <2>2. AskNext(p, c, "tx", turn) /\ card' = card /\ rsp' = rsp
    BY <1>2 DEF ContinueReception
  <2> HIDE DEF p, c
  <2>3. call'.at = "tx"
    BY <2>1, <2>2, AskNextFields
  <2>4. ~card.chain
    BY <1>2 DEF ContinueReception, Idle, Chained, AnswerInv
  <2> QED BY <2>2, <2>3, <2>4, ReaderKeepsAnswer
<1>3. CASE PresCheck \/ Presence
  <2>1. /\ card' = card /\ pal' = pal /\ rsp' \in {rsp, NoFrame}
        /\ call.at \in {"idle", "presence"} /\ call'.at \in {"idle", "presence"}
        /\ call'.status = call.status /\ call'.mode = call.mode
    BY <1>3 DEF PresCheck, Presence, Idle, TypeOK, Call
  <2>2. ~Exchanging'
    BY <2>1 DEF Exchanging
  <2> QED BY <2>1, <2>2, ReaderKeepsAnswer DEF AnswerInv
<1>4. CASE Deselect
  <2>1. card' = card /\ rsp' = rsp /\ call'.at = "deselect"
    BY <1>4, StartDeselectFields DEF Deselect, TypeOK
  <2>2. ~Exchanging' /\ call'.at \notin {"idle", "presence"}
    BY <2>1 DEF Exchanging
  <2> QED BY <2>1, <2>2, ReaderKeepsAnswer
<1>5. CASE Deselected \/ NotDeselected \/ HalError
  <2>1. /\ card' = card /\ rsp' \in {rsp, NoFrame}
        /\ call'.at \in {"idle", "deselect"}
        /\ call'.at = "idle" => call'.status \notin InSession
    <3>1. call.at = "deselect" => call.status \notin InSession
      BY DEF Agreement, ReaderOK
    <3>2. \A s \in {"IO_TIMEOUT", "HAL"} : s \notin InSession
      BY DEF InSession
    <3>3. CASE Deselected
      BY <3>1, <3>3, ReturnFields DEF Deselected, TypeOK
    <3>4. CASE NotDeselected
      <4>1. CASE call' = [call EXCEPT !.tries = @ - 1]
        BY <3>4, <4>1 DEF NotDeselected, TypeOK, Call
      <4>2. CASE Return(pal, call, IF call.status = "DESELECTED" THEN "IO_TIMEOUT" ELSE call.status)
        BY <3>1, <3>2, <3>4, <4>2, ReturnFields DEF NotDeselected, TypeOK
      <4> QED BY <3>4, <4>1, <4>2 DEF NotDeselected
    <3>5. CASE HalError
      BY <3>1, <3>2, <3>5, ReturnFields DEF HalError, TypeOK
    <3> QED BY <1>5, <3>3, <3>4, <3>5
  <2>2. ~Exchanging'
    BY <2>1 DEF Exchanging
  <2> QED BY <2>1, <2>2, ReaderKeepsAnswer DEF InSession
<1> QED BY <1>1, <1>2, <1>3, <1>4, <1>5

LEMMA ReplyFields ==
  ASSUME NEW c \in Card, NEW f \in Frame, Reply(c, f)
  PROVE  card'.chain = c.chain /\ card'.toSend = c.toSend
<1>1. CASE card' = [c EXCEPT !.last = f, !.reply = NoFrame, !.waits = 0]
  BY <1>1 DEF Card
<1>2. ASSUME NEW m \in Wtxm,
             card' = [c EXCEPT !.last = BuildWtx(m), !.reply = f, !.waits = @ + 1]
      PROVE  card'.chain = c.chain /\ card'.toSend = c.toSend
  BY <1>2 DEF Card
<1> QED BY <1>1, <1>2 DEF Reply

(* A card that replies to a request.                                       *)
LEMMA ReplyKeepsAnswer ==
  ASSUME Exchanging, NEW c \in Card, NEW f \in Frame, Reply(c, f),
         f.type = "I" => ~c.chain /\ f.more = (c.toSend > 0),
         pal.state = "RX" => ~c.chain,
         pal' = pal, call' = call
  PROVE  AnswerInv'
<1>1. /\ rsp' = card'.last
      /\ \/ card'.last = f /\ card'.reply = NoFrame
         \/ card'.last.type = "WTX" /\ card'.reply = f
  BY ReplyEffect
<1>2. card'.chain = c.chain /\ card'.toSend = c.toSend
  BY ReplyFields
<1>3. AnswerBlockOK(rsp)' /\ AnswerBlockOK(card.last)' /\ AnswerBlockOK(card.reply)'
  BY <1>1, <1>2, FrameTypes DEF AnswerBlockOK
<1>4. call'.at \notin {"idle", "presence"}
  BY DEF Exchanging
<1> QED BY <1>2, <1>3, <1>4 DEF AnswerInv, Exchanging

(* The fields of a card that has taken a request. *)
LEMMA TakenFields ==
  ASSUME TypeOK, NEW f \in Frame, NEW b \in BOOLEAN, NEW n \in Nat
  PROVE  /\ [Taken(f) EXCEPT !.chain = b].chain = b
         /\ Taken(f).toSend = card.toSend
         /\ [Taken(f) EXCEPT !.toSend = n].chain = card.chain
         /\ [Taken(f) EXCEPT !.toSend = n].toSend = n
         /\ [Taken(f) EXCEPT !.chain = b, !.toSend = n].chain = b
         /\ [Taken(f) EXCEPT !.chain = b, !.toSend = n].toSend = n
<1>1. Taken(f) \in Card
  BY TakenEffect
<1>2. Taken(f).chain = card.chain /\ Taken(f).toSend = card.toSend
  BY DEF Taken, TypeOK, Card
<1>3. ASSUME NEW d \in Card
      PROVE  /\ [d EXCEPT !.chain = b].chain = b
             /\ [d EXCEPT !.toSend = n].chain = d.chain
             /\ [d EXCEPT !.toSend = n].toSend = n
             /\ [d EXCEPT !.chain = b, !.toSend = n].chain = b
             /\ [d EXCEPT !.chain = b, !.toSend = n].toSend = n
  BY DEF Card
<1> QED BY <1>1, <1>2, <1>3

LEMMA TakeIBlockKeepsAnswer ==
  ASSUME TypeOK, Agreement, req.type = "I", TakeIBlock(req), pal' = pal, call' = call
  PROVE  AnswerInv'
<1>1. /\ Exchanging /\ pal.state = "TX" /\ req \in Frame
      /\ card.turn + 1 \in Nat /\ Toggle(card.bn) \in 0 .. 1
  BY DEF Agreement, RequestOK, TypeOK, Card, Toggle
<1>2. CASE Reply([Taken(req) EXCEPT !.chain = TRUE],
                 BuildRBlock(Toggle(card.bn), TRUE, card.turn + 1))
  <2> DEFINE f == BuildRBlock(Toggle(card.bn), TRUE, card.turn + 1)
             c == [Taken(req) EXCEPT !.chain = TRUE]
  <2>1. PICK b \in BOOLEAN : b = TRUE
    OBVIOUS
  <2>2. c \in Card
    BY <1>1, <2>1, TakenEffect
  <2>3. f.type = "ACK"
    BY DEF BuildRBlock, Block
  <2>4. f \in Frame
    BY <1>1, BlocksTyped DEF BuildRBlock
  <2> HIDE DEF f, c
  <2> QED BY <1>1, <1>2, <2>2, <2>3, <2>4, ReplyKeepsAnswer DEF f, c
<1>3. ASSUME NEW n \in 1 .. AnswerBlocks,
             Reply([Taken(req) EXCEPT !.chain = FALSE, !.toSend = n - 1],
                   BuildIBlock(Toggle(card.bn), n > 1, NadEnabled, card.turn + 1))
      PROVE  AnswerInv'
  <2> DEFINE k == n - 1
             more == n > 1
             f == BuildIBlock(Toggle(card.bn), more, NadEnabled, card.turn + 1)
             c == [Taken(req) EXCEPT !.chain = FALSE, !.toSend = k]
  <2>1. PICK b \in BOOLEAN : b = FALSE
    OBVIOUS
  <2>2. k \in Nat /\ more \in BOOLEAN /\ more = (k > 0)
    BY SizeAssumption
  <2> HIDE DEF k, more
  <2>3. c \in Card
    BY <1>1, <2>1, <2>2, TakenEffect
  <2>4. ~c.chain /\ c.toSend = k
    BY <1>1, <2>1, <2>2, TakenFields
  <2>5. f.more = more
    BY DEF BuildIBlock, Block
  <2>6. f \in Frame
    BY <1>1, <2>2, BlocksTyped, ModeAssumption
  <2>7. Reply(c, f)
    BY <1>3 DEF k, more
  <2>8. f.more = (c.toSend > 0)
    BY <2>2, <2>4, <2>5
  <2> HIDE DEF f, c
  <2> QED BY <1>1, <2>3, <2>4, <2>6, <2>7, <2>8, ReplyKeepsAnswer
<1> QED BY <1>2, <1>3 DEF TakeIBlock

LEMMA TakeRBlockKeepsAnswer ==
  ASSUME TypeOK, Agreement, AnswerInv, req.type \in {"ACK", "NAK"}, TakeRBlock(req),
         pal' = pal, call' = call
  PROVE  AnswerInv'
<1>1. /\ req \in Frame /\ card.bn \in 0 .. 1 /\ card.turn \in Nat /\ card.turn + 1 \in Nat
      /\ card.toSend \in Nat /\ Toggle(card.bn) \in 0 .. 1
  BY DEF TypeOK, Card, Toggle
<1>2. CASE rsp' = card.last /\ UNCHANGED card
  BY <1>2 DEF AnswerInv, AnswerBlockOK, Exchanging
<1>3. CASE rsp' = BuildRBlock(card.bn, TRUE, card.turn) /\ UNCHANGED card
  <2>1. rsp'.type = "ACK"
    BY <1>3 DEF BuildRBlock, Block
  <2> QED BY <1>3, <2>1 DEF AnswerInv, AnswerBlockOK, Exchanging
<1>4. CASE /\ req.type = "ACK" /\ card.toSend > 0
           /\ Reply([Taken(req) EXCEPT !.toSend = @ - 1],
                    BuildIBlock(Toggle(card.bn), card.toSend > 1, FALSE, card.turn + 1))
  <2> DEFINE k == card.toSend - 1
             more == card.toSend > 1
             f == BuildIBlock(Toggle(card.bn), more, FALSE, card.turn + 1)
             c == [Taken(req) EXCEPT !.toSend = k]
  <2>1. Exchanging /\ ~card.chain
    BY <1>4 DEF Agreement, RequestOK, AnswerInv
  <2>2. k \in Nat /\ more \in BOOLEAN /\ more = (k > 0)
    BY <1>1, <1>4
  <2>3. PICK b \in BOOLEAN : b = FALSE
    OBVIOUS
  <2>4. Taken(req).toSend = card.toSend
    BY <1>1, <2>2, <2>3, TakenFields
  <2>5. Reply([Taken(req) EXCEPT !.toSend = Taken(req).toSend - 1], f)
    BY <1>4
  <2> HIDE DEF more
  <2>6. Reply(c, f)
    BY <2>4, <2>5
  <2> HIDE DEF k
  <2>7. c \in Card
    BY <1>1, <2>2, <2>3, TakenEffect
  <2>8. c.chain = card.chain /\ c.toSend = k
    BY <1>1, <2>2, <2>3, TakenFields
  <2>9. f \in Frame
    BY <1>1, <2>2, <2>3, BlocksTyped
  <2>10. f.more = more
    BY DEF BuildIBlock, Block
  <2>11. f.more = (c.toSend > 0)
    BY <2>2, <2>8, <2>10
  <2> HIDE DEF f, c
  <2> QED BY <2>1, <2>6, <2>7, <2>8, <2>9, <2>11, ReplyKeepsAnswer
<1>5. CASE UNCHANGED <<card, rsp>>
  BY <1>5 DEF AnswerInv, AnswerBlockOK, Exchanging
<1> QED BY <1>2, <1>3, <1>4, <1>5 DEF TakeRBlock

LEMMA CardReceiveKeepsAnswer ==
  ASSUME TypeOK, Agreement, AnswerInv, CardReceive
  PROVE  AnswerInv'
<1>1. pal' = pal /\ call' = call /\ turn' = turn
  BY DEF CardReceive
<1>2. CASE req.type = "I" /\ TakeIBlock(req)
  BY <1>1, <1>2, TakeIBlockKeepsAnswer
<1>3. CASE req.type \in {"ACK", "NAK"} /\ TakeRBlock(req)
  BY <1>1, <1>3, TakeRBlockKeepsAnswer
<1>4. CASE req.type = "WTX" /\ Reply(card, card.reply)
  <2>1. Exchanging /\ card \in Card /\ card.reply \in Frame
    BY <1>4 DEF Agreement, RequestOK, TypeOK, Card
  <2>2. AnswerBlockOK(card.reply) /\ (pal.state = "RX" => ~card.chain)
    BY <2>1 DEF AnswerInv
  <2> QED BY <1>1, <1>4, <2>1, <2>2, ReplyKeepsAnswer DEF AnswerBlockOK
<1>5. CASE req.type = "DESELECT" /\ card' = [card EXCEPT !.active = FALSE] /\ rsp' = req
  <2>1. /\ card'.last = card.last /\ card'.reply = card.reply
        /\ card'.chain = card.chain /\ card'.toSend = card.toSend
    BY <1>5 DEF TypeOK, Card
  <2>2. rsp'.type # "I"
    BY <1>5
  <2> QED BY <1>1, <2>1, <2>2 DEF AnswerInv, AnswerBlockOK, Exchanging
<1>6. CASE UNCHANGED <<card, rsp>>
  BY <1>1, <1>6 DEF AnswerInv, AnswerBlockOK, Exchanging
<1> QED BY <1>2, <1>3, <1>4, <1>5, <1>6 DEF CardReceive

LEMMA AnswerBegins ==
  ASSUME call = InitCall, card = InitCard, rsp = NoFrame
  PROVE  AnswerInv
<1>1. /\ card.last = NoFrame /\ card.reply = NoFrame /\ ~card.chain /\ card.toSend = 0
      /\ call.at = "idle"
  BY DEF InitCard, InitCall
<1> QED BY <1>1, FrameTypes DEF AnswerInv, AnswerBlockOK, Exchanging

LEMMA StepKeepsAnswer ==
  ASSUME TypeOK, Agreement, AnswerInv, [Next]_vars
  PROVE  AnswerInv'
<1>1. CASE \/ \E mode \in AllModes, n \in 1 .. MaxBlocks : StartExchange(mode, n)
           \/ \E mode \in AllModes : ContinueReception(mode)
           \/ PresCheck \/ Deselect \/ Deselected \/ NotDeselected \/ Presence \/ HalError
  BY <1>1, CallsKeepAnswer
<1>2. CASE Receive \/ NoResponse
  BY <1>2, ReaderEnds, EndingKeepsAnswer
<1>3. CASE CardReceive
  BY <1>3, CardReceiveKeepsAnswer
<1>4. CASE LoseRequest \/ LoseResponse \/ UNCHANGED vars
  <2>1. pal' = pal /\ call' = call /\ card' = card /\ rsp' \in {rsp, NoFrame}
    BY <1>4 DEF LoseRequest, LoseResponse, vars
  <2> QED BY <2>1, ReaderKeepsAnswer DEF AnswerInv, Exchanging
<1>5. CASE Activate
  <2>1. call' = InitCall /\ card' = InitCard /\ rsp' = NoFrame
    BY <1>5 DEF Activate, Agreement, ReaderOK
  <2>2. /\ card'.last = NoFrame /\ card'.reply = NoFrame /\ ~card'.chain /\ card'.toSend = 0
        /\ call'.at = "idle"
    BY <2>1 DEF InitCard, InitCall
  <2> QED BY <2>1, <2>2, FrameTypes DEF AnswerInv, AnswerBlockOK, Exchanging
<1> QED BY <1>1, <1>2, <1>3, <1>4, <1>5 DEF Next

(* When a call that receives returns the end of an answer, the card has    *)
(* sent all of it and has the whole command, whatever was lost.            *)
THEOREM AnswersComplete == Spec => []AnswerComplete
<1>1. Init => AnswerInv
  BY AnswerBegins DEF Init
<1>2. TypeOK /\ Agreement /\ AnswerInv /\ [Next]_vars => AnswerInv'
  BY StepKeepsAnswer
<1>3. Agreement /\ AnswerInv => AnswerComplete
  BY DEF Agreement, ReaderOK, AnswerInv, AnswerComplete, InSession
<1> QED BY <1>1, <1>2, <1>3, AgreementInvariant, PTL DEF Spec

-----------------------------------------------------------------------------
(* Bounded recovery.                                                       *)

(* Twice the frames that r retransmissions may have cost when the retry    *)
(* count is k: those after which the next retransmission was still due,    *)
(* and those of this IsoHandling.                                          *)
Allowed(r, k) == 2 * MaxRetryCount * r - r * (r - 1) + 2 * k + 2

RecoveryInv ==
  /\ ~Exchanging => call.effort = 0
  /\ Exchanging =>
       /\ call.retransmits <= MaxRetryCount /\ call.retry <= MaxRetryCount + 1
       /\ 2 * call.effort <= Allowed(call.retransmits, call.retry)
  /\ Exchanging /\ pal.state = "TX" /\ card.turn = turn =>
       /\ call.retransmits <= call.retry
       /\ req.type = "NAK" \/ rsp.type = "ACK" => call.retransmits < call.retry

(* A retry costs one frame; so does a retransmission, which the retry      *)
(* count allows as long as it is not above the limit.                      *)
LEMMA AllowedSteps ==
  ASSUME NEW r \in 0 .. MaxRetryCount, NEW k \in 0 .. MaxRetryCount + 1
  PROVE  /\ Allowed(r, k) \in Int
         /\ Allowed(r, k + 1) = Allowed(r, k) + 2
         /\ Allowed(r, 0) >= 2
         /\ k <= MaxRetryCount => Allowed(r, k) + 2 <= Allowed(r + 1, r + 1)
<1> DEFINE m == MaxRetryCount
           p == m * r
           q == r * r
<1>1. m \in Nat /\ r \in Nat /\ k \in Nat /\ r <= m
  BY RetryAssumption
<1>2. p \in Int /\ q \in Int /\ p >= q /\ q >= 0
  BY <1>1
<1>3. \A j \in Nat : Allowed(r, j) = 2 * p - q + r + 2 * j + 2
  BY <1>1 DEF Allowed
<1>4. Allowed(r + 1, r + 1) = 2 * p + 2 * m - q - r + 2 * (r + 1) + 2
  BY <1>1 DEF Allowed
<1> HIDE DEF p, q, m
<1>5. /\ Allowed(r, k) = 2 * p - q + r + 2 * k + 2
      /\ Allowed(r, k + 1) = 2 * p - q + r + 2 * (k + 1) + 2
      /\ Allowed(r, 0) = 2 * p - q + r + 2
  <2>1. k + 1 \in Nat /\ 0 \in Nat
    BY <1>1
  <2>2. Allowed(r, 0) = 2 * p - q + r + 2 * 0 + 2
    BY <1>3, <2>1
  <2>3. Allowed(r, k + 1) = 2 * p - q + r + 2 * (k + 1) + 2
    BY <1>3, <2>1
  <2>4. Allowed(r, k) = 2 * p - q + r + 2 * k + 2
    BY <1>1, <1>3
  <2> QED BY <1>1, <1>2, <2>2, <2>3, <2>4
<1>6. k <= m => Allowed(r, k) + 2 <= Allowed(r + 1, r + 1)
  BY <1>1, <1>2, <1>4, <1>5
<1> QED BY <1>1, <1>2, <1>5, <1>6 DEF m

(* The bound is reached with MaxRetryCount retransmissions and as many     *)
(* retries as the limit allows after the last of them.                     *)
LEMMA AllowedBounded ==
  ASSUME NEW r \in 0 .. MaxRetryCount, NEW k \in 0 .. MaxRetryCount + 1,
         NEW e \in Nat, 2 * e <= Allowed(r, k)
  PROVE  e <= RecoveryBound
<1> DEFINE m == MaxRetryCount
           d == m - r
           p == m * (m + 1)
<1>1. m \in Nat /\ r \in Nat /\ k \in Nat /\ d \in Nat /\ k <= m + 1
  BY RetryAssumption
<1>2. p \in Nat
  BY <1>1
<1>3. 2 * m * r - r * (r - 1) <= p
  <2>1. p - (2 * m * r - r * (r - 1)) = d * d + d
    BY <1>1
  <2>2. d * d + d >= 0
    BY <1>1
  <2>3. 2 * m * r - r * (r - 1) \in Int
    BY <1>1
  <2> HIDE DEF d, p
  <2> QED BY <1>2, <2>1, <2>2, <2>3
<1>4. Allowed(r, k) <= p + 2 * m + 4
  <2> DEFINE a == 2 * m * r - r * (r - 1)
  <2>1. a \in Int
    BY <1>1
  <2>2. Allowed(r, k) = a + 2 * k + 2
    BY DEF Allowed
  <2> HIDE DEF a, m, p
  <2> QED BY <1>1, <1>2, <1>3, <2>1, <2>2 DEF a
<1>5. Allowed(r, k) \in Int
  BY AllowedSteps
<1>6. RecoveryBound = m + p \div 2 + 2
  BY DEF RecoveryBound
<1> HIDE DEF m, p
<1> QED BY <1>1, <1>2, <1>4, <1>5, <1>6

(* Below the limit of its type a count does not wrap.                      *)
LEMMA IncrementedCounts ==
  ASSUME MaxRetryCount + 1 < RetryModulus, NEW n \in 0 .. MaxRetryCount
  PROVE  Incremented(n) = n + 1
BY RetryAssumption DEF Incremented

LEMMA CountsTyped ==
  ASSUME TypeOK
  PROVE  call.retransmits \in Nat /\ call.retry \in Nat /\ call.effort \in Nat
BY RetryAssumption DEF TypeOK, Call

(* The steps of a call that waits for a block.                             *)
LEMMA EndingKeepsRecovery ==
  ASSUME MaxRetryCount + 1 < RetryModulus, TypeOK, TypeOK', Agreement, RecoveryInv,
         Exchanging, Ending, card' = card, rsp' = NoFrame
  PROVE  RecoveryInv'
<1> DEFINE r == call.retransmits
           k == call.retry
           e == call.effort
<1>1. /\ r \in 0 .. MaxRetryCount /\ k \in 0 .. MaxRetryCount + 1 /\ e \in Nat
      /\ 2 * e <= Allowed(r, k) /\ call'.effort \in Nat
      /\ MaxRetryCount \in Nat
  BY CountsTyped, RetryAssumption DEF RecoveryInv, TypeOK, Call
<1>2. /\ Allowed(r, k) \in Int
      /\ Allowed(r, k + 1) = Allowed(r, k) + 2
      /\ Allowed(r, 0) >= 2
      /\ k <= MaxRetryCount => Allowed(r, k) + 2 <= Allowed(r + 1, r + 1)
  BY <1>1, AllowedSteps
<1>3. 0 \in 0 .. MaxRetryCount /\ 0 \in 0 .. MaxRetryCount + 1
  BY <1>1
<1>4. Allowed(0, 0) >= 2 /\ Allowed(0, 0) \in Int
  BY <1>3, AllowedSteps
<1>5. card.turn \in {turn, turn + 1} /\ turn \in Nat
  BY DEF Agreement, Numbering, BlockNumbersAgree, TypeOK
<1>6. CASE Stops
  BY <1>6 DEF Stops, RecoveryInv, Exchanging
<1>7. CASE AsksAgain
  <2>1. call'.retry = k + 1
    BY <1>1, <1>7, IncrementedCounts DEF AsksAgain
  <2>2. k <= MaxRetryCount /\ call'.retransmits = r /\ call'.effort <= e + 1
    BY <1>7 DEF AsksAgain
  <2>3. 2 * call'.effort <= Allowed(r, k + 1)
    <3> HIDE DEF r, k, e
    <3> QED BY <1>1, <1>2, <2>2
  <2>4. (pal.state = "TX" /\ card.turn = turn) => r < k + 1
    BY <1>1 DEF RecoveryInv
  <2>5. call'.at = call.at /\ pal' = pal /\ turn' = turn
    BY <1>7 DEF AsksAgain
  <2>6. k + 1 <= MaxRetryCount + 1 /\ r <= MaxRetryCount
    BY <1>1, <2>2
  <2> HIDE DEF r, k, e
  <2>7. r < k + 1 => r <= k + 1
    BY <1>1
  <2> QED BY <2>1, <2>2, <2>3, <2>4, <2>5, <2>6, <2>7 DEF RecoveryInv, Exchanging
<1>8. CASE SendsAgain
  <2>1. card.turn = turn
    BY <1>8, NumbersTell DEF SendsAgain, Agreement, Numbering, ResponseOK
  <2>2. r < k /\ k <= MaxRetryCount
    BY <1>8, <2>1 DEF SendsAgain, RecoveryInv
  <2>3. r + 1 <= MaxRetryCount /\ r + 1 <= MaxRetryCount + 1
    <3> HIDE DEF r, k
    <3> QED BY <1>1, <2>2
  <2>4. call'.retransmits = r + 1 /\ call'.retry = r + 1
    BY <1>1, <1>8, IncrementedCounts DEF SendsAgain
  <2>5. call'.effort <= e + 1
    BY <1>8 DEF SendsAgain
  <2>6. r + 1 \in 0 .. MaxRetryCount /\ r + 1 \in 0 .. MaxRetryCount + 1
    <3> HIDE DEF r, k
    <3> QED BY <1>1, <2>3
  <2>7. Allowed(r + 1, r + 1) \in Int
    <3> HIDE DEF r
    <3> QED BY <2>6, AllowedSteps
  <2>8. 2 * call'.effort <= Allowed(r + 1, r + 1)
    <3> HIDE DEF r, k, e
    <3> QED BY <1>1, <1>2, <2>2, <2>5, <2>7
  <2>9. r + 1 <= r + 1
    BY <1>1
  <2>10. call'.at = "tx" /\ req'.type = "I" /\ rsp'.type = "none"
    BY <1>8, FrameTypes DEF SendsAgain
  <2> HIDE DEF r, k, e
  <2> QED BY <2>3, <2>4, <2>8, <2>9, <2>10 DEF RecoveryInv, Exchanging
<1>9. CASE Grants
  <2>1. card.turn # turn /\ turn' = turn
    BY <1>5, <1>9 DEF Grants, Agreement, ResponseOK
  <2>2. call'.retransmits = r /\ call'.retry = 0 /\ call'.effort <= 1 /\ call'.at = call.at
    BY <1>9 DEF Grants
  <2>3. 2 * call'.effort <= Allowed(r, 0)
    <3>1. Allowed(r, 0) \in Int
      BY <1>1, <1>3, AllowedSteps
    <3> HIDE DEF r, k, e
    <3> QED BY <1>1, <1>2, <2>2, <3>1
  <2>4. r <= MaxRetryCount /\ 0 <= MaxRetryCount + 1
    BY <1>1
  <2> HIDE DEF r, k, e
  <2> QED BY <2>1, <2>2, <2>3, <2>4 DEF RecoveryInv, Exchanging
<1>10. CASE AsksNext
  <2>1. call'.retransmits \in {0, r} /\ call'.retry = 0 /\ call'.effort <= 1
    BY <1>10 DEF AsksNext
  <2>2. 2 * call'.effort <= Allowed(call'.retransmits, 0)
    <3>1. Allowed(r, 0) \in Int
      BY <1>1, <1>3, AllowedSteps
    <3> HIDE DEF r, k, e
    <3>2. call'.effort <= 1 => 2 * call'.effort <= 2
      BY <1>1
    <3>3. CASE call'.retransmits = 0
      BY <1>1, <1>4, <2>1, <3>2, <3>3
    <3>4. CASE call'.retransmits = r
      BY <1>1, <1>2, <2>1, <3>1, <3>2, <3>4
    <3> QED BY <2>1, <3>3, <3>4
  <2>3. call'.retransmits <= MaxRetryCount /\ 0 <= MaxRetryCount + 1 /\ 0 <= 0
    BY <1>1, <2>1
  <2>4. pal'.state = "TX" => call'.retransmits = 0
    BY <1>10 DEF AsksNext
  <2>5. call'.at \in {"tx", "rx"} /\ req'.type # "NAK" /\ rsp'.type = "none"
    BY <1>10, FrameTypes DEF AsksNext
  <2> HIDE DEF r, k, e
  <2> QED BY <2>1, <2>2, <2>3, <2>4, <2>5 DEF RecoveryInv, Exchanging
<1>11. CASE Returns
  BY <1>11 DEF Returns, RecoveryInv, Exchanging
<1> QED BY <1>6, <1>7, <1>8, <1>9, <1>10, <1>11 DEF Ending

(* A call begins with no retry and no retransmission behind it.            *)
LEMMA FirstFrame ==
  ASSUME TypeOK', call'.at \in {"tx", "rx"}, call'.retransmits = 0, call'.retry = 0,
         call'.effort <= 1, req'.type # "NAK", rsp' = NoFrame
  PROVE  RecoveryInv'
<1>1. MaxRetryCount \in Nat /\ call'.effort \in Nat
  BY RetryAssumption DEF TypeOK, Call
<1>2. 0 \in 0 .. MaxRetryCount /\ 0 \in 0 .. MaxRetryCount + 1
  BY <1>1
<1>3. Allowed(0, 0) >= 2 /\ Allowed(0, 0) \in Int
  BY <1>2, AllowedSteps
<1>4. 2 * call'.effort <= Allowed(0, 0)
  BY <1>1, <1>3
<1>5. 0 <= MaxRetryCount /\ 0 <= MaxRetryCount + 1 /\ 0 <= 0
  BY <1>1
<1> QED BY <1>4, <1>5, FrameTypes DEF RecoveryInv, Exchanging

LEMMA CallsKeepRecovery ==
  ASSUME TypeOK, TypeOK', Agreement, RecoveryInv,
         \/ \E mode \in AllModes, n \in 1 .. MaxBlocks : StartExchange(mode, n)
         \/ \E mode \in AllModes : ContinueReception(mode)
         \/ PresCheck \/ Deselect \/ Deselected \/ NotDeselected \/ Presence \/ HalError
  PROVE  RecoveryInv'
<1>1. ASSUME NEW mode \in AllModes, NEW n \in 1 .. MaxBlocks, StartExchange(mode, n)
      PROVE  RecoveryInv'
  <2> DEFINE p == IF pal.state = "TX" THEN pal ELSE [pal EXCEPT !.state = "TX", !.chaining = FALSE]
             c == [InitCall EXCEPT !.mode = mode, !.left = n]
  <2>1. p \in Pal
    BY DEF TypeOK, Pal
  <2>2. n \in Nat
    BY SizeAssumption
  <2>3. c \in Call /\ c.retransmits = 0 /\ c.effort = 0
    BY <2>2, InitCallTyped DEF InitCall
  <2>4. SendIBlock(p, c, turn)
    BY <1>1 DEF StartExchange
  <2>5. rsp' = NoFrame
    BY <1>1 DEF StartExchange, Idle, Agreement, ReaderOK
  <2> HIDE DEF p, c
  <2> QED BY <2>1, <2>3, <2>4, <2>5, SendIBlockFields, FirstFrame
<1>2. ASSUME NEW mode \in AllModes, ContinueReception(mode)
      PROVE  RecoveryInv'
  <2> DEFINE p == [pal EXCEPT !.state = "RX", !.chaining = TRUE]
             c == [InitCall EXCEPT !.mode = mode]
  <2>1. p \in Pal
    BY DEF TypeOK, Pal
  <2>2. c \in Call /\ c.retransmits = 0 /\ c.effort = 0
    BY InitCallTyped DEF InitCall
  <2>3. AskNext(p, c, "tx", turn)
    BY <1>2 DEF ContinueReception
  <2>4. rsp' = NoFrame
    BY <1>2 DEF ContinueReception, Idle, Agreement, ReaderOK
  <2> HIDE DEF p, c
  <2> QED BY <2>1, <2>2, <2>3, <2>4, AskNextFields, FirstFrame
<1>3. CASE \/ PresCheck \/ Deselect \/ Deselected \/ NotDeselected \/ Presence \/ HalError
  <2>1. CASE PresCheck \/ Presence
    <3>1. /\ ~Exchanging /\ call'.at \in {"idle", "presence"} /\ call'.effort = call.effort
      BY <2>1 DEF PresCheck, Presence, Idle, Exchanging, TypeOK, Call
    <3> QED BY <3>1 DEF RecoveryInv, Exchanging
  <2>2. CASE Deselect \/ Deselected \/ HalError
    <3>1. call'.at \in {"idle", "deselect"} /\ call'.effort = 0
      BY <2>2, StartDeselectFields, ReturnFields DEF Deselect, Deselected, HalError, TypeOK
    <3> QED BY <3>1 DEF RecoveryInv, Exchanging
  <2>3. CASE NotDeselected
    <3>1. call'.at \in {"idle", "deselect"} /\ call'.effort \in {0, call.effort}
      BY <2>3, ReturnFields DEF NotDeselected, TypeOK, Call
    <3>2. call.effort = 0
      BY <2>3 DEF NotDeselected, RecoveryInv, Exchanging
    <3> QED BY <3>1, <3>2 DEF RecoveryInv, Exchanging
  <2> QED BY <1>3, <2>1, <2>2, <2>3
<1> QED BY <1>1, <1>2, <1>3

(* A card that takes a command block counts it. *)
LEMMA TakeIBlockCounts ==
  ASSUME TypeOK, TakeIBlock(req)
  PROVE  card'.turn = card.turn + 1
<1>1. /\ req \in Frame
      /\ card.turn + 1 \in Nat /\ Toggle(card.bn) \in 0 .. 1
  BY DEF TypeOK, Card, Toggle
<1>2. CASE Reply([Taken(req) EXCEPT !.chain = TRUE],
                 BuildRBlock(Toggle(card.bn), TRUE, card.turn + 1))
  <2> DEFINE f == BuildRBlock(Toggle(card.bn), TRUE, card.turn + 1)
             c == [Taken(req) EXCEPT !.chain = TRUE]
  <2>1. PICK b \in BOOLEAN : b = TRUE
    OBVIOUS
  <2>2. c \in Card /\ c.turn = card.turn + 1
    BY <1>1, <2>1, TakenEffect
  <2>3. f \in Frame
    BY <1>1, BlocksTyped DEF BuildRBlock
  <2> HIDE DEF f, c
  <2> QED BY <1>2, <2>2, <2>3, ReplyEffect DEF f, c
<1>3. ASSUME NEW n \in 1 .. AnswerBlocks,
             Reply([Taken(req) EXCEPT !.chain = FALSE, !.toSend = n - 1],
                   BuildIBlock(Toggle(card.bn), n > 1, NadEnabled, card.turn + 1))
      PROVE  card'.turn = card.turn + 1
  <2> DEFINE k == n - 1
             more == n > 1
             f == BuildIBlock(Toggle(card.bn), more, NadEnabled, card.turn + 1)
             c == [Taken(req) EXCEPT !.chain = FALSE, !.toSend = k]
  <2>1. PICK b \in BOOLEAN : b = FALSE
    OBVIOUS
  <2>2. k \in Nat /\ more \in BOOLEAN
    BY SizeAssumption
  <2> HIDE DEF k, more
  <2>3. c \in Card /\ c.turn = card.turn + 1
    BY <1>1, <2>1, <2>2, TakenEffect
  <2>4. f \in Frame
    BY <1>1, <2>2, BlocksTyped, ModeAssumption
  <2>5. Reply(c, f)
    BY <1>3 DEF k, more
  <2> HIDE DEF f, c
  <2> QED BY <2>3, <2>4, <2>5, ReplyEffect
<1> QED BY <1>2, <1>3 DEF TakeIBlock

(* A card acknowledges a block again only to an R(NAK), which a retry sent.*)
LEMMA CardReceiveKeepsRecovery ==
  ASSUME TypeOK, Agreement, RecoveryInv, CardReceive
  PROVE  RecoveryInv'
<1>1. pal' = pal /\ call' = call /\ turn' = turn /\ req' = NoFrame
  BY DEF CardReceive
<1>2. card'.turn = card.turn \/ (card.turn = turn /\ card'.turn = turn + 1)
  BY CardReceiveKeeps DEF MayTake
<1>3. turn \in Nat
  BY DEF TypeOK
<1>4. ASSUME Exchanging, pal.state = "TX", card'.turn = turn
      PROVE  /\ call.retransmits <= call.retry
             /\ rsp'.type = "ACK" => call.retransmits < call.retry
  <2>1. card.turn = turn
    BY <1>2, <1>3, <1>4
  <2>2. CASE req.type = "I" /\ TakeIBlock(req)
    BY <1>3, <1>4, <2>1, <2>2, TakeIBlockCounts
  <2>3. CASE req.type = "NAK"
    BY <1>4, <2>1, <2>3 DEF RecoveryInv
  <2>4. CASE req.type \in {"ACK", "WTX", "DESELECT"}
    BY <1>3, <1>4, <2>1, <2>4 DEF Agreement, RequestOK, Exchanging
  <2>5. CASE UNCHANGED <<card, rsp>>
    BY <1>4, <2>1, <2>5 DEF RecoveryInv
  <2> QED BY <2>2, <2>3, <2>4, <2>5 DEF CardReceive
<1> QED BY <1>1, <1>4, FrameTypes DEF RecoveryInv, Exchanging

LEMMA StepKeepsRecovery ==
  ASSUME MaxRetryCount + 1 < RetryModulus, TypeOK, TypeOK', Agreement, RecoveryInv, [Next]_vars
  PROVE  RecoveryInv'
<1>1. CASE \/ \E mode \in AllModes, n \in 1 .. MaxBlocks : StartExchange(mode, n)
           \/ \E mode \in AllModes : ContinueReception(mode)
           \/ PresCheck \/ Deselect \/ Deselected \/ NotDeselected \/ Presence \/ HalError
  BY <1>1, CallsKeepRecovery
<1>2. CASE Receive \/ NoResponse
  BY <1>2, ReaderEnds, EndingKeepsRecovery
<1>3. CASE CardReceive
  BY <1>3, CardReceiveKeepsRecovery
<1>4. CASE LoseRequest \/ LoseResponse \/ UNCHANGED vars
  <2>1. /\ pal' = pal /\ call' = call /\ card' = card /\ turn' = turn
        /\ req' \in {req, NoFrame} /\ rsp' \in {rsp, NoFrame}
    BY <1>4 DEF LoseRequest, LoseResponse, vars
  <2> QED BY <2>1, FrameTypes DEF RecoveryInv, Exchanging
<1>5. CASE Activate
  <2>1. call'.at = "idle" /\ call'.effort = 0
    BY <1>5 DEF Activate, InitCall
  <2> QED BY <2>1 DEF RecoveryInv, Exchanging
<1> QED BY <1>1, <1>2, <1>3, <1>4, <1>5 DEF Next

(* No request and no time extension costs more frames than RecoveryBound,  *)
(* however many are lost: the two nested counts bound the loops together.  *)
(* The limit 255 is left out: a uint8_t never exceeds it, and the loop     *)
(* has no end.                                                             *)
THEOREM RecoveryBounded ==
  ASSUME MaxRetryCount + 1 < RetryModulus
  PROVE  Spec => []BoundedRecovery
<1>1. Init => RecoveryInv
  <2> SUFFICES ASSUME Init PROVE RecoveryInv
    OBVIOUS
  <2>1. call.at = "idle" /\ call.effort = 0
    BY DEF Init, InitCall
  <2> QED BY <2>1 DEF RecoveryInv, Exchanging
<1>2. TypeOK /\ Agreement /\ TypeOK' /\ RecoveryInv /\ [Next]_vars => RecoveryInv'
  BY StepKeepsRecovery
<1>3. TypeOK /\ RecoveryInv => BoundedRecovery
  <2> SUFFICES ASSUME TypeOK, RecoveryInv PROVE BoundedRecovery
    OBVIOUS
  <2>1. call.effort \in Nat /\ MaxRetryCount \in Nat
    BY RetryAssumption DEF TypeOK, Call
  <2>2. CASE Exchanging
    <3>1. /\ call.retransmits \in 0 .. MaxRetryCount /\ call.retry \in 0 .. MaxRetryCount + 1
          /\ 2 * call.effort <= Allowed(call.retransmits, call.retry)
      BY <2>1, <2>2, CountsTyped DEF RecoveryInv
    <3> QED BY <2>1, <3>1, AllowedBounded DEF BoundedRecovery
  <2>3. CASE ~Exchanging
    <3>1. PICK r \in 0 .. MaxRetryCount : r = 0
      BY <2>1
    <3>2. PICK k \in 0 .. MaxRetryCount + 1 : k = 0
      BY <2>1
    <3>3. 2 * call.effort <= Allowed(r, k)
      <4>1. Allowed(0, 0) \in Int /\ Allowed(0, 0) >= 2
        BY <3>1, <3>2, AllowedSteps
      <4>2. call.effort = 0
        BY <2>3 DEF RecoveryInv
      <4> QED BY <3>1, <3>2, <4>1, <4>2
    <3> QED BY <2>1, <3>3, AllowedBounded DEF BoundedRecovery
  <2> QED BY <2>2, <2>3
<1> QED BY <1>1, <1>2, <1>3, AgreementInvariant, PTL DEF Spec
=============================================================================
