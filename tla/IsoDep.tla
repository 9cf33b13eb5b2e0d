------------------------------- MODULE IsoDep -------------------------------
(***************************************************************************)
(* The ISO/IEC 14443-4 block protocol of phpalI14443p4_Sw.c (the reader)   *)
(* with a card over a channel that loses frames in both directions.        *)
(*                                                                         *)
(* The reader is sequential: control leaves it only in phhalHw_Exchange.   *)
(* So a step of the reader is what it does from the result of one HAL      *)
(* exchange to the next one, or to its return: the rest of IsoHandling     *)
(* and of the loop of Exchange it was called from.  pal is the part of     *)
(* phpalI14443p4_Sw_DataParams_t that changes, call the local variables of *)
(* the call in progress.  The card follows the rules of the standard that  *)
(* the comments of the source cite; it is not code of the library.         *)
(*                                                                         *)
(* A request is an I-block, or the R(ACK) that asks for the next block of  *)
(* an answer; requests are numbered, and their numbers are (ghost) in the  *)
(* frames and in the two ends, next to the block numbers of one bit.       *)
(***************************************************************************)
EXTENDS Integers

CONSTANTS
  MaxRetryCount,  \* bMaxRetryCount
  RetryModulus,   \* the retry counts and their maximum are uint8_t: 256
  NadEnabled,     \* bNadEnabled
  Modes,          \* the exchange modes the application uses
  MaxBlocks,      \* blocks of the data passed to one Exchange
  RxRoom,         \* blocks the receive buffer holds, with an S(WTX) after them
  AnswerBlocks,   \* longest answer of the card, in blocks
  MaxWtx,         \* time extensions the card asks for before one reply
  Wtxm,           \* the multipliers it asks for
  MaxTurn         \* requests after which no new command is begun

AllModes == {"DEFAULT", "TXCHAINING", "RXCHAINING", "RXCHAINING_BUFSIZE"}

ASSUME RetryAssumption ==
  RetryModulus \in Nat \ {0} /\ MaxRetryCount \in 0 .. RetryModulus - 1
ASSUME ModeAssumption == Modes \subseteq AllModes /\ NadEnabled \in BOOLEAN
ASSUME SizeAssumption ==
  /\ MaxBlocks \in Nat \ {0} /\ RxRoom \in Nat \ {0} /\ AnswerBlocks \in Nat \ {0}
  /\ MaxWtx \in Nat /\ MaxTurn \in Nat /\ Wtxm \subseteq 0 .. 63

VARIABLES
  pal,   \* the reader's protocol parameters
  call,  \* the reader's call in progress, or the last one
  turn,  \* (ghost) requests answered
  card,  \* the card
  req,   \* the frame of the reader in the field
  rsp    \* the frame of the card in the field

reader == <<pal, call, turn>>
vars == <<pal, call, turn, card, req, rsp>>

-----------------------------------------------------------------------------
(* Frames. *)

Frame == [type : {"I", "ACK", "NAK", "WTX", "DESELECT", "none"}, bn : 0 .. 1,
          more : BOOLEAN, nad : BOOLEAN, wtxm : 0 .. 63, turn : Nat]

Block(type, bn, t) ==
  [type |-> type, bn |-> bn, more |-> FALSE, nad |-> FALSE, wtxm |-> 0, turn |-> t]

NoFrame == Block("none", 0, 0)
BuildIBlock(bn, more, nad, t) == [Block("I", bn, t) EXCEPT !.more = more, !.nad = nad]
BuildRBlock(bn, isAck, t) == Block(IF isAck THEN "ACK" ELSE "NAK", bn, t)
BuildWtx(m) == [Block("WTX", 0, 0) EXCEPT !.wtxm = m]
BuildDeselect == Block("DESELECT", 0, 0)

Toggle(bn) == 1 - bn

-----------------------------------------------------------------------------
(* The reader. *)

Statuses == {"SUCCESS", "SUCCESS_CHAINING", "BUFFER_OVERFLOW", "IO_TIMEOUT",
             "PROTOCOL_ERROR", "RECOVERY_FAILED", "DESELECTED", "HAL"}

(* With these the session goes on; with the others the application has to  *)
(* activate the card again.                                                *)
InSession == {"SUCCESS", "SUCCESS_CHAINING", "BUFFER_OVERFLOW"}

Pal == [state : {"TX", "RX", "FINISHED"}, chaining : BOOLEAN, bn : 0 .. 1]

Call == [at : {"idle", "tx", "rx", "deselect", "presence"},  \* who waits for the HAL
         mode : AllModes,
         left : Nat,            \* wTxLength, in blocks
         retransmits : 0 .. RetryModulus - 1,  \* bRetryCountRetransmit
         retry : 0 .. RetryModulus - 1,        \* bRetryCount of IsoHandling
         responded : BOOLEAN,   \* bResponseReceived of IsoHandling
         overflow : BOOLEAN,    \* bBufferOverflow
         held : Nat,            \* *pRxLength, in blocks
         tries : Nat,           \* wRetries of Deselect
         status : Statuses,     \* returned, or to be returned after Deselect
         effort : Nat]          \* (ghost) frames sent since the last progress

InitPal == [state |-> "TX", chaining |-> FALSE, bn |-> 0]
InitCall ==
  [at |-> "idle", mode |-> "DEFAULT", left |-> 0, retransmits |-> 0, retry |-> 0,
   responded |-> FALSE, overflow |-> FALSE, held |-> 0, tries |-> 0,
   status |-> "SUCCESS", effort |-> 0]

Incremented(count) == (count + 1) % RetryModulus

(* The most frames a reader sends for one request, or after one time       *)
(* extension, each lost one counted: the I-block up to MaxRetryCount + 1   *)
(* times, with ever fewer R(NAK) after it.                                 *)
RecoveryBound ==
  MaxRetryCount + (MaxRetryCount * (MaxRetryCount + 1)) \div 2 + 2

Spent(c) == IF c.effort > RecoveryBound THEN c.effort ELSE c.effort + 1

Send(p, c, f) ==
  /\ pal' = p
  /\ call' = [c EXCEPT !.effort = Spent(c)]
  /\ req' = f

Return(p, c, status) ==
  /\ pal' = p
  /\ call' = [c EXCEPT !.at = "idle", !.status = status, !.effort = 0]
  /\ req' = NoFrame

(* IsoHandling is entered with a retry count and forgets what it received. *)
EnterIsoHandling(c, at, retry) ==
  [c EXCEPT !.at = at, !.retry = retry, !.responded = FALSE]

(* An I-block of the transmission loop.  The NAD goes with the first block *)
(* of a chain only; that is read from the chaining bit before the bit is   *)
(* set for this block.                                                     *)
UseNad(p) == NadEnabled /\ ~p.chaining

MoreFollow(c) == c.mode = "TXCHAINING" \/ c.left > 1

(* (mutant) A retransmission starts the retry count again. *)
SendIBlockUncounted(p, c, t) ==
  Send([p EXCEPT !.chaining = MoreFollow(c)],
       EnterIsoHandling(c, "tx", 0),
       BuildIBlock(p.bn, MoreFollow(c), UseNad(p), t + 1))

SendIBlock(p, c, t) ==
  Send([p EXCEPT !.chaining = MoreFollow(c)],
       EnterIsoHandling(c, "tx", c.retransmits),
       BuildIBlock(p.bn, MoreFollow(c), UseNad(p), t + 1))

(* The R(ACK) that asks for the next block of an answer. *)
AskNext(p, c, at, t) ==
  Send(p, EnterIsoHandling(c, at, 0), BuildRBlock(p.bn, TRUE, t + 1))

(* An answer whose next block may not fit is left for another call. *)
LeavesRest(c) ==
  ~c.overflow /\ c.mode # "RXCHAINING_BUFSIZE" /\ c.held + 1 > RxRoom

(* The reception loop, with a block just received. *)
ReceptionLoop(p, c, t) ==
  \/ /\ p.chaining /\ LeavesRest(c)
     /\ Return(p, c, "SUCCESS_CHAINING")
  \/ /\ p.chaining /\ ~LeavesRest(c)
     /\ AskNext(p, c, "rx", t)
  \/ /\ ~p.chaining
     /\ Return([p EXCEPT !.state = "FINISHED"], c,
               IF c.overflow THEN "BUFFER_OVERFLOW" ELSE "SUCCESS")

(* The transmission loop after an R(ACK) that acknowledges a chained block. *)
NextBlock(p, c, t) ==
  \/ /\ c.left = 1 /\ c.mode = "TXCHAINING"
     /\ Return(p, [c EXCEPT !.left = 0, !.retransmits = 0], "SUCCESS")
  \/ /\ c.left > 1
     /\ SendIBlock(p, [c EXCEPT !.left = @ - 1, !.retransmits = 0], t)

-----------------------------------------------------------------------------
(* Deselect, called by the application or by IsoHandling. *)

StartDeselect(p, c, tries, status) ==
  /\ pal' = p
  /\ call' = [c EXCEPT !.at = "deselect", !.tries = tries, !.status = status, !.effort = 0]
  /\ req' = BuildDeselect

ProtocolError ==
  /\ UNCHANGED turn
  /\ \/ MaxRetryCount > 0 /\ StartDeselect(pal, call, MaxRetryCount + 1, "PROTOCOL_ERROR")
     \/ MaxRetryCount = 0 /\ Return(pal, call, "PROTOCOL_ERROR")

-----------------------------------------------------------------------------
(* IsoHandling: what follows a valid or an invalid block. *)

Exchanging == call.at \in {"tx", "rx"}

TxChaining(p) == p.state = "TX" /\ p.chaining
RxChaining(p) == p.state = "RX" /\ p.chaining

(* This limits the retransmissions, too: bRetryCount begins with their      *)
(* number and counts the R-blocks of this IsoHandling besides.             *)
RetryLeft(c) == c.retry <= MaxRetryCount

(* (mutant) Retries are not counted. *)
RecoverUncounted ==
  /\ UNCHANGED turn
  /\ Send(pal, call, BuildRBlock(pal.bn, RxChaining(pal), turn + 1))

(* (mutant) After silence the I-block is sent again without asking. *)
RecoverIBlock ==
  /\ UNCHANGED turn
  /\ SendIBlock(pal, [call EXCEPT !.retransmits = Incremented(call.retransmits)], turn)

(* Rule 5: R(ACK) while the card chains, rule 4: R(NAK) otherwise. *)
Recover ==
  /\ UNCHANGED turn
  /\ Send(pal, [call EXCEPT !.retry = Incremented(call.retry)],
          BuildRBlock(pal.bn, RxChaining(pal), turn + 1))

GiveUp ==
  LET status == IF call.responded /\ MaxRetryCount > 0
                THEN "RECOVERY_FAILED" ELSE "IO_TIMEOUT"
  IN /\ UNCHANGED turn
     /\ \/ MaxRetryCount > 0 /\ StartDeselect(pal, call, 1, status)
        \/ MaxRetryCount = 0 /\ Return(pal, call, status)

InvalidBlock ==
  /\ Exchanging
  /\ \/ RetryLeft(call) /\ Recover
     \/ ~RetryLeft(call) /\ GiveUp

(* (mutant) Whatever comes when the buffer is full counts as a block. *)
OverflowsAnyBlock(c, f) ==
  /\ c.at = "rx" /\ ~c.overflow
  /\ c.mode = "RXCHAINING_BUFSIZE" /\ c.held = RxRoom

(* The receive buffer is full: the HAL reports the block as overflow and   *)
(* IsoHandling returns at once; only RXCHAINING_BUFSIZE goes on, without   *)
(* having looked at the block.  RxRoom blocks leave room for an S(WTX): in *)
(* a buffer that is exactly full it would overflow and be taken for the    *)
(* block that does not fit, as OverflowsAnyBlock has it.                   *)
Overflows(c, f) ==
  /\ c.at = "rx" /\ f.type = "I" /\ ~c.overflow
  /\ c.mode = "RXCHAINING_BUFSIZE" /\ c.held = RxRoom

(* (mutant) The block number is not toggled. *)
HandleOverflowUntoggled ==
  /\ turn' = turn + 1
  /\ ReceptionLoop(pal, [call EXCEPT !.overflow = TRUE, !.effort = 0], turn + 1)

HandleOverflow ==
  /\ turn' = turn + 1
  /\ ReceptionLoop([pal EXCEPT !.bn = Toggle(@)],
                   [call EXCEPT !.overflow = TRUE, !.effort = 0], turn + 1)

(* An I-block is valid when it is expected, with the current block number  *)
(* and with a NAD exactly if it begins the answer.                         *)
ValidIBlock(f) == ~TxChaining(pal) /\ f.bn = pal.bn /\ f.nad = UseNad(pal)

Hold(c) == IF c.overflow THEN c ELSE [c EXCEPT !.held = @ + 1]

(* (mutant) The chaining bit of the answer is not taken over. *)
HandleIBlockKeepsChaining(f) ==
  \/ /\ ValidIBlock(f)
     /\ turn' = turn + 1
     /\ ReceptionLoop([pal EXCEPT !.state = "RX", !.bn = Toggle(@)],
                      [Hold(call) EXCEPT !.retransmits = 0, !.effort = 0], turn + 1)
  \/ /\ ~ValidIBlock(f)
     /\ ProtocolError

HandleIBlock(f) ==
  \/ /\ ValidIBlock(f)
     /\ turn' = turn + 1
     /\ ReceptionLoop([state |-> "RX", chaining |-> f.more, bn |-> Toggle(pal.bn)],
                      [Hold(call) EXCEPT !.retransmits = 0, !.effort = 0], turn + 1)
  \/ /\ ~ValidIBlock(f)
     /\ ProtocolError

(* (mutant) The number of an R(ACK) is not compared. *)
HandleAckAnyNumber(f) ==
  \/ /\ TxChaining(pal)
     /\ turn' = turn + 1
     /\ NextBlock([pal EXCEPT !.bn = Toggle(@)], [call EXCEPT !.effort = 0], turn + 1)
  \/ /\ ~TxChaining(pal)
     /\ ProtocolError

(* R(ACK) with the current number continues a chain; with the other number *)
(* it asks for the last I-block again (rule 6).  A reader in reception is  *)
(* never sent one (NoAckInReception).                                      *)
HandleAck(f) ==
  \/ /\ f.bn = pal.bn /\ TxChaining(pal)
     /\ turn' = turn + 1
     /\ NextBlock([pal EXCEPT !.bn = Toggle(@)], [call EXCEPT !.effort = 0], turn + 1)
  \/ /\ f.bn # pal.bn /\ pal.state = "TX" /\ RetryLeft(call)
     /\ UNCHANGED turn
     /\ SendIBlock(pal, [call EXCEPT !.retransmits = Incremented(call.retransmits)], turn)
  \/ /\ IF f.bn = pal.bn THEN ~TxChaining(pal) ELSE ~RetryLeft(call)
     /\ ProtocolError

(* S(WTX): granted by an S(WTX) of the reader (rule 3); a multiplier out   *)
(* of range is an error without recovery.                                  *)
HandleWtx(f) ==
  /\ UNCHANGED turn
  /\ \/ /\ f.wtxm \in 1 .. 59
        /\ Send(pal, [call EXCEPT !.retry = 0, !.responded = TRUE, !.effort = 0],
                BuildWtx(f.wtxm))
     \/ /\ f.wtxm \notin 1 .. 59
        /\ Return(pal, call, "PROTOCOL_ERROR")

(* A reply of the card arrives. *)
Receive ==
  /\ Exchanging /\ rsp # NoFrame
  /\ \/ Overflows(call, rsp) /\ HandleOverflow
     \/ rsp.type = "I" /\ ~Overflows(call, rsp) /\ HandleIBlock(rsp)
     \/ rsp.type = "ACK" /\ HandleAck(rsp)
     \/ rsp.type = "WTX" /\ HandleWtx(rsp)
  /\ rsp' = NoFrame
  /\ UNCHANGED card

(* No reply: the HAL reports a timeout, or an integrity, framing or        *)
(* collision error.                                                        *)
Silence == req = NoFrame /\ rsp = NoFrame

NoResponse ==
  /\ Silence
  /\ InvalidBlock
  /\ UNCHANGED <<card, rsp>>

(* Deselect repeats its request as long as nothing valid comes back. *)
Deselected ==
  /\ call.at = "deselect" /\ rsp # NoFrame
  /\ Return(pal, call, call.status)
  /\ rsp' = NoFrame
  /\ UNCHANGED <<turn, card>>

NotDeselected ==
  /\ call.at = "deselect" /\ Silence
  /\ \/ /\ call.tries > 1
        /\ pal' = pal
        /\ call' = [call EXCEPT !.tries = @ - 1]
        /\ req' = BuildDeselect
     \/ /\ call.tries = 1
        /\ Return(pal, call, IF call.status = "DESELECTED" THEN "IO_TIMEOUT" ELSE call.status)
  /\ UNCHANGED <<turn, card, rsp>>

(* The R(NAK) of a presence check was answered, or was not. *)
Presence ==
  /\ call.at = "presence" /\ req = NoFrame
  /\ call' = [call EXCEPT !.at = "idle"]
  /\ rsp' = NoFrame
  /\ UNCHANGED <<pal, turn, card, req>>

(* Any other error of the HAL ends the call at once; IsoHandling ignores    *)
(* how its Deselect ends.                                                  *)
HalError ==
  /\ Exchanging \/ call.at = "deselect"
  /\ Return(pal, call,
            IF Exchanging \/ call.status = "DESELECTED" THEN "HAL" ELSE call.status)
  /\ rsp' = NoFrame
  /\ UNCHANGED <<turn, card>>

-----------------------------------------------------------------------------
(* The application. *)

Idle == call.at = "idle" /\ call.status \in InSession
Chained == call.status = "SUCCESS_CHAINING"

(* Exchange with data to send.  n is the length of the data in blocks. *)
StartExchange(mode, n) ==
  /\ Idle /\ ~Chained /\ turn < MaxTurn
  /\ mode \in Modes \cap {"DEFAULT", "TXCHAINING"}
  /\ SendIBlock(IF pal.state = "TX" THEN pal ELSE [pal EXCEPT !.state = "TX", !.chaining = FALSE],
                [InitCall EXCEPT !.mode = mode, !.left = n], turn)
  /\ UNCHANGED <<turn, card, rsp>>

(* Exchange that fetches the rest of an answer. *)
ContinueReception(mode) ==
  /\ Idle /\ Chained
  /\ mode \in Modes \cap {"RXCHAINING", "RXCHAINING_BUFSIZE"}
  /\ AskNext([pal EXCEPT !.state = "RX", !.chaining = TRUE],
             [InitCall EXCEPT !.mode = mode], "tx", turn)
  /\ UNCHANGED <<turn, card, rsp>>

PresCheck ==
  /\ Idle
  /\ call' = [call EXCEPT !.at = "presence"]
  /\ req' = BuildRBlock(pal.bn, FALSE, turn)
  /\ UNCHANGED <<pal, turn, card, rsp>>

Deselect ==
  /\ Idle
  /\ StartDeselect(pal, call, MaxRetryCount + 1, "DESELECTED")
  /\ UNCHANGED <<turn, card, rsp>>

-----------------------------------------------------------------------------
(* The card, by the rules of ISO/IEC 14443-4. *)

Card == [active : BOOLEAN, bn : 0 .. 1,
         chain : BOOLEAN,   \* the reader's chain goes on
         toSend : Nat,      \* blocks left of the answer
         waits : Nat,       \* time extensions asked for this reply
         reply : Frame,     \* the reply that is delayed
         last : Frame,      \* the last block sent
         turn : Nat,        \* (ghost) requests taken
         taken : Nat]       \* (ghost) the number of the last one

InitCard ==
  [active |-> TRUE, bn |-> 1, chain |-> FALSE, toSend |-> 0, waits |-> 0,
   reply |-> NoFrame, last |-> NoFrame, turn |-> 0, taken |-> 0]

(* A reply, or a request for more time before it (rule 9). *)
Reply(c, f) ==
  \/ card' = [c EXCEPT !.last = f, !.reply = NoFrame, !.waits = 0] /\ rsp' = f
  \/ /\ c.waits < MaxWtx
     /\ \E m \in Wtxm :
          /\ card' = [c EXCEPT !.last = BuildWtx(m), !.reply = f, !.waits = @ + 1]
          /\ rsp' = BuildWtx(m)

(* Rules D and E: the card toggles its number with every request it takes. *)
Taken(f) ==
  [card EXCEPT !.bn = Toggle(@), !.turn = @ + 1, !.taken = f.turn]

TakeIBlock(f) ==
  \/ /\ f.more
     /\ Reply([Taken(f) EXCEPT !.chain = TRUE],
              BuildRBlock(Toggle(card.bn), TRUE, card.turn + 1))
  \/ /\ ~f.more
     /\ \E n \in 1 .. AnswerBlocks :
          Reply([Taken(f) EXCEPT !.chain = FALSE, !.toSend = n - 1],
                BuildIBlock(Toggle(card.bn), n > 1, NadEnabled, card.turn + 1))

(* Rules 11, 12 and 13. *)
TakeRBlock(f) ==
  \/ /\ f.bn = card.bn
     /\ rsp' = card.last /\ UNCHANGED card
  \/ /\ f.bn # card.bn /\ f.type = "NAK"
     /\ rsp' = BuildRBlock(card.bn, TRUE, card.turn) /\ UNCHANGED card
  \/ /\ f.bn # card.bn /\ f.type = "ACK" /\ card.toSend > 0
     /\ Reply([Taken(f) EXCEPT !.toSend = @ - 1],
              BuildIBlock(Toggle(card.bn), card.toSend > 1, FALSE, card.turn + 1))
  \/ /\ f.bn # card.bn /\ f.type = "ACK" /\ card.toSend = 0
     /\ UNCHANGED <<card, rsp>>

CardReceive ==
  /\ req # NoFrame
  /\ \/ card.active /\ req.type = "I" /\ TakeIBlock(req)
     \/ card.active /\ req.type \in {"ACK", "NAK"} /\ TakeRBlock(req)
     \/ card.active /\ req.type = "WTX" /\ Reply(card, card.reply)
     \/ /\ card.active /\ req.type = "DESELECT"
        /\ card' = [card EXCEPT !.active = FALSE] /\ rsp' = req
     \/ ~card.active /\ UNCHANGED <<card, rsp>>
  /\ req' = NoFrame
  /\ UNCHANGED <<pal, call, turn>>

-----------------------------------------------------------------------------
(* The channel, and a new session. *)

LoseRequest ==
  /\ req # NoFrame
  /\ req' = NoFrame
  /\ UNCHANGED <<pal, call, turn, card, rsp>>

LoseResponse ==
  /\ rsp # NoFrame
  /\ rsp' = NoFrame
  /\ UNCHANGED <<pal, call, turn, card, req>>

(* After a failure the card is activated again.  SetProtocol resets the    *)
(* block number and keeps bStateNow; ResetProtocol resets both.            *)
SetProtocol(p) == [p EXCEPT !.bn = 0]
ResetProtocol == InitPal

Activate ==
  /\ call.at = "idle" /\ ~Idle
  /\ pal' \in {SetProtocol(pal), ResetProtocol}
  /\ call' = InitCall
  /\ turn' = 0
  /\ card' = InitCard
  /\ UNCHANGED <<req, rsp>>

Init ==
  /\ pal = InitPal /\ call = InitCall /\ turn = 0
  /\ card = InitCard
  /\ req = NoFrame /\ rsp = NoFrame

Next ==
  \/ \E mode \in AllModes, n \in 1 .. MaxBlocks : StartExchange(mode, n)
  \/ \E mode \in AllModes : ContinueReception(mode)
  \/ PresCheck \/ Deselect \/ Activate
  \/ Receive \/ NoResponse \/ HalError \/ Deselected \/ NotDeselected \/ Presence
  \/ CardReceive \/ LoseRequest \/ LoseResponse

Spec == Init /\ [][Next]_vars

(* A HAL exchange ends: by its own timeout if nothing else.  The card      *)
(* answers what it receives.  Because a valid S(WTX) starts the retry      *)
(* count again, retries alone do not bound the loop: not every grant of a  *)
(* time extension may be lost.                                             *)
FairSpec ==
  /\ Spec
  /\ WF_vars(Receive \/ NoResponse \/ Deselected \/ NotDeselected \/ Presence \/ CardReceive)
  /\ SF_vars(CardReceive /\ req.type = "WTX")

-----------------------------------------------------------------------------
(* Properties. *)

TypeOK ==
  /\ pal \in Pal /\ call \in Call /\ turn \in Nat
  /\ card \in Card /\ req \in Frame /\ rsp \in Frame

(* The block numbers of the two ends are the requests each has counted,    *)
(* modulo 2, whatever was lost and sent again; and the card is at most one *)
(* request ahead.                                                          *)
BlockNumbersAgree ==
  /\ card.turn \in {turn, turn + 1}
  /\ pal.bn = turn % 2
  /\ card.bn = (card.turn + 1) % 2

(* The card takes every request once and in order: recovery (rules 4 to 6) *)
(* never makes it take an I-block, which it would execute, a second time.  *)
RequestTakenOnce == card.taken = card.turn

(* The reader accepts as the answer of a request only a block sent for     *)
(* that request.                                                           *)
AnswerIsForRequest == [][turn' > turn => rsp.turn = turn']_vars

(* When a call that receives returns the end of an answer, the card has    *)
(* sent all of it and has the whole command.                               *)
AnswerComplete ==
  call.at = "idle" /\ call.status \in {"SUCCESS", "BUFFER_OVERFLOW"}
      /\ call.mode # "TXCHAINING" =>
    card.toSend = 0 /\ ~card.chain /\ card.turn = turn

(* While the card chains, or its rest of an answer is left for a later     *)
(* call, the reader never sees an R(ACK), for which IsoHandling would set  *)
(* the retransmission bit in reception and lose its way.                   *)
NoAckInReception == rsp.type = "ACK" /\ Exchanging => pal.state = "TX"

(* Recovery is bounded: no request and no time extension costs more frames *)
(* than RecoveryBound, however many are lost.                              *)
BoundedRecovery == call.effort <= RecoveryBound

(* Every call of Exchange, PresCheck and Deselect returns.                 *)
CallReturns == call.at # "idle" ~> call.at = "idle"

(* Blocks are asked, taken and answered in turn.                           *)
SessionOver == ~Idle /\ call.at \in {"idle", "deselect"}

Alternation ==
  INSTANCE BlockAlternation WITH
    asked <- IF Exchanging THEN turn + 1 ELSE turn,
    taken <- card.turn,
    answered <- turn,
    over <- SessionOver

ImplementsAlternation == Alternation!Spec

=============================================================================
