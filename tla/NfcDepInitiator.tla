--------------------------- MODULE NfcDepInitiator ---------------------------
(***************************************************************************)
(* The initiator of NFC-DEP, phpalI18092mPI_Sw.c.  It is sequential and    *)
(* leaves control only in phhalHw_Exchange: a step is what it does from    *)
(* one HAL exchange to the next, or to the return of the call.             *)
(***************************************************************************)
EXTENDS NfcDepField

CONSTANTS
  MaxRetryCount,  \* bMaxRetryCount
  AtnDisabled     \* bAtnDisabled

VARIABLE ini

\* at: the call that waits for the HAL.  mode, chaining, retransmit: bStateNow
\* and its bits.  Of Exchange: left blocks of message msg, and what has been
\* received.  Of TransceivePdu: the frame of the exchange, the kind of the one
\* sent last, bRetryCount, and wBackupTxLength # 0.  bSendAtn and bNackSent say
\* that the last frame was an ATN or a NACK.
Initiator ==
  [at : {"idle", "exchange", "presence", "deselect"}, mode : {"TX", "RX", "FINISHED"},
   chaining : BOOLEAN, retransmit : BOOLEAN, pni : 0 .. 3, msg : {0, 1},
   size : 0 .. MaxBlocks,
   left : 0 .. MaxBlocks, received : Seq(Block), frame : Frame, sent : Kinds,
   retry : 0 .. MaxRetryCount, backup : BOOLEAN,
   status : {"BUSY", "SUCCESS", "PROTOCOL_ERROR", "NO_RESPONSE", "DESELECTED"}]

\* ResetProtocol.
InitInitiator ==
  [at |-> "idle", mode |-> "TX", chaining |-> FALSE, retransmit |-> FALSE, pni |-> 0, msg |-> 0,
   size |-> 0, left |-> 0, received |-> <<>>, frame |-> NoFrame, sent |-> "NONE", retry |-> 0,
   backup |-> FALSE, status |-> "SUCCESS"]

InSession == ini.at = "idle" /\ ini.status = "SUCCESS"
Waits == ini.at # "idle" /\ air = NoFrame

Send(i, f) == air' = f /\ ini' = [i EXCEPT !.sent = f.kind]
Return(i, status) ==
  /\ air' = NoFrame
  /\ ini' = [i EXCEPT !.at = "idle", !.status = status, !.sent = "NONE", !.frame = NoFrame,
                      !.retry = 0, !.backup = FALSE,
                      !.received = IF status = "SUCCESS" THEN @ ELSE <<>>]

\* TransceivePdu up to its first HAL exchange.
TransceivePdu(i, f) ==
  Send([i EXCEPT !.frame = f, !.retry = 0, !.backup = FALSE], f)

\* The transmission loop of Exchange up to the next block.
NextBlock(i) ==
  TransceivePdu([i EXCEPT !.chaining = i.left > 1],
                Pdu("T", "I", i.pni, i.left > 1, <<i.msg, i.size - i.left + 1>>))

\* The reception loop of Exchange: the next block is asked for, or the end.
ReceptionLoop(i) ==
  IF i.chaining THEN TransceivePdu(i, Pdu("T", "ACK", i.pni, FALSE, NoBlock))
  ELSE Return([i EXCEPT !.mode = "FINISHED"], "SUCCESS")

\* phpalI18092mPI_Exchange with a message of n blocks.
Exchange(n) ==
  /\ InSession
  /\ NextBlock([ini EXCEPT !.at = "exchange", !.mode = "TX", !.status = "BUSY", !.msg = NextMessage(@),
                           !.size = n, !.left = n, !.received = <<>>])

\* TransceivePdu has returned with success and f: TX is finished if no data is
\* left to send.
Exchanged(i, f) ==
  LET taken == [i EXCEPT !.received = IF f.kind = "I" THEN Append(@, f.block) ELSE @] IN
  IF i.mode = "TX" /\ i.left > 1 THEN NextBlock([i EXCEPT !.left = @ - 1])
  ELSE ReceptionLoop([taken EXCEPT !.left = 0, !.mode = "RX"])

\* ValidateAndNormalizeResponseFrame.
Valid(f) == f.kind \in {"I", "ACK", "NACK"} => f.pni = ini.pni

Chained == ini.mode = "TX" /\ ini.chaining
Expected(f) ==
  CASE f.kind = "ACK" -> Chained
    [] f.kind = "I" -> ~Chained
    [] f.kind = "ATN" -> ini.sent = "ATN"
    [] OTHER -> FALSE

\* What the PDU changes in the state.
Accept(f) ==
  IF ~Expected(f) THEN ini
  ELSE CASE f.kind = "ACK" -> [ini EXCEPT !.pni = INCREMENT_PNI(@)]
         [] f.kind = "I" -> [ini EXCEPT !.pni = INCREMENT_PNI(@), !.chaining = f.more]
         [] OTHER -> ini

\* The frame is sent again after an attention is answered, with its payload if
\* that was backed up; its length byte counts the payload all the same.
Again(f) == f.kind = "ATN" /\ ini.backup
Restored == ini.retransmit /\ ini.retry > 0
Repeated(f) == IF Again(f) THEN ini.frame ELSE Supervisory("T", "BAD")

\* A frame arrives during Exchange.
Receive ==
  /\ ini.at = "exchange" /\ air # NoFrame /\ air.to = "I"
  /\ IF air.kind \in {"BAD", "DSL"} \/ ~Valid(air) THEN Return(ini, "PROTOCOL_ERROR")
     ELSE LET i == [Accept(air) EXCEPT !.retry = 0,
                                       !.backup = @ /\ air.kind # "ATN"] IN
       IF Restored THEN Send([i EXCEPT !.retransmit = FALSE], Repeated(air))
       ELSE IF Expected(air) THEN Exchanged(i, air)
       ELSE Return(i, "PROTOCOL_ERROR")

\* (mutant) The retries are not counted.
RecoverForever(i, kind) ==
  Send(i, IF kind = "ATN" THEN Supervisory("T", "ATN") ELSE Pdu("T", "NACK", i.pni, FALSE, NoBlock))

\* (mutant) The error of the last attempt is lost.
RecoverOrSucceed(i, kind) ==
  IF i.retry < MaxRetryCount
  THEN Send([i EXCEPT !.retry = @ + 1],
            IF kind = "ATN" THEN Supervisory("T", "ATN") ELSE Pdu("T", "NACK", i.pni, FALSE, NoBlock))
  ELSE Return(i, "SUCCESS")

\* A NACK or ATN is sent if the retry count allows another.
Recover(i, kind) ==
  IF i.retry < MaxRetryCount
  THEN Send([i EXCEPT !.retry = @ + 1],
            IF kind = "ATN" THEN Supervisory("T", "ATN") ELSE Pdu("T", "NACK", i.pni, FALSE, NoBlock))
  ELSE Return(i, "NO_RESPONSE")

\* The HAL reports a timeout or, if damaged, an error of integrity, framing or
\* collision: a timeout is followed by an attention unless a NACK was sent.
NoResponse(damaged) ==
  /\ ini.at = "exchange"
  /\ IF ~damaged /\ ini.sent # "NACK" /\ ~AtnDisabled
     THEN Recover([ini EXCEPT !.backup = @ \/ ini.sent = "I",
                              !.retransmit = @ \/ ini.mode = "TX"], "ATN")
     ELSE Recover([ini EXCEPT !.backup = @ \/ (~damaged /\ ini.sent = "I")], "NACK")

\* Any other error of the HAL ends the call; Deselect tries again.
HalError == ini.at \in {"exchange", "presence"} /\ Return(ini, "NO_RESPONSE")

-----------------------------------------------------------------------------
(* PresCheck and Deselect: one frame, sent again when nothing valid comes. *)

PresCheck ==
  /\ InSession
  /\ Send([ini EXCEPT !.at = "presence", !.status = "BUSY"], Supervisory("T", "ATN"))

Deselect ==
  /\ InSession
  /\ Send([ini EXCEPT !.at = "deselect", !.status = "BUSY"], Supervisory("T", "DSL"))

Answered ==
  /\ ini.at \in {"presence", "deselect"} /\ air # NoFrame /\ air.to = "I"
  /\ Return(ini, IF ini.at = "presence" /\ air.kind = "ATN" THEN "SUCCESS"
                 ELSE IF ini.at = "deselect" /\ air.kind = "DSL" THEN "DESELECTED"
                 ELSE "PROTOCOL_ERROR")

NotAnswered ==
  /\ ini.at \in {"presence", "deselect"}
  /\ IF ini.retry < MaxRetryCount
     THEN Send([ini EXCEPT !.retry = @ + 1], Supervisory("T", ini.sent))
     ELSE Return(ini, "NO_RESPONSE")
=============================================================================
