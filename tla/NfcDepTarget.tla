---------------------------- MODULE NfcDepTarget ----------------------------
(***************************************************************************)
(* The target of NFC-DEP, phpalI18092mT_Sw.c: Listen with the reception of *)
(* a chained message, and DepSend.  The time extension is switched off, as *)
(* phlnLlcp_Fri_Mac.c does.  The layer above answers every message with a  *)
(* message of its own and deactivates after an error.                      *)
(***************************************************************************)
EXTENDS NfcDepField

CONSTANT RxRoom  \* the HAL's reception buffer, in blocks

VARIABLE tgt

\* at: listen; chain and send: TransceivePdu of HandleChainedData and of
\* DepSend; app: the layer above has the message; off: deactivated.  data, raw,
\* length, prev: the reception buffer, the end of what the HAL wrote, *pRxLength
\* and wPrePayloadLength; prePni: bPrePni; repeat: bRetransmit.
Target ==
  [at : {"listen", "chain", "send", "app", "off"}, pni : 0 .. PniModulus - 1,
   prePni : 0 .. PniModulus - 1, repeat : BOOLEAN, data : [1 .. RxRoom + 1 -> Block],
   raw : 0 .. RxRoom + 1, length : 0 .. RxRoom, prev : 0 .. 1, msg : {0, 1},
   size : 0 .. MaxBlocks,
   left : 0 .. MaxBlocks]

InitTarget ==
  [at |-> "listen", pni |-> 0, prePni |-> 0, repeat |-> FALSE,
   data |-> [k \in 1 .. RxRoom + 1 |-> NoBlock], raw |-> 0, length |-> 0, prev |-> 0, msg |-> 0,
   size |-> 0, left |-> 0]

Message(t) == SubSeq(t.data, 1, t.length)
Clear(t) == [t EXCEPT !.data = InitTarget.data, !.raw = 0, !.length = 0, !.prev = 0, !.prePni = 0]

Reply(t, f) == tgt' = t /\ air' = f
Silent(t) == Reply(t, NoFrame)
Fail(t) == Silent([Clear(t) EXCEPT !.at = "off", !.repeat = FALSE, !.left = 0])
HandUp(t) == Silent([t EXCEPT !.at = "app", !.prev = 0, !.prePni = 0])

\* HandleChainedData up to TransceivePdu: the block is acknowledged unless the
\* next one may not fit into the buffer.
Acknowledge(t) ==
  IF t.length + 1 > RxRoom THEN Fail(t)
  ELSE Reply([t EXCEPT !.at = "chain", !.pni = INCREMENT_PNI(@), !.prePni = INCREMENT_PNI(t.pni)],
             Pdu("I", "ACK", t.pni, FALSE, NoBlock))

FirstBlock(f) ==
  [tgt EXCEPT !.data[1] = f.block, !.raw = 1, !.length = 1, !.pni = f.pni]

\* The answer to an attention.
Attention(t) == Reply([t EXCEPT !.pni = DecrementPni(@)], Supervisory("I", "ATN"))

\* Listen: an invalid frame is ignored; a PDU without more to come is handed
\* up, an ACK or NACK as an empty message.
Listen(f) ==
  /\ tgt.at = "listen"
  /\ \/ f.kind = "BAD" /\ Silent(tgt)
     \/ f.kind = "ATN" /\ Attention(tgt)
     \/ f.kind = "I" /\ f.more /\ Acknowledge(FirstBlock(f))
     \/ f.kind = "I" /\ ~f.more /\ HandUp(FirstBlock(f))
     \/ f.kind \in {"ACK", "NACK"} /\ HandUp([tgt EXCEPT !.pni = f.pni])

\* (mutant) The target listens again after the deselect.
DslResListens(f) == tgt.at = "listen" /\ f.kind = "DSL" /\ Reply(tgt, Supervisory("I", "DSL"))

\* The layer above answers a deselect request with DslRes.
DslRes(f) ==
  /\ tgt.at = "listen" /\ f.kind = "DSL"
  /\ Reply([tgt EXCEPT !.at = "off"], Supervisory("I", "DSL"))

\* (mutant) A block that is copied over the previous one is counted again.
StoredCounted(t, f) ==
  LET behind == [t.data EXCEPT ![t.raw + 1] = f.block] IN
  IF t.pni = DecrementPni(t.prePni)
  THEN [t EXCEPT !.data = [behind EXCEPT ![t.raw - t.prev + 1] = f.block], !.length = @ + 1, !.prev = 1]
  ELSE [t EXCEPT !.data = behind, !.raw = @ + 1, !.length = @ + 1, !.prev = 1]

\* The HAL puts the block behind the others.  If the packet number says that it
\* was sent again it is copied over the previous one, wPrePayloadLength back.
Stored(t, f) ==
  LET behind == [t.data EXCEPT ![t.raw + 1] = f.block]
      again == t.pni = DecrementPni(t.prePni) IN
  IF again
  THEN [t EXCEPT !.data = [behind EXCEPT ![t.raw - t.prev + 1] = f.block],
                 !.length = @ - t.prev + 1, !.prev = 1]
  ELSE [t EXCEPT !.data = behind, !.raw = @ + 1, !.length = @ + 1, !.prev = 1]

NextChained(f) ==
  IF f.more THEN Acknowledge(Stored(tgt, f)) ELSE HandUp(Stored(tgt, f))

\* DepSend: the last block is transmitted, the others wait for their ACK.
SendBlock(t) ==
  LET f == Pdu("I", "I", t.pni, t.left > 1, <<t.msg, t.size - t.left + 1>>) IN
  IF t.left > 1 THEN Reply([t EXCEPT !.at = "send"], f)
  ELSE Reply([t EXCEPT !.at = "listen", !.left = 0, !.pni = INCREMENT_PNI(@)], f)

DepSend(n) ==
  /\ tgt.at = "app"
  /\ SendBlock([Clear(tgt) EXCEPT !.msg = NextMessage(@), !.size = n, !.left = n])

\* TransceivePdu: a NACK with the right number sets bRetransmit, which nothing
\* resets, and the loop goes on whatever comes; the HAL has nothing left to
\* transmit.
TransceivePdu(f) ==
  /\ tgt.at \in {"chain", "send"}
  /\ \/ f.kind \in {"BAD", "DSL"} /\ Fail(tgt)
     \/ f.kind = "NACK" /\ f.pni # tgt.pni /\ Fail(tgt)
     \/ f.kind = "NACK" /\ f.pni = tgt.pni /\ Silent([tgt EXCEPT !.repeat = TRUE])
     \/ f.kind = "ATN" /\ Attention(tgt)
     \/ f.kind = "ACK" /\ tgt.at = "send"
        /\ LET t == [tgt EXCEPT !.pni = INCREMENT_PNI(@)] IN
           IF tgt.repeat THEN Silent(t) ELSE SendBlock([t EXCEPT !.left = @ - 1])
     \/ f.kind = "I" /\ tgt.at = "chain"
        /\ IF tgt.repeat THEN Silent(tgt) ELSE NextChained(f)
     \/ \/ f.kind = "ACK" /\ tgt.at = "chain"
        \/ f.kind = "I" /\ tgt.at = "send"
        /\ IF tgt.repeat THEN Silent(tgt) ELSE Fail(tgt)

\* A frame arrives.  A target that is deactivated or has a message is deaf.
TargetReceive ==
  /\ air # NoFrame /\ air.to = "T"
  /\ \/ Listen(air) \/ DslRes(air) \/ TransceivePdu(air)
     \/ tgt.at = "off" /\ Silent(tgt)

\* In TransceivePdu a timeout or a damaged frame is a protocol error, in Listen
\* it goes unnoticed.
TargetFails == IF tgt.at \in {"chain", "send"} THEN Fail(tgt) ELSE Silent(tgt)
=============================================================================
