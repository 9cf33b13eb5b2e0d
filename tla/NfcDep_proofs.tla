---------------------------- MODULE NfcDep_proofs ----------------------------
(***************************************************************************)
(* What holds of an NFC-DEP initiator and target for every number of       *)
(* retries, every size of buffers and messages, and whether attentions are *)
(* sent or not: the types, that the target follows the initiator, and that *)
(* the messages arrive whole and in turn.                                  *)
(***************************************************************************)
EXTENDS NfcDep, TLAPS

(* The instances' names of the frames are those of the field.              *)
LEMMA InitiatorNames ==
  /\ I!NoFrame = NoFrame /\ I!NoBlock = NoBlock /\ I!Frame = Frame /\ I!Block = Block /\ I!Kinds = Kinds
  /\ \A to, kind : I!Supervisory(to, kind) = Supervisory(to, kind)
  /\ \A to, kind, pni, more, block :
       I!Pdu(to, kind, pni, more, block) = Pdu(to, kind, pni, more, block)
  /\ \A p : I!INCREMENT_PNI(p) = INCREMENT_PNI(p)
  /\ \A m : I!NextMessage(m) = NextMessage(m)
BY DEF I!NoFrame, NoFrame, I!NoBlock, NoBlock, I!Frame, Frame, I!Block, Block, I!Kinds, Kinds,
       I!Supervisory, Supervisory, I!Pdu, Pdu, I!INCREMENT_PNI, INCREMENT_PNI,
       I!NextMessage, NextMessage

LEMMA TargetNames ==
  /\ T!NoFrame = NoFrame /\ T!NoBlock = NoBlock /\ T!Block = Block
  /\ \A to, kind : T!Supervisory(to, kind) = Supervisory(to, kind)
  /\ \A to, kind, pni, more, block :
       T!Pdu(to, kind, pni, more, block) = Pdu(to, kind, pni, more, block)
  /\ \A p : T!INCREMENT_PNI(p) = INCREMENT_PNI(p) /\ T!DecrementPni(p) = DecrementPni(p)
  /\ \A m : T!NextMessage(m) = NextMessage(m)
BY DEF T!NoFrame, NoFrame, T!NoBlock, NoBlock, T!Block, Block,
       T!Supervisory, Supervisory, T!Pdu, Pdu, T!INCREMENT_PNI, INCREMENT_PNI,
       T!DecrementPni, DecrementPni, T!NextMessage, NextMessage

(* The values of a bPni.                                                   *)
Pni == 0 .. PniModulus - 1

(* Packet numbers stay packet numbers.                                     *)
LEMMA PacketNumbers ==
  /\ \A p \in Pni : INCREMENT_PNI(p) \in Pni /\ DecrementPni(p) \in Pni /\ DecrementPni(p) # p
  /\ \A p \in 0 .. 3 : INCREMENT_PNI(p) \in 0 .. 3 /\ INCREMENT_PNI(p) = IF p = 3 THEN 0 ELSE p + 1
  /\ \A p \in Pni : DecrementPni(p) = IF p = 0 THEN PniModulus - 1 ELSE p - 1
BY ModulusAssumption DEF Pni, INCREMENT_PNI, DecrementPni

(* The frames of an exchange are frames.                                   *)
LEMMA FramesTyped ==
  /\ NoFrame \in Frame /\ NoBlock \in Block
  /\ \A to \in {"I", "T"}, kind \in Kinds :
       /\ Supervisory(to, kind) \in Frame
       /\ Supervisory(to, kind).kind = kind /\ Supervisory(to, kind).to = to
BY BlocksAssumption DEF NoFrame, NoBlock, Block, Supervisory, Frame, Kinds

(* A PDU carries its fields, unless its packet number does not fit.        *)
LEMMA PduTyped ==
  ASSUME NEW to \in {"I", "T"}, NEW kind \in Kinds, NEW pni \in Pni, NEW more \in BOOLEAN,
         NEW block \in Block
  PROVE  /\ Pdu(to, kind, pni, more, block) \in Frame
         /\ Pdu(to, kind, pni, more, block).to = to
         /\ Pdu(to, kind, pni, more, block).kind \in {kind, "BAD"}
         /\ pni \in 0 .. 3 =>
              Pdu(to, kind, pni, more, block) =
                [to |-> to, kind |-> kind, pni |-> pni, more |-> more, block |-> block]
<1>1. pni \in Nat
  BY DEF Pni
<1>2. CASE pni > 3
  <2>1. Pdu(to, kind, pni, more, block) = Supervisory(to, "BAD")
    BY <1>2 DEF Pdu
  <2> QED BY <1>2, <2>1, FramesTyped DEF Kinds
<1>3. CASE pni <= 3
  <2>1. Pdu(to, kind, pni, more, block) =
          [to |-> to, kind |-> kind, pni |-> pni, more |-> more, block |-> block]
    BY <1>1, <1>3 DEF Pdu
  <2>2. pni \in 0 .. 3
    BY <1>1, <1>3
  <2> QED BY <2>1, <2>2 DEF Frame
<1> QED BY <1>1, <1>2, <1>3

(* Two bits of packet number always fit.                                   *)
LEMMA TwoBits == 0 .. 3 \subseteq Pni
BY ModulusAssumption DEF Pni

-----------------------------------------------------------------------------
(* The initiator. *)

(* The counts of a message that types rely on: how much of it is left, and *)
(* that the reception buffer has room for the next block.                  *)
TargetCounts ==
  /\ tgt.at = "send" => tgt.left \in 2 .. tgt.size
  /\ tgt.at = "chain" => tgt.length < RxRoom
  /\ tgt.raw <= tgt.length

Counts ==
  /\ ini.at = "exchange" /\ ini.mode = "TX" => ini.left \in 1 .. ini.size
  /\ TargetCounts

(* Nothing changes of the call but its exchange with the HAL.              *)
SameCall(i, j) ==
  /\ i.at = j.at /\ i.mode = j.mode /\ i.chaining = j.chaining /\ i.retransmit = j.retransmit
  /\ i.pni = j.pni /\ i.msg = j.msg /\ i.size = j.size /\ i.left = j.left
  /\ i.received = j.received /\ i.status = j.status

(* What the steps of a call change, from the innermost to the handlers.    *)
LEMMA SendEffect ==
  ASSUME NEW i \in I!Initiator, NEW f \in Frame, I!Send(i, f)
  PROVE  /\ ini' \in I!Initiator /\ air' = f
         /\ SameCall(ini', i) /\ ini'.frame = i.frame /\ ini'.retry = i.retry
         /\ ini'.backup = i.backup /\ ini'.sent = f.kind
BY DEF I!Send, I!Initiator, I!Kinds, Frame, Kinds, SameCall

LEMMA TransceivePduEffect ==
  ASSUME NEW i \in I!Initiator, NEW f \in Frame, I!TransceivePdu(i, f)
  PROVE  /\ ini' \in I!Initiator /\ air' = f
         /\ SameCall(ini', i) /\ ini'.frame = f /\ ini'.retry = 0
         /\ ini'.backup = FALSE /\ ini'.sent = f.kind
<1> DEFINE j == [i EXCEPT !.frame = f, !.retry = 0, !.backup = FALSE]
<1>1. j \in I!Initiator
  <2>1. f \in I!Frame /\ 0 \in 0 .. MaxRetryCount
    BY InitiatorNames, RetryAssumption
  <2> QED BY <2>1 DEF I!Initiator
<1>3. SameCall(j, i) /\ j.frame = f /\ j.retry = 0 /\ j.backup = FALSE
  BY DEF I!Initiator, SameCall
<1>2. I!Send(j, f)
  BY DEF I!TransceivePdu
<1> HIDE DEF j
<1> QED BY <1>1, <1>2, <1>3, SendEffect DEF SameCall

LEMMA ReturnEffect ==
  ASSUME NEW i \in I!Initiator,
         NEW status \in {"SUCCESS", "PROTOCOL_ERROR", "NO_RESPONSE", "DESELECTED"},
         I!Return(i, status)
  PROVE  /\ ini' \in I!Initiator /\ air' = NoFrame
         /\ ini'.at = "idle" /\ ini'.status = status
         /\ ini'.mode = i.mode /\ ini'.retransmit = i.retransmit /\ ini'.pni = i.pni
         /\ ini'.msg = i.msg /\ ini'.size = i.size
         /\ status = "SUCCESS" => ini'.received = i.received
<1> DEFINE received == IF status = "SUCCESS" THEN i.received ELSE <<>>
<1>1. received \in Seq(I!Block)
  BY DEF I!Initiator
<1> HIDE DEF received
<1>2. ini' = [i EXCEPT !.at = "idle", !.status = status, !.sent = "NONE", !.frame = NoFrame,
                       !.retry = 0, !.backup = FALSE, !.received = received]
  BY InitiatorNames DEF I!Return, received
<1>3. NoFrame \in I!Frame /\ "NONE" \in I!Kinds /\ 0 \in 0 .. MaxRetryCount
  BY InitiatorNames, FramesTyped, RetryAssumption DEF Kinds
<1>4. ini' \in I!Initiator
  BY <1>1, <1>2, <1>3 DEF I!Initiator
<1>5. air' = NoFrame
  BY InitiatorNames DEF I!Return
<1> QED BY <1>2, <1>4, <1>5 DEF I!Initiator, received

(* An acknowledgement or NACK of packet number pni.                        *)
Response(to, kind, pni) == Pdu(to, kind, pni, FALSE, NoBlock)

(* An acknowledgement is a frame with its packet number.                   *)
LEMMA ResponseTyped ==
  ASSUME NEW to \in {"I", "T"}, NEW kind \in {"ACK", "NACK"}, NEW pni \in 0 .. 3
  PROVE  /\ Response(to, kind, pni) \in Frame
         /\ Response(to, kind, pni).to = to /\ Response(to, kind, pni).kind = kind
         /\ Response(to, kind, pni).pni = pni
<1>1. pni \in Pni /\ kind \in Kinds /\ NoBlock \in Block
  BY FramesTyped, TwoBits DEF Kinds
<1>2. PICK more \in BOOLEAN : more = FALSE
  OBVIOUS
<1>3. Pdu(to, kind, pni, more, NoBlock) =
        [to |-> to, kind |-> kind, pni |-> pni, more |-> more, block |-> NoBlock]
  BY <1>1, PduTyped
<1>4. Pdu(to, kind, pni, more, NoBlock) \in Frame
  BY <1>1, PduTyped
<1>5. Response(to, kind, pni) = Pdu(to, kind, pni, more, NoBlock)
  BY <1>2 DEF Response
<1> QED BY <1>3, <1>4, <1>5

(* The block that an end sends when left blocks of its message are left.   *)
Chunk(to, pni, msg, size, left) == Pdu(to, "I", pni, left > 1, <<msg, size - left + 1>>)

(* A block is a frame with its packet number, unless that does not fit.    *)
LEMMA ChunkTyped ==
  ASSUME NEW to \in {"I", "T"}, NEW pni \in Pni, NEW msg \in {0, 1},
         NEW size \in 0 .. MaxBlocks, NEW left \in 1 .. size
  PROVE  /\ Chunk(to, pni, msg, size, left) \in Frame
         /\ Chunk(to, pni, msg, size, left).to = to
         /\ Chunk(to, pni, msg, size, left).kind \in {"I", "BAD"}
         /\ \/ Chunk(to, pni, msg, size, left).kind = "BAD" /\ pni \notin 0 .. 3
            \/ /\ Chunk(to, pni, msg, size, left).kind = "I"
               /\ Chunk(to, pni, msg, size, left).pni = pni
               /\ (Chunk(to, pni, msg, size, left).more <=> left > 1)
               /\ Chunk(to, pni, msg, size, left).block = <<msg, size - left + 1>>
<1> DEFINE more == left > 1
           block == <<msg, size - left + 1>>
<1>1. block \in Block /\ more \in BOOLEAN
  BY BlocksAssumption DEF Block
<1>2. Chunk(to, pni, msg, size, left) = Pdu(to, "I", pni, more, block)
  BY DEF Chunk
<1>3. "I" \in Kinds
  BY DEF Kinds
<1> HIDE DEF more, block
<1>4. pni \in 0 .. 3 =>
        Pdu(to, "I", pni, more, block) =
          [to |-> to, kind |-> "I", pni |-> pni, more |-> more, block |-> block]
  BY <1>1, <1>3, PduTyped
<1>5. /\ Pdu(to, "I", pni, more, block) \in Frame /\ Pdu(to, "I", pni, more, block).to = to
      /\ Pdu(to, "I", pni, more, block).kind \in {"I", "BAD"}
  BY <1>1, <1>3, PduTyped
<1>6. CASE pni \in 0 .. 3
  <2>1. more <=> left > 1
    BY DEF more
  <2>2. block = <<msg, size - left + 1>>
    BY DEF block
  <2> QED BY <1>2, <1>4, <1>5, <1>6, <2>1, <2>2
<1>7. CASE pni \notin 0 .. 3
  <2>1. pni > 3
    BY <1>7 DEF Pni
  <2>2. Chunk(to, pni, msg, size, left) = Supervisory(to, "BAD")
    BY <2>1 DEF Chunk, Pdu
  <2>3. Supervisory(to, "BAD").kind = "BAD"
    BY DEF Supervisory
  <2> QED BY <1>2, <1>5, <1>7, <2>2, <2>3
<1> QED BY <1>6, <1>7

(* The next block of the message is sent.                                  *)
LEMMA NextBlockEffect ==
  ASSUME NEW i \in I!Initiator, i.left \in 1 .. i.size, I!NextBlock(i)
  PROVE  /\ ini' \in I!Initiator
         /\ air' = Chunk("T", i.pni, i.msg, i.size, i.left) /\ ini'.frame = air'
         /\ ini'.at = i.at /\ ini'.mode = i.mode /\ ini'.chaining = (i.left > 1)
         /\ ini'.retransmit = i.retransmit /\ ini'.pni = i.pni /\ ini'.msg = i.msg
         /\ ini'.size = i.size /\ ini'.left = i.left /\ ini'.received = i.received
         /\ ini'.status = i.status /\ ini'.retry = 0 /\ ini'.backup = FALSE /\ ini'.sent = "I"
<1> DEFINE f == Chunk("T", i.pni, i.msg, i.size, i.left)
           more == i.left > 1
           j == [i EXCEPT !.chaining = more]
<1>1. more \in BOOLEAN
  OBVIOUS
<1>2. i.pni \in 0 .. 3 /\ i.pni \in Pni /\ i.msg \in {0, 1} /\ i.size \in 0 .. MaxBlocks
  BY TwoBits DEF I!Initiator
<1>3. f \in Frame /\ f.kind = "I"
  BY <1>2, ChunkTyped
<1>4. I!TransceivePdu(j, f)
  BY InitiatorNames DEF I!NextBlock, Chunk
<1> HIDE DEF f, more
<1>5. j \in I!Initiator /\ j.chaining = more
  BY <1>1 DEF I!Initiator
<1>6. /\ j.at = i.at /\ j.mode = i.mode /\ j.retransmit = i.retransmit /\ j.pni = i.pni
      /\ j.msg = i.msg /\ j.size = i.size /\ j.left = i.left /\ j.received = i.received
      /\ j.status = i.status
  BY DEF I!Initiator
<1> HIDE DEF j
<1>7. /\ ini' \in I!Initiator /\ air' = f /\ SameCall(ini', j) /\ ini'.frame = f
      /\ ini'.retry = 0 /\ ini'.backup = FALSE /\ ini'.sent = "I"
  BY <1>3, <1>4, <1>5, TransceivePduEffect
<1>8. ini'.chaining = more
  BY <1>5, <1>7 DEF SameCall
<1>9. ini'.chaining = (i.left > 1)
  BY <1>8, Zenon DEF more
<1> QED BY <1>6, <1>7, <1>9 DEF SameCall, f

(* Exchange sends the first block of a new message.                        *)
LEMMA ExchangeEffect ==
  ASSUME TypeOK, NEW n \in 1 .. MaxBlocks, I!Exchange(n)
  PROVE  /\ ini' \in I!Initiator
         /\ air' = Chunk("T", ini.pni, NextMessage(ini.msg), n, n) /\ ini'.frame = air'
         /\ ini'.at = "exchange" /\ ini'.mode = "TX" /\ ini'.chaining = (n > 1)
         /\ ini'.retransmit = ini.retransmit /\ ini'.pni = ini.pni
         /\ ini'.msg = NextMessage(ini.msg) /\ ini'.size = n /\ ini'.left = n
         /\ ini'.received = <<>> /\ ini'.status = "BUSY" /\ ini'.retry = 0
         /\ ini'.backup = FALSE /\ ini'.sent = "I"
<1> DEFINE i == [ini EXCEPT !.at = "exchange", !.mode = "TX", !.status = "BUSY",
                            !.msg = NextMessage(ini.msg), !.size = n, !.left = n,
                            !.received = <<>>]
<1>1. I!NextBlock(i)
  BY InitiatorNames DEF I!Exchange
<1>2. /\ NextMessage(ini.msg) \in {0, 1} /\ n \in 0 .. MaxBlocks /\ <<>> \in Seq(I!Block)
      /\ n \in 1 .. n
  BY BlocksAssumption DEF TypeOK, I!Initiator, NextMessage
<1>3. i \in I!Initiator
  BY <1>2 DEF TypeOK, I!Initiator
<1>4. /\ i.at = "exchange" /\ i.mode = "TX" /\ i.retransmit = ini.retransmit
      /\ i.pni = ini.pni /\ i.msg = NextMessage(ini.msg) /\ i.size = n /\ i.left = n
      /\ i.received = <<>> /\ i.status = "BUSY"
  BY DEF TypeOK, I!Initiator
<1> HIDE DEF i
<1> QED BY <1>1, <1>2, <1>3, <1>4, NextBlockEffect

(* The rest of a chain is asked for, or the call succeeds.                 *)
LEMMA ReceptionEffect ==
  ASSUME NEW i \in I!Initiator, I!ReceptionLoop(i)
  PROVE  \/ /\ i.chaining /\ ini' \in I!Initiator /\ SameCall(ini', i)
            /\ air' = Response("T", "ACK", i.pni) /\ ini'.frame = air'
            /\ ini'.retry = 0 /\ ini'.backup = FALSE /\ ini'.sent = "ACK"
         \/ /\ ~i.chaining /\ ini' \in I!Initiator /\ air' = NoFrame
            /\ ini'.at = "idle" /\ ini'.status = "SUCCESS"
            /\ ini'.retransmit = i.retransmit /\ ini'.pni = i.pni /\ ini'.msg = i.msg
            /\ ini'.size = i.size /\ ini'.received = i.received
<1>1. CASE i.chaining
  <2> DEFINE f == Response("T", "ACK", i.pni)
  <2>1. f \in Frame /\ f.kind = "ACK"
    BY ResponseTyped DEF I!Initiator
  <2>2. I!TransceivePdu(i, f)
    BY <1>1, InitiatorNames DEF I!ReceptionLoop, Response
  <2> HIDE DEF f
  <2> QED BY <1>1, <2>1, <2>2, TransceivePduEffect DEF f
<1>2. CASE ~i.chaining
  <2> DEFINE j == [i EXCEPT !.mode = "FINISHED"]
  <2>1. j \in I!Initiator
    BY DEF I!Initiator
  <2>2. /\ j.retransmit = i.retransmit /\ j.pni = i.pni /\ j.msg = i.msg
        /\ j.size = i.size /\ j.received = i.received
    BY DEF I!Initiator
  <2>3. I!Return(j, "SUCCESS")
    BY <1>2 DEF I!ReceptionLoop
  <2> HIDE DEF j
  <2> QED BY <1>2, <2>1, <2>2, <2>3, ReturnEffect
<1> QED BY <1>1, <1>2

(* The ways an exchange goes on when a frame comes: the call fails; the    *)
(* frame of TransceivePdu is sent again after an attention; the next block *)
(* is sent; the next one is asked for; the call succeeds.                  *)
Fails ==
  /\ air' = NoFrame /\ ini'.at = "idle" /\ ini'.status \in {"PROTOCOL_ERROR", "NO_RESPONSE"}

SendsAgain ==
  /\ air.kind \notin {"BAD", "DSL"} /\ ini.retransmit
  /\ air' = IF air.kind = "ATN" /\ ini.backup THEN ini.frame ELSE Supervisory("T", "BAD")
  /\ ini'.at = ini.at /\ ini'.status = ini.status /\ ini'.mode = ini.mode
  /\ ini'.msg = ini.msg /\ ini'.size = ini.size /\ ini'.left = ini.left
  /\ ini'.received = ini.received /\ ini'.frame = ini.frame
  /\ ini'.retransmit = FALSE /\ ini'.sent = air'.kind
  /\ ini'.pni = ini.pni \/ air.kind # "ATN"
  /\ ini'.chaining = ini.chaining \/ (air.kind = "I" /\ ~(ini.mode = "TX" /\ ini.chaining))

SendsNext ==
  /\ air.kind = "ACK" /\ ini.mode = "TX" /\ ini.left > 1 /\ ~ini.retransmit
  /\ air' = Chunk("T", ini'.pni, ini.msg, ini.size, ini.left - 1) /\ ini'.frame = air'
  /\ ini'.at = ini.at /\ ini'.status = ini.status /\ ini'.mode = "TX"
  /\ ini'.chaining = (ini.left - 1 > 1) /\ ini'.retransmit = FALSE
  /\ ini'.pni = INCREMENT_PNI(ini.pni)
  /\ ini'.msg = ini.msg /\ ini'.size = ini.size /\ ini'.left = ini.left - 1
  /\ ini'.received = ini.received /\ ini'.retry = 0 /\ ini'.backup = FALSE /\ ini'.sent = "I"

Received == IF air.kind = "I" THEN Append(ini.received, air.block) ELSE ini.received

AsksNext ==
  /\ ~(ini.mode = "TX" /\ ini.left > 1) /\ (air.kind = "I" => air.more)
  /\ ~ini.retransmit /\ air.kind \in {"I", "ACK", "ATN"}
  /\ air' = Response("T", "ACK", ini'.pni) /\ ini'.frame = air'
  /\ ini'.at = ini.at /\ ini'.status = ini.status /\ ini'.mode = "RX"
  /\ ini'.chaining = TRUE /\ ini'.retransmit = FALSE
  /\ air.kind = "I" => ini'.pni = INCREMENT_PNI(ini.pni)
  /\ ini'.msg = ini.msg /\ ini'.size = ini.size /\ ini'.left = 0
  /\ ini'.received = Received /\ ini'.retry = 0 /\ ini'.backup = FALSE /\ ini'.sent = "ACK"

Succeeds ==
  /\ air.kind = "I" /\ ~air.more
  /\ ~(ini.mode = "TX" /\ ini.chaining) /\ ~ini.retransmit
  /\ air' = NoFrame /\ ini'.at = "idle" /\ ini'.status = "SUCCESS" /\ ini'.retransmit = FALSE
  /\ ini'.received = Append(ini.received, air.block)

(* How mode, chaining and the attention of a call that waits go together.  *)
Steady ==
  ini.at = "exchange" =>
    /\ ini.mode \in {"TX", "RX"}
    /\ ini.mode = "RX" => ini.chaining /\ ~ini.retransmit
    /\ ini.mode = "TX" /\ ini.left > 1 => ini.chaining
    /\ ini.retransmit => ini.retry > 0
    /\ ini.mode = "TX" /\ ini.sent = "ATN" => ini.retransmit
    /\ ini.frame.to = "T" /\ ini.frame.kind # "ATN"

(* The initiator has more blocks to send.                                  *)
Chains == ini.mode = "TX" /\ ini.chaining

(* What a call expects depends on what it does.                            *)
LEMMA ExpectedKinds ==
  I!Expected(air) <=> \/ air.kind = "ACK" /\ Chains
                      \/ air.kind = "I" /\ ~Chains
                      \/ air.kind = "ATN" /\ ini.sent = "ATN"
BY DEF I!Expected, I!Chained, Chains

(* What a PDU that comes changes of the call.                              *)
LEMMA AcceptEffect ==
  ASSUME TypeOK, NEW i, i = I!Accept(air)
  PROVE  /\ i \in I!Initiator
         /\ i.at = ini.at /\ i.mode = ini.mode /\ i.retransmit = ini.retransmit
         /\ i.msg = ini.msg /\ i.size = ini.size /\ i.left = ini.left
         /\ i.received = ini.received /\ i.frame = ini.frame /\ i.sent = ini.sent
         /\ i.retry = ini.retry /\ i.backup = ini.backup /\ i.status = ini.status
         /\ ~I!Expected(air) \/ air.kind = "ATN" => i.pni = ini.pni /\ i.chaining = ini.chaining
         /\ I!Expected(air) /\ air.kind = "ACK" =>
              i.pni = INCREMENT_PNI(ini.pni) /\ i.chaining = ini.chaining
         /\ I!Expected(air) /\ air.kind = "I" =>
              i.pni = INCREMENT_PNI(ini.pni) /\ i.chaining = air.more
<1>1. ini \in I!Initiator /\ air \in Frame
  BY DEF TypeOK
<1>2. CASE ~I!Expected(air) \/ air.kind = "ATN"
  <2>1. i = ini
    BY <1>2 DEF I!Accept
  <2> QED BY <1>1, <1>2, <2>1
<1>3. ini.pni \in 0 .. 3 /\ INCREMENT_PNI(ini.pni) \in 0 .. 3
  BY <1>1, PacketNumbers DEF I!Initiator
<1>4. CASE I!Expected(air) /\ air.kind = "ACK"
  <2>1. i = [ini EXCEPT !.pni = INCREMENT_PNI(ini.pni)]
    BY <1>4, InitiatorNames DEF I!Accept
  <2>2. i \in I!Initiator
    BY <1>1, <1>3, <2>1 DEF I!Initiator
  <2> QED BY <1>1, <1>4, <2>1, <2>2 DEF I!Initiator
<1>5. CASE I!Expected(air) /\ air.kind = "I"
  <2>1. PICK more \in BOOLEAN : more = air.more
    BY <1>1 DEF Frame
  <2>2. i = [ini EXCEPT !.pni = INCREMENT_PNI(ini.pni), !.chaining = more]
    BY <1>5, <2>1, InitiatorNames DEF I!Accept
  <2>3. i \in I!Initiator
    BY <1>1, <1>3, <2>2 DEF I!Initiator
  <2> QED BY <1>1, <1>5, <2>1, <2>2, <2>3 DEF I!Initiator
<1> QED BY <1>2, <1>4, <1>5, ExpectedKinds

(* Every frame that comes leads to one of these.                           *)
LEMMA ReceiveOutcome ==
  ASSUME TypeOK, Counts, Steady, I!Receive
  PROVE  /\ ini' \in I!Initiator
         /\ Fails \/ SendsAgain \/ SendsNext \/ AsksNext \/ Succeeds
<1> DEFINE a == I!Accept(air)
           b == a.backup /\ air.kind # "ATN"
           i == [a EXCEPT !.retry = 0, !.backup = b]
<1>1. ini \in I!Initiator /\ air \in Frame /\ ini.at = "exchange"
  BY DEF TypeOK, I!Receive
<1>2. CASE air.kind \in {"BAD", "DSL"} \/ ~I!Valid(air)
  <2>1. I!Return(ini, "PROTOCOL_ERROR")
    BY <1>2 DEF I!Receive
  <2> QED BY <1>1, <2>1, ReturnEffect DEF Fails
<1>3. CASE air.kind \notin {"BAD", "DSL"} /\ I!Valid(air)
  <2>1. /\ i \in I!Initiator
        /\ i.at = ini.at /\ i.mode = ini.mode /\ i.retransmit = ini.retransmit
        /\ i.msg = ini.msg /\ i.size = ini.size /\ i.left = ini.left
        /\ i.received = ini.received /\ i.frame = ini.frame
        /\ i.status = ini.status /\ i.pni = a.pni /\ i.chaining = a.chaining
    <3> HIDE DEF a, b
    <3>1. a \in I!Initiator /\ b \in BOOLEAN /\ 0 \in 0 .. MaxRetryCount
      BY AcceptEffect, RetryAssumption DEF a, b
    <3>2. i \in I!Initiator
      BY <3>1 DEF I!Initiator
    <3>3. /\ i.at = a.at /\ i.mode = a.mode /\ i.retransmit = a.retransmit
          /\ i.msg = a.msg /\ i.size = a.size /\ i.left = a.left
          /\ i.received = a.received /\ i.frame = a.frame
          /\ i.status = a.status /\ i.pni = a.pni /\ i.chaining = a.chaining
      BY <3>1 DEF I!Initiator
    <3> QED BY <3>2, <3>3, AcceptEffect DEF a
  <2>2. /\ ~I!Expected(air) \/ air.kind = "ATN" => i.pni = ini.pni /\ i.chaining = ini.chaining
        /\ I!Expected(air) /\ air.kind = "ACK" =>
             i.pni = INCREMENT_PNI(ini.pni) /\ i.chaining = ini.chaining
        /\ I!Expected(air) /\ air.kind = "I" =>
             i.pni = INCREMENT_PNI(ini.pni) /\ i.chaining = air.more
    <3> HIDE DEF i
    <3> QED BY <2>1, AcceptEffect
  <2>3. IF I!Restored THEN I!Send([i EXCEPT !.retransmit = FALSE], I!Repeated(air))
        ELSE IF I!Expected(air) THEN I!Exchanged(i, air) ELSE I!Return(i, "PROTOCOL_ERROR")
    BY <1>3 DEF I!Receive
  <2> HIDE DEF i
  <2>4. CASE I!Restored
    <3> DEFINE j == [i EXCEPT !.retransmit = FALSE]
               f == I!Repeated(air)
    <3>1. j \in I!Initiator /\ j.retransmit = FALSE /\ j.frame = i.frame
      BY <2>1 DEF I!Initiator
    <3>2. /\ j.at = i.at /\ j.mode = i.mode /\ j.chaining = i.chaining /\ j.pni = i.pni
          /\ j.msg = i.msg /\ j.size = i.size /\ j.left = i.left
          /\ j.received = i.received /\ j.status = i.status
      BY <2>1 DEF I!Initiator
    <3>3. f = IF air.kind = "ATN" /\ ini.backup THEN ini.frame ELSE Supervisory("T", "BAD")
      BY InitiatorNames DEF I!Repeated, I!Again
    <3>4. f \in Frame
      <4>1. ini.frame \in Frame
        BY <1>1, InitiatorNames DEF I!Initiator
      <4>2. Supervisory("T", "BAD") \in Frame
        BY FramesTyped DEF Kinds
      <4> QED BY <3>3, <4>1, <4>2
    <3>5. I!Send(j, f)
      BY <2>3, <2>4
    <3> HIDE DEF j, f
    <3>6. /\ ini' \in I!Initiator /\ air' = f /\ SameCall(ini', j) /\ ini'.frame = j.frame
          /\ ini'.sent = f.kind
      BY <3>1, <3>4, <3>5, SendEffect
    <3>7. ini.retransmit
      BY <2>4 DEF I!Restored
    <3>8. ini'.pni = ini.pni \/ air.kind # "ATN"
      BY <2>2, <3>2, <3>6 DEF SameCall
    <3>9. ini'.chaining = ini.chaining \/ (air.kind = "I" /\ ~(ini.mode = "TX" /\ ini.chaining))
      BY <2>2, <3>2, <3>6, ExpectedKinds DEF SameCall, Chains
    <3>10. /\ ini'.at = ini.at /\ ini'.status = ini.status /\ ini'.mode = ini.mode
           /\ ini'.msg = ini.msg /\ ini'.size = ini.size /\ ini'.left = ini.left
           /\ ini'.received = ini.received /\ ini'.frame = ini.frame
           /\ ini'.retransmit = FALSE
      BY <2>1, <3>1, <3>2, <3>6 DEF SameCall
    <3>11. SendsAgain
      BY <1>3, <3>3, <3>6, <3>7, <3>8, <3>9, <3>10 DEF SendsAgain
    <3> QED BY <3>6, <3>11
  <2>5. CASE ~I!Restored /\ ~I!Expected(air)
    <3>1. I!Return(i, "PROTOCOL_ERROR")
      BY <2>3, <2>5
    <3> QED BY <2>1, <3>1, ReturnEffect DEF Fails
  <2>6. CASE ~I!Restored /\ I!Expected(air)
    <3>1. I!Exchanged(i, air)
      BY <2>3, <2>6
    <3>2. ~ini.retransmit /\ ini.retransmit = FALSE
      BY <1>1, <2>6 DEF I!Restored, Steady, I!Initiator
    <3>3. CASE ini.mode = "TX" /\ ini.left > 1
      <4> DEFINE j == [i EXCEPT !.left = i.left - 1]
      <4>1. I!NextBlock(j)
        BY <2>1, <3>1, <3>3 DEF I!Exchanged
      <4>2. /\ ini.left \in 1 .. ini.size /\ ini.left - 1 \in 1 .. ini.size
            /\ ini.left - 1 \in 0 .. MaxBlocks
        <5>1. ini.left \in 1 .. ini.size
          BY <1>1, <3>3 DEF Counts
        <5>2. ini.size \in 0 .. MaxBlocks /\ MaxBlocks \in Nat
          BY <1>1, BlocksAssumption DEF I!Initiator
        <5> QED BY <3>3, <5>1, <5>2
      <4>3. j \in I!Initiator /\ j.left = ini.left - 1
        BY <2>1, <4>2 DEF I!Initiator
      <4>4. /\ j.at = i.at /\ j.mode = i.mode /\ j.chaining = i.chaining /\ j.pni = i.pni
            /\ j.msg = i.msg /\ j.size = i.size /\ j.retransmit = i.retransmit
            /\ j.received = i.received /\ j.status = i.status
        BY <2>1 DEF I!Initiator
      <4> HIDE DEF j
      <4>5. air.kind = "ACK"
        BY <1>1, <2>6, <3>2, <3>3, ExpectedKinds DEF Steady, Chains
      <4>6. j.pni = INCREMENT_PNI(ini.pni)
        BY <2>2, <2>6, <4>4, <4>5
      <4>7. /\ ini' \in I!Initiator
            /\ air' = Chunk("T", j.pni, j.msg, j.size, j.left) /\ ini'.frame = air'
            /\ ini'.at = j.at /\ ini'.mode = j.mode /\ ini'.chaining = (j.left > 1)
            /\ ini'.retransmit = j.retransmit /\ ini'.pni = j.pni /\ ini'.msg = j.msg
            /\ ini'.size = j.size /\ ini'.left = j.left /\ ini'.received = j.received
            /\ ini'.status = j.status /\ ini'.retry = 0 /\ ini'.backup = FALSE /\ ini'.sent = "I"
        <5>1. j.left \in 1 .. j.size
          BY <2>1, <4>2, <4>3, <4>4
        <5> QED BY <4>1, <4>3, <5>1, NextBlockEffect
      <4>8. SendsNext
        BY <2>1, <3>2, <3>3, <4>3, <4>4, <4>5, <4>6, <4>7 DEF SendsNext
      <4> QED BY <4>7, <4>8
    <3>4. CASE ~(ini.mode = "TX" /\ ini.left > 1)
      <4> DEFINE j == [i EXCEPT !.received = Received, !.left = 0, !.mode = "RX"]
      <4>1. I!ReceptionLoop(j)
        BY <2>1, <3>1, <3>4 DEF I!Exchanged, Received
      <4>2. Received \in Seq(I!Block) /\ 0 \in 0 .. MaxBlocks
        <5>1. ini.received \in Seq(I!Block) /\ air.block \in I!Block
          BY <1>1, InitiatorNames DEF I!Initiator, Frame
        <5> QED BY <5>1, BlocksAssumption DEF Received
      <4> HIDE DEF Received
      <4>3. j \in I!Initiator /\ j.left = 0 /\ j.mode = "RX" /\ j.received = Received
        BY <2>1, <4>2 DEF I!Initiator
      <4>4. /\ j.at = i.at /\ j.chaining = i.chaining /\ j.pni = i.pni
            /\ j.msg = i.msg /\ j.size = i.size /\ j.retransmit = i.retransmit
            /\ j.status = i.status
        BY <2>1 DEF I!Initiator
      <4> HIDE DEF j
      <4>5. air.kind \in {"I", "ACK", "ATN"}
        BY <2>6, ExpectedKinds
      <4>6. air.kind = "I" => ~Chains /\ j.chaining = air.more /\ j.pni = INCREMENT_PNI(ini.pni)
        BY <2>2, <2>6, <4>4, ExpectedKinds
      <4>7. air.kind # "I" => j.chaining
        BY <1>1, <2>2, <2>6, <3>2, <4>4, <4>5, ExpectedKinds DEF Steady, Chains
      <4>8. j.chaining \in BOOLEAN
        BY <4>3 DEF I!Initiator
      <4>9. CASE j.chaining
        <5>1. /\ ini' \in I!Initiator /\ SameCall(ini', j)
              /\ air' = Response("T", "ACK", j.pni) /\ ini'.frame = air'
              /\ ini'.retry = 0 /\ ini'.backup = FALSE /\ ini'.sent = "ACK"
          BY <4>1, <4>3, <4>9, ReceptionEffect
        <5>2. j.chaining = TRUE /\ (air.kind = "I" => air.more)
          BY <4>6, <4>8, <4>9
        <5>3. AsksNext
          BY <2>1, <3>2, <3>4, <4>3, <4>4, <4>5, <4>6, <5>1, <5>2 DEF AsksNext, SameCall
        <5> QED BY <5>1, <5>3
      <4>10. CASE ~j.chaining
        <5>1. /\ ini' \in I!Initiator /\ air' = NoFrame
              /\ ini'.at = "idle" /\ ini'.status = "SUCCESS"
              /\ ini'.retransmit = j.retransmit /\ ini'.received = j.received
          BY <4>1, <4>3, <4>10, ReceptionEffect
        <5>2. air.kind = "I" /\ ~air.more /\ ~Chains
          BY <4>6, <4>7, <4>10
        <5>3. Succeeds
          BY <2>1, <3>2, <4>3, <4>4, <5>1, <5>2 DEF Succeeds, Received, Chains
        <5> QED BY <5>1, <5>3
      <4> QED BY <4>9, <4>10
    <3> QED BY <3>3, <3>4
  <2> QED BY <2>4, <2>5, <2>6
<1> QED BY <1>2, <1>3

(* Nothing comes, or what the HAL reports as damaged: an attention or a    *)
(* NACK is sent, as long as the count allows.                              *)
Asks(kind) ==
  /\ air' \in Frame /\ air'.to = "T" /\ air'.kind = kind /\ ini'.sent = kind
  /\ ini'.at = ini.at /\ ini'.status = ini.status /\ ini'.mode = ini.mode
  /\ ini'.chaining = ini.chaining /\ ini'.pni = ini.pni
  /\ ini'.msg = ini.msg /\ ini'.size = ini.size /\ ini'.left = ini.left
  /\ ini'.received = ini.received /\ ini'.frame = ini.frame /\ ini'.retry > 0

(* An attention or a NACK is sent while the retries last.                  *)
LEMMA RecoverEffect ==
  ASSUME NEW i \in I!Initiator, NEW kind \in {"ATN", "NACK"}, I!Recover(i, kind)
  PROVE  /\ ini' \in I!Initiator
         /\ \/ Fails
            \/ /\ SameCall(ini', i) /\ ini'.frame = i.frame /\ ini'.backup = i.backup
               /\ ini'.retry > 0 /\ air' \in Frame
               /\ ini'.sent = kind /\ air'.kind = kind /\ air'.to = "T"
               /\ kind = "ATN" => air' = Supervisory("T", "ATN")
<1>1. CASE i.retry < MaxRetryCount
  <2> DEFINE j == [i EXCEPT !.retry = i.retry + 1]
             f == IF kind = "ATN" THEN Supervisory("T", "ATN") ELSE Response("T", "NACK", i.pni)
  <2>1. i.retry + 1 \in 0 .. MaxRetryCount /\ i.retry + 1 > 0
    BY <1>1, RetryAssumption DEF I!Initiator
  <2>2. /\ j \in I!Initiator /\ SameCall(j, i) /\ j.frame = i.frame
        /\ j.backup = i.backup /\ j.retry = i.retry + 1
    BY <2>1 DEF I!Initiator, SameCall
  <2>3. f \in Frame /\ f.kind = kind /\ f.to = "T"
    <3>1. i.pni \in 0 .. 3 /\ "ATN" \in Kinds
      BY DEF I!Initiator, Kinds
    <3>2. CASE kind = "ATN"
      BY <3>1, <3>2, FramesTyped
    <3>3. CASE kind = "NACK"
      BY <3>1, <3>3, ResponseTyped
    <3> QED BY <3>2, <3>3
  <2>4. I!Send(j, f)
    BY <1>1, InitiatorNames DEF I!Recover, Response
  <2>5. kind = "ATN" => f = Supervisory("T", "ATN")
    OBVIOUS
  <2> HIDE DEF j, f
  <2>6. /\ ini' \in I!Initiator /\ air' = f /\ SameCall(ini', j) /\ ini'.frame = j.frame
        /\ ini'.retry = j.retry /\ ini'.backup = j.backup /\ ini'.sent = f.kind
    BY <2>2, <2>3, <2>4, SendEffect
  <2>7. SameCall(ini', i)
    BY <2>2, <2>6 DEF SameCall
  <2> QED BY <2>1, <2>2, <2>3, <2>5, <2>6, <2>7
<1>2. CASE ~(i.retry < MaxRetryCount)
  <2>1. I!Return(i, "NO_RESPONSE")
    BY <1>2 DEF I!Recover
  <2> QED BY <2>1, ReturnEffect DEF Fails
<1> QED BY <1>1, <1>2

(* Silence fails the call, or is met with an attention or a NACK.          *)
LEMMA NoResponseOutcome ==
  ASSUME TypeOK, NEW damaged \in BOOLEAN, I!NoResponse(damaged)
  PROVE  /\ ini' \in I!Initiator
         /\ \/ Fails
            \/ /\ ~damaged /\ ini.sent # "NACK" /\ ~AtnDisabled
               /\ Asks("ATN") /\ air' = Supervisory("T", "ATN")
               /\ ini'.retransmit = (ini.retransmit \/ ini.mode = "TX")
               /\ ini'.backup = (ini.backup \/ ini.sent = "I")
            \/ /\ damaged \/ ini.sent = "NACK" \/ AtnDisabled
               /\ Asks("NACK") /\ ini'.retransmit = ini.retransmit
<1> USE DEF TypeOK
<1>1. ini \in I!Initiator /\ ini.at = "exchange"
  BY DEF I!NoResponse
<1>2. CASE ~damaged /\ ini.sent # "NACK" /\ ~AtnDisabled
  <2>1. PICK b \in BOOLEAN : b = (ini.backup \/ ini.sent = "I")
    BY <1>1 DEF I!Initiator
  <2>2. PICK r \in BOOLEAN : r = (ini.retransmit \/ ini.mode = "TX")
    BY <1>1 DEF I!Initiator
  <2> DEFINE i == [ini EXCEPT !.backup = b, !.retransmit = r]
  <2>3. I!Recover(i, "ATN")
    BY <1>2, <2>1, <2>2 DEF I!NoResponse
  <2>4. /\ i \in I!Initiator /\ i.backup = b /\ i.retransmit = r
        /\ i.at = ini.at /\ i.mode = ini.mode /\ i.chaining = ini.chaining /\ i.pni = ini.pni
        /\ i.msg = ini.msg /\ i.size = ini.size /\ i.left = ini.left
        /\ i.received = ini.received /\ i.status = ini.status /\ i.frame = ini.frame
    BY <1>1 DEF I!Initiator
  <2> HIDE DEF i
  <2>5. CASE Fails
    BY <2>3, <2>4, <2>5, RecoverEffect
  <2>6. CASE /\ SameCall(ini', i) /\ ini'.frame = i.frame /\ ini'.backup = i.backup
             /\ ini'.retry > 0 /\ air' \in Frame
             /\ ini'.sent = "ATN" /\ air'.kind = "ATN" /\ air'.to = "T"
             /\ air' = Supervisory("T", "ATN")
    <3>1. Asks("ATN")
      BY <2>4, <2>6 DEF Asks, SameCall
    <3>2. ini'.retransmit = r /\ ini'.backup = b
      BY <2>4, <2>6 DEF SameCall
    <3>3. ini' \in I!Initiator
      BY <2>3, <2>4, RecoverEffect
    <3> QED BY <1>2, <2>1, <2>2, <2>6, <3>1, <3>2, <3>3
  <2> QED BY <2>3, <2>4, <2>5, <2>6, RecoverEffect
<1>3. CASE damaged \/ ini.sent = "NACK" \/ AtnDisabled
  <2>1. PICK b \in BOOLEAN : b = (ini.backup \/ (~damaged /\ ini.sent = "I"))
    BY <1>1 DEF I!Initiator
  <2> DEFINE i == [ini EXCEPT !.backup = b]
  <2>3. I!Recover(i, "NACK")
    BY <1>3, <2>1 DEF I!NoResponse
  <2>4. /\ i \in I!Initiator /\ i.retransmit = ini.retransmit
        /\ i.at = ini.at /\ i.mode = ini.mode /\ i.chaining = ini.chaining /\ i.pni = ini.pni
        /\ i.msg = ini.msg /\ i.size = ini.size /\ i.left = ini.left
        /\ i.received = ini.received /\ i.status = ini.status /\ i.frame = ini.frame
    BY <1>1 DEF I!Initiator
  <2> HIDE DEF i
  <2>5. CASE Fails
    BY <2>3, <2>4, <2>5, RecoverEffect
  <2>6. CASE /\ SameCall(ini', i) /\ ini'.frame = i.frame
             /\ ini'.retry > 0 /\ air' \in Frame
             /\ ini'.sent = "NACK" /\ air'.kind = "NACK" /\ air'.to = "T"
    <3>1. Asks("NACK") /\ ini'.retransmit = ini.retransmit
      BY <2>4, <2>6 DEF Asks, SameCall
    <3>2. ini' \in I!Initiator
      BY <2>3, <2>4, RecoverEffect
    <3> QED BY <1>3, <3>1, <3>2
  <2> QED BY <2>3, <2>4, <2>5, <2>6, RecoverEffect
<1> QED BY <1>2, <1>3

(* The calls that send one frame.                                          *)
LEMMA OneFrameCalls ==
  ASSUME TypeOK
  PROVE  /\ I!PresCheck =>
              /\ ini' \in I!Initiator /\ air' = Supervisory("T", "ATN")
              /\ ini'.at = "presence" /\ ini'.status = "BUSY" /\ ini'.sent = "ATN"
              /\ ini'.retransmit = ini.retransmit /\ ini'.received = ini.received
         /\ I!Deselect =>
              /\ ini' \in I!Initiator /\ air' = Supervisory("T", "DSL")
              /\ ini'.at = "deselect" /\ ini'.status = "BUSY" /\ ini'.sent = "DSL"
<1>1. /\ "ATN" \in Kinds /\ "DSL" \in Kinds
      /\ ini \in I!Initiator
  BY DEF Kinds, TypeOK
<1>2. /\ Supervisory("T", "ATN") \in Frame /\ Supervisory("T", "ATN").kind = "ATN"
      /\ Supervisory("T", "DSL") \in Frame /\ Supervisory("T", "DSL").kind = "DSL"
  BY <1>1, FramesTyped
<1>3. ASSUME NEW at \in {"presence", "deselect"}, NEW f \in Frame,
             I!Send([ini EXCEPT !.at = at, !.status = "BUSY"], f)
      PROVE  /\ ini' \in I!Initiator /\ air' = f
             /\ ini'.at = at /\ ini'.status = "BUSY" /\ ini'.sent = f.kind
             /\ ini'.retransmit = ini.retransmit /\ ini'.received = ini.received
  <2> DEFINE i == [ini EXCEPT !.at = at, !.status = "BUSY"]
  <2>1. /\ i \in I!Initiator /\ i.at = at /\ i.status = "BUSY"
        /\ i.retransmit = ini.retransmit /\ i.received = ini.received
    BY <1>1 DEF I!Initiator
  <2>2. I!Send(i, f)
    BY <1>3
  <2> HIDE DEF i
  <2> QED BY <2>1, <2>2, SendEffect DEF SameCall
<1>4. I!PresCheck => I!Send([ini EXCEPT !.at = "presence", !.status = "BUSY"], Supervisory("T", "ATN"))
  BY InitiatorNames DEF I!PresCheck
<1>5. I!Deselect => I!Send([ini EXCEPT !.at = "deselect", !.status = "BUSY"], Supervisory("T", "DSL"))
  BY InitiatorNames DEF I!Deselect
<1> QED BY <1>2, <1>3, <1>4, <1>5

(* A presence check or a deselect that is answered returns.                *)
LEMMA AnsweredEffect ==
  ASSUME TypeOK, I!Answered
  PROVE  /\ ini' \in I!Initiator /\ air' = NoFrame /\ ini'.at = "idle"
         /\ \/ ini'.status = "PROTOCOL_ERROR"
            \/ /\ ini.at = "presence" /\ air.kind = "ATN" /\ ini'.status = "SUCCESS"
               /\ ini'.retransmit = ini.retransmit /\ ini'.received = ini.received
            \/ ini.at = "deselect" /\ air.kind = "DSL" /\ ini'.status = "DESELECTED"
<1>1. ini \in I!Initiator
  BY DEF TypeOK
<1>2. CASE ini.at = "presence" /\ air.kind = "ATN"
  <2>1. I!Return(ini, "SUCCESS")
    BY <1>2 DEF I!Answered
  <2> QED BY <1>1, <1>2, <2>1, ReturnEffect
<1>3. CASE ini.at = "deselect" /\ air.kind = "DSL"
  <2>1. I!Return(ini, "DESELECTED")
    BY <1>3 DEF I!Answered
  <2> QED BY <1>1, <1>3, <2>1, ReturnEffect
<1>4. CASE ~(ini.at = "presence" /\ air.kind = "ATN") /\ ~(ini.at = "deselect" /\ air.kind = "DSL")
  <2>1. I!Return(ini, "PROTOCOL_ERROR")
    BY <1>4 DEF I!Answered
  <2> QED BY <1>1, <2>1, ReturnEffect
<1> QED BY <1>2, <1>3, <1>4

(* One that is not answered is sent again, or fails.                       *)
LEMMA NotAnsweredOutcome ==
  ASSUME TypeOK, I!NotAnswered
  PROVE  /\ ini' \in I!Initiator
         /\ \/ Fails
            \/ /\ air' = Supervisory("T", ini.sent) /\ air' \in Frame
               /\ ini'.sent = ini.sent /\ ini'.at = ini.at /\ ini'.status = ini.status
               /\ ini'.retransmit = ini.retransmit /\ ini'.received = ini.received
<1>1. ini \in I!Initiator /\ ini.sent \in Kinds
  BY InitiatorNames DEF TypeOK, I!Initiator
<1>2. CASE ini.retry < MaxRetryCount
  <2> DEFINE i == [ini EXCEPT !.retry = ini.retry + 1]
  <2>1. ini.retry + 1 \in 0 .. MaxRetryCount
    BY <1>1, <1>2, RetryAssumption DEF I!Initiator
  <2>2. /\ i \in I!Initiator /\ i.at = ini.at /\ i.status = ini.status
        /\ i.retransmit = ini.retransmit /\ i.received = ini.received
    BY <1>1, <2>1 DEF I!Initiator
  <2>3. I!Send(i, Supervisory("T", ini.sent))
    BY <1>2, InitiatorNames DEF I!NotAnswered
  <2>4. Supervisory("T", ini.sent) \in Frame /\ Supervisory("T", ini.sent).kind = ini.sent
    BY <1>1, FramesTyped
  <2> HIDE DEF i
  <2> QED BY <2>2, <2>3, <2>4, SendEffect DEF SameCall
<1>3. CASE ~(ini.retry < MaxRetryCount)
  <2>1. I!Return(ini, "NO_RESPONSE")
    BY <1>3 DEF I!NotAnswered
  <2> QED BY <1>1, <2>1, ReturnEffect DEF Fails
<1> QED BY <1>2, <1>3

(* An error of the HAL fails the call.                                     *)
LEMMA HalErrorEffect ==
  ASSUME TypeOK, I!HalError
  PROVE  ini' \in I!Initiator /\ Fails
BY ReturnEffect DEF TypeOK, I!HalError, Fails

-----------------------------------------------------------------------------
(* The target. *)

(* What the type of a target says of its fields.                           *)
LEMMA TargetTyped ==
  ASSUME NEW t \in T!Target
  PROVE  /\ t.pni \in Pni /\ t.prePni \in Pni /\ t.length \in 0 .. RxRoom
         /\ t.raw \in 0 .. RxRoom + 1 /\ t.prev \in 0 .. 1 /\ t.repeat \in BOOLEAN
         /\ t.msg \in {0, 1} /\ t.size \in 0 .. MaxBlocks /\ t.left \in 0 .. MaxBlocks
         /\ t.data \in [1 .. RxRoom + 1 -> Block]
BY TargetNames DEF T!Target, Pni

(* The record of an empty reception buffer.                                *)
LEMMA ClearEffect ==
  ASSUME NEW t \in T!Target
  PROVE  /\ T!Clear(t) \in T!Target
         /\ T!Clear(t).raw = 0 /\ T!Clear(t).length = 0 /\ T!Clear(t).prev = 0
         /\ T!Clear(t).at = t.at /\ T!Clear(t).pni = t.pni /\ T!Clear(t).repeat = t.repeat
         /\ T!Clear(t).msg = t.msg /\ T!Clear(t).size = t.size /\ T!Clear(t).left = t.left
<1> DEFINE empty == [k \in 1 .. RxRoom + 1 |-> NoBlock]
<1>1. /\ empty \in [1 .. RxRoom + 1 -> T!Block] /\ 0 \in 0 .. RxRoom + 1 /\ 0 \in 0 .. RxRoom
      /\ 0 \in 0 .. PniModulus - 1
  BY TargetNames, FramesTyped, RoomAssumption, ModulusAssumption
<1>2. T!Clear(t) = [t EXCEPT !.data = empty, !.raw = 0, !.length = 0, !.prev = 0, !.prePni = 0]
  BY TargetNames DEF T!Clear, T!InitTarget
<1> HIDE DEF empty
<1>3. PICK z \in 0 .. PniModulus - 1, r \in 0 .. RxRoom + 1, n \in 0 .. RxRoom, p \in 0 .. 1 :
        z = 0 /\ r = 0 /\ n = 0 /\ p = 0
  BY <1>1
<1>4. T!Clear(t) = [t EXCEPT !.data = empty, !.raw = r, !.length = n, !.prev = p, !.prePni = z]
  BY <1>2, <1>3
<1>5. T!Clear(t) \in T!Target
  BY <1>1, <1>4 DEF T!Target
<1>6. /\ T!Clear(t).raw = 0 /\ T!Clear(t).length = 0 /\ T!Clear(t).prev = 0
      /\ T!Clear(t).at = t.at /\ T!Clear(t).pni = t.pni /\ T!Clear(t).repeat = t.repeat
      /\ T!Clear(t).msg = t.msg /\ T!Clear(t).size = t.size /\ T!Clear(t).left = t.left
  BY <1>2 DEF T!Target
<1> QED BY <1>5, <1>6

(* A target that fails is deactivated, with its buffer empty.              *)
LEMMA FailEffect ==
  ASSUME NEW t \in T!Target, T!Fail(t)
  PROVE  /\ tgt' \in T!Target /\ air' = NoFrame
         /\ tgt'.at = "off" /\ tgt'.raw = 0 /\ tgt'.length = 0
<1> DEFINE c == T!Clear(t)
<1>1. c \in T!Target /\ c.raw = 0 /\ c.length = 0
  BY ClearEffect
<1>2. tgt' = [c EXCEPT !.at = "off", !.repeat = FALSE, !.left = 0] /\ air' = NoFrame
  BY TargetNames DEF T!Fail, T!Silent, T!Reply
<1> HIDE DEF c
<1>3. 0 \in 0 .. MaxBlocks
  BY BlocksAssumption
<1> QED BY <1>1, <1>2, <1>3 DEF T!Target

(* Nothing of the target changes but the record's numbers.                 *)
SameBuffer(t, u) ==
  /\ t.data = u.data /\ t.raw = u.raw /\ t.length = u.length /\ t.repeat = u.repeat
  /\ t.msg = u.msg /\ t.size = u.size /\ t.left = u.left

(* What the target hands up stays in its buffer.                           *)
LEMMA HandUpEffect ==
  ASSUME NEW t \in T!Target, T!HandUp(t)
  PROVE  /\ tgt' \in T!Target /\ air' = NoFrame
         /\ tgt'.at = "app" /\ tgt'.prev = 0 /\ tgt'.pni = t.pni /\ SameBuffer(tgt', t)
<1>1. 0 \in 0 .. PniModulus - 1
  BY ModulusAssumption
<1>2. tgt' = [t EXCEPT !.at = "app", !.prev = 0, !.prePni = 0] /\ air' = NoFrame
  BY TargetNames DEF T!HandUp, T!Silent, T!Reply
<1>3. PICK z \in 0 .. PniModulus - 1, p \in 0 .. 1 : z = 0 /\ p = 0
  BY <1>1
<1>4. tgt' = [t EXCEPT !.at = "app", !.prev = p, !.prePni = z]
  BY <1>2, <1>3
<1>5. tgt' \in T!Target
  BY <1>4 DEF T!Target
<1>6. tgt'.at = "app" /\ tgt'.prev = 0 /\ tgt'.pni = t.pni /\ SameBuffer(tgt', t)
  BY <1>2 DEF T!Target, SameBuffer
<1> QED BY <1>2, <1>5, <1>6

(* An attention sets the packet number back, and nothing else.             *)
LEMMA AttentionEffect ==
  ASSUME NEW t \in T!Target, T!Attention(t)
  PROVE  /\ tgt' \in T!Target /\ air' = Supervisory("I", "ATN")
         /\ tgt'.at = t.at /\ tgt'.prev = t.prev /\ tgt'.prePni = t.prePni
         /\ tgt'.pni = DecrementPni(t.pni) /\ SameBuffer(tgt', t)
<1>1. DecrementPni(t.pni) \in 0 .. PniModulus - 1
  BY TargetTyped, PacketNumbers DEF Pni
<1>2. tgt' = [t EXCEPT !.pni = DecrementPni(t.pni)] /\ air' = Supervisory("I", "ATN")
  BY TargetNames DEF T!Attention, T!Reply
<1> QED BY <1>1, <1>2 DEF T!Target, SameBuffer

(* A block is acknowledged, unless the next one may not fit.               *)
LEMMA AcknowledgeEffect ==
  ASSUME NEW t \in T!Target, T!Acknowledge(t)
  PROVE  /\ tgt' \in T!Target
         /\ \/ /\ t.length + 1 > RxRoom
               /\ air' = NoFrame /\ tgt'.at = "off" /\ tgt'.raw = 0 /\ tgt'.length = 0
            \/ /\ t.length < RxRoom
               /\ air' = Response("I", "ACK", t.pni) /\ tgt'.at = "chain"
               /\ tgt'.pni = INCREMENT_PNI(t.pni) /\ tgt'.prePni = INCREMENT_PNI(t.pni)
               /\ tgt'.prev = t.prev /\ SameBuffer(tgt', t)
<1>1. CASE t.length + 1 > RxRoom
  <2>1. T!Fail(t)
    BY <1>1 DEF T!Acknowledge
  <2> QED BY <1>1, <2>1, FailEffect
<1>2. CASE ~(t.length + 1 > RxRoom)
  <2>1. t.length < RxRoom
    BY <1>2, TargetTyped, RoomAssumption
  <2>2. INCREMENT_PNI(t.pni) \in 0 .. PniModulus - 1
    BY TargetTyped, PacketNumbers DEF Pni
  <2>3. /\ tgt' = [t EXCEPT !.at = "chain", !.pni = INCREMENT_PNI(t.pni),
                            !.prePni = INCREMENT_PNI(t.pni)]
        /\ air' = Response("I", "ACK", t.pni)
    BY <1>2, TargetNames DEF T!Acknowledge, T!Reply, Response
  <2> QED BY <2>1, <2>2, <2>3 DEF T!Target, SameBuffer
<1> QED BY <1>1, <1>2

(* The first block of a message begins the buffer.                         *)
LEMMA FirstBlockEffect ==
  ASSUME tgt \in T!Target, NEW f \in Frame, NEW t, t = T!FirstBlock(f)
  PROVE  /\ t \in T!Target /\ t.at = tgt.at /\ t.pni = f.pni /\ t.prev = tgt.prev
         /\ t.repeat = tgt.repeat /\ t.raw = 1 /\ t.length = 1 /\ t.data[1] = f.block
         /\ t.msg = tgt.msg /\ t.size = tgt.size /\ t.left = tgt.left
<1> DEFINE data == [tgt.data EXCEPT ![1] = f.block]
<1>1. /\ 1 \in 0 .. RxRoom /\ 1 \in 0 .. RxRoom + 1 /\ 1 \in 1 .. RxRoom + 1
      /\ f.pni \in 0 .. PniModulus - 1
  BY RoomAssumption, BlocksAssumption, ModulusAssumption DEF Frame
<1>2. data \in [1 .. RxRoom + 1 -> T!Block] /\ data[1] = f.block
  BY <1>1, TargetNames DEF T!Target, Frame
<1>3. t = [tgt EXCEPT !.data = data, !.raw = 1, !.length = 1, !.pni = f.pni]
  BY DEF T!FirstBlock
<1> HIDE DEF data
<1> QED BY <1>1, <1>2, <1>3 DEF T!Target

(* A block goes behind the others, or over itself when it comes again.     *)
LEMMA StoredEffect ==
  ASSUME NEW t \in T!Target, t.length < RxRoom, t.raw <= t.length, NEW f \in Frame,
         NEW u, u = T!Stored(t, f)
  PROVE  /\ u \in T!Target /\ u.at = t.at /\ u.pni = t.pni /\ u.prePni = t.prePni
         /\ u.repeat = t.repeat /\ u.prev = 1 /\ u.raw <= u.length
         /\ u.msg = t.msg /\ u.size = t.size /\ u.left = t.left
         /\ t.pni = DecrementPni(t.prePni) =>
              /\ u.raw = t.raw /\ u.length = t.length - t.prev + 1
              /\ \A k \in 1 .. RxRoom + 1 : k # t.raw + 1 /\ k # t.raw - t.prev + 1 => u.data[k] = t.data[k]
              /\ t.raw - t.prev + 1 \in 1 .. RxRoom + 1 => u.data[t.raw - t.prev + 1] = f.block
         /\ t.pni # DecrementPni(t.prePni) =>
              /\ u.raw = t.raw + 1 /\ u.length = t.length + 1
              /\ \A k \in 1 .. RxRoom + 1 : k # t.raw + 1 => u.data[k] = t.data[k]
              /\ u.data[t.raw + 1] = f.block
<1> DEFINE behind == [t.data EXCEPT ![t.raw + 1] = f.block]
           over == [behind EXCEPT ![t.raw - t.prev + 1] = f.block]
<1>1. /\ t.raw + 1 \in 1 .. RxRoom + 1 /\ t.raw + 1 \in 0 .. RxRoom + 1
      /\ t.length + 1 \in 0 .. RxRoom /\ t.length - t.prev + 1 \in 0 .. RxRoom
      /\ t.raw <= t.length - t.prev + 1 /\ t.raw + 1 <= t.length + 1
  BY TargetTyped, RoomAssumption
<1>2. t.data \in [1 .. RxRoom + 1 -> T!Block] /\ f.block \in T!Block
  BY TargetTyped, TargetNames DEF Frame
<1>3. /\ behind \in [1 .. RxRoom + 1 -> T!Block] /\ behind[t.raw + 1] = f.block
      /\ \A k \in 1 .. RxRoom + 1 : k # t.raw + 1 => behind[k] = t.data[k]
  BY <1>1, <1>2
<1>4. over \in [1 .. RxRoom + 1 -> T!Block]
  <2> HIDE DEF behind
  <2> QED BY <1>2, <1>3
<1>5. /\ t.raw - t.prev + 1 \in 1 .. RxRoom + 1 => over[t.raw - t.prev + 1] = f.block
      /\ \A k \in 1 .. RxRoom + 1 : k # t.raw + 1 /\ k # t.raw - t.prev + 1 => over[k] = t.data[k]
  <2> HIDE DEF behind
  <2> QED BY <1>2, <1>3
<1>6. CASE t.pni = DecrementPni(t.prePni)
  <2>1. u = [t EXCEPT !.data = over, !.length = t.length - t.prev + 1, !.prev = 1]
    BY <1>6, TargetNames DEF T!Stored
  <2> HIDE DEF over
  <2>2. u \in T!Target
    <3>1. PICK n \in 0 .. RxRoom, p \in 0 .. 1 : n = t.length - t.prev + 1 /\ p = 1
      BY <1>1
    <3>2. u = [t EXCEPT !.data = over, !.length = n, !.prev = p]
      BY <2>1, <3>1
    <3> QED BY <1>4, <3>2 DEF T!Target
  <2>3. /\ u.at = t.at /\ u.pni = t.pni /\ u.prePni = t.prePni
        /\ u.repeat = t.repeat /\ u.prev = 1 /\ u.msg = t.msg /\ u.size = t.size /\ u.left = t.left
        /\ u.raw = t.raw /\ u.length = t.length - t.prev + 1 /\ u.data = over
    BY <2>1 DEF T!Target
  <2> QED BY <1>1, <1>5, <1>6, <2>2, <2>3
<1>7. CASE t.pni # DecrementPni(t.prePni)
  <2>1. u = [t EXCEPT !.data = behind, !.raw = t.raw + 1, !.length = t.length + 1, !.prev = 1]
    BY <1>7, TargetNames DEF T!Stored
  <2> HIDE DEF behind
  <2>2. u \in T!Target
    <3>1. PICK r \in 0 .. RxRoom + 1, n \in 0 .. RxRoom, p \in 0 .. 1 :
            r = t.raw + 1 /\ n = t.length + 1 /\ p = 1
      BY <1>1
    <3>2. u = [t EXCEPT !.data = behind, !.raw = r, !.length = n, !.prev = p]
      BY <2>1, <3>1
    <3> QED BY <1>3, <3>2 DEF T!Target
  <2>3. /\ u.at = t.at /\ u.pni = t.pni /\ u.prePni = t.prePni
        /\ u.repeat = t.repeat /\ u.prev = 1 /\ u.msg = t.msg /\ u.size = t.size /\ u.left = t.left
        /\ u.raw = t.raw + 1 /\ u.length = t.length + 1 /\ u.data = behind
    BY <2>1 DEF T!Target
  <2> QED BY <1>1, <1>3, <1>7, <2>2, <2>3
<1> QED BY <1>6, <1>7

(* The target sends a block, and listens after the last one.               *)
LEMMA SendBlockEffect ==
  ASSUME NEW t \in T!Target, t.left \in 1 .. t.size, T!SendBlock(t)
  PROVE  /\ tgt' \in T!Target /\ air' = Chunk("I", t.pni, t.msg, t.size, t.left)
         /\ tgt'.data = t.data /\ tgt'.raw = t.raw /\ tgt'.length = t.length
         /\ tgt'.prev = t.prev /\ tgt'.repeat = t.repeat /\ tgt'.msg = t.msg /\ tgt'.size = t.size
         /\ \/ t.left > 1 /\ tgt'.at = "send" /\ tgt'.left = t.left /\ tgt'.pni = t.pni
            \/ t.left = 1 /\ tgt'.at = "listen"
<1>1. CASE t.left > 1
  <2>1. tgt' = [t EXCEPT !.at = "send"] /\ air' = Chunk("I", t.pni, t.msg, t.size, t.left)
    BY <1>1, TargetNames DEF T!SendBlock, T!Reply, Chunk
  <2> QED BY <1>1, <2>1 DEF T!Target
<1>2. CASE ~(t.left > 1)
  <2>1. INCREMENT_PNI(t.pni) \in 0 .. PniModulus - 1 /\ 0 \in 0 .. MaxBlocks
    BY TargetTyped, PacketNumbers, BlocksAssumption DEF Pni
  <2>2. /\ tgt' = [t EXCEPT !.at = "listen", !.left = 0, !.pni = INCREMENT_PNI(t.pni)]
        /\ air' = Chunk("I", t.pni, t.msg, t.size, t.left)
    BY <1>2, TargetNames DEF T!SendBlock, T!Reply, Chunk
  <2>3. t.left = 1
    BY <1>2, TargetTyped, BlocksAssumption
  <2> QED BY <2>1, <2>2, <2>3 DEF T!Target
<1> QED BY <1>1, <1>2

(* What becomes of target and field when a frame comes.                    *)
TargetOutcome ==
  \/ air' = NoFrame /\ tgt'.at = tgt.at /\ tgt.at # "app"
  \/ air' = NoFrame /\ tgt'.at = "off" /\ tgt.at \in {"listen", "chain", "send"}
     /\ air.kind # "ATN" /\ (tgt.at = "listen" => air.kind = "I")
  \/ air' = NoFrame /\ tgt'.at = "app" /\ tgt.at \in {"listen", "chain"}
     /\ air.kind \in {"I", "ACK", "NACK"} /\ (tgt.at = "chain" => air.kind = "I")
  \/ air' = Supervisory("I", "ATN") /\ tgt'.at = tgt.at /\ tgt.at \in {"listen", "chain", "send"}
     /\ air.kind = "ATN"
  \/ air' = Supervisory("I", "DSL") /\ tgt'.at = "off" /\ tgt.at = "listen" /\ air.kind = "DSL"
  \/ air'.to = "I" /\ air'.kind \in {"ACK", "BAD"} /\ tgt'.at = "chain"
     /\ tgt.at \in {"listen", "chain"} /\ air.kind = "I"
  \/ air'.to = "I" /\ air'.kind \in {"I", "BAD"} /\ tgt'.at \in {"send", "listen"}
     /\ (air'.kind = "I" => (air'.more <=> tgt'.at = "send")) /\ tgt.at = "send" /\ air.kind = "ACK"

(* What distinguishes the frames without a block.                          *)
LEMMA ControlFrames ==
  /\ NoFrame \in Frame /\ Supervisory("I", "ATN") \in Frame /\ Supervisory("I", "DSL") \in Frame
  /\ Supervisory("I", "ATN").kind = "ATN" /\ Supervisory("I", "DSL").kind = "DSL"
  /\ Supervisory("T", "ATN").kind = "ATN" /\ Supervisory("T", "DSL").kind = "DSL"
  /\ Supervisory("T", "ATN").to = "T" /\ Supervisory("T", "DSL").to = "T"
  /\ Supervisory("I", "ATN").to = "I" /\ Supervisory("I", "DSL").to = "I"
  /\ Supervisory("T", "ATN") \in Frame /\ Supervisory("T", "DSL") \in Frame
  /\ Supervisory("T", "BAD") \in Frame /\ Supervisory("T", "BAD").kind = "BAD"
  /\ Supervisory("T", "BAD").to = "T"
  /\ NoFrame.kind = "NONE" /\ NoFrame.to = "T"
BY FramesTyped DEF Kinds, Supervisory, NoFrame

(* Which of these each answer of the target is.                            *)
LEMMA AcknowledgeOutcome ==
  ASSUME TypeOK, tgt.at \in {"listen", "chain"}, air.kind = "I",
         NEW t \in T!Target, t.raw <= t.length, T!Acknowledge(t)
  PROVE  tgt' \in T!Target /\ air' \in Frame /\ TargetCounts' /\ TargetOutcome
<1>1. CASE /\ t.length + 1 > RxRoom
           /\ air' = NoFrame /\ tgt'.at = "off" /\ tgt'.raw = 0 /\ tgt'.length = 0
  BY <1>1, AcknowledgeEffect, ControlFrames DEF TargetCounts, TargetOutcome
<1>2. CASE /\ t.length < RxRoom
           /\ air' = Response("I", "ACK", t.pni) /\ tgt'.at = "chain" /\ SameBuffer(tgt', t)
  <2>1. t.pni \in Pni
    BY TargetTyped
  <2>2. air' \in Frame /\ air'.to = "I" /\ air'.kind \in {"ACK", "BAD"}
    <3>1. PICK more \in BOOLEAN : more = FALSE
      OBVIOUS
    <3>2. air' = Pdu("I", "ACK", t.pni, more, NoBlock)
      BY <1>2, <3>1 DEF Response
    <3>3. "ACK" \in Kinds /\ NoBlock \in Block
      BY FramesTyped DEF Kinds
    <3> QED BY <2>1, <3>2, <3>3, PduTyped
  <2>3. tgt' \in T!Target
    BY AcknowledgeEffect
  <2>4. TargetCounts'
    BY <1>2 DEF TargetCounts, SameBuffer
  <2> QED BY <1>2, <2>2, <2>3, <2>4 DEF TargetOutcome
<1> QED BY <1>1, <1>2, AcknowledgeEffect

LEMMA HandUpOutcome ==
  ASSUME TypeOK, tgt.at \in {"listen", "chain"}, air.kind \in {"I", "ACK", "NACK"},
         tgt.at = "chain" => air.kind = "I", NEW t \in T!Target, t.raw <= t.length, T!HandUp(t)
  PROVE  tgt' \in T!Target /\ air' \in Frame /\ TargetCounts' /\ TargetOutcome
BY HandUpEffect, ControlFrames DEF TargetCounts, TargetOutcome, SameBuffer

LEMMA FailOutcome ==
  ASSUME TypeOK, tgt.at \in {"chain", "send"}, air.kind # "ATN", NEW t \in T!Target, T!Fail(t)
  PROVE  tgt' \in T!Target /\ air' \in Frame /\ TargetCounts' /\ TargetOutcome
BY FailEffect, ControlFrames DEF TargetCounts, TargetOutcome

(* A target that goes on listening or waiting as before.                   *)
LEMMA SilentOutcome ==
  ASSUME TypeOK, TargetCounts, tgt.at # "app", NEW t \in T!Target, T!Silent(t), t.at = tgt.at,
         t.raw = tgt.raw, t.length = tgt.length, t.left = tgt.left, t.size = tgt.size
  PROVE  tgt' \in T!Target /\ air' \in Frame /\ TargetCounts' /\ TargetOutcome
<1>1. tgt' = t /\ air' = NoFrame
  BY TargetNames DEF T!Silent, T!Reply
<1> QED BY <1>1, ControlFrames DEF TargetCounts, TargetOutcome

LEMMA AttentionOutcome ==
  ASSUME TypeOK, TargetCounts, tgt.at \in {"listen", "chain", "send"}, air.kind = "ATN",
         T!Attention(tgt)
  PROVE  tgt' \in T!Target /\ air' \in Frame /\ TargetCounts' /\ TargetOutcome
BY AttentionEffect, ControlFrames DEF TypeOK, TargetCounts, TargetOutcome, SameBuffer

(* Every frame that the target receives leads to one of these.             *)
LEMMA TargetReceiveOutcome ==
  ASSUME TypeOK, TargetCounts, T!TargetReceive
  PROVE  tgt' \in T!Target /\ air' \in Frame /\ TargetCounts' /\ TargetOutcome
<1>1. tgt \in T!Target /\ air \in Frame
  BY DEF TypeOK
<1>2. CASE T!Listen(air)
  <2>1. tgt.at = "listen"
    BY <1>2 DEF T!Listen
  <2>2. CASE air.kind = "BAD" /\ T!Silent(tgt)
    BY <1>1, <2>1, <2>2, SilentOutcome
  <2>3. CASE air.kind = "ATN" /\ T!Attention(tgt)
    BY <2>1, <2>3, AttentionOutcome
  <2>4. CASE air.kind = "I" /\ air.more /\ T!Acknowledge(T!FirstBlock(air))
    <3> DEFINE t == T!FirstBlock(air)
    <3>1. t \in T!Target /\ t.raw <= t.length
      BY <1>1, FirstBlockEffect
    <3> HIDE DEF t
    <3>2. T!Acknowledge(t)
      BY <2>4 DEF t
    <3> QED BY <2>1, <2>4, <3>1, <3>2, AcknowledgeOutcome
  <2>5. CASE air.kind = "I" /\ ~air.more /\ T!HandUp(T!FirstBlock(air))
    <3> DEFINE t == T!FirstBlock(air)
    <3>1. t \in T!Target /\ t.raw <= t.length
      BY <1>1, FirstBlockEffect
    <3> HIDE DEF t
    <3>2. T!HandUp(t)
      BY <2>5 DEF t
    <3> QED BY <2>1, <2>5, <3>1, <3>2, HandUpOutcome
  <2>6. CASE air.kind \in {"ACK", "NACK"} /\ T!HandUp([tgt EXCEPT !.pni = air.pni])
    <3> DEFINE t == [tgt EXCEPT !.pni = air.pni]
    <3>1. air.pni \in 0 .. PniModulus - 1
      BY <1>1, ModulusAssumption DEF Frame
    <3>2. t \in T!Target /\ t.raw <= t.length
      BY <1>1, <3>1 DEF T!Target, TargetCounts
    <3> HIDE DEF t
    <3>3. T!HandUp(t)
      BY <2>6 DEF t
    <3> QED BY <2>1, <2>6, <3>2, <3>3, HandUpOutcome
  <2> QED BY <1>2, <2>2, <2>3, <2>4, <2>5, <2>6 DEF T!Listen
<1>3. CASE T!DslRes(air)
  <2>1. /\ tgt' = [tgt EXCEPT !.at = "off"] /\ air' = Supervisory("I", "DSL")
        /\ tgt.at = "listen" /\ air.kind = "DSL"
    BY <1>3, TargetNames DEF T!DslRes, T!Reply
  <2>2. tgt' \in T!Target /\ tgt'.at = "off" /\ tgt'.raw = tgt.raw /\ tgt'.length = tgt.length
    BY <1>1, <2>1 DEF T!Target
  <2> QED BY <2>1, <2>2, ControlFrames DEF TargetCounts, TargetOutcome
<1>4. CASE T!TransceivePdu(air)
  <2>1. tgt.at \in {"chain", "send"}
    BY <1>4 DEF T!TransceivePdu
  <2>2. CASE T!Fail(tgt) /\ air.kind # "ATN"
    BY <1>1, <2>1, <2>2, FailOutcome
  <2>3. CASE T!Silent([tgt EXCEPT !.repeat = TRUE])
    <3> DEFINE t == [tgt EXCEPT !.repeat = TRUE]
    <3>1. /\ t \in T!Target /\ t.at = tgt.at
          /\ t.raw = tgt.raw /\ t.length = tgt.length /\ t.left = tgt.left /\ t.size = tgt.size
      BY <1>1 DEF T!Target
    <3> HIDE DEF t
    <3>2. T!Silent(t)
      BY <2>3 DEF t
    <3> QED BY <2>1, <3>1, <3>2, SilentOutcome
  <2>4. CASE air.kind = "ATN" /\ T!Attention(tgt)
    BY <2>1, <2>4, AttentionOutcome
  <2>5. CASE air.kind = "ACK" /\ tgt.at = "send"
             /\ LET t == [tgt EXCEPT !.pni = T!INCREMENT_PNI(@)] IN
                IF tgt.repeat THEN T!Silent(t) ELSE T!SendBlock([t EXCEPT !.left = @ - 1])
    <3> DEFINE t == [tgt EXCEPT !.pni = INCREMENT_PNI(tgt.pni)]
               u == [t EXCEPT !.left = tgt.left - 1]
    <3>1. INCREMENT_PNI(tgt.pni) \in 0 .. PniModulus - 1
      BY <1>1, TargetTyped, PacketNumbers DEF Pni
    <3>2. /\ t \in T!Target /\ t.at = tgt.at
          /\ t.raw = tgt.raw /\ t.length = tgt.length /\ t.left = tgt.left /\ t.size = tgt.size
      BY <1>1, <3>1 DEF T!Target
    <3>3. IF tgt.repeat THEN T!Silent(t) ELSE T!SendBlock(u)
      BY <2>5, <3>2, TargetNames
    <3>4. tgt.left - 1 \in 1 .. tgt.size /\ tgt.left - 1 \in 0 .. MaxBlocks
      <4>1. tgt.left \in 2 .. tgt.size /\ tgt.size \in 0 .. MaxBlocks
        BY <1>1, <2>5, TargetTyped DEF TargetCounts
      <4> QED BY <4>1, BlocksAssumption
    <3>5. /\ u \in T!Target /\ u.left = tgt.left - 1 /\ u.size = tgt.size
          /\ u.raw = tgt.raw /\ u.length = tgt.length
      BY <3>2, <3>4 DEF T!Target
    <3> HIDE DEF t, u
    <3>6. CASE tgt.repeat
      BY <2>1, <3>2, <3>3, <3>6, SilentOutcome
    <3>7. CASE ~tgt.repeat
      <4>1. T!SendBlock(u) /\ u.left \in 1 .. u.size
        BY <3>3, <3>4, <3>5, <3>7
      <4>2. /\ tgt' \in T!Target /\ air' = Chunk("I", u.pni, u.msg, u.size, u.left)
            /\ tgt'.raw = u.raw /\ tgt'.length = u.length /\ tgt'.size = u.size
            /\ \/ u.left > 1 /\ tgt'.at = "send" /\ tgt'.left = u.left
               \/ u.left = 1 /\ tgt'.at = "listen"
        BY <3>5, <4>1, SendBlockEffect
      <4>3. /\ air' \in Frame /\ air'.to = "I" /\ air'.kind \in {"I", "BAD"}
            /\ air'.kind = "I" => (air'.more <=> u.left > 1)
        <5>1. u.pni \in Pni /\ u.msg \in {0, 1} /\ u.size \in 0 .. MaxBlocks
          BY <3>5, TargetTyped
        <5>2. /\ air' \in Frame /\ air'.to = "I" /\ air'.kind \in {"I", "BAD"}
              /\ air'.kind = "BAD" \/ (air'.more <=> u.left > 1)
          BY <4>1, <4>2, <5>1, ChunkTyped
        <5> QED BY <5>2
      <4>4. TargetCounts'
        BY <3>5, <4>1, <4>2, TargetTyped, BlocksAssumption DEF TargetCounts
      <4> QED BY <2>5, <4>2, <4>3, <4>4 DEF TargetOutcome
    <3> QED BY <3>6, <3>7
  <2>6. CASE air.kind = "I" /\ tgt.at = "chain" /\ tgt.repeat /\ T!Silent(tgt)
    BY <1>1, <2>6, SilentOutcome
  <2>7. CASE air.kind = "I" /\ tgt.at = "chain" /\ ~tgt.repeat /\ T!NextChained(air)
    <3> DEFINE t == T!Stored(tgt, air)
    <3>1. t \in T!Target /\ t.raw <= t.length
      BY <1>1, <2>7, StoredEffect DEF TargetCounts
    <3>2. IF air.more THEN T!Acknowledge(t) ELSE T!HandUp(t)
      BY <2>7 DEF T!NextChained
    <3> HIDE DEF t
    <3> QED BY <2>7, <3>1, <3>2, AcknowledgeOutcome, HandUpOutcome
  <2>8. CASE air.kind \in {"I", "ACK"} /\ tgt.repeat /\ T!Silent(tgt)
    BY <1>1, <2>1, <2>8, SilentOutcome
  <2> QED BY <1>4, <2>2, <2>3, <2>4, <2>5, <2>6, <2>7, <2>8 DEF T!TransceivePdu
<1>5. CASE tgt.at = "off" /\ T!Silent(tgt)
  BY <1>1, <1>5, SilentOutcome
<1> QED BY <1>2, <1>3, <1>4, <1>5 DEF T!TargetReceive

-----------------------------------------------------------------------------
(* The target follows the initiator. *)

(* Why it does: an exchange succeeds only on a last block, which the target *)
(* sends as it returns to Listen; a presence check succeeds only on the     *)
(* answer to an attention, which a target that listens answers where it is. *)
Ends ==
  /\ air.to = "I" /\ air.kind = "I" /\ ~air.more => tgt.at = "listen"
  /\ tgt.at = "app" => air = NoFrame /\ ini.at = "exchange"
  /\ ini.at = "idle" => air = NoFrame
  /\ ini.at # "idle" => ini.status = "BUSY"
  /\ I!InSession => tgt.at = "listen" /\ ~ini.retransmit
  /\ ini.at = "presence" =>
       /\ tgt.at = "listen" /\ ~ini.retransmit
       /\ air.kind \in {"NONE", "ATN"} /\ ini.sent = "ATN"
  /\ ini.at = "deselect" =>
       /\ tgt.at \in {"listen", "off"} /\ air.kind \in {"NONE", "DSL"} /\ ini.sent = "DSL"
       /\ air.to = "I" => tgt.at = "off"
  /\ ini.status = "DESELECTED" => tgt.at = "off" /\ ini.at = "idle"

FollowInv == TypeOK /\ Counts /\ Steady /\ Ends

(* What an event adds to the counts of the session.                        *)
LEMMA CountTyped ==
  ASSUME TypeOK, NEW taken \in BOOLEAN, NEW answered \in BOOLEAN, NEW hit \in BOOLEAN,
         NEW twice \in BOOLEAN, Count(taken, answered, hit, twice)
  PROVE  /\ turns' \in Turns
         /\ turns'.asked = turns.asked
         /\ turns'.taken = IF taken THEN turns.taken + 1 ELSE turns.taken
         /\ turns'.answered = IF answered THEN turns.asked ELSE turns.answered
         /\ turns'.lost = IF hit THEN turns.lost + 1 ELSE turns.lost
         /\ turns'.hits = IF hit THEN turns.hits + 1 ELSE turns.hits
         /\ turns'.twice <=> turns.twice \/ twice
<1> DEFINE a == turns.taken + (IF taken THEN 1 ELSE 0)
           b == IF answered THEN turns.asked ELSE turns.answered
           l == turns.lost + (IF hit THEN 1 ELSE 0)
           h == turns.hits + (IF hit THEN 1 ELSE 0)
<1>1. a \in Nat /\ b \in Nat /\ l \in Nat /\ h \in Nat /\ turns \in Turns
  BY DEF TypeOK, Turns
<1>2. PICK w \in BOOLEAN : w = (turns.twice \/ twice)
  OBVIOUS
<1>3. turns' = [turns EXCEPT !.taken = a, !.answered = b, !.lost = l, !.hits = h, !.twice = w]
  <2>1. turns' = [turns EXCEPT !.taken = a, !.answered = b, !.lost = l, !.hits = h,
                               !.twice = turns.twice \/ twice]
    BY Zenon DEF Count
  <2> QED BY <1>2, <2>1, Zenon
<1>4. w <=> turns.twice \/ twice
  BY <1>2, Zenon
<1> HIDE DEF a, b, l, h
<1>5. /\ turns' \in Turns /\ turns'.asked = turns.asked /\ turns'.taken = a
      /\ turns'.answered = b /\ turns'.lost = l /\ turns'.hits = h /\ turns'.twice = w
  BY <1>1, <1>3 DEF Turns
<1>6. turns.taken \in Nat /\ turns.lost \in Nat /\ turns.hits \in Nat
  BY <1>1 DEF Turns
<1> QED BY <1>4, <1>5, <1>6 DEF a, b, l, h

(* The ends as an activation leaves them.                                  *)
LEMMA InitialState ==
  /\ I!InitInitiator \in I!Initiator /\ I!InitInitiator.at = "idle"
  /\ I!InitInitiator.status = "SUCCESS" /\ I!InitInitiator.retransmit = FALSE
  /\ T!InitTarget \in T!Target /\ T!InitTarget.at = "listen" /\ T!InitTarget.repeat = FALSE
  /\ T!InitTarget.raw = 0 /\ T!InitTarget.length = 0 /\ T!InitTarget.prev = 0
  /\ InitTurns \in Turns
<1>1. I!InitInitiator \in I!Initiator
  <2>1. <<>> \in Seq(I!Block) /\ I!NoFrame \in I!Frame /\ "NONE" \in I!Kinds /\ 0 \in 0 .. MaxRetryCount
        /\ 0 \in 0 .. MaxBlocks
    BY InitiatorNames, FramesTyped, RetryAssumption, BlocksAssumption DEF Kinds
  <2> QED BY <2>1 DEF I!InitInitiator, I!Initiator
<1>2. T!InitTarget \in T!Target
  <2>1. /\ [k \in 1 .. RxRoom + 1 |-> T!NoBlock] \in [1 .. RxRoom + 1 -> T!Block]
        /\ 0 \in 0 .. RxRoom + 1 /\ 0 \in 0 .. RxRoom /\ 0 \in 0 .. PniModulus - 1 /\ 0 \in 0 .. MaxBlocks
    BY TargetNames, FramesTyped, RoomAssumption, ModulusAssumption, BlocksAssumption
  <2> QED BY <2>1 DEF T!InitTarget, T!Target
<1>3. InitTurns \in Turns
  BY DEF InitTurns, Turns
<1> QED BY <1>1, <1>2, <1>3 DEF I!InitInitiator, T!InitTarget

(* The invariant holds at first, and every step keeps it.                  *)
LEMMA InitFollows == Init => FollowInv
BY InitialState, ControlFrames
   DEF Init, FollowInv, TypeOK, Counts, TargetCounts, Steady, Ends, I!InSession

LEMMA ActivateFollows == Activate => FollowInv'
BY InitialState, ControlFrames
   DEF Activate, FollowInv, TypeOK, Counts, TargetCounts, Steady, Ends, I!InSession

LEMMA FailsFollows ==
  ASSUME FollowInv, Fails, ini' \in I!Initiator, tgt' = tgt, turns' \in Turns, tgt.at # "app"
  PROVE  FollowInv'
BY ControlFrames DEF FollowInv, Fails, TypeOK, Counts, TargetCounts, Steady, Ends, I!InSession

(* A new call begins where the target listens.                             *)
LEMMA CallFollows ==
  ASSUME FollowInv, Call
  PROVE  FollowInv'
<1>1. /\ I!InSession /\ ini.at = "idle" /\ ini.status = "SUCCESS" /\ tgt.at = "listen" /\ ~ini.retransmit
      /\ tgt' = tgt /\ TypeOK /\ TargetCounts
  BY DEF Call, I!Exchange, I!PresCheck, I!Deselect, I!InSession, FollowInv, Ends, Counts
<1>2. ASSUME NEW n \in 1 .. MaxBlocks, I!Exchange(n),
             turns' = [turns EXCEPT !.asked = @ + 1, !.taken = 0, !.lost = 0, !.twice = FALSE]
      PROVE  FollowInv'
  <2>1. /\ ini' \in I!Initiator
        /\ air' = Chunk("T", ini.pni, NextMessage(ini.msg), n, n) /\ ini'.frame = air'
        /\ ini'.at = "exchange" /\ ini'.mode = "TX" /\ ini'.chaining = (n > 1)
        /\ ini'.retransmit = ini.retransmit /\ ini'.size = n /\ ini'.left = n
        /\ ini'.status = "BUSY" /\ ini'.sent = "I"
    BY <1>1, <1>2, ExchangeEffect
  <2>2. air' \in Frame /\ air'.to = "T" /\ air'.kind # "ATN"
    <3>1. ini.pni \in Pni /\ NextMessage(ini.msg) \in {0, 1} /\ n \in 0 .. MaxBlocks /\ n \in 1 .. n
      BY <1>1, TwoBits, BlocksAssumption DEF TypeOK, I!Initiator, NextMessage
    <3> QED BY <2>1, <3>1, ChunkTyped
  <2>3. turns' \in Turns
    <3>1. turns \in Turns /\ turns.asked + 1 \in Nat
      BY <1>1 DEF TypeOK, Turns
    <3>2. PICK a \in Nat, b \in BOOLEAN : a = turns.asked + 1 /\ b = FALSE
      BY <3>1
    <3>3. turns' = [turns EXCEPT !.asked = a, !.taken = 0, !.lost = 0, !.twice = b]
      BY <1>2, <3>2
    <3> QED BY <3>1, <3>3 DEF Turns
  <2>4. n \in 1 .. n
    OBVIOUS
  <2>5. Steady'
    BY <1>1, <2>1, <2>2 DEF Steady
  <2> QED BY <1>1, <2>1, <2>2, <2>3, <2>4, <2>5
          DEF FollowInv, TypeOK, Counts, TargetCounts, Ends, I!InSession
<1>3. ASSUME I!PresCheck, turns' = turns
      PROVE  FollowInv'
  BY <1>1, <1>3, OneFrameCalls, ControlFrames
  DEF FollowInv, TypeOK, Counts, TargetCounts, Steady, Ends, I!InSession
<1>4. ASSUME I!Deselect, turns' = turns
      PROVE  FollowInv'
  BY <1>1, <1>4, OneFrameCalls, ControlFrames
  DEF FollowInv, TypeOK, Counts, TargetCounts, Steady, Ends, I!InSession
<1> QED BY <1>2, <1>3, <1>4 DEF Call

(* Whatever the initiator receives.                                        *)
LEMMA ReceiveFollows ==
  ASSUME FollowInv, I!Receive, tgt' = tgt, turns' \in Turns
  PROVE  FollowInv'
<1>1. /\ ini' \in I!Initiator /\ ini.at = "exchange" /\ air.to = "I" /\ tgt.at # "app" /\ air # NoFrame
      /\ TypeOK /\ Counts /\ Steady /\ Ends
  BY ReceiveOutcome, ControlFrames DEF I!Receive, FollowInv, Ends
<1>2. CASE Fails
  BY <1>1, <1>2, FailsFollows
<1>3. CASE SendsAgain
  <2>1. air' \in Frame /\ air'.to = "T" /\ air'.kind # "ATN" /\ ini.frame \in Frame
    BY <1>1, <1>3, ControlFrames, InitiatorNames DEF SendsAgain, Steady, TypeOK, I!Initiator
  <2>2. Counts'
    BY <1>1, <1>3 DEF SendsAgain, Counts, TargetCounts
  <2>3. Steady'
    BY <1>1, <1>3, <2>1 DEF SendsAgain, Steady
  <2>4. Ends'
    BY <1>1, <1>3, <2>1 DEF SendsAgain, Ends, I!InSession
  <2> QED BY <1>1, <2>1, <2>2, <2>3, <2>4 DEF FollowInv, TypeOK
<1>4. CASE SendsNext
  <2>1. /\ ini'.pni \in Pni /\ ini.msg \in {0, 1} /\ ini.size \in 0 .. MaxBlocks
        /\ ini.left - 1 \in 1 .. ini.size
    BY <1>1, <1>4, TwoBits, BlocksAssumption DEF SendsNext, Counts, TypeOK, I!Initiator
  <2>2. air' \in Frame /\ air'.to = "T" /\ air'.kind # "ATN"
    BY <1>4, <2>1, ChunkTyped DEF SendsNext
  <2>3. Counts'
    BY <1>1, <1>4, <2>1 DEF SendsNext, Counts, TargetCounts
  <2>4. Steady'
    BY <1>1, <1>4, <2>1, <2>2 DEF SendsNext, Steady
  <2>5. Ends'
    BY <1>1, <1>4, <2>2 DEF SendsNext, Ends, I!InSession
  <2> QED BY <1>1, <2>2, <2>3, <2>4, <2>5 DEF FollowInv, TypeOK
<1>5. CASE AsksNext
  <2>1. ini'.pni \in 0 .. 3
    BY <1>1 DEF I!Initiator
  <2>2. air' \in Frame /\ air'.to = "T" /\ air'.kind = "ACK"
    BY <1>5, <2>1, ResponseTyped DEF AsksNext
  <2>3. Counts'
    BY <1>1, <1>5 DEF AsksNext, Counts, TargetCounts
  <2>4. Steady'
    BY <1>1, <1>5, <2>2 DEF AsksNext, Steady
  <2>5. Ends'
    BY <1>1, <1>5, <2>2 DEF AsksNext, Ends, I!InSession
  <2> QED BY <1>1, <2>2, <2>3, <2>4, <2>5 DEF FollowInv, TypeOK
<1>6. CASE Succeeds
  BY <1>1, <1>6, ControlFrames
  DEF FollowInv, TypeOK, Counts, TargetCounts, Steady, Ends, I!InSession, Succeeds
<1> QED BY <1>1, <1>2, <1>3, <1>4, <1>5, <1>6, ReceiveOutcome

LEMMA AnsweredFollows ==
  ASSUME FollowInv, I!Answered, tgt' = tgt, turns' \in Turns
  PROVE  FollowInv'
<1>1. /\ ini' \in I!Initiator /\ air' = NoFrame /\ ini'.at = "idle" /\ tgt.at # "app"
      /\ ini.at \in {"presence", "deselect"} /\ air.to = "I" /\ air # NoFrame
  BY AnsweredEffect, InitiatorNames DEF FollowInv, Ends, I!Answered
<1>2. \/ ini'.status = "PROTOCOL_ERROR"
      \/ /\ ini.at = "presence" /\ ini'.status = "SUCCESS" /\ ini'.retransmit = ini.retransmit
      \/ ini.at = "deselect" /\ ini'.status = "DESELECTED"
  BY AnsweredEffect DEF FollowInv
<1> QED BY <1>1, <1>2, ControlFrames
        DEF FollowInv, TypeOK, Counts, TargetCounts, Steady, Ends, I!InSession

(* Whatever it does not receive.                                           *)
LEMMA NoResponseFollows ==
  ASSUME FollowInv, NEW damaged \in BOOLEAN, I!NoResponse(damaged), tgt' = tgt, turns' \in Turns,
         tgt.at # "app"
  PROVE  FollowInv'
<1>1. /\ ini' \in I!Initiator /\ ini.at = "exchange" /\ TypeOK /\ Counts /\ Steady /\ Ends
  BY NoResponseOutcome DEF FollowInv, I!NoResponse
<1>2. CASE Fails
  BY <1>1, <1>2, FailsFollows
<1>3. CASE Asks("ATN") /\ ini'.retransmit = (ini.retransmit \/ ini.mode = "TX")
  <2>1. ini'.retransmit <=> (ini.retransmit \/ ini.mode = "TX")
    BY <1>3, Zenon
  <2>2. Steady'
    BY <1>1, <1>3, <2>1 DEF Asks, Steady
  <2> QED BY <1>1, <1>3, <2>2 DEF FollowInv, TypeOK, Counts, TargetCounts, Ends, I!InSession, Asks
<1>4. CASE Asks("NACK") /\ ini'.retransmit = ini.retransmit
  <2>1. Steady'
    BY <1>1, <1>4 DEF Asks, Steady
  <2> QED BY <1>1, <1>4, <2>1 DEF FollowInv, TypeOK, Counts, TargetCounts, Ends, I!InSession, Asks
<1> QED BY <1>1, <1>2, <1>3, <1>4, NoResponseOutcome

LEMMA NotAnsweredFollows ==
  ASSUME FollowInv, I!NotAnswered, tgt' = tgt, turns' \in Turns, tgt.at # "app"
  PROVE  FollowInv'
<1>1. /\ ini' \in I!Initiator /\ ini.at \in {"presence", "deselect"} /\ TypeOK /\ Counts /\ Steady /\ Ends
  BY NotAnsweredOutcome DEF FollowInv, I!NotAnswered
<1>2. CASE Fails
  BY <1>1, <1>2, FailsFollows
<1>3. CASE /\ air' = Supervisory("T", ini.sent) /\ air' \in Frame
           /\ ini'.sent = ini.sent /\ ini'.at = ini.at /\ ini'.status = ini.status
           /\ ini'.retransmit = ini.retransmit
  <2>1. air'.to = "T" /\ air'.kind = ini.sent
    BY <1>1, <1>3, ControlFrames DEF Ends
  <2> QED BY <1>1, <1>3, <2>1 DEF FollowInv, TypeOK, Counts, TargetCounts, Steady, Ends, I!InSession
<1> QED BY <1>1, <1>2, <1>3, NotAnsweredOutcome

(* Whatever the target receives, or does not.                              *)
LEMMA TargetReceiveFollows ==
  ASSUME FollowInv, T!TargetReceive, ini' = ini, turns' \in Turns
  PROVE  FollowInv'
<1>1. /\ air # NoFrame /\ air.to = "T" /\ ini.at # "idle" /\ TypeOK /\ Counts /\ Steady /\ Ends
      /\ tgt' \in T!Target /\ air' \in Frame /\ TargetCounts' /\ TargetOutcome
      /\ ini.at \in {"idle", "exchange", "presence", "deselect"}
  BY TargetReceiveOutcome, TargetNames DEF FollowInv, Counts, Ends, T!TargetReceive, TypeOK, I!Initiator
<1>2. Counts' /\ Steady' /\ TypeOK'
  BY <1>1 DEF Counts, Steady, TypeOK
<1>3. Ends'
  <2>1. CASE /\ air' = NoFrame /\ tgt'.at = "off" /\ tgt.at \in {"listen", "chain", "send"}
             /\ air.kind # "ATN" /\ (tgt.at = "listen" => air.kind = "I")
    BY <1>1, <2>1, ControlFrames DEF Ends, I!InSession
  <2>2. CASE air' = NoFrame /\ tgt'.at = tgt.at /\ tgt.at # "app"
    BY <1>1, <2>2, ControlFrames DEF Ends, I!InSession
  <2>3. CASE air' = NoFrame /\ tgt'.at = "app" /\ air.kind \in {"I", "ACK", "NACK"}
    BY <1>1, <2>3, ControlFrames DEF Ends, I!InSession
  <2>4. CASE air' = Supervisory("I", "ATN") /\ tgt'.at = tgt.at /\ tgt.at # "app" /\ air.kind = "ATN"
    BY <1>1, <2>4, ControlFrames DEF Ends, I!InSession
  <2>5. CASE air' = Supervisory("I", "DSL") /\ tgt'.at = "off" /\ air.kind = "DSL"
    BY <1>1, <2>5, ControlFrames DEF Ends, I!InSession
  <2>6. CASE air'.to = "I" /\ air'.kind \in {"ACK", "BAD"} /\ tgt'.at = "chain" /\ air.kind = "I"
    BY <1>1, <2>6, ControlFrames DEF Ends, I!InSession
  <2>7. CASE /\ air'.to = "I" /\ air'.kind \in {"I", "BAD"} /\ tgt'.at \in {"send", "listen"}
             /\ air'.kind = "I" /\ ~air'.more => tgt'.at = "listen"
             /\ air.kind = "ACK"
    BY <1>1, <2>7, ControlFrames DEF Ends, I!InSession
  <2> QED BY <1>1, <2>1, <2>2, <2>3, <2>4, <2>5, <2>6, <2>7 DEF TargetOutcome
<1> QED BY <1>2, <1>3 DEF FollowInv

(* A target that waits in TransceivePdu fails, another one stays.          *)
LEMMA TargetFailsEffect ==
  ASSUME TypeOK, TargetCounts, T!TargetFails
  PROVE  /\ tgt' \in T!Target /\ air' = NoFrame /\ TargetCounts'
         /\ \/ tgt.at \in {"chain", "send"} /\ tgt'.at = "off"
            \/ tgt.at \notin {"chain", "send"} /\ tgt' = tgt
<1>1. CASE tgt.at \in {"chain", "send"}
  BY <1>1, FailEffect DEF TypeOK, T!TargetFails, TargetCounts
<1>2. CASE tgt.at \notin {"chain", "send"}
  BY <1>2, TargetNames DEF TypeOK, T!TargetFails, T!Silent, T!Reply, TargetCounts
<1> QED BY <1>1, <1>2

LEMMA TargetFailsFollows ==
  ASSUME FollowInv, T!TargetFails, ini' = ini, turns' \in Turns
  PROVE  FollowInv'
<1>1. /\ tgt' \in T!Target /\ air' = NoFrame /\ TargetCounts'
      /\ \/ tgt.at \in {"chain", "send"} /\ tgt'.at = "off"
         \/ tgt.at \notin {"chain", "send"} /\ tgt' = tgt
  BY TargetFailsEffect DEF FollowInv, Counts
<1>2. Counts' /\ Steady' /\ TypeOK'
  BY <1>1, ControlFrames DEF FollowInv, Counts, Steady, TypeOK
<1>3. Ends'
  BY <1>1, ControlFrames DEF FollowInv, Ends, I!InSession
<1> QED BY <1>2, <1>3 DEF FollowInv

(* What the layer above the target begins to send.                         *)
LEMMA DepSendEffect ==
  ASSUME TypeOK, NEW n \in 1 .. MaxBlocks, T!DepSend(n)
  PROVE  /\ tgt.at = "app"
         /\ tgt' \in T!Target /\ air' = Chunk("I", tgt.pni, NextMessage(tgt.msg), n, n)
         /\ air' \in Frame /\ air'.to = "I"
         /\ tgt'.raw = 0 /\ tgt'.length = 0 /\ tgt'.prev = 0 /\ tgt'.repeat = tgt.repeat
         /\ tgt'.msg = NextMessage(tgt.msg) /\ tgt'.size = n
         /\ \/ n > 1 /\ tgt'.at = "send" /\ tgt'.left = n /\ tgt'.pni = tgt.pni
            \/ n = 1 /\ tgt'.at = "listen"
<1> DEFINE c == T!Clear(tgt)
           t == [c EXCEPT !.msg = NextMessage(tgt.msg), !.size = n, !.left = n]
<1>1. /\ c \in T!Target /\ c.raw = 0 /\ c.length = 0 /\ c.prev = 0 /\ c.at = tgt.at
      /\ c.pni = tgt.pni /\ c.repeat = tgt.repeat /\ c.msg = tgt.msg
  BY ClearEffect DEF TypeOK
<1>2. /\ NextMessage(tgt.msg) \in {0, 1} /\ n \in 0 .. MaxBlocks /\ n \in 1 .. n
      /\ tgt.pni \in Pni
  BY TargetTyped, BlocksAssumption DEF TypeOK, NextMessage
<1> HIDE DEF c
<1>3. /\ t \in T!Target /\ t.raw = 0 /\ t.length = 0 /\ t.prev = 0
      /\ t.pni = tgt.pni /\ t.repeat = tgt.repeat /\ t.msg = NextMessage(tgt.msg)
      /\ t.size = n /\ t.left = n
  BY <1>1, <1>2 DEF T!Target
<1>4. T!SendBlock(t) /\ tgt.at = "app"
  BY <1>1, TargetNames DEF T!DepSend, c
<1> HIDE DEF t
<1>5. /\ tgt' \in T!Target /\ air' = Chunk("I", t.pni, t.msg, t.size, t.left)
      /\ tgt'.raw = t.raw /\ tgt'.length = t.length
      /\ tgt'.prev = t.prev /\ tgt'.repeat = t.repeat /\ tgt'.msg = t.msg /\ tgt'.size = t.size
      /\ \/ t.left > 1 /\ tgt'.at = "send" /\ tgt'.left = t.left /\ tgt'.pni = t.pni
         \/ t.left = 1 /\ tgt'.at = "listen"
  BY <1>2, <1>3, <1>4, SendBlockEffect
<1>6. air' \in Frame /\ air'.to = "I"
  BY <1>2, <1>3, <1>5, ChunkTyped
<1> QED BY <1>3, <1>4, <1>5, <1>6

LEMMA TargetAnswerFollows ==
  ASSUME FollowInv, TargetAnswer
  PROVE  FollowInv'
<1>1. PICK n \in 1 .. MaxBlocks : T!DepSend(n)
  BY DEF TargetAnswer
<1>2. ini' = ini /\ turns' = turns /\ TypeOK
  BY DEF TargetAnswer, FollowInv
<1>3. /\ tgt.at = "app"
      /\ tgt' \in T!Target /\ air' = Chunk("I", tgt.pni, NextMessage(tgt.msg), n, n)
      /\ air' \in Frame /\ air'.to = "I" /\ tgt'.raw = 0 /\ tgt'.length = 0 /\ tgt'.size = n
      /\ \/ n > 1 /\ tgt'.at = "send" /\ tgt'.left = n
         \/ n = 1 /\ tgt'.at = "listen"
  BY <1>1, <1>2, DepSendEffect
<1>4. air'.kind = "I" => (air'.more <=> n > 1)
  <2>1. tgt.pni \in Pni /\ NextMessage(tgt.msg) \in {0, 1} /\ n \in 0 .. MaxBlocks /\ n \in 1 .. n
    BY <1>2, TargetTyped, BlocksAssumption DEF TypeOK, NextMessage
  <2> QED BY <1>3, <2>1, ChunkTyped
<1>5. Counts' /\ Steady' /\ TypeOK'
  BY <1>2, <1>3 DEF FollowInv, Counts, TargetCounts, Steady, TypeOK
<1>6. Ends'
  BY <1>2, <1>3, <1>4 DEF FollowInv, Ends, I!InSession
<1> QED BY <1>5, <1>6 DEF FollowInv

(* Every step keeps the invariant.                                         *)
LEMMA NextFollows ==
  ASSUME FollowInv, [Next]_vars
  PROVE  FollowInv'
<1>1. CASE Call
  BY <1>1, CallFollows
<1>2. CASE InitiatorReceive
  <2>1. tgt' = tgt /\ turns' \in Turns
    BY <1>2, CountTyped DEF InitiatorReceive, FollowInv
  <2> QED BY <1>2, <2>1, ReceiveFollows, AnsweredFollows DEF InitiatorReceive
<1>3. CASE InitiatorTimeout
  <2>1. tgt' = tgt /\ turns' \in Turns /\ tgt.at # "app"
    BY <1>3 DEF InitiatorTimeout, FollowInv, TypeOK, TargetBusy
  <2> QED BY <1>3, <2>1, NoResponseFollows, NotAnsweredFollows DEF InitiatorTimeout
<1>4. CASE HalError
  <2>1. tgt' = tgt /\ turns' \in Turns /\ tgt.at # "app" /\ ini' \in I!Initiator /\ Fails
    BY <1>4, HalErrorEffect DEF HalError, FollowInv, TypeOK, TargetBusy
  <2> QED BY <2>1, FailsFollows
<1>5. CASE TargetReceive
  <2>1. ini' = ini /\ turns' \in Turns
    <3>1. HandedUp \in BOOLEAN
      BY DEF HandedUp
    <3> QED BY <1>5, <3>1, CountTyped DEF TargetReceive, FollowInv
  <2> QED BY <1>5, <2>1, TargetReceiveFollows DEF TargetReceive
<1>6. CASE TargetAnswer
  BY <1>6, TargetAnswerFollows
<1>7. CASE TargetTimeout
  BY <1>7, TargetFailsFollows DEF TargetTimeout, FollowInv, TypeOK
<1>8. CASE Lose
  <2>1. ini' = ini /\ tgt' = tgt /\ air' = NoFrame /\ turns' \in Turns
    <3>1. (~Recoverable) \in BOOLEAN /\ (AckLost /\ tgt.prev = 0) \in BOOLEAN
      BY DEF AckLost
    <3> QED BY <1>8, <3>1, CountTyped DEF Lose, FollowInv
  <2> QED BY <2>1, ControlFrames DEF FollowInv, TypeOK, Counts, TargetCounts, Steady, Ends, I!InSession
<1>9. CASE DamageToTarget
  <2>1. ini' = ini /\ turns' \in Turns
    <3>1. (~Unheard) \in BOOLEAN
      OBVIOUS
    <3> QED BY <1>9, <3>1, CountTyped DEF DamageToTarget, FollowInv
  <2> QED BY <1>9, <2>1, TargetFailsFollows DEF DamageToTarget
<1>10. CASE DamageToInitiator
  <2>1. tgt' = tgt /\ turns' \in Turns /\ tgt.at # "app"
    BY <1>10, CountTyped DEF DamageToInitiator, FollowInv, Ends
  <2> QED BY <1>10, <2>1, NoResponseFollows, NotAnsweredFollows DEF DamageToInitiator
<1>11. CASE Activate
  BY <1>11, ActivateFollows
<1>12. CASE UNCHANGED vars
  BY <1>12 DEF vars, FollowInv, TypeOK, Counts, TargetCounts, Steady, Ends, I!InSession
<1> QED BY <1>1, <1>2, <1>3, <1>4, <1>5, <1>6, <1>7, <1>8, <1>9, <1>10, <1>11, <1>12 DEF Next

(* The inductive invariant of the session.                                 *)
THEOREM FollowsInvariant == Spec => []FollowInv
<1>1. Init => FollowInv
  BY InitFollows
<1>2. FollowInv /\ [Next]_vars => FollowInv'
  BY NextFollows
<1> QED BY <1>1, <1>2, PTL DEF Spec

(* Numbers stay in their ranges, lengths within the buffers.               *)
THEOREM TypeCorrect == Spec => []TypeOK
<1>1. FollowInv => TypeOK
  BY DEF FollowInv
<1> QED BY <1>1, FollowsInvariant, PTL

(* After a call that succeeds the target listens, and after a deselect     *)
(* that is answered it is deactivated, whatever was lost in between.       *)
THEOREM TargetFollowsCorrect == Spec => []TargetFollows
<1>1. FollowInv => TargetFollows
  BY DEF FollowInv, Ends, TargetFollows
<1> QED BY <1>1, FollowsInvariant, PTL

-----------------------------------------------------------------------------
(***************************************************************************)
(* What NFC-DEP carries, with attentions switched on, as they are by       *)
(* default: the messages reach the layer above and the caller whole, the   *)
(* former with a block too much after a lost ACK of its first, unless a    *)
(* session meets a loss from which the target does not recover.            *)
(***************************************************************************)

(* Messages block by block. *)

(* A message with its next block, without one, and in the buffer.          *)
LEMMA WholeGrows ==
  ASSUME NEW m \in {0, 1}, NEW n \in 0 .. MaxBlocks - 1
  PROVE  Whole(m, n) \in Seq(Block) /\ Append(Whole(m, n), <<m, n + 1>>) = Whole(m, n + 1)
<1>1. n \in Nat /\ \A k \in 1 .. n : <<m, k>> \in Block
  BY BlocksAssumption DEF Block
<1>2. Whole(m, n) \in Seq(Block) /\ Len(Whole(m, n)) = n
  BY <1>1 DEF Whole
<1> QED BY <1>1, <1>2 DEF Whole

LEMMA WholeEmpty == \A m : Whole(m, 0) = <<>>
BY DEF Whole

LEMMA MessageWhole ==
  ASSUME NEW data \in [1 .. RxRoom + 1 -> Block], NEW m, NEW n \in 0 .. RxRoom,
         \A k \in 1 .. n : data[k] = <<m, k>>
  PROVE  SubSeq(data, 1, n) = Whole(m, n)
<1>1. RxRoom \in Nat /\ n \in Nat
  BY RoomAssumption
<1>2. SubSeq(data, 1, n) = [k \in 1 .. (1 + n - 1) |-> data[k + 1 - 1]]
  OBVIOUS
<1>3. \A k \in 1 .. n : k + 1 - 1 = k
  OBVIOUS
<1> QED BY <1>1, <1>2, <1>3 DEF Whole

-----------------------------------------------------------------------------
(* The stages of an exchange that meets no loss but those it recovers from. *)

(* The target waits for a message, with nothing of the last one left.      *)
Ready == tgt.at = "listen" /\ tgt.prev = 0 /\ ~tgt.repeat

(* The block in hand was sent just now, or an attention stands in for it. *)
Fresh == ini.sent = "I" /\ ~ini.retransmit
Insists == ini.sent = "ATN" /\ ini.retransmit /\ ini.backup

(* A block of the message is being sent; nothing has been received.        *)
Sending ==
  /\ ini.at = "exchange" /\ ini.mode = "TX" /\ ini.left \in 1 .. ini.size
  /\ ini.chaining <=> ini.left > 1
  /\ ini.received = <<>>
  /\ ini.frame = Chunk("T", ini.pni, ini.msg, ini.size, ini.left)

(* The target holds the first n blocks of the message.                     *)
Holds(n) ==
  /\ tgt.raw = n /\ ~tgt.repeat
  /\ \A k \in 1 .. n : tgt.data[k] = <<ini.msg, k>>

(* It counts one more if its first block was copied behind itself.         *)
Announces == tgt.length = IF turns.twice THEN tgt.raw + 1 ELSE tgt.raw

NextPni == INCREMENT_PNI(ini.pni)

(* The first block has not arrived.                                        *)
Begins ==
  /\ Sending /\ ini.left = ini.size /\ Ready /\ ~turns.twice
  /\ \/ air \in {ini.frame, NoFrame} /\ Fresh
     \/ air \in {NoFrame, Supervisory("I", "ATN"), Supervisory("T", "ATN")} /\ Insists

(* A later block is under way to the target.                               *)
Continues ==
  /\ Sending /\ ini.left < ini.size /\ Fresh /\ air = ini.frame
  /\ tgt.at = "chain" /\ Holds(ini.size - ini.left) /\ Announces
  /\ tgt.pni = ini.pni /\ tgt.prePni = ini.pni

(* The target has the block, and its ACK is under way.                     *)
Acked ==
  /\ Sending /\ ini.left > 1 /\ Fresh /\ air = Response("I", "ACK", ini.pni)
  /\ tgt.at = "chain" /\ Holds(ini.size - ini.left + 1) /\ Announces
  /\ tgt.prev = 0 => ~turns.twice
  /\ tgt.pni = NextPni /\ tgt.prePni = NextPni

(* The ACK was lost: an attention sets the target's packet number back, so *)
(* that the block that comes again is copied over itself, or behind.       *)
Unacked ==
  /\ Sending /\ ini.left > 1
  /\ tgt.at = "chain" /\ Holds(ini.size - ini.left + 1) /\ tgt.prePni = NextPni
  /\ IF tgt.prev = 0 THEN turns.twice /\ tgt.length = tgt.raw ELSE Announces
  /\ \/ tgt.pni = NextPni /\ air = NoFrame /\ (Fresh \/ Insists)
     \/ tgt.pni = NextPni /\ air = Supervisory("T", "ATN") /\ Insists
     \/ tgt.pni = DecrementPni(NextPni) /\ air = Supervisory("I", "ATN") /\ Insists
     \/ tgt.pni = DecrementPni(NextPni) /\ air = ini.frame /\ Fresh

(* The packet number was set back from 0, and spoils the next ACK.         *)
Spoilt == Sending /\ tgt.at = "chain" /\ air = Supervisory("I", "BAD")

(* The message, a block too long, may not fit: the target is deactivated.  *)
Full ==
  /\ Sending /\ tgt.at = "off"
  /\ \/ air = NoFrame /\ Fresh
     \/ air \in {NoFrame, Supervisory("T", "ATN")} /\ Insists

(* The layer above the target has the whole message.                       *)
HasMessage ==
  /\ Sending /\ ini.left = 1 /\ Fresh /\ air = NoFrame
  /\ tgt.at = "app" /\ tgt.prev = 0 /\ Holds(ini.size) /\ Announces /\ tgt.pni = ini.pni

(* The initiator has all but the last left blocks of the answer.           *)
Receiving(left) ==
  /\ ini.at = "exchange" /\ ~ini.retransmit
  /\ ini.received = Whole(tgt.msg, tgt.size - left)
  /\ \/ ini.mode = "TX" /\ ini.left = 1 /\ ~ini.chaining /\ left = tgt.size
     \/ ini.mode = "RX" /\ ini.chaining /\ left < tgt.size

(* A block of the answer is under way; or the ACK that asks for the next.  *)
Answers ==
  \E left \in 1 .. tgt.size :
    /\ Receiving(left)
    /\ air = Chunk("I", ini.pni, tgt.msg, tgt.size, left)
    /\ tgt.prev = 0 /\ ~tgt.repeat
    /\ \/ left = 1 /\ tgt.at = "listen"
       \/ left > 1 /\ tgt.at = "send" /\ tgt.left = left /\ tgt.pni = ini.pni

Wants ==
  \E left \in 1 .. tgt.size - 1 :
    /\ Receiving(left)
    /\ air = Response("T", "ACK", ini.pni)
    /\ tgt.prev = 0 /\ ~tgt.repeat
    /\ tgt.at = "send" /\ tgt.left = left + 1 /\ INCREMENT_PNI(tgt.pni) = ini.pni

(* The stages before the target has the message, and after.                *)
Sends == Begins \/ Continues \/ Acked \/ Unacked \/ Spoilt \/ Full
Replies == HasMessage \/ Answers \/ Wants

(* The last exchange is complete: its answer was received whole.           *)
Complete == Ready /\ (turns.asked > 0 => ini.received = Whole(tgt.msg, tgt.size))

(* The stage that the session is in, unless it met a hit.                  *)
Sync ==
  turns.hits = 0 =>
    /\ I!InSession \/ ini.at = "presence" => Complete
    /\ ini.at = "exchange" => Sends \/ Replies

-----------------------------------------------------------------------------
(* From stage to stage. *)

(* What the block in hand is.                                              *)
LEMMA SendingFrame ==
  ASSUME TypeOK, Sending
  PROVE  /\ ini.frame \in Frame /\ ini.frame.to = "T" /\ ini.frame.kind = "I"
         /\ ini.frame.pni = ini.pni /\ (ini.frame.more <=> ini.left > 1)
         /\ ini.frame.block = <<ini.msg, ini.size - ini.left + 1>>
         /\ ini.pni \in 0 .. 3 /\ NextPni \in 0 .. 3 /\ DecrementPni(ini.pni) # ini.pni
         /\ NextPni # 0 => DecrementPni(NextPni) = ini.pni
         /\ NextPni = 0 => DecrementPni(NextPni) > 3
         /\ DecrementPni(NextPni) \in Pni /\ DecrementPni(NextPni) # NextPni
         /\ ini.size \in 0 .. MaxBlocks /\ ini.size <= RxRoom
         /\ RxRoom \in Nat /\ ini.left \in Nat /\ ini.size \in Nat
<1>1. ini.pni \in 0 .. 3 /\ ini.msg \in {0, 1} /\ ini.size \in 0 .. MaxBlocks /\ ini.left \in 1 .. ini.size
  BY DEF TypeOK, I!Initiator, Sending
<1>2. ini.pni \in Pni
  BY <1>1, TwoBits
<1>3. /\ ini.frame \in Frame /\ ini.frame.to = "T" /\ ini.frame.kind = "I"
      /\ ini.frame.pni = ini.pni /\ (ini.frame.more <=> ini.left > 1)
      /\ ini.frame.block = <<ini.msg, ini.size - ini.left + 1>>
  BY <1>1, <1>2, ChunkTyped DEF Sending
<1>4. NextPni \in 0 .. 3 /\ DecrementPni(ini.pni) # ini.pni
  BY <1>1, <1>2, PacketNumbers DEF NextPni
<1>5. /\ NextPni # 0 => DecrementPni(NextPni) = ini.pni
      /\ NextPni = 0 => DecrementPni(NextPni) > 3
      /\ DecrementPni(NextPni) \in Pni /\ DecrementPni(NextPni) # NextPni
  <2>1. NextPni # 0 => NextPni = ini.pni + 1
    BY <1>1, PacketNumbers DEF NextPni
  <2>2. /\ DecrementPni(NextPni) = IF NextPni = 0 THEN PniModulus - 1 ELSE NextPni - 1
        /\ DecrementPni(NextPni) \in Pni /\ DecrementPni(NextPni) # NextPni
    BY <1>4, TwoBits, PacketNumbers
  <2> QED BY <1>1, <2>1, <2>2, ModulusAssumption
<1>6. ini.size <= RxRoom /\ RxRoom \in Nat /\ ini.left \in Nat /\ ini.size \in Nat
  BY <1>1, RoomAssumption, BlocksAssumption
<1> QED BY <1>1, <1>3, <1>4, <1>5, <1>6

(* What the target does with a frame that it expects.                      *)
LEMMA TargetExpects ==
  ASSUME T!TargetReceive
  PROVE  /\ air # NoFrame /\ air.to = "T"
         /\ tgt.at = "listen" /\ air.kind = "ATN" => T!Attention(tgt)
         /\ tgt.at = "listen" /\ air.kind = "I" =>
              IF air.more THEN T!Acknowledge(T!FirstBlock(air)) ELSE T!HandUp(T!FirstBlock(air))
         /\ tgt.at = "chain" /\ air.kind = "ATN" => T!Attention(tgt)
         /\ tgt.at = "chain" /\ air.kind = "I" /\ ~tgt.repeat => T!NextChained(air)
         /\ tgt.at = "send" /\ air.kind = "ACK" /\ ~tgt.repeat =>
              T!SendBlock([[tgt EXCEPT !.pni = T!INCREMENT_PNI(@)] EXCEPT !.left = @ - 1])
BY TargetNames DEF T!TargetReceive, T!Listen, T!DslRes, T!TransceivePdu

(* A new exchange.                                                         *)
LEMMA ExchangeBegins ==
  ASSUME TypeOK, Ready, ~ini.retransmit, tgt' = tgt, ~turns'.twice, NEW n \in 1 .. MaxBlocks,
         I!Exchange(n)
  PROVE  Begins'
<1>1. /\ air' = Chunk("T", ini.pni, NextMessage(ini.msg), n, n) /\ ini'.frame = air'
      /\ ini'.at = "exchange" /\ ini'.mode = "TX" /\ ini'.chaining = (n > 1)
      /\ ini'.retransmit = ini.retransmit /\ ini'.pni = ini.pni
      /\ ini'.msg = NextMessage(ini.msg) /\ ini'.size = n /\ ini'.left = n
      /\ ini'.received = <<>> /\ ini'.sent = "I"
  BY ExchangeEffect
<1>2. ini'.chaining <=> n > 1
  BY <1>1, Zenon
<1>3. n \in 1 .. n
  OBVIOUS
<1>4. Sending'
  BY <1>1, <1>2, <1>3 DEF Sending
<1> QED BY <1>1, <1>4 DEF Begins, Ready, Fresh

(* The target takes the first block, or answers an attention.              *)
LEMMA BeginsTargetReceives ==
  ASSUME TypeOK, Begins, T!TargetReceive, ini' = ini, turns'.twice <=> turns.twice
  PROVE  Begins' \/ Acked' \/ HasMessage'
<1> USE DEF Ready
<1>1. /\ Sending /\ Sending' /\ tgt.at = "listen" /\ tgt \in T!Target
      /\ air \in Frame /\ air # NoFrame /\ air.to = "T"
  BY TargetExpects DEF Begins, TypeOK, Sending
<1>2. CASE air = ini.frame /\ Fresh
  <2> DEFINE t == T!FirstBlock(air)
  <2>1. air.kind = "I" /\ (air.more <=> ini.left > 1)
    BY <1>1, <1>2, SendingFrame
  <2>2. /\ t \in T!Target /\ t.pni = ini.pni /\ t.prev = 0
        /\ ~t.repeat /\ t.raw = 1 /\ t.length = 1 /\ t.data[1] = <<ini.msg, 1>>
    BY <1>1, <1>2, FirstBlockEffect, SendingFrame DEF Begins
  <2> HIDE DEF t
  <2>3. CASE ini.left > 1
    <3>1. T!Acknowledge(t)
      BY <1>1, <2>1, <2>3, TargetExpects DEF t
    <3>2. ~(t.length + 1 > RxRoom)
      BY <1>1, <2>2, <2>3, SendingFrame DEF Begins
    <3>3. /\ air' = Response("I", "ACK", t.pni) /\ tgt'.at = "chain"
          /\ tgt'.pni = INCREMENT_PNI(t.pni) /\ tgt'.prePni = INCREMENT_PNI(t.pni)
          /\ SameBuffer(tgt', t)
      BY <2>2, <3>1, <3>2, AcknowledgeEffect
    <3>4. (Holds(ini.size - ini.left + 1))' /\ Announces' /\ ~turns'.twice
      BY <1>1, <2>2, <3>3, SendingFrame DEF Holds, Announces, SameBuffer, Begins
    <3>5. Acked'
      BY <1>1, <1>2, <2>2, <2>3, <3>3, <3>4 DEF Acked, Fresh, NextPni
    <3> QED BY <3>5
  <2>4. CASE ~(ini.left > 1)
    <3>1. T!HandUp(t)
      BY <1>1, <2>1, <2>4, TargetExpects DEF t
    <3>2. /\ air' = NoFrame /\ tgt'.at = "app" /\ tgt'.prev = 0 /\ tgt'.pni = t.pni
          /\ SameBuffer(tgt', t)
      BY <2>2, <3>1, HandUpEffect
    <3>3. ini.left = 1 /\ ini.size = 1
      BY <1>1, <2>4, SendingFrame DEF Begins, Sending
    <3>4. (Holds(ini.size))' /\ Announces'
      BY <1>1, <2>2, <3>2, <3>3 DEF Holds, Announces, SameBuffer, Begins
    <3>5. HasMessage'
      BY <1>1, <1>2, <2>2, <3>2, <3>3, <3>4 DEF HasMessage, Fresh
    <3> QED BY <3>5
  <2> QED BY <2>3, <2>4
<1>3. CASE air = Supervisory("T", "ATN") /\ Insists
  <2>1. T!Attention(tgt)
    BY <1>1, <1>3, TargetExpects, ControlFrames
  <2>2. /\ air' = Supervisory("I", "ATN") /\ tgt'.at = tgt.at /\ tgt'.prev = tgt.prev
        /\ SameBuffer(tgt', tgt)
    BY <1>1, <2>1, AttentionEffect
  <2>3. Begins'
    BY <1>1, <1>3, <2>2 DEF Begins, SameBuffer, Insists
  <2> QED BY <1>1, <2>2, <2>3
<1> QED BY <1>1, <1>2, <1>3, ControlFrames DEF Begins

(* A block is stored behind the others: the next packet number says that   *)
(* it is new.                                                              *)
LEMMA ContinuesTargetReceives ==
  ASSUME TypeOK, Counts, Continues, T!TargetReceive, ini' = ini, turns'.twice <=> turns.twice
  PROVE  Acked' \/ Full' \/ HasMessage'
<1> DEFINE t == T!Stored(tgt, air)
<1>1. /\ Sending /\ Sending' /\ tgt.at = "chain" /\ tgt \in T!Target /\ air = ini.frame
      /\ Holds(ini.size - ini.left) /\ ini.left < ini.size
  BY DEF Continues, TypeOK, Sending
<1>2. /\ air \in Frame /\ air.kind = "I" /\ (air.more <=> ini.left > 1)
      /\ air.block = <<ini.msg, ini.size - ini.left + 1>>
  BY <1>1, SendingFrame
<1>3. tgt.pni # DecrementPni(tgt.prePni)
  BY <1>1, SendingFrame DEF Continues
<1>4. tgt.length < RxRoom /\ tgt.raw <= tgt.length
  BY <1>1 DEF Counts, TargetCounts
<1>5. /\ t \in T!Target /\ t.pni = ini.pni /\ t.repeat = tgt.repeat
      /\ t.raw = tgt.raw + 1 /\ t.length = tgt.length + 1 /\ t.prev = 1
      /\ \A k \in 1 .. RxRoom + 1 : k # tgt.raw + 1 => t.data[k] = tgt.data[k]
      /\ t.data[tgt.raw + 1] = air.block
  BY <1>1, <1>2, <1>3, <1>4, StoredEffect DEF Continues
<1> HIDE DEF t
<1>6. /\ t.raw = ini.size - ini.left + 1 /\ ~t.repeat
      /\ t.length = IF turns.twice THEN t.raw + 1 ELSE t.raw
      /\ \A k \in 1 .. ini.size - ini.left + 1 : t.data[k] = <<ini.msg, k>>
  <2>1. /\ tgt.raw = ini.size - ini.left /\ ~tgt.repeat
        /\ tgt.length = IF turns.twice THEN tgt.raw + 1 ELSE tgt.raw
        /\ \A k \in 1 .. ini.size - ini.left : tgt.data[k] = <<ini.msg, k>>
    BY <1>1 DEF Holds, Announces, Continues
  <2>2. \A k \in 1 .. ini.size - ini.left + 1 : k \in 1 .. RxRoom + 1 /\ k \in Nat
    BY <1>1, SendingFrame DEF Sending
  <2>3. ini.size - ini.left \in Nat
    BY <1>1, SendingFrame DEF Sending
  <2> QED BY <1>2, <1>5, <2>1, <2>2, <2>3
<1>7. IF air.more THEN T!Acknowledge(t) ELSE T!HandUp(t)
  <2>1. T!NextChained(air)
    BY <1>1, <1>2, TargetExpects DEF Holds
  <2> QED BY <2>1 DEF T!NextChained, t
<1>8. CASE ini.left > 1
  <2>1. T!Acknowledge(t)
    BY <1>2, <1>7, <1>8
  <2>2. CASE air' = NoFrame /\ tgt'.at = "off"
    BY <1>1, <2>2 DEF Full, Continues, Fresh
  <2>3. CASE /\ air' = Response("I", "ACK", t.pni) /\ tgt'.at = "chain"
             /\ tgt'.pni = INCREMENT_PNI(t.pni) /\ tgt'.prePni = INCREMENT_PNI(t.pni)
             /\ tgt'.prev = t.prev /\ SameBuffer(tgt', t)
    <3>1. (Holds(ini.size - ini.left + 1))' /\ Announces'
      BY <1>6, <2>3 DEF Holds, Announces, SameBuffer
    <3> QED BY <1>1, <1>5, <1>8, <2>3, <3>1 DEF Acked, Continues, Fresh, NextPni
  <2> QED BY <1>5, <2>1, <2>2, <2>3, AcknowledgeEffect
<1>9. CASE ~(ini.left > 1)
  <2>1. T!HandUp(t) /\ ini.left = 1
    BY <1>1, <1>2, <1>7, <1>9, SendingFrame DEF Sending
  <2>2. /\ air' = NoFrame /\ tgt'.at = "app" /\ tgt'.prev = 0 /\ tgt'.pni = t.pni
        /\ SameBuffer(tgt', t)
    BY <1>5, <2>1, HandUpEffect
  <2>3. (Holds(ini.size))' /\ Announces'
    <3>1. ini.size - ini.left + 1 = ini.size
      BY <1>1, <2>1, SendingFrame
    <3> QED BY <1>6, <2>2, <3>1 DEF Holds, Announces, SameBuffer
  <2> QED BY <1>1, <1>5, <2>1, <2>2, <2>3 DEF HasMessage, Continues, Fresh
<1> QED BY <1>8, <1>9

(* A block that comes again is copied over itself, or behind itself if it  *)
(* is the first, and acknowledged again.                                   *)
LEMMA UnackedTargetReceives ==
  ASSUME TypeOK, Counts, Unacked, T!TargetReceive, ini' = ini, turns'.twice <=> turns.twice
  PROVE  Unacked' \/ Acked' \/ Spoilt' \/ Full'
<1>1. /\ Sending /\ Sending' /\ tgt.at = "chain" /\ tgt \in T!Target /\ ini.left > 1
      /\ Holds(ini.size - ini.left + 1) /\ tgt.prePni = NextPni
      /\ IF tgt.prev = 0 THEN turns.twice /\ tgt.length = tgt.raw ELSE Announces
      /\ air # NoFrame /\ air.to = "T"
  BY TargetExpects DEF Unacked, TypeOK, Sending
<1>2. CASE tgt.pni = NextPni /\ air = Supervisory("T", "ATN") /\ Insists
  <2>1. T!Attention(tgt)
    BY <1>1, <1>2, TargetExpects, ControlFrames
  <2>2. /\ air' = Supervisory("I", "ATN") /\ tgt'.at = tgt.at /\ tgt'.prev = tgt.prev
        /\ tgt'.prePni = tgt.prePni /\ tgt'.pni = DecrementPni(NextPni) /\ SameBuffer(tgt', tgt)
    BY <1>1, <1>2, <2>1, AttentionEffect
  <2>3. /\ (Holds(ini.size - ini.left + 1))'
        /\ IF tgt'.prev = 0 THEN turns'.twice /\ tgt'.length = tgt'.raw ELSE Announces'
    BY <1>1, <2>2 DEF Holds, Announces, SameBuffer
  <2> QED BY <1>1, <1>2, <2>2, <2>3 DEF Unacked, Insists, NextPni
<1>3. CASE tgt.pni = DecrementPni(NextPni) /\ air = ini.frame /\ Fresh
  <2> DEFINE t == T!Stored(tgt, air)
  <2>1. /\ air \in Frame /\ air.kind = "I" /\ air.more
        /\ air.block = <<ini.msg, ini.size - ini.left + 1>>
    BY <1>1, <1>3, SendingFrame
  <2>2. tgt.pni = DecrementPni(tgt.prePni)
    BY <1>1, <1>3
  <2>3. tgt.length < RxRoom /\ tgt.raw <= tgt.length
    BY <1>1 DEF Counts, TargetCounts
  <2>4. /\ t \in T!Target /\ t.pni = DecrementPni(NextPni) /\ t.repeat = tgt.repeat /\ t.prev = 1
        /\ t.raw = tgt.raw /\ t.length = tgt.length - tgt.prev + 1
        /\ \A k \in 1 .. RxRoom + 1 : k # tgt.raw + 1 /\ k # tgt.raw - tgt.prev + 1 => t.data[k] = tgt.data[k]
        /\ tgt.raw - tgt.prev + 1 \in 1 .. RxRoom + 1 => t.data[tgt.raw - tgt.prev + 1] = air.block
    BY <1>1, <1>3, <2>1, <2>2, <2>3, StoredEffect
  <2> HIDE DEF t
  <2>5. /\ t.raw = ini.size - ini.left + 1 /\ ~t.repeat
        /\ t.length = IF turns.twice THEN t.raw + 1 ELSE t.raw
        /\ \A k \in 1 .. ini.size - ini.left + 1 : t.data[k] = <<ini.msg, k>>
    <3>1. /\ tgt.raw = ini.size - ini.left + 1 /\ ~tgt.repeat
          /\ \A k \in 1 .. ini.size - ini.left + 1 : tgt.data[k] = <<ini.msg, k>>
      BY <1>1 DEF Holds
    <3>2. \A k \in 1 .. ini.size - ini.left + 1 : k \in 1 .. RxRoom + 1 /\ k \in Nat
      BY <1>1, SendingFrame DEF Sending
    <3>3. ini.size - ini.left \in Nat
      BY <1>1, SendingFrame DEF Sending
    <3>4. tgt.prev \in 0 .. 1 /\ tgt.length \in Nat
      BY <1>1, TargetTyped, RoomAssumption
    <3>5. CASE tgt.prev = 0
      BY <1>1, <2>1, <2>4, <3>1, <3>2, <3>3, <3>4, <3>5
    <3>6. CASE tgt.prev = 1
      BY <1>1, <2>1, <2>4, <3>1, <3>2, <3>3, <3>4, <3>6 DEF Announces
    <3> QED BY <3>4, <3>5, <3>6
  <2>6. T!Acknowledge(t)
    <3>1. T!NextChained(air)
      BY <1>1, <2>1, TargetExpects DEF Holds
    <3> QED BY <2>1, <3>1 DEF T!NextChained, t
  <2>7. CASE air' = NoFrame /\ tgt'.at = "off"
    BY <1>1, <1>3, <2>7 DEF Full, Fresh
  <2>8. CASE /\ air' = Response("I", "ACK", t.pni) /\ tgt'.at = "chain"
             /\ tgt'.pni = INCREMENT_PNI(t.pni) /\ tgt'.prePni = INCREMENT_PNI(t.pni)
             /\ tgt'.prev = t.prev /\ SameBuffer(tgt', t)
    <3>1. (Holds(ini.size - ini.left + 1))' /\ Announces' /\ tgt'.prev = 1
      BY <2>4, <2>5, <2>8 DEF Holds, Announces, SameBuffer
    <3>2. CASE NextPni # 0
      <4>1. t.pni = ini.pni
        BY <1>1, <2>4, <3>2, SendingFrame
      <4> QED BY <1>1, <1>3, <2>8, <3>1, <4>1 DEF Acked, Fresh, NextPni
    <3>3. CASE NextPni = 0
      <4>1. t.pni > 3
        BY <1>1, <2>4, <3>3, SendingFrame
      <4> QED BY <1>1, <2>8, <4>1 DEF Spoilt, Response, Pdu
    <3> QED BY <3>2, <3>3
  <2> QED BY <2>4, <2>6, <2>7, <2>8, AcknowledgeEffect
<1> QED BY <1>1, <1>2, <1>3, ControlFrames DEF Unacked

(* A target that is deactivated does not answer.                           *)
LEMMA FullTargetReceives ==
  ASSUME Full, T!TargetReceive, ini' = ini
  PROVE  Full'
<1>1. /\ Sending' /\ tgt.at = "off" /\ air = Supervisory("T", "ATN") /\ Insists'
  BY TargetExpects DEF Full, Sending, Insists
<1>2. tgt' = tgt /\ air' = NoFrame
  BY <1>1, TargetNames DEF T!TargetReceive, T!Listen, T!DslRes, T!TransceivePdu, T!Silent, T!Reply
<1> QED BY <1>1, <1>2 DEF Full

(* The target answers an ACK with the next block.                          *)
LEMMA WantsTargetReceives ==
  ASSUME TypeOK, Counts, Wants, T!TargetReceive, ini' = ini
  PROVE  Answers'
<1>1. PICK left \in 1 .. tgt.size - 1 :
        /\ Receiving(left)
        /\ air = Response("T", "ACK", ini.pni)
        /\ tgt.prev = 0 /\ ~tgt.repeat
        /\ tgt.at = "send" /\ tgt.left = left + 1 /\ INCREMENT_PNI(tgt.pni) = ini.pni
  BY DEF Wants
<1>2. tgt \in T!Target /\ ini.pni \in 0 .. 3 /\ ini.pni \in Pni /\ tgt.size \in 0 .. MaxBlocks
  BY TwoBits, TargetTyped DEF TypeOK, I!Initiator
<1>3. /\ left \in Nat /\ tgt.left - 1 = left /\ left \in 1 .. tgt.size /\ left \in 0 .. MaxBlocks
      /\ left < tgt.size
  BY <1>1, <1>2, BlocksAssumption
<1> DEFINE u == [tgt EXCEPT !.pni = ini.pni, !.left = left]
<1>4. T!SendBlock(u)
  <2>1. air.kind = "ACK"
    BY <1>1, <1>2, ResponseTyped
  <2>2. T!SendBlock([[tgt EXCEPT !.pni = T!INCREMENT_PNI(@)] EXCEPT !.left = @ - 1])
    BY <1>1, <2>1, TargetExpects
  <2>3. [[tgt EXCEPT !.pni = T!INCREMENT_PNI(@)] EXCEPT !.left = @ - 1] = u
    BY <1>1, <1>2, <1>3, TargetNames DEF T!Target
  <2> QED BY <2>2, <2>3
<1>5. /\ u \in T!Target /\ u.pni = ini.pni /\ u.left = left /\ u.size = tgt.size /\ u.msg = tgt.msg
      /\ u.prev = 0 /\ ~u.repeat
  BY <1>1, <1>2, <1>3 DEF T!Target, Pni
<1> HIDE DEF u
<1>6. /\ air' = Chunk("I", ini.pni, tgt.msg, tgt.size, left)
      /\ tgt'.prev = 0 /\ ~tgt'.repeat /\ tgt'.msg = tgt.msg /\ tgt'.size = tgt.size
      /\ \/ left > 1 /\ tgt'.at = "send" /\ tgt'.left = left /\ tgt'.pni = ini.pni
         \/ left = 1 /\ tgt'.at = "listen"
  BY <1>3, <1>4, <1>5, SendBlockEffect
<1>7. (Receiving(left))'
  BY <1>1, <1>6 DEF Receiving
<1> QED BY <1>3, <1>6, <1>7 DEF Answers

(* The layer above answers the message that it was given.                  *)
LEMMA HasMessageAnswered ==
  ASSUME TypeOK, HasMessage, NEW n \in 1 .. MaxBlocks, T!DepSend(n), ini' = ini
  PROVE  Answers'
<1>1. /\ air' = Chunk("I", tgt.pni, NextMessage(tgt.msg), n, n)
      /\ tgt'.prev = 0 /\ tgt'.repeat = tgt.repeat
      /\ tgt'.msg = NextMessage(tgt.msg) /\ tgt'.size = n
      /\ \/ n > 1 /\ tgt'.at = "send" /\ tgt'.left = n /\ tgt'.pni = tgt.pni
         \/ n = 1 /\ tgt'.at = "listen"
  BY DepSendEffect
<1>2. (Receiving(n))'
  <2>1. n - n = 0 /\ Whole(tgt'.msg, 0) = <<>>
    BY WholeEmpty
  <2> QED BY <1>1, <2>1 DEF HasMessage, Sending, Fresh, Receiving
<1>3. n \in 1 .. n
  OBVIOUS
<1> QED BY <1>1, <1>2, <1>3 DEF Answers, HasMessage, Holds

(* An attention is answered: the block in hand is sent again.              *)
LEMMA BeginsReceives ==
  ASSUME TypeOK, Counts, Steady, Begins, I!Receive, tgt' = tgt, turns'.twice <=> turns.twice
  PROVE  Fails \/ Begins'
<1>1. /\ Sending /\ air.to = "I" /\ air # NoFrame
  BY InitiatorNames DEF Begins, I!Receive
<1>2. air = Supervisory("I", "ATN") /\ Insists
  BY <1>1, SendingFrame, ControlFrames DEF Begins
<1>3. Fails \/ SendsAgain
  BY <1>2, ReceiveOutcome, ControlFrames DEF SendsNext, AsksNext, Succeeds, Insists
<1>4. ASSUME SendsAgain
      PROVE  Begins'
  <2>1. air' = ini.frame /\ air'.kind = "I"
    BY <1>1, <1>2, <1>4, ControlFrames, SendingFrame DEF SendsAgain, Insists
  <2>2. Sending' /\ ini'.left = ini'.size /\ Ready' /\ ini'.frame = ini.frame
    BY <1>2, <1>4, ControlFrames DEF SendsAgain, Begins, Sending, Ready
  <2> QED BY <1>4, <2>1, <2>2 DEF Begins, Fresh, SendsAgain
<1> QED BY <1>3, <1>4

LEMMA UnackedReceives ==
  ASSUME TypeOK, Counts, Steady, Unacked, I!Receive, tgt' = tgt, turns'.twice <=> turns.twice
  PROVE  Fails \/ Unacked'
<1>1. /\ Sending /\ air.to = "I" /\ air # NoFrame
  BY InitiatorNames DEF Unacked, I!Receive
<1>2. air = Supervisory("I", "ATN") /\ Insists /\ tgt.pni = DecrementPni(NextPni)
  BY <1>1, SendingFrame, ControlFrames DEF Unacked
<1>3. Fails \/ SendsAgain
  BY <1>2, ReceiveOutcome, ControlFrames DEF SendsNext, AsksNext, Succeeds, Insists
<1>4. ASSUME SendsAgain
      PROVE  Unacked'
  <2>1. air' = ini.frame /\ air'.kind = "I"
    BY <1>1, <1>2, <1>4, ControlFrames, SendingFrame DEF SendsAgain, Insists
  <2>2. Sending' /\ ini'.frame = ini.frame /\ ini'.pni = ini.pni /\ ini'.left = ini.left
        /\ ini'.size = ini.size /\ ini'.msg = ini.msg
    BY <1>2, <1>4, ControlFrames DEF SendsAgain, Unacked, Sending
  <2>3. /\ (Holds(ini.size - ini.left + 1))' /\ NextPni' = NextPni
        /\ IF tgt'.prev = 0 THEN turns'.twice /\ tgt'.length = tgt'.raw ELSE Announces'
    BY <2>2 DEF Unacked, Holds, Announces, NextPni
  <2> QED BY <1>2, <1>4, <2>1, <2>2, <2>3 DEF Unacked, Fresh, SendsAgain
<1> QED BY <1>3, <1>4

(* A spoilt ACK fails the call.                                            *)
LEMMA SpoiltReceives ==
  ASSUME TypeOK, Spoilt, I!Receive
  PROVE  Fails
<1>1. I!Return(ini, "PROTOCOL_ERROR")
  BY FramesTyped DEF Spoilt, I!Receive, Kinds
<1> QED BY <1>1, ReturnEffect DEF TypeOK, Fails

(* The ACK brings the next block.                                          *)
LEMMA AckedReceives ==
  ASSUME TypeOK, Counts, Steady, Acked, I!Receive, tgt' = tgt, turns'.twice <=> turns.twice
  PROVE  Fails \/ Continues'
<1>1. Sending /\ ini.left > 1 /\ Fresh /\ air.kind = "ACK" /\ ini.pni \in 0 .. 3
  BY ResponseTyped, SendingFrame DEF Acked
<1>2. Fails \/ SendsNext
  BY <1>1, ReceiveOutcome DEF SendsAgain, AsksNext, Succeeds, Fresh, Sending
<1>3. ASSUME SendsNext
      PROVE  Continues'
  <2>1. ini.left \in Nat /\ ini.size \in Nat /\ ini.left - 1 \in 1 .. ini.size /\ ini.left - 1 < ini.size
    BY <1>1, SendingFrame DEF Sending
  <2>2. ini'.chaining <=> ini.left - 1 > 1
    BY <1>3, Zenon DEF SendsNext
  <2>3. Sending'
    BY <1>1, <1>3, <2>1, <2>2 DEF SendsNext, Sending
  <2>4. ini.size - (ini.left - 1) = ini.size - ini.left + 1
    BY <2>1
  <2>5. (Holds(ini.size - ini.left))' /\ Announces'
    BY <1>3, <2>4 DEF SendsNext, Acked, Holds, Announces
  <2> QED BY <1>3, <2>1, <2>3, <2>5 DEF Acked, Continues, SendsNext, Fresh, NextPni
<1> QED BY <1>2, <1>3

(* A block of the answer is received: the next one is asked for, or the    *)
(* exchange succeeds with the whole answer.                                *)
LEMMA AnswersReceives ==
  ASSUME TypeOK, Counts, Steady, Answers, I!Receive, tgt' = tgt
  PROVE  \/ Fails
         \/ Wants'
         \/ /\ Succeeds /\ ini'.received = Whole(tgt.msg, tgt.size) /\ Ready
<1>1. PICK left \in 1 .. tgt.size :
        /\ Receiving(left)
        /\ air = Chunk("I", ini.pni, tgt.msg, tgt.size, left)
        /\ tgt.prev = 0 /\ ~tgt.repeat
        /\ \/ left = 1 /\ tgt.at = "listen"
           \/ left > 1 /\ tgt.at = "send" /\ tgt.left = left /\ tgt.pni = ini.pni
  BY DEF Answers
<1>2. /\ tgt.msg \in {0, 1} /\ tgt.size \in 0 .. MaxBlocks /\ ini.pni \in 0 .. 3 /\ ini.pni \in Pni
      /\ left \in Nat /\ tgt.size \in Nat
  BY <1>1, TargetTyped, TwoBits, BlocksAssumption DEF TypeOK, I!Initiator
<1>3. /\ air.kind = "I" /\ (air.more <=> left > 1)
      /\ air.block = <<tgt.msg, tgt.size - left + 1>>
  BY <1>1, <1>2, ChunkTyped
<1>4. Append(ini.received, air.block) = Whole(tgt.msg, tgt.size - left + 1)
  <2>1. tgt.size - left \in 0 .. MaxBlocks - 1
    BY <1>1, <1>2, BlocksAssumption
  <2> QED BY <1>1, <1>2, <1>3, <2>1, WholeGrows DEF Receiving
<1>5. Fails \/ AsksNext \/ Succeeds
  BY <1>1, <1>3, ReceiveOutcome DEF SendsAgain, SendsNext, Receiving
<1>6. ASSUME AsksNext
      PROVE  Wants'
  <2>1. left > 1 /\ left - 1 \in 1 .. tgt.size - 1 /\ left - 1 < tgt.size /\ (left - 1) + 1 = left
    BY <1>1, <1>2, <1>3, <1>6 DEF AsksNext
  <2>2. tgt.size - (left - 1) = tgt.size - left + 1
    BY <1>2
  <2>3. ini'.received = Append(ini.received, air.block)
    BY <1>3, <1>6 DEF AsksNext, Received
  <2>4. (Receiving(left - 1))'
    BY <1>1, <1>4, <1>6, <2>1, <2>2, <2>3 DEF AsksNext, Receiving
  <2> QED BY <1>1, <1>3, <1>6, <2>1, <2>4 DEF AsksNext, Wants
<1>7. ASSUME Succeeds
      PROVE  ini'.received = Whole(tgt.msg, tgt.size) /\ Ready
  <2>1. left = 1 /\ tgt.size - left + 1 = tgt.size
    BY <1>1, <1>2, <1>3, <1>7 DEF Succeeds
  <2> QED BY <1>1, <1>4, <1>7, <2>1 DEF Succeeds, Ready
<1> QED BY <1>5, <1>6, <1>7

(* Nothing comes: an attention stands in for the block in hand.            *)
LEMMA SilenceInsists ==
  ASSUME TypeOK, Sending, Fresh \/ Insists, ~AtnDisabled, I!NoResponse(FALSE)
  PROVE  \/ Fails
         \/ /\ Sending' /\ Insists' /\ air' = Supervisory("T", "ATN")
            /\ ini'.left = ini.left /\ ini'.size = ini.size /\ ini'.msg = ini.msg
            /\ ini'.pni = ini.pni
<1>1. ini.sent \in {"I", "ATN"} /\ (ini.backup \/ ini.sent = "I") /\ ini.mode = "TX"
  BY DEF Fresh, Insists, Sending
<1>2. ASSUME /\ Asks("ATN") /\ air' = Supervisory("T", "ATN")
             /\ ini'.retransmit = (ini.retransmit \/ ini.mode = "TX")
             /\ ini'.backup = (ini.backup \/ ini.sent = "I")
      PROVE  /\ Sending' /\ Insists'
             /\ ini'.left = ini.left /\ ini'.size = ini.size /\ ini'.msg = ini.msg
             /\ ini'.pni = ini.pni
  <2>1. ini'.retransmit /\ ini'.backup
    <3>1. /\ ini'.retransmit <=> (ini.retransmit \/ ini.mode = "TX")
          /\ ini'.backup <=> (ini.backup \/ ini.sent = "I")
      BY <1>2, Zenon
    <3> QED BY <1>1, <3>1
  <2> QED BY <1>2, <2>1 DEF Asks, Sending, Insists
<1> QED BY <1>1, <1>2, NoResponseOutcome

(* A stage of sending survives the silence.                                *)
LEMMA SilenceKeeps ==
  ASSUME TypeOK, ~AtnDisabled, I!NoResponse(FALSE), air = NoFrame, tgt' = tgt, turns' = turns
  PROVE  /\ Begins => Fails \/ Begins'
         /\ Unacked => Fails \/ Unacked'
         /\ Full => Fails \/ Full'
<1>1. ASSUME Begins PROVE Fails \/ Begins'
  <2>1. Sending /\ (Fresh \/ Insists)
    BY <1>1 DEF Begins
  <2> QED BY <1>1, <2>1, SilenceInsists DEF Begins, Ready
<1>2. ASSUME Unacked PROVE Fails \/ Unacked'
  <2>1. Sending /\ (Fresh \/ Insists) /\ tgt.pni = NextPni
    BY <1>2, SendingFrame, ControlFrames DEF Unacked
  <2> QED BY <1>2, <2>1, SilenceInsists DEF Unacked, Holds, Announces, NextPni
<1>3. ASSUME Full PROVE Fails \/ Full'
  <2>1. Sending /\ (Fresh \/ Insists)
    BY <1>3 DEF Full
  <2> QED BY <1>3, <2>1, SilenceInsists DEF Full
<1> QED BY <1>1, <1>2, <1>3

(* Only the stages that these leave go on in silence.                      *)
LEMMA SilenceIn ==
  ASSUME TypeOK, air = NoFrame, tgt.at # "app", Sends \/ Replies
  PROVE  Begins \/ Unacked \/ Full
<1>1. ~Continues /\ ~Spoilt
  BY SendingFrame, ControlFrames, FramesTyped DEF Continues, Spoilt, Kinds
<1>2. ~Acked
  <2> SUFFICES ASSUME Acked PROVE FALSE
    OBVIOUS
  <2>1. ini.pni \in 0 .. 3
    BY DEF TypeOK, I!Initiator
  <2> QED BY <2>1, ResponseTyped, ControlFrames DEF Acked
<1>3. ~HasMessage
  BY DEF HasMessage
<1>4. ~Answers /\ ~Wants
  <2>1. ini.pni \in 0 .. 3 /\ ini.pni \in Pni /\ tgt.msg \in {0, 1} /\ tgt.size \in 0 .. MaxBlocks
    BY TargetTyped, TwoBits DEF TypeOK, I!Initiator
  <2> QED BY <2>1, ChunkTyped, ResponseTyped, ControlFrames DEF Answers, Wants
<1> QED BY <1>1, <1>2, <1>3, <1>4 DEF Sends, Replies

(* The losses that are recovered from.                                     *)
LEMMA LossKeeps ==
  ASSUME TypeOK, Recoverable, air # NoFrame, air' = NoFrame, ini' = ini, tgt' = tgt,
         turns'.twice <=> turns.twice \/ (AckLost /\ tgt.prev = 0)
  PROVE  /\ Begins => Begins'
         /\ Acked \/ Unacked => Unacked'
         /\ Full => Full'
         /\ ~Continues /\ ~Spoilt /\ ~Replies
<1>1. ini.pni \in 0 .. 3 /\ ini.pni \in Pni /\ tgt.msg \in {0, 1} /\ tgt.size \in 0 .. MaxBlocks
  BY TargetTyped, TwoBits DEF TypeOK, I!Initiator
<1>2. Begins => Begins'
  BY DEF Begins, Sending, Ready, Fresh, Insists, AckLost
<1>3. ASSUME Acked PROVE Unacked'
  <2>1. air.kind = "ACK" /\ tgt.at = "chain" /\ tgt.prev \in 0 .. 1
    BY <1>1, <1>3, ResponseTyped, TargetTyped DEF Acked, TypeOK
  <2>2. IF tgt.prev = 0 THEN turns'.twice /\ tgt.length = tgt.raw ELSE Announces'
    BY <1>3, <2>1 DEF Acked, Announces, AckLost
  <2> QED BY <1>3, <2>1, <2>2 DEF Acked, Unacked, Sending, Fresh, Holds, Announces, NextPni
<1>4. ASSUME Unacked PROVE Unacked'
  <2>1. tgt.at = "chain" /\ Sending
    BY <1>4 DEF Unacked
  <2>2. air = Supervisory("T", "ATN")
    BY <1>4, <2>1, SendingFrame, ControlFrames DEF Unacked, Recoverable, Unheard, AckLost
  <2>3. turns'.twice <=> turns.twice
    BY <2>2, ControlFrames DEF AckLost
  <2> QED BY <1>4, <2>1, <2>2, <2>3, SendingFrame, ControlFrames
          DEF Unacked, Sending, Insists, Fresh, Holds, Announces, NextPni
<1>5. Full => Full'
  BY DEF Full, Sending, Fresh, Insists
<1>6. ~Continues
  BY SendingFrame DEF Continues, Recoverable, Unheard, AckLost
<1>7. ~Spoilt
  BY FramesTyped DEF Spoilt, Recoverable, Unheard, AckLost, Kinds
<1>8. ~HasMessage
  BY DEF HasMessage
<1>9. ~Answers
  <2> SUFFICES ASSUME NEW left \in 1 .. tgt.size,
                      air = Chunk("I", ini.pni, tgt.msg, tgt.size, left)
               PROVE  FALSE
    BY DEF Answers
  <2>1. air.kind = "I" /\ air.to = "I"
    BY <1>1, ChunkTyped
  <2> QED BY <2>1 DEF Recoverable, Unheard, AckLost
<1>10. ~Wants
  <2> SUFFICES ASSUME air = Response("T", "ACK", ini.pni), tgt.at = "send"
               PROVE  FALSE
    BY DEF Wants
  <2>1. air.kind = "ACK"
    BY <1>1, ResponseTyped
  <2> QED BY <2>1 DEF Recoverable, Unheard, AckLost
<1> QED BY <1>2, <1>3, <1>4, <1>5, <1>6, <1>7, <1>8, <1>9, <1>10 DEF Replies

-----------------------------------------------------------------------------
(* Every step keeps the stages. *)

MessageInv == FollowInv /\ Sync

(* A call that has failed promises nothing more.                           *)
LEMMA FailsSync == Fails => Sync'
BY DEF Fails, Sync, I!InSession

(* An exchange that goes on.                                               *)
LEMMA StageSync ==
  ASSUME Sends' \/ Replies'
  PROVE  Sync'
<1>1. ini'.at = "exchange"
  BY DEF Sends, Replies, Begins, Continues, Acked, Unacked, Spoilt, Full, Sending, HasMessage,
         Answers, Wants, Receiving
<1> QED BY <1>1 DEF Sync, I!InSession

(* A new call begins a stage.                                              *)
LEMMA CallSync ==
  ASSUME MessageInv, Call
  PROVE  Sync'
<1> SUFFICES ASSUME turns'.hits = 0
             PROVE  Sync'
  BY DEF Sync
<1>1. TypeOK /\ I!InSession /\ tgt' = tgt /\ turns \in Turns /\ ~ini.retransmit
  BY DEF Call, I!Exchange, I!PresCheck, I!Deselect, MessageInv, FollowInv, Ends, TypeOK
<1>2. CASE /\ \E n \in 1 .. MaxBlocks : I!Exchange(n)
           /\ turns' = [turns EXCEPT !.asked = @ + 1, !.taken = 0, !.lost = 0, !.twice = FALSE]
  <2>1. PICK n \in 1 .. MaxBlocks : I!Exchange(n)
    BY <1>2
  <2>2. turns.hits = 0 /\ ~turns'.twice
    BY <1>1, <1>2 DEF Turns
  <2>3. Complete
    BY <1>1, <2>2 DEF MessageInv, Sync
  <2>4. Begins'
    BY <1>1, <2>1, <2>2, <2>3, ExchangeBegins DEF Complete
  <2> QED BY <2>4, StageSync DEF Sends
<1>3. CASE I!PresCheck /\ turns' = turns
  <2>1. Complete
    BY <1>1, <1>3 DEF MessageInv, Sync
  <2>2. ini'.at = "presence" /\ ini'.received = ini.received
    BY <1>1, <1>3, OneFrameCalls
  <2> QED BY <1>1, <1>3, <2>1, <2>2 DEF Sync, Complete, Ready, I!InSession
<1>4. CASE I!Deselect /\ turns' = turns
  BY <1>1, <1>4, OneFrameCalls DEF Sync, I!InSession
<1> QED BY <1>2, <1>3, <1>4 DEF Call

(* What a step of the initiator counts: an exchange that succeeds.         *)
LEMMA InitiatorReceiveCounts ==
  ASSUME TypeOK, InitiatorReceive
  PROVE  /\ turns'.asked = turns.asked /\ turns'.taken = turns.taken
         /\ turns'.lost = turns.lost /\ turns'.hits = turns.hits
         /\ turns'.twice <=> turns.twice
         /\ turns'.answered = IF ini.at = "exchange" /\ ini'.status = "SUCCESS"
                              THEN turns.asked ELSE turns.answered
<1>1. PICK b \in BOOLEAN : b = (ini.at = "exchange" /\ ini'.status = "SUCCESS")
  OBVIOUS
<1>2. Count(FALSE, b, FALSE, FALSE)
  BY <1>1 DEF InitiatorReceive
<1>3. b <=> ini.at = "exchange" /\ ini'.status = "SUCCESS"
  BY <1>1, Zenon
<1> QED BY <1>2, <1>3, CountTyped

(* What the initiator receives leads to the next stage.                    *)
LEMMA InitiatorReceiveSync ==
  ASSUME MessageInv, FollowInv', InitiatorReceive
  PROVE  Sync'
<1> SUFFICES ASSUME turns'.hits = 0
             PROVE  Sync'
  BY DEF Sync
<1>1. TypeOK /\ Counts /\ Steady /\ Ends /\ tgt' = tgt
  BY DEF MessageInv, FollowInv, TypeOK, InitiatorReceive
<1>2. turns.hits = 0 /\ turns'.asked = turns.asked /\ (turns'.twice <=> turns.twice)
  BY <1>1, InitiatorReceiveCounts
<1>3. CASE I!Receive
  <2>1. ini.at = "exchange" /\ air.to = "I" /\ air # NoFrame
    BY <1>3, InitiatorNames DEF I!Receive
  <2>2. Sends \/ Replies
    BY <1>2, <2>1 DEF MessageInv, Sync
  <2>3. ini.pni \in 0 .. 3
    BY <1>1 DEF TypeOK, I!Initiator
  <2>4. Begins \/ Acked \/ Unacked \/ Spoilt \/ Answers
    <3>1. ~Continues /\ ~HasMessage /\ ~Full
      BY <1>1, <2>1, SendingFrame, ControlFrames DEF Continues, HasMessage, Full
    <3>2. ~Wants
      BY <2>1, <2>3, ResponseTyped DEF Wants
    <3> QED BY <2>2, <3>1, <3>2 DEF Sends, Replies
  <2>5. CASE Fails
    BY <2>5, FailsSync
  <2>6. CASE Sends' \/ Replies'
    BY <2>6, StageSync
  <2>7. CASE Succeeds /\ ini'.received = Whole(tgt.msg, tgt.size) /\ Ready
    BY <1>1, <2>7 DEF Sync, Complete, Ready, Succeeds
  <2> QED BY <1>1, <1>2, <1>3, <2>4, <2>5, <2>6, <2>7, BeginsReceives, AckedReceives,
             UnackedReceives, SpoiltReceives, AnswersReceives DEF Sends, Replies
<1>4. CASE I!Answered
  <2>1. /\ ini'.at = "idle"
        /\ ini'.status = "SUCCESS" => ini.at = "presence" /\ ini'.received = ini.received
    BY <1>1, <1>4, AnsweredEffect
  <2> QED BY <1>1, <1>2, <2>1 DEF MessageInv, Sync, Complete, Ready, I!InSession
<1> QED BY <1>3, <1>4 DEF InitiatorReceive

(* So does what it does not receive.                                       *)
LEMMA InitiatorTimeoutSync ==
  ASSUME ~AtnDisabled, MessageInv, InitiatorTimeout
  PROVE  Sync'
<1> SUFFICES ASSUME turns'.hits = 0
             PROVE  Sync'
  BY DEF Sync
<1>1. /\ TypeOK /\ Counts /\ Steady /\ Ends /\ tgt' = tgt /\ turns' = turns /\ turns.hits = 0
      /\ air = NoFrame /\ tgt.at # "app"
  BY InitiatorNames DEF MessageInv, FollowInv, InitiatorTimeout, I!Waits, TargetBusy
<1>2. CASE I!NoResponse(FALSE)
  <2>1. ini.at = "exchange"
    BY <1>2 DEF I!NoResponse
  <2>2. Begins \/ Unacked \/ Full
    BY <1>1, <2>1, SilenceIn DEF MessageInv, Sync
  <2> QED BY <1>1, <1>2, <2>2, SilenceKeeps, FailsSync, StageSync DEF Sends
<1>3. CASE I!NotAnswered
  <2>1. ini.at \in {"presence", "deselect"}
    BY <1>3 DEF I!NotAnswered
  <2>2. CASE Fails
    BY <2>2, FailsSync
  <2>3. CASE ini'.at = ini.at /\ ini'.received = ini.received
    BY <1>1, <2>1, <2>3 DEF MessageInv, Sync, Complete, Ready, I!InSession
  <2> QED BY <1>1, <1>3, <2>2, <2>3, NotAnsweredOutcome
<1> QED BY <1>2, <1>3 DEF InitiatorTimeout

(* Only at the end of sending does the layer above have a message.         *)
LEMMA ReadyToAnswer ==
  ASSUME FollowInv, Sync, turns.hits = 0, tgt.at = "app"
  PROVE  HasMessage
<1>1. ini.at = "exchange"
  BY DEF FollowInv, Ends
<1>2. Sends \/ Replies
  BY <1>1 DEF Sync
<1> QED BY <1>2 DEF Sends, Replies, Begins, Ready, Continues, Acked, Unacked, Spoilt, Full,
                    Answers, Wants

(* An error of the HAL fails the call.                                     *)
LEMMA HalErrorSync ==
  ASSUME MessageInv, HalError
  PROVE  Sync'
BY HalErrorEffect, FailsSync DEF MessageInv, FollowInv, HalError

(* What a step of the target counts: a message that is handed up.          *)
LEMMA TargetReceiveCounts ==
  ASSUME TypeOK, TargetReceive
  PROVE  /\ turns'.asked = turns.asked /\ turns'.answered = turns.answered
         /\ turns'.lost = turns.lost /\ turns'.hits = turns.hits
         /\ turns'.twice <=> turns.twice
         /\ turns'.taken = IF HandedUp THEN turns.taken + 1 ELSE turns.taken
<1>1. PICK b \in BOOLEAN : b = HandedUp
  BY DEF HandedUp
<1>2. Count(b, FALSE, FALSE, FALSE)
  BY <1>1 DEF TargetReceive
<1>3. b <=> HandedUp
  BY <1>1, Zenon
<1> QED BY <1>2, <1>3, CountTyped

(* What the target receives leads to the next stage.                       *)
LEMMA TargetReceiveSync ==
  ASSUME MessageInv, TargetReceive
  PROVE  Sync'
<1> SUFFICES ASSUME turns'.hits = 0
             PROVE  Sync'
  BY DEF Sync
<1>1. /\ TypeOK /\ Counts /\ Steady /\ Ends /\ ini' = ini /\ T!TargetReceive
  BY DEF MessageInv, FollowInv, TypeOK, TargetReceive
<1>2. /\ turns.hits = 0 /\ turns'.asked = turns.asked /\ (turns'.twice <=> turns.twice)
      /\ air # NoFrame /\ air.to = "T" /\ ini.at # "idle"
  BY <1>1, TargetReceiveCounts, TargetExpects DEF Ends
<1>3. CASE ini.at = "exchange"
  <2>1. Sends \/ Replies
    BY <1>2, <1>3 DEF MessageInv, Sync
  <2>2. Begins \/ Continues \/ Unacked \/ Full \/ Wants
    <3>1. ini.pni \in 0 .. 3 /\ ini.pni \in Pni /\ tgt.msg \in {0, 1} /\ tgt.size \in 0 .. MaxBlocks
      BY <1>1, TargetTyped, TwoBits DEF TypeOK, I!Initiator
    <3>2. ~Acked
      BY <1>2, <3>1, ResponseTyped DEF Acked
    <3>3. ~HasMessage /\ ~Answers /\ ~Spoilt
      BY <1>2, <3>1, ChunkTyped, FramesTyped DEF HasMessage, Answers, Spoilt, Kinds
    <3> QED BY <2>1, <3>2, <3>3 DEF Sends, Replies
  <2>3. Sends' \/ Replies'
    BY <1>1, <1>2, <2>2, BeginsTargetReceives, ContinuesTargetReceives, UnackedTargetReceives,
       FullTargetReceives, WantsTargetReceives DEF Sends, Replies
  <2> QED BY <2>3, StageSync
<1>4. CASE ini.at = "presence"
  <2>1. tgt.at = "listen" /\ air.kind = "ATN" /\ Complete
    <3>1. air.kind \in {"NONE", "ATN"} /\ tgt.at = "listen"
      BY <1>1, <1>4 DEF Ends
    <3>2. air.kind # "NONE"
      BY <1>1, <3>1, TargetNames DEF T!TargetReceive, T!Listen, T!DslRes, T!TransceivePdu
    <3> QED BY <1>2, <1>4, <3>1, <3>2 DEF MessageInv, Sync
  <2>2. T!Attention(tgt)
    BY <1>1, <2>1, TargetExpects
  <2>3. /\ tgt'.at = tgt.at /\ tgt'.prev = tgt.prev /\ SameBuffer(tgt', tgt)
    BY <1>1, <2>2, AttentionEffect DEF TypeOK
  <2> QED BY <1>1, <1>2, <1>4, <2>1, <2>3 DEF Sync, Complete, Ready, SameBuffer, I!InSession
<1>5. CASE ini.at = "deselect"
  BY <1>1, <1>5 DEF Sync, I!InSession
<1>6. ini.at \in {"idle", "exchange", "presence", "deselect"}
  BY <1>1 DEF TypeOK, I!Initiator
<1> QED BY <1>2, <1>3, <1>4, <1>5, <1>6

(* The layer above answers.                                                *)
LEMMA TargetAnswerSync ==
  ASSUME MessageInv, TargetAnswer
  PROVE  Sync'
<1> SUFFICES ASSUME turns'.hits = 0
             PROVE  Sync'
  BY DEF Sync
<1>1. PICK n \in 1 .. MaxBlocks : T!DepSend(n)
  BY DEF TargetAnswer
<1>2. TypeOK /\ ini' = ini /\ turns.hits = 0 /\ tgt.at = "app"
  BY <1>1, DepSendEffect DEF MessageInv, FollowInv, TargetAnswer
<1>3. HasMessage
  BY <1>2, ReadyToAnswer DEF MessageInv
<1>4. Answers'
  BY <1>1, <1>2, <1>3, HasMessageAnswered
<1> QED BY <1>4, StageSync DEF Replies

(* A target times out only after a call has failed.                        *)
LEMMA TargetTimeoutSync ==
  ASSUME MessageInv, TargetTimeout
  PROVE  Sync'
<1>1. ini.at = "idle" /\ ~I!InSession /\ ini' = ini
  BY DEF MessageInv, FollowInv, Ends, TargetTimeout
<1> QED BY <1>1 DEF Sync, I!InSession

(* A session without a hit met no loss but those it recovers from.         *)
LEMMA NoHit ==
  ASSUME TypeOK, NEW hit \in BOOLEAN, NEW twice \in BOOLEAN,
         Count(FALSE, FALSE, hit, twice), turns'.hits = 0
  PROVE  /\ ~hit /\ turns.hits = 0 /\ turns'.asked = turns.asked
         /\ turns'.twice <=> turns.twice \/ twice
<1>1. turns.hits \in Nat
  BY DEF TypeOK, Turns
<1>2. /\ turns'.hits = IF hit THEN turns.hits + 1 ELSE turns.hits
      /\ turns'.asked = turns.asked /\ (turns'.twice <=> turns.twice \/ twice)
  BY CountTyped
<1>3. ~hit /\ turns.hits = 0
  BY <1>1, <1>2
<1> QED BY <1>2, <1>3

(* Frames that are lost or damaged and come again.                         *)
LEMMA LostSync ==
  ASSUME MessageInv, Recoverable, air # NoFrame, air' = NoFrame, ini' = ini, tgt' = tgt,
         turns.hits = 0, turns'.asked = turns.asked,
         turns'.twice <=> turns.twice \/ (AckLost /\ tgt.prev = 0)
  PROVE  Sync'
<1>1. TypeOK
  BY DEF MessageInv, FollowInv
<1>2. CASE ini.at = "exchange"
  <2>1. Sends'
    BY <1>1, <1>2, LossKeeps DEF MessageInv, Sync, Sends
  <2> QED BY <2>1, StageSync
<1>3. CASE ini.at # "exchange"
  BY <1>3 DEF MessageInv, Sync, Complete, Ready, I!InSession
<1> QED BY <1>2, <1>3

LEMMA LoseSync ==
  ASSUME MessageInv, Lose
  PROVE  Sync'
<1> SUFFICES ASSUME turns'.hits = 0
             PROVE  Sync'
  BY DEF Sync
<1>1. PICK hit \in BOOLEAN, twice \in BOOLEAN : hit = (~Recoverable) /\ twice = (AckLost /\ tgt.prev = 0)
  BY DEF AckLost
<1>2. Count(FALSE, FALSE, hit, twice) /\ TypeOK
  BY <1>1 DEF Lose, MessageInv, FollowInv
<1>3. ~hit /\ turns.hits = 0 /\ turns'.asked = turns.asked /\ (turns'.twice <=> turns.twice \/ twice)
  BY <1>2, NoHit
<1>4. Recoverable /\ (twice <=> AckLost /\ tgt.prev = 0)
  BY <1>1, <1>3, Zenon
<1> QED BY <1>3, <1>4, LostSync DEF Lose

LEMMA DamageToTargetSync ==
  ASSUME MessageInv, DamageToTarget
  PROVE  Sync'
<1> SUFFICES ASSUME turns'.hits = 0
             PROVE  Sync'
  BY DEF Sync
<1>1. PICK hit \in BOOLEAN : hit = (~Unheard)
  OBVIOUS
<1>2. Count(FALSE, FALSE, hit, FALSE) /\ TypeOK /\ TargetCounts
  BY <1>1 DEF DamageToTarget, MessageInv, FollowInv, Counts
<1>3. ~hit /\ turns.hits = 0 /\ turns'.asked = turns.asked /\ (turns'.twice <=> turns.twice)
  BY <1>2, NoHit
<1>4. Unheard
  BY <1>1, <1>3
<1>5. tgt' = tgt /\ air' = NoFrame /\ ini' = ini
  BY <1>2, <1>4, TargetFailsEffect DEF DamageToTarget, Unheard
<1>6. ~AckLost
  BY <1>4 DEF Unheard, AckLost
<1> QED BY <1>3, <1>4, <1>5, <1>6, LostSync DEF DamageToTarget, Recoverable

LEMMA DamageToInitiatorSync ==
  ASSUME MessageInv, DamageToInitiator
  PROVE  Sync'
<1> SUFFICES ASSUME turns'.hits = 0
             PROVE  Sync'
  BY DEF Sync
<1>1. PICK hit \in BOOLEAN : hit = (ini.at = "exchange")
  OBVIOUS
<1>2. Count(FALSE, FALSE, hit, FALSE) /\ TypeOK /\ tgt' = tgt
  BY <1>1 DEF DamageToInitiator, MessageInv, FollowInv
<1>3. ~hit /\ turns.hits = 0 /\ turns'.asked = turns.asked
  BY <1>2, NoHit
<1>4. ini.at # "exchange"
  BY <1>1, <1>3
<1>5. I!NotAnswered /\ ini.at \in {"presence", "deselect"}
  BY <1>4 DEF DamageToInitiator, I!NoResponse, I!NotAnswered
<1>6. CASE Fails
  BY <1>6, FailsSync
<1>7. CASE ini'.at = ini.at /\ ini'.received = ini.received
  BY <1>2, <1>3, <1>5, <1>7 DEF MessageInv, Sync, Complete, Ready, I!InSession
<1> QED BY <1>2, <1>5, <1>6, <1>7, NotAnsweredOutcome

(* A session begins where the target listens.                              *)
LEMMA FirstSync ==
  ASSUME ini = I!InitInitiator, tgt = T!InitTarget, turns = InitTurns
  PROVE  Sync
<1>1. turns.asked = 0
  BY DEF InitTurns
<1> QED BY <1>1, InitialState DEF Sync, Complete, Ready, I!InSession

(* Every step keeps the stages.                                            *)
LEMMA NextMessages ==
  ASSUME ~AtnDisabled, MessageInv, [Next]_vars
  PROVE  MessageInv'
<1>1. FollowInv'
  BY NextFollows DEF MessageInv
<1>2. CASE Activate
  <2>1. Sync'
    BY <1>2, InitialState DEF Activate, InitTurns, Sync, Complete, Ready, I!InSession
  <2> QED BY <1>1, <2>1 DEF MessageInv
<1>3. CASE UNCHANGED vars
  <2>1. Sync'
    BY <1>3 DEF vars, MessageInv, Sync, Complete, Ready, I!InSession, Sends, Replies, Begins,
                Continues, Acked, Unacked, Spoilt, Full, HasMessage, Answers, Wants, Receiving,
                Sending, Holds, Announces, Fresh, Insists, NextPni
  <2> QED BY <1>1, <2>1 DEF MessageInv
<1>4. CASE Call \/ InitiatorReceive \/ InitiatorTimeout \/ HalError
  BY <1>1, <1>4, CallSync, InitiatorReceiveSync, InitiatorTimeoutSync, HalErrorSync DEF MessageInv
<1>5. CASE TargetReceive \/ TargetAnswer \/ TargetTimeout
  BY <1>1, <1>5, TargetReceiveSync, TargetAnswerSync, TargetTimeoutSync DEF MessageInv
<1>6. CASE Lose \/ DamageToTarget \/ DamageToInitiator
  BY <1>1, <1>6, LoseSync, DamageToTargetSync, DamageToInitiatorSync DEF MessageInv
<1> QED BY <1>2, <1>3, <1>4, <1>5, <1>6 DEF Next

(* The inductive invariant: the stages, unless the session met a hit.      *)
THEOREM MessageInvariant ==
  ASSUME ~AtnDisabled
  PROVE  Spec => []MessageInv
<1>1. Init => MessageInv
  BY InitFollows, FirstSync DEF Init, MessageInv
<1>2. MessageInv /\ [Next]_vars => MessageInv'
  BY NextMessages
<1> QED BY <1>1, <1>2, PTL DEF Spec

(* What is handed up begins with the message that Exchange transmits, and  *)
(* is a block longer only if the ACK of its first block was lost; and what *)
(* an exchange that succeeds has received is the message that the target   *)
(* sent, whole.                                                            *)
THEOREM MessagesIntactCorrect ==
  ASSUME ~AtnDisabled
  PROVE  Spec => []MessagesIntact
<1>1. ASSUME MessageInv, turns.hits = 0, tgt.at = "app"
      PROVE  /\ tgt.length = ini.size + (IF turns.twice THEN 1 ELSE 0)
             /\ SubSeq(tgt.data, 1, ini.size) = Whole(ini.msg, ini.size)
  <2>1. HasMessage /\ TypeOK
    BY <1>1, ReadyToAnswer DEF MessageInv, FollowInv
  <2>2. tgt.data \in [1 .. RxRoom + 1 -> Block] /\ ini.size \in 0 .. RxRoom /\ ini.size \in Nat
    BY <2>1, TargetTyped, SendingFrame DEF TypeOK, HasMessage
  <2>3. tgt.length = ini.size + (IF turns.twice THEN 1 ELSE 0)
    BY <2>1, <2>2 DEF HasMessage, Holds, Announces
  <2> QED BY <2>1, <2>2, <2>3, MessageWhole DEF HasMessage, Holds
<1>2. MessageInv => MessagesIntact
  BY <1>1 DEF MessagesIntact, MessageInv, Sync, Complete
<1> QED BY <1>2, MessageInvariant, PTL

-----------------------------------------------------------------------------
(* Exchange and Listen alternate, whatever is lost. *)

(* The frames of an exchange that goes on.                                 *)
Frames ==
  ini.at = "exchange" =>
    /\ air.to = "T" /\ air.kind \in {"I", "ACK"} => ~ini.retransmit
    /\ air.to = "T" /\ air.kind = "NACK" => ini.sent = "NACK"
    /\ air.to = "I" /\ air.kind = "ACK" => tgt.at = "chain"
    /\ air.to = "I" /\ air.kind = "I" /\ air.more => tgt.at = "send"

(* A block of the answer, or what may have been one.                       *)
Answer == air.to = "I" /\ air.kind \in {"I", "BAD"}

(* A loss allows the message to be handed up once more, where the next     *)
(* frame may do that.                                                      *)
Allowed == turns.taken <= turns.lost

Credit ==
  /\ I!InSession \/ ini.at = "presence" => turns.asked = turns.answered
  /\ ini.at = "exchange" =>
       /\ turns.answered < turns.asked /\ turns.taken <= turns.lost + 1
       /\ tgt.at \in {"app", "send"} \/ (air.to = "I" /\ air.kind = "I") => turns.taken > 0
       /\ tgt.at = "listen" /\ ~Answer => Allowed
       /\ tgt.at = "chain" => Allowed
       /\ tgt.at = "send" /\ ini.mode = "TX" /\ ~Answer => Allowed
       /\ ini.retransmit => ~AtnDisabled /\ (tgt.at # "off" => Allowed)
       /\ ini.retransmit /\ ini.sent = "NACK" /\ tgt.at = "listen" /\ ~Answer =>
            turns.taken < turns.lost

CreditInv == FollowInv /\ Frames /\ Credit

(* Nothing of the counts of the message changes but for a loss.            *)
SameTurns == turns'.asked = turns.asked /\ turns'.taken = turns.taken /\ turns'.answered = turns.answered
NoLoss == SameTurns /\ turns'.lost = turns.lost
OneLoss == SameTurns /\ turns'.lost = turns.lost + 1

(* The counts are numbers.                                                 *)
LEMMA TurnsTyped ==
  ASSUME TypeOK
  PROVE  turns.asked \in Nat /\ turns.taken \in Nat /\ turns.answered \in Nat /\ turns.lost \in Nat
BY DEF TypeOK, Turns

(* A call that fails owes nothing.                                         *)
LEMMA FailsCredit ==
  ASSUME Fails
  PROVE  Frames' /\ Credit'
BY DEF Fails, Frames, Credit, I!InSession

(* A new call.                                                             *)
LEMMA CallCredit ==
  ASSUME CreditInv, Call
  PROVE  Frames' /\ Credit'
<1>1. /\ I!InSession /\ TypeOK /\ tgt' = tgt /\ turns \in Turns /\ tgt.at = "listen"
      /\ ~ini.retransmit /\ turns.asked = turns.answered
  BY DEF Call, I!Exchange, I!PresCheck, I!Deselect, CreditInv, FollowInv, Ends, TypeOK, Credit
<1>2. CASE /\ \E n \in 1 .. MaxBlocks : I!Exchange(n)
           /\ turns' = [turns EXCEPT !.asked = @ + 1, !.taken = 0, !.lost = 0, !.twice = FALSE]
  <2>1. PICK n \in 1 .. MaxBlocks : I!Exchange(n)
    BY <1>2
  <2>2. /\ turns'.asked = turns.asked + 1 /\ turns'.answered = turns.answered
        /\ turns'.taken = 0 /\ turns'.lost = 0 /\ turns.asked \in Nat
    BY <1>1, <1>2 DEF Turns
  <2>3. /\ air' = Chunk("T", ini.pni, NextMessage(ini.msg), n, n)
        /\ ini'.at = "exchange" /\ ini'.retransmit = ini.retransmit /\ ini'.sent = "I"
    BY <1>1, <2>1, ExchangeEffect
  <2>4. air'.to = "T" /\ air'.kind \in {"I", "BAD"}
    <3>1. ini.pni \in Pni /\ NextMessage(ini.msg) \in {0, 1} /\ n \in 0 .. MaxBlocks /\ n \in 1 .. n
      BY <1>1, TwoBits, BlocksAssumption DEF TypeOK, I!Initiator, NextMessage
    <3> QED BY <2>3, <3>1, ChunkTyped
  <2> QED BY <1>1, <2>2, <2>3, <2>4 DEF Frames, Credit, Allowed, I!InSession
<1>3. CASE (I!PresCheck \/ I!Deselect) /\ turns' = turns
  BY <1>1, <1>3, OneFrameCalls DEF Frames, Credit, I!InSession
<1> QED BY <1>2, <1>3 DEF Call

(* What the initiator receives.                                            *)
LEMMA ReceiveCredit ==
  ASSUME CreditInv, I!Receive, tgt' = tgt,
         turns'.asked = turns.asked, turns'.taken = turns.taken, turns'.lost = turns.lost,
         turns'.answered = IF ini'.status = "SUCCESS" THEN turns.asked ELSE turns.answered
  PROVE  Frames' /\ Credit'
<1>1. /\ ini.at = "exchange" /\ air.to = "I" /\ air # NoFrame /\ ini.status = "BUSY"
      /\ TypeOK /\ Counts /\ Steady /\ Frames /\ Credit
      /\ turns.asked \in Nat /\ turns.taken \in Nat /\ turns.lost \in Nat
  BY InitiatorNames, TurnsTyped DEF I!Receive, CreditInv, FollowInv, Ends
<1>2. CASE Fails
  BY <1>2, FailsCredit
<1>3. CASE SendsAgain
  <2>1. air'.to = "T"
    BY <1>1, <1>3, ControlFrames DEF SendsAgain, Steady
  <2>2. air'.kind = "NACK" => ini'.sent = "NACK"
    BY <1>3 DEF SendsAgain
  <2> QED BY <1>1, <1>3, <2>1, <2>2 DEF SendsAgain, Frames, Credit, Answer, Allowed, I!InSession
<1>4. CASE SendsNext
  <2>1. /\ ini'.pni \in Pni /\ ini.msg \in {0, 1} /\ ini.size \in 0 .. MaxBlocks
        /\ ini.left - 1 \in 1 .. ini.size
    <3>1. ini'.pni \in 0 .. 3
      BY <1>1, ReceiveOutcome DEF I!Initiator
    <3> QED BY <1>1, <1>4, <3>1, TwoBits, BlocksAssumption DEF SendsNext, Counts, TypeOK, I!Initiator
  <2>2. air'.to = "T" /\ air'.kind \in {"I", "BAD"}
    BY <1>4, <2>1, ChunkTyped DEF SendsNext
  <2>3. tgt.at = "chain"
    BY <1>1, <1>4 DEF SendsNext, Frames
  <2> QED BY <1>1, <1>4, <2>2, <2>3 DEF SendsNext, Frames, Credit, Answer, Allowed, I!InSession
<1>5. CASE AsksNext
  <2>1. air'.to = "T" /\ air'.kind = "ACK"
    <3>1. ini'.pni \in 0 .. 3
      BY <1>1, ReceiveOutcome DEF I!Initiator
    <3> QED BY <1>5, <3>1, ResponseTyped DEF AsksNext
  <2>2. tgt.at = "listen" => Allowed
    BY <1>1, <1>5 DEF AsksNext, Frames, Credit, Answer
  <2> QED BY <1>1, <1>5, <2>1, <2>2 DEF AsksNext, Frames, Credit, Allowed, I!InSession
<1>6. CASE Succeeds
  BY <1>1, <1>6 DEF Succeeds, Frames, Credit
<1> QED BY <1>1, <1>2, <1>3, <1>4, <1>5, <1>6, ReceiveOutcome

LEMMA InitiatorReceiveCredit ==
  ASSUME CreditInv, InitiatorReceive
  PROVE  Frames' /\ Credit'
<1>1. TypeOK /\ tgt' = tgt
  BY DEF CreditInv, FollowInv, InitiatorReceive
<1>2. /\ turns'.asked = turns.asked /\ turns'.taken = turns.taken /\ turns'.lost = turns.lost
      /\ turns'.answered = IF ini.at = "exchange" /\ ini'.status = "SUCCESS"
                           THEN turns.asked ELSE turns.answered
  BY <1>1, InitiatorReceiveCounts
<1>3. CASE I!Receive
  BY <1>1, <1>2, <1>3, ReceiveCredit DEF I!Receive
<1>4. CASE I!Answered
  <2>1. ini'.at = "idle" /\ ini.at \in {"presence", "deselect"}
        /\ (ini'.status = "SUCCESS" => ini.at = "presence")
    BY <1>1, <1>4, AnsweredEffect DEF I!Answered
  <2> QED BY <1>2, <2>1 DEF CreditInv, Frames, Credit, I!InSession
<1> QED BY <1>3, <1>4 DEF InitiatorReceive

(* What it does not receive: silence, or a frame that is damaged.          *)
LEMMA NoResponseCredit ==
  ASSUME CreditInv, NEW damaged \in BOOLEAN, I!NoResponse(damaged), tgt' = tgt, tgt.at # "app",
         IF damaged THEN OneLoss ELSE NoLoss /\ air = NoFrame
  PROVE  Frames' /\ Credit'
<1>1. /\ ini.at = "exchange" /\ TypeOK /\ Steady /\ Credit /\ Ends
      /\ turns.asked \in Nat /\ turns.taken \in Nat /\ turns.lost \in Nat
      /\ tgt.at \in {"listen", "chain", "send", "app", "off"} /\ ini.mode \in {"TX", "RX"}
  BY TurnsTyped DEF I!NoResponse, CreditInv, FollowInv, Steady, TypeOK, T!Target
<1>2. CASE Fails
  BY <1>2, FailsCredit
<1>3. CASE /\ ~damaged /\ ini.sent # "NACK" /\ ~AtnDisabled
           /\ Asks("ATN") /\ ini'.retransmit = (ini.retransmit \/ ini.mode = "TX")
  <2>1. ini'.retransmit <=> (ini.retransmit \/ ini.mode = "TX")
    BY <1>3, Zenon
  <2>2. ~Answer /\ NoLoss
    BY <1>3, ControlFrames DEF Answer
  <2>3. ini'.retransmit /\ tgt.at # "off" => Allowed
    BY <1>1, <2>1, <2>2 DEF Credit
  <2> QED BY <1>1, <1>3, <2>2, <2>3
          DEF Asks, Frames, Credit, Answer, Allowed, NoLoss, SameTurns, I!InSession
<1>4. CASE /\ damaged \/ ini.sent = "NACK" \/ AtnDisabled
           /\ Asks("NACK") /\ ini'.retransmit = ini.retransmit
  <2>1. CASE damaged
    <3>1. OneLoss
      BY <2>1
    <3> QED BY <1>1, <1>4, <3>1
            DEF Asks, Frames, Credit, Answer, Allowed, OneLoss, SameTurns, I!InSession
  <2>2. CASE ~damaged
    <3>1. ~Answer /\ NoLoss
      BY <2>2, ControlFrames DEF Answer
    <3> QED BY <1>1, <1>4, <2>2, <3>1
            DEF Asks, Frames, Credit, Answer, Allowed, NoLoss, SameTurns, I!InSession
  <2> QED BY <2>1, <2>2
<1> QED BY <1>1, <1>2, <1>3, <1>4, NoResponseOutcome

LEMMA NotAnsweredCredit ==
  ASSUME CreditInv, I!NotAnswered, turns'.asked = turns.asked, turns'.answered = turns.answered
  PROVE  Frames' /\ Credit'
<1>1. TypeOK /\ ini.at \in {"presence", "deselect"}
  BY DEF I!NotAnswered, CreditInv, FollowInv
<1>2. CASE Fails
  BY <1>2, FailsCredit
<1>3. CASE ini'.at = ini.at
  BY <1>1, <1>3 DEF CreditInv, Frames, Credit, I!InSession
<1> QED BY <1>1, <1>2, <1>3, NotAnsweredOutcome

(* What the target receives.                                               *)
LEMMA TargetReceiveCredit ==
  ASSUME CreditInv, TargetReceive
  PROVE  Frames' /\ Credit'
<1>1. /\ TypeOK /\ Ends /\ Steady /\ Frames /\ Credit /\ ini' = ini /\ air.to = "T" /\ ini.at # "idle"
      /\ air' \in Frame /\ TargetOutcome
      /\ turns.asked \in Nat /\ turns.taken \in Nat /\ turns.lost \in Nat
  <2>1. T!TargetReceive /\ TypeOK /\ TargetCounts
    BY DEF TargetReceive, CreditInv, FollowInv, Counts
  <2> QED BY <2>1, TargetReceiveOutcome, TargetExpects, TurnsTyped
          DEF TargetReceive, CreditInv, FollowInv, Ends
<1>2. /\ turns'.asked = turns.asked /\ turns'.answered = turns.answered /\ turns'.lost = turns.lost
      /\ turns'.taken = IF HandedUp THEN turns.taken + 1 ELSE turns.taken
  BY <1>1, TargetReceiveCounts
<1>3. CASE ini.at # "exchange"
  BY <1>1, <1>2, <1>3 DEF Frames, Credit, I!InSession
<1>4. CASE ini.at = "exchange" /\ tgt'.at # "app"
  <2>1. NoLoss
    BY <1>2, <1>4 DEF HandedUp, NoLoss, SameTurns
  <2>2. ~Answer
    BY <1>1 DEF Answer
  <2>3. CASE air' = NoFrame /\ (tgt'.at = tgt.at \/ tgt'.at = "off")
    BY <1>1, <1>4, <2>1, <2>2, <2>3, ControlFrames
       DEF Frames, Credit, Allowed, NoLoss, SameTurns, I!InSession
  <2>4. CASE air' = Supervisory("I", "ATN") /\ tgt'.at = tgt.at
    BY <1>1, <1>4, <2>1, <2>2, <2>4, ControlFrames
       DEF Frames, Credit, Allowed, NoLoss, SameTurns, I!InSession
  <2>5. CASE air' = Supervisory("I", "DSL") /\ tgt'.at = "off"
    BY <1>1, <1>4, <2>1, <2>2, <2>5, ControlFrames
       DEF Frames, Credit, Allowed, NoLoss, SameTurns, I!InSession
  <2>6. CASE /\ air'.to = "I" /\ air'.kind \in {"ACK", "BAD"} /\ tgt'.at = "chain"
             /\ tgt.at \in {"listen", "chain"}
    BY <1>1, <1>4, <2>1, <2>2, <2>6
       DEF Frames, Credit, Allowed, NoLoss, SameTurns, I!InSession
  <2>7. CASE /\ air'.to = "I" /\ air'.kind \in {"I", "BAD"} /\ tgt'.at \in {"send", "listen"}
             /\ air'.kind = "I" => (air'.more <=> tgt'.at = "send")
             /\ tgt.at = "send" /\ air.kind = "ACK"
    BY <1>1, <1>4, <2>1, <2>7
       DEF Frames, Credit, Answer, Allowed, NoLoss, SameTurns, I!InSession
  <2> QED BY <1>1, <1>4, <2>3, <2>4, <2>5, <2>6, <2>7 DEF TargetOutcome
<1>5. CASE ini.at = "exchange" /\ tgt'.at = "app"
  <2>1. /\ air' = NoFrame /\ tgt.at \in {"listen", "chain"}
        /\ air.kind \in {"I", "ACK", "NACK"} /\ (tgt.at = "chain" => air.kind = "I")
    BY <1>1, <1>5 DEF TargetOutcome
  <2>2. HandedUp /\ turns'.taken = turns.taken + 1
    BY <1>2, <1>5, <2>1 DEF HandedUp
  <2>3. Allowed
    BY <1>1, <1>5, <2>1 DEF Credit, Answer
  <2>4. ini.retransmit => turns.taken < turns.lost
    BY <1>1, <1>5, <2>1 DEF Frames, Credit, Answer
  <2> QED BY <1>1, <1>2, <1>5, <2>1, <2>2, <2>3, <2>4, ControlFrames
          DEF Frames, Credit, Allowed, I!InSession
<1> QED BY <1>3, <1>4, <1>5

(* What the layer above sends.                                             *)
LEMMA TargetAnswerCredit ==
  ASSUME CreditInv, TargetAnswer
  PROVE  Frames' /\ Credit'
<1>1. PICK n \in 1 .. MaxBlocks : T!DepSend(n)
  BY DEF TargetAnswer
<1>2. /\ ini' = ini /\ turns' = turns /\ TypeOK /\ Ends /\ Credit
  BY DEF TargetAnswer, CreditInv, FollowInv
<1>3. /\ tgt.at = "app" /\ air' = Chunk("I", tgt.pni, NextMessage(tgt.msg), n, n)
      /\ \/ n > 1 /\ tgt'.at = "send"
         \/ n = 1 /\ tgt'.at = "listen"
  BY <1>1, <1>2, DepSendEffect
<1>4. /\ air'.to = "I" /\ air'.kind \in {"I", "BAD"}
      /\ air'.kind = "I" => (air'.more <=> n > 1)
  <2>1. tgt.pni \in Pni /\ NextMessage(tgt.msg) \in {0, 1} /\ n \in 0 .. MaxBlocks /\ n \in 1 .. n
    BY <1>2, TargetTyped, BlocksAssumption DEF TypeOK, NextMessage
  <2> QED BY <1>3, <2>1, ChunkTyped
<1>5. ini.at = "exchange"
  BY <1>2, <1>3 DEF Ends
<1> QED BY <1>2, <1>3, <1>4, <1>5 DEF Frames, Credit, Answer, Allowed, I!InSession

(* A frame to nobody who answers it is lost.                               *)
LEMMA QuietCredit ==
  ASSUME CreditInv, ini' = ini, air' = NoFrame, tgt' = tgt \/ tgt'.at = "off",
         SameTurns, turns'.lost = turns.lost \/ turns'.lost = turns.lost + 1,
         Answer => turns'.lost = turns.lost + 1
  PROVE  Frames' /\ Credit'
<1>1. /\ TypeOK /\ Ends /\ Frames /\ Credit
      /\ turns.asked \in Nat /\ turns.taken \in Nat /\ turns.lost \in Nat
  BY TurnsTyped DEF CreditInv, FollowInv
<1>2. CASE ini.at # "exchange"
  BY <1>1, <1>2 DEF Frames, Credit, SameTurns, I!InSession
<1>3. CASE ini.at = "exchange" /\ turns'.lost = turns.lost + 1
  BY <1>1, <1>3, ControlFrames DEF Frames, Credit, Allowed, SameTurns, I!InSession
<1>4. CASE ini.at = "exchange" /\ turns'.lost = turns.lost
  <2>1. ~Answer
    BY <1>1, <1>4
  <2> QED BY <1>1, <1>4, <2>1, ControlFrames DEF Frames, Credit, Allowed, SameTurns, I!InSession
<1> QED BY <1>2, <1>3, <1>4

(* What the field takes away.                                              *)
LEMMA LossCounts ==
  ASSUME TypeOK, NEW hit \in BOOLEAN, NEW twice \in BOOLEAN, Count(FALSE, FALSE, hit, twice)
  PROVE  IF hit THEN OneLoss ELSE NoLoss
BY CountTyped DEF OneLoss, NoLoss, SameTurns

LEMMA FieldCredit ==
  ASSUME CreditInv, Lose \/ DamageToTarget \/ DamageToInitiator
  PROVE  Frames' /\ Credit'
<1>1. TypeOK /\ TargetCounts /\ Ends
  BY DEF CreditInv, FollowInv, Counts
<1>2. CASE Lose
  <2>1. PICK hit \in BOOLEAN, twice \in BOOLEAN : hit = (~Recoverable) /\ twice = (AckLost /\ tgt.prev = 0)
    BY DEF AckLost
  <2>2. IF hit THEN OneLoss ELSE NoLoss
    BY <1>1, <1>2, <2>1, LossCounts DEF Lose
  <2>3. Answer => hit
    BY <2>1 DEF Answer, Recoverable, Unheard, AckLost
  <2> QED BY <1>2, <2>2, <2>3, QuietCredit DEF Lose, OneLoss, NoLoss
<1>3. CASE DamageToTarget
  <2>1. PICK hit \in BOOLEAN : hit = (~Unheard)
    OBVIOUS
  <2>2. IF hit THEN OneLoss ELSE NoLoss
    BY <1>1, <1>3, <2>1, LossCounts DEF DamageToTarget
  <2>3. air' = NoFrame /\ ini' = ini /\ ~Answer /\ (tgt' = tgt \/ tgt'.at = "off")
    BY <1>1, <1>3, TargetFailsEffect DEF DamageToTarget, Answer
  <2> QED BY <2>2, <2>3, QuietCredit DEF OneLoss, NoLoss
<1>4. CASE DamageToInitiator
  <2>1. PICK hit \in BOOLEAN : hit = (ini.at = "exchange")
    OBVIOUS
  <2>2. (IF hit THEN OneLoss ELSE NoLoss) /\ tgt' = tgt /\ tgt.at # "app"
    BY <1>1, <1>4, <2>1, LossCounts DEF DamageToInitiator, Ends
  <2>3. CASE I!NoResponse(TRUE)
    <3>1. OneLoss
      BY <2>1, <2>2, <2>3 DEF I!NoResponse
    <3> QED BY <2>2, <2>3, <3>1, NoResponseCredit
  <2>4. CASE I!NotAnswered
    BY <2>2, <2>4, NotAnsweredCredit DEF OneLoss, NoLoss, SameTurns
  <2> QED BY <1>4, <2>3, <2>4 DEF DamageToInitiator
<1> QED BY <1>2, <1>3, <1>4

(* Every step keeps what is allowed.                                       *)
LEMMA NextCredit ==
  ASSUME CreditInv, [Next]_vars
  PROVE  CreditInv'
<1>1. FollowInv' /\ TypeOK /\ Ends
  BY NextFollows DEF CreditInv, FollowInv
<1>2. CASE InitiatorTimeout
  <2>1. /\ tgt' = tgt /\ turns' = turns /\ air = NoFrame /\ tgt.at # "app" /\ NoLoss
    BY <1>2, InitiatorNames DEF InitiatorTimeout, I!Waits, TargetBusy, NoLoss, SameTurns
  <2> QED BY <1>1, <1>2, <2>1, NoResponseCredit, NotAnsweredCredit DEF InitiatorTimeout, CreditInv
<1>3. CASE HalError
  BY <1>1, <1>3, HalErrorEffect, FailsCredit DEF HalError, CreditInv
<1>4. CASE TargetTimeout
  <2>1. ini.at = "idle" /\ ~I!InSession /\ ini' = ini
    BY <1>1, <1>4 DEF Ends, TargetTimeout
  <2> QED BY <1>1, <2>1 DEF CreditInv, Frames, Credit, I!InSession
<1>5. CASE Activate
  BY <1>1, <1>5, InitialState DEF Activate, InitTurns, CreditInv, Frames, Credit, I!InSession
<1>6. CASE UNCHANGED vars
  BY <1>1, <1>6 DEF vars, CreditInv, Frames, Credit, Answer, Allowed, I!InSession
<1>7. CASE Call \/ InitiatorReceive \/ TargetReceive \/ TargetAnswer
  BY <1>1, <1>7, CallCredit, InitiatorReceiveCredit, TargetReceiveCredit, TargetAnswerCredit DEF CreditInv
<1>8. CASE Lose \/ DamageToTarget \/ DamageToInitiator
  BY <1>1, <1>8, FieldCredit DEF CreditInv
<1> QED BY <1>2, <1>3, <1>4, <1>5, <1>6, <1>7, <1>8 DEF Next

(* The inductive invariant: what losses allow.                             *)
THEOREM CreditInvariant == Spec => []CreditInv
<1>1. Init => CreditInv
  BY InitFollows, InitialState DEF Init, InitTurns, CreditInv, Frames, Credit, I!InSession
<1>2. CreditInv /\ [Next]_vars => CreditInv'
  BY NextCredit
<1> QED BY <1>1, <1>2, PTL DEF Spec

-----------------------------------------------------------------------------
(* What the steps are in MessageAlternation. *)

(* A step without a turn gives up, loses, or is not seen.                  *)
LEMMA NoTurn ==
  ASSUME SameTurns, turns'.lost = turns.lost \/ turns'.lost = turns.lost + 1,
         Over' = Over \/ (~Over /\ Over' = TRUE)
  PROVE  [Alternation!Next]_(Alternation!alt)
BY DEF SameTurns, Alternation!alt, Alternation!Next, Alternation!Lose, Alternation!GiveUp

(* Exchange asks; a presence check and a deselect are not seen.            *)
LEMMA CallAbstract ==
  ASSUME CreditInv, Call
  PROVE  [Alternation!Next]_(Alternation!alt)
<1>1. /\ TypeOK /\ I!InSession /\ turns \in Turns /\ Over = FALSE /\ turns.asked = turns.answered
  BY DEF Call, I!Exchange, I!PresCheck, I!Deselect, CreditInv, FollowInv, TypeOK, Over, Credit,
         I!InSession
<1>2. CASE /\ \E n \in 1 .. MaxBlocks : I!Exchange(n)
           /\ turns' = [turns EXCEPT !.asked = @ + 1, !.taken = 0, !.lost = 0, !.twice = FALSE]
  <2>1. PICK n \in 1 .. MaxBlocks : I!Exchange(n)
    BY <1>2
  <2>2. /\ turns'.asked = turns.asked + 1 /\ turns'.answered = turns.answered
        /\ turns'.taken = 0 /\ turns'.lost = 0
    BY <1>1, <1>2 DEF Turns
  <2>3. Over' = FALSE
    BY <1>1, <2>1, ExchangeEffect DEF Over
  <2> QED BY <1>1, <2>2, <2>3 DEF Alternation!Next, Alternation!Ask
<1>3. CASE (I!PresCheck \/ I!Deselect) /\ turns' = turns
  <2>1. Over' = FALSE
    BY <1>1, <1>3, OneFrameCalls DEF Over
  <2> QED BY <1>1, <1>3, <2>1, NoTurn DEF SameTurns
<1> QED BY <1>2, <1>3 DEF Call

(* An exchange that succeeds answers.                                      *)
LEMMA InitiatorReceiveAbstract ==
  ASSUME CreditInv, CreditInv', InitiatorReceive
  PROVE  [Alternation!Next]_(Alternation!alt)
<1>1. TypeOK /\ Counts /\ Steady /\ Credit /\ ini.at # "idle" /\ Over = FALSE /\ Over' \in BOOLEAN
  BY DEF CreditInv, FollowInv, InitiatorReceive, I!Receive, I!Answered, Over
<1>2. /\ turns'.asked = turns.asked /\ turns'.taken = turns.taken /\ turns'.lost = turns.lost
      /\ turns'.answered = IF ini.at = "exchange" /\ ini'.status = "SUCCESS"
                           THEN turns.asked ELSE turns.answered
  BY <1>1, InitiatorReceiveCounts
<1>3. CASE ini.at = "exchange" /\ ini'.status = "SUCCESS"
  <2>1. I!Receive
    BY <1>3 DEF InitiatorReceive, I!Answered
  <2>2. ini.status = "BUSY" /\ ~Fails
    BY <1>1, <1>3 DEF CreditInv, FollowInv, Ends, Fails
  <2>3. Succeeds
    BY <1>1, <1>3, <2>1, <2>2, ReceiveOutcome DEF SendsAgain, SendsNext, AsksNext
  <2>4. turns.answered < turns.asked /\ turns.taken > 0
    BY <1>1, <1>3, <2>1, <2>3 DEF Credit, Succeeds, I!Receive
  <2>5. Over' = FALSE
    BY <1>3 DEF Over
  <2> QED BY <1>1, <1>2, <1>3, <2>4, <2>5 DEF Alternation!Next, Alternation!Answer
<1>4. CASE ~(ini.at = "exchange" /\ ini'.status = "SUCCESS")
  BY <1>1, <1>2, <1>4, NoTurn DEF SameTurns
<1> QED BY <1>3, <1>4

(* A message that is handed up is taken.                                   *)
LEMMA TargetReceiveAbstract ==
  ASSUME CreditInv, CreditInv', TargetReceive
  PROVE  [Alternation!Next]_(Alternation!alt)
<1>1. /\ TypeOK /\ TargetCounts /\ Credit /\ ini' = ini /\ ini.at # "idle" /\ T!TargetReceive
      /\ Over = FALSE /\ Over' = FALSE /\ air.to = "T"
  BY TargetExpects DEF CreditInv, FollowInv, Counts, Ends, TargetReceive, Over
<1>2. /\ turns'.asked = turns.asked /\ turns'.answered = turns.answered /\ turns'.lost = turns.lost
      /\ turns'.taken = IF HandedUp THEN turns.taken + 1 ELSE turns.taken
  BY <1>1, TargetReceiveCounts
<1>3. CASE HandedUp
  <2>1. ini.at = "exchange" /\ tgt.at \in {"listen", "chain"}
    BY <1>1, <1>3, TargetReceiveOutcome DEF HandedUp, TargetOutcome, CreditInv, FollowInv, Ends
  <2>2. turns.answered < turns.asked /\ Allowed
    BY <1>1, <2>1 DEF Credit, Answer
  <2> QED BY <1>1, <1>2, <1>3, <2>2 DEF Allowed, Alternation!Next, Alternation!Take
<1>4. CASE ~HandedUp
  BY <1>1, <1>2, <1>4, NoTurn DEF SameTurns
<1> QED BY <1>3, <1>4

(* Silence, errors of the HAL and what the field does: the initiator may   *)
(* give up.                                                                *)
LEMMA QuietAbstract ==
  ASSUME SameTurns, turns'.lost = turns.lost \/ turns'.lost = turns.lost + 1,
         ini.at = "idle" => ini' = ini
  PROVE  [Alternation!Next]_(Alternation!alt)
<1>1. Over' = Over \/ (~Over /\ Over' = TRUE)
  <2>1. Over \in BOOLEAN /\ Over' \in BOOLEAN /\ (Over => Over')
    BY DEF Over
  <2> QED BY <2>1
<1> QED BY <1>1, NoTurn

LEMMA FieldAbstract ==
  ASSUME CreditInv, Lose \/ DamageToTarget \/ DamageToInitiator
  PROVE  [Alternation!Next]_(Alternation!alt)
<1>1. PICK hit \in BOOLEAN, twice \in BOOLEAN : Count(FALSE, FALSE, hit, twice)
  <2>1. (~Recoverable) \in BOOLEAN /\ (~Unheard) \in BOOLEAN /\ (ini.at = "exchange") \in BOOLEAN
        /\ (AckLost /\ tgt.prev = 0) \in BOOLEAN
    BY DEF AckLost
  <2> QED BY <2>1, Zenon DEF Lose, DamageToTarget, DamageToInitiator
<1>2. SameTurns /\ (turns'.lost = turns.lost \/ turns'.lost = turns.lost + 1)
  BY <1>1, LossCounts DEF OneLoss, NoLoss, CreditInv, FollowInv
<1>3. ini.at = "idle" => ini' = ini
  BY DEF Lose, DamageToTarget, DamageToInitiator, I!NoResponse, I!NotAnswered
<1> QED BY <1>2, <1>3, QuietAbstract

(* An activation starts again.                                             *)
LEMMA ActivateAbstract ==
  ASSUME Activate
  PROVE  [Alternation!Next]_(Alternation!alt)
<1>1. Over = TRUE
  BY DEF Activate, Over, I!InSession
<1>2. /\ turns'.asked = 0 /\ turns'.taken = 0 /\ turns'.answered = 0 /\ turns'.lost = 0
      /\ ini'.status = "SUCCESS"
  BY InitialState DEF Activate, InitTurns
<1>3. Over' = FALSE
  BY <1>2 DEF Over
<1> QED BY <1>1, <1>2, <1>3 DEF Alternation!Next, Alternation!Restart

(* Every step is one of MessageAlternation, or none.                       *)
LEMMA StepAbstract ==
  ASSUME CreditInv, CreditInv', [Next]_vars
  PROVE  [Alternation!Next]_(Alternation!alt)
<1>1. CASE Call
  BY <1>1, CallAbstract
<1>2. CASE InitiatorReceive
  BY <1>2, InitiatorReceiveAbstract
<1>3. CASE TargetReceive
  BY <1>3, TargetReceiveAbstract
<1>4. CASE InitiatorTimeout \/ HalError \/ TargetAnswer \/ TargetTimeout \/ UNCHANGED vars
  <2>1. turns' = turns /\ (ini.at = "idle" => ini' = ini)
    BY <1>4 DEF InitiatorTimeout, HalError, TargetAnswer, TargetTimeout, vars, I!Waits
  <2> QED BY <2>1, QuietAbstract DEF SameTurns
<1>5. CASE Lose \/ DamageToTarget \/ DamageToInitiator
  BY <1>5, FieldAbstract
<1>6. CASE Activate
  BY <1>6, ActivateAbstract
<1> QED BY <1>1, <1>2, <1>3, <1>4, <1>5, <1>6 DEF Next

LEMMA InitAbstract == Init => Alternation!Init
<1>1. Init => /\ turns.asked = 0 /\ turns.taken = 0 /\ turns.answered = 0 /\ turns.lost = 0
              /\ Over = FALSE
  BY InitialState DEF Init, InitTurns, Over
<1> QED BY <1>1 DEF Alternation!Init

(* Whatever is lost, and whether attentions are sent or not: a message is  *)
(* handed up only after Exchange was called, and again only after a loss   *)
(* from which the target does not recover, at most once for each; and an   *)
(* exchange succeeds only after its message was handed up.                 *)
THEOREM AlternationImplemented == Spec => ImplementsAlternation
<1>1. CreditInv /\ CreditInv' /\ [Next]_vars => [Alternation!Next]_(Alternation!alt)
  BY StepAbstract
<1> QED BY <1>1, InitAbstract, CreditInvariant, PTL
        DEF Spec, ImplementsAlternation, Alternation!Spec
=============================================================================
