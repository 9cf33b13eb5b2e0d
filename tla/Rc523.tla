------------------------------- MODULE Rc523 -------------------------------
(***************************************************************************)
(* The reader HAL for the RC523 (phhalHw_Rc523.c, _Int.c, _Cmd.c, _Wait.c):*)
(* how a call moves a frame through the chip's FIFO while the chip sends   *)
(* and receives on its own.  The host sees the chip only through registers *)
(* and its steps interleave with the chip's at the register accesses whose *)
(* order matters.  The chip, its timer and the peer are external.          *)
(*                                                                         *)
(* A byte is a number that tells where it comes from, so that an answer    *)
(* put together from the wrong bytes can be told from the right one.       *)
(***************************************************************************)
EXTENDS Integers, Sequences, FiniteSets

CONSTANTS
    FifoSize,       \* bytes in the FIFO (64)
    AlertLevel,     \* level at which HIALERT is raised (8)
    BufSize,        \* bytes in a frame buffer
    Setups,         \* the configurations considered
    Lengths,        \* lengths of the data given to a call
    AnswerLengths,  \* lengths of the peer's frames
    Preempted       \* may the chip move a FIFO's worth between two accesses

ASSUME SizeAssumption == FifoSize \in Nat /\ AlertLevel \in Nat /\ BufSize \in Nat
ASSUME LengthAssumption == Lengths \subseteq Nat /\ AnswerLengths \subseteq Nat
ASSUME SetupAssumption == \A c \in Setups : c.precache \in Nat

VARIABLES
    cfg,        \* the configuration: fixed
    hal,        \* wTxBufLen, wRxBufLen, wRxBufStartPos
    mem,        \* the bytes of pTxBuffer and pRxBuffer
    call,       \* the call under way
    ret,        \* what the last call returned
    chip,       \* the RC523
    peer,       \* the card, or the initiator when this side is the target
    composed,   \* the bytes the caller has put together for the next frame
    kept,       \* the bytes before wRxBufStartPos when it was set
    calls, faults

vars == <<cfg, hal, mem, call, ret, chip, peer, composed, kept, calls, faults>>

(***************************************************************************)
(* The two buffers are one piece of memory when pTxBuffer == pRxBuffer.    *)
(***************************************************************************)
TxMem == IF cfg.shared THEN "rx" ELSE "tx"

\* (Get Tx Buffer) where an exchange finds its request
TxBase == IF cfg.shared THEN hal.start ELSE 0
TxRoom == BufSize - TxBase

Buffered == [i \in 1..hal.txLen |-> mem[TxMem][TxBase + i]]

\* (mutant) the scratch area of a shared buffer begins at the waiting request
ScratchAtRequest ==
    IF cfg.shared THEN [buf |-> "rx", base |-> hal.start]
    ELSE [buf |-> "tx", base |-> hal.txLen]

\* (Get Rx Buffer) the scratch area of the commands that are no exchange:
\* behind the request that waits, in the larger of the two buffers
Scratch ==
    IF cfg.shared
    THEN [buf |-> "rx", base |-> hal.start + hal.txLen]
    ELSE IF BufSize - hal.txLen >= BufSize - hal.start
         THEN [buf |-> "tx", base |-> hal.txLen]
         ELSE [buf |-> "rx", base |-> hal.start]

Put(buf, base, data) ==
    [mem EXCEPT ![buf] = [i \in 1..BufSize |->
        IF i > base /\ i <= base + Len(data) THEN data[i - base] ELSE @[i]]]

Received == SubSeq(mem["rx"], 1, hal.rxLen)

Smaller(a, b) == IF a < b THEN a ELSE b
From(s, n) == SubSeq(s, n + 1, Len(s))

(***************************************************************************)
(* The chip as the host's register accesses change it.                     *)
(***************************************************************************)
Raise(c, flags) == [c EXCEPT !.irq = @ \union flags]

\* bytes enter the FIFO: its watermark flag stays set once it was crossed, and
\* what does not fit is lost
Fill(c, bytes) ==
    LET all == c.fifo \o bytes
        n   == Smaller(Len(all), FifoSize)
    IN Raise([c EXCEPT !.fifo = SubSeq(all, 1, n),
                       !.err = @ \union IF Len(all) > n THEN {"BUFFEROVFL"} ELSE {}],
             (IF n >= AlertLevel THEN {"HIALERT"} ELSE {})
             \union (IF Len(all) > n THEN {"ERR"} ELSE {}))

\* COMMAND <- IDLE: a frame that is being received is not heard any more
ToIdle(c) == [c EXCEPT !.cmd = "idle", !.modem = "idle"]
Unheard(p) == IF chip.modem = "rx" THEN [p EXCEPT !.out = <<>>] ELSE p

\* COMMAND IDLE, flush the FIFO, clear COMMIRQ and DIVIRQ
Cleared(c) == [c EXCEPT !.fifo = <<>>, !.irq = {}, !.err = {}]

Listen(c, cmd) ==
    [c EXCEPT !.cmd = cmd, !.modem = IF cmd = "receive" THEN "wait" ELSE "start"]

(***************************************************************************)
(* Initial state: after phhalHw_Rc523_Init and ApplyProtocolSettings.      *)
(***************************************************************************)
NoCall == [op |-> "none", opt |-> {}, pc |-> "idle", data |-> <<>>,
           got |-> <<>>, irq |-> {}, modem |-> "idle", status |-> "success"]

TypeOK ==
    /\ cfg \in Setups
    /\ hal.txLen \in 0..BufSize /\ hal.rxLen \in 0..BufSize
    /\ hal.start \in 0..BufSize /\ hal.dep \in BOOLEAN
    /\ \A b \in {"rx", "tx"} : mem[b] \in [1..BufSize -> Int]
    /\ Len(chip.fifo) <= FifoSize
    /\ chip.modem \in {"idle", "start", "tx", "wait", "rx"}
    /\ calls \in 0..cfg.most /\ faults \in 0..cfg.faults

Init ==
    /\ cfg \in Setups
    /\ hal = [txLen |-> 0, rxLen |-> 0, start |-> 0, dep |-> FALSE]
    /\ mem = [b \in {"rx", "tx"} |-> [i \in 1..BufSize |-> 0]]
    /\ call = NoCall
    /\ ret = [op |-> "init", status |-> "success", data |-> <<>>]
    /\ chip = [cmd |-> "idle", modem |-> "idle", fifo |-> <<>>, irq |-> {},
               err |-> {}, auto |-> ~cfg.target, timer |-> FALSE,
               activated |-> FALSE, crypto |-> FALSE]
    /\ peer = [frame |-> <<>>, out |-> <<>>, answer |-> <<>>,
               quality |-> "whole", count |-> 0]
    /\ composed = [bytes |-> <<>>, open |-> FALSE]
    /\ kept = <<>>
    /\ calls = 0 /\ faults = 0

At(pc) == call.pc = pc
Goto(pc) == call' = [call EXCEPT !.pc = pc]
Return(status, data) ==
    /\ call' = NoCall
    /\ ret' = [op |-> call.op, status |-> status, data |-> data]

\* After a failing register access the caller initialises the layer again
MayCall(op) ==
    /\ At("idle") /\ op \in cfg.calls
    /\ (calls < cfg.most \/ op = "fifo") /\ ret.status # "interface"
    /\ calls' = calls + IF op \in {"start_pos", "crc", "mem", "fifo"} THEN 0 ELSE 1

Begin(op, opt, pc, data) ==
    call' = [NoCall EXCEPT !.op = op, !.opt = opt, !.pc = pc, !.data = data]
ReturnAtOnce(op, status) ==
    call' = NoCall /\ ret' = [op |-> op, status |-> status, data |-> <<>>]

Fresh(n) == [i \in 1..n |-> 10 * (calls + 1) + i]

(***************************************************************************)
(* Putting a request together.                                             *)
(***************************************************************************)
OldLength(opt) == IF "leave" \in opt THEN hal.txLen ELSE 0
OldBytes(opt)  == IF "leave" \in opt THEN composed.bytes ELSE <<>>

\* the data go through the Tx buffer: the bus needs the byte before them
Copies(opt) == "buffered" \in opt \/ cfg.spi

\* the Tx buffer takes the data, unless they do not fit
Store(op, opt, data, next) ==
    LET old  == OldLength(opt)
        full == Len(data) > TxRoom - old
    IN /\ composed' = IF full THEN [bytes |-> <<>>, open |-> FALSE]
                      ELSE [bytes |-> OldBytes(opt) \o data,
                            open |-> "buffered" \in opt]
       /\ hal' = [hal EXCEPT !.txLen = IF full THEN 0 ELSE old + Len(data)]
       /\ mem' = IF full THEN mem ELSE Put(TxMem, TxBase + old, data)
       /\ IF full \/ "buffered" \in opt
          THEN ReturnAtOnce(op, IF full THEN "overflow" ELSE "success")
          ELSE Begin(op, opt, next, <<>>) /\ UNCHANGED ret

\* the data go from the caller's memory straight into the FIFO
PassThrough(op, opt, data, next) ==
    /\ composed' = [bytes |-> OldBytes(opt) \o data, open |-> FALSE]
    /\ hal' = [hal EXCEPT !.txLen = OldLength(opt)]
    /\ Begin(op, opt, next, data)
    /\ UNCHANGED <<mem, ret>>

\* A caller adds to a request only while one is being put together, and a
\* target answers only the initiator that has activated it
MayCompose(opt, n) ==
    /\ "leave" \in opt => composed.open
    /\ "buffered" \notin opt => OldLength(opt) + n > 0
    /\ cfg.target => hal.dep /\ chip.modem = "start" /\ peer.out = <<>>

Exchange(opt, n) ==
    /\ MayCall("exchange") /\ MayCompose(opt, n)
    /\ IF Copies(opt)
       THEN IF cfg.target /\ cfg.shared
            THEN /\ ReturnAtOnce("exchange", "use_condition")
                 /\ hal' = [hal EXCEPT !.txLen = OldLength(opt)]
                 /\ composed' = [composed EXCEPT !.open = FALSE]
                 /\ UNCHANGED mem
            ELSE Store("exchange", opt, Fresh(n), "clear")
       ELSE PassThrough("exchange", opt, Fresh(n), "clear")
    /\ UNCHANGED <<cfg, chip, peer, kept, faults>>

\* (Cmd Transmit) stops the timer that starts with the end of a transmission
Transmit(opt, n) ==
    /\ MayCall("transmit") /\ MayCompose(opt \ {"timer"}, n)
    /\ "buffered" \in opt => "transmit_buffered" \in cfg.calls
    /\ chip' = [Cleared(ToIdle(chip)) EXCEPT
                    !.auto = IF "timer" \in opt THEN @ ELSE FALSE]
    /\ peer' = Unheard(peer)
    /\ IF Copies(opt)
       THEN Store("transmit", opt, Fresh(n), "feed")
       ELSE PassThrough("transmit", opt, Fresh(n), "feed")
    /\ UNCHANGED <<cfg, kept, faults>>

(***************************************************************************)
(* Exchange: the request goes out.                                         *)
(***************************************************************************)
\* (mutant) the FIFO and the interrupt flags are left as they are
ClearNothing ==
    /\ At("clear")
    /\ chip' = IF cfg.target THEN chip ELSE ToIdle(chip)
    /\ peer' = IF cfg.target THEN peer ELSE Unheard(peer)
    /\ Goto("feed")
    /\ UNCHANGED <<cfg, hal, mem, ret, composed, kept, calls, faults>>

Clear ==
    /\ At("clear")
    /\ chip' = Cleared(IF cfg.target THEN chip ELSE ToIdle(chip))
    /\ peer' = IF cfg.target THEN peer ELSE Unheard(peer)
    /\ Goto("feed")
    /\ UNCHANGED <<cfg, hal, mem, ret, composed, kept, calls, faults>>

\* what is left of the request after n more bytes of it are in the FIFO
AfterBytes(data) == IF data = <<>> THEN "sent" ELSE "check"

\* (Exchange Transmit) the bytes that precede the command, then the command
Feed ==
    LET all == Buffered \o call.data
        n   == Smaller(cfg.precache, Len(all))
        cmd == IF cfg.target THEN chip.cmd
               ELSE IF call.op = "exchange" THEN "transceive" ELSE "transmit"
    IN /\ At("feed")
       /\ chip' = [Fill(chip, SubSeq(all, 1, n)) EXCEPT
                       !.cmd = cmd,
                       !.modem = IF cmd \in {"transceive", "transmit"} THEN "tx" ELSE @]
       /\ peer' = [peer EXCEPT !.frame = <<>>, !.out = <<>>]
       /\ call' = [call EXCEPT !.data = From(all, n), !.pc = AfterBytes(From(all, n))]
       /\ UNCHANGED <<cfg, hal, mem, ret, composed, kept, calls, faults>>

\* the chip has finished the frame although bytes of it are left
CheckUnderflow ==
    /\ At("check")
    /\ IF chip.irq \intersect {"IDLE", "TX"} = {}
       THEN /\ Goto("write")
            /\ UNCHANGED <<chip, peer, ret, composed>>
       ELSE /\ chip' = [ToIdle(chip) EXCEPT !.fifo = <<>>]
            /\ peer' = Unheard(peer)
            /\ composed' = [composed EXCEPT !.open = FALSE]
            /\ IF call.op = "transmit"
               THEN /\ call' = [call EXCEPT !.pc = "restore", !.status = "underrun"]
                    /\ UNCHANGED ret
               ELSE Return("underrun", <<>>)
    /\ UNCHANGED <<cfg, hal, mem, kept, calls, faults>>

WriteFifo ==
    LET n == Smaller(FifoSize - Len(chip.fifo), Len(call.data))
    IN /\ At("write")
       /\ chip' = Fill(chip, SubSeq(call.data, 1, n))
       /\ call' = [call EXCEPT !.data = From(@, n), !.pc = AfterBytes(From(call.data, n))]
       /\ UNCHANGED <<cfg, hal, mem, ret, peer, composed, kept, calls, faults>>

SentStatus ==
    IF "ERR" \notin chip.irq THEN "success"
    ELSE IF "BUFFEROVFL" \in chip.err THEN "overflow"
    ELSE IF "WRERR" \in chip.err THEN "read_write" ELSE "success"

Sent ==
    /\ At("sent")
    /\ chip.irq \intersect {"TX", "IDLE", "ERR"} # {}
    /\ hal' = [hal EXCEPT !.txLen = 0]
    /\ composed' = [composed EXCEPT !.open = FALSE]
    /\ IF call.op = "transmit"
       THEN call' = [call EXCEPT !.pc = "restore", !.status = SentStatus] /\ UNCHANGED ret
       ELSE IF SentStatus = "success" /\ (cfg.target => "listen" \in call.opt)
            THEN Goto("await") /\ UNCHANGED ret
            ELSE Return(SentStatus, <<>>)
    /\ UNCHANGED <<cfg, mem, chip, peer, kept, calls, faults>>

\* (mutant) the timer stays stopped
RestoreNothing ==
    /\ At("restore")
    /\ Return(call.status, <<>>)
    /\ UNCHANGED <<cfg, hal, mem, chip, peer, composed, kept, calls, faults>>

\* (Cmd Transmit) the timer runs by itself again
Restore ==
    /\ At("restore")
    /\ chip' = [chip EXCEPT !.auto = IF "timer" \in call.opt THEN @ ELSE TRUE]
    /\ Return(call.status, <<>>)
    /\ UNCHANGED <<cfg, hal, mem, peer, composed, kept, calls, faults>>

(***************************************************************************)
(* Exchange and Receive: the answer comes in.                              *)
(***************************************************************************)
\* The bytes of the FIFO alone are asked for after a reception was started
Receive(opt) ==
    /\ MayCall(IF "fifo" \in opt THEN "fifo" ELSE "receive")
    /\ "fifo" \in opt => ret.op = "start"
    /\ opt \intersect {"transceive", "fifo"} = {} => "receive_only" \in cfg.calls
    /\ cfg.target /\ "timer" \in opt => "receive_timer" \in cfg.calls
    /\ IF "fifo" \in opt
       THEN /\ chip.irq \intersect {"RX", "ERR", "HIALERT"} # {}
            /\ hal' = [hal EXCEPT !.rxLen = 0]
            /\ Begin("receive", opt, "irq", <<>>)
            /\ UNCHANGED <<ret, chip, peer>>
       ELSE /\ chip' = [Listen(Cleared(ToIdle(chip)),
                               IF "transceive" \in opt THEN "transceive" ELSE "receive")
                        EXCEPT !.timer = @ \/ "timer" \in opt]
            /\ peer' = Unheard(peer)
            /\ UNCHANGED hal
            /\ IF "start" \in opt
               THEN ReturnAtOnce("start", "success")
               ELSE Begin("receive", opt, "await", <<>>) /\ UNCHANGED ret
    /\ UNCHANGED <<cfg, mem, composed, kept, faults>>

WaitedFor == {"RX", "ERR", "HIALERT", "TIMER", "IDLE"}

\* (Field Reset) the field goes off and on again; the card forgets all
FieldIsReset(c) == [ToIdle(c) EXCEPT !.irq = {}, !.timer = FALSE, !.crypto = FALSE]

\* (Exchange Receive) up to the first interrupt
Await ==
    LET late == "TIMER" \in chip.irq
        reset == late /\ cfg.rfReset
    IN /\ At("await")
       /\ chip.irq \intersect WaitedFor # {}
       /\ chip' = IF reset THEN FieldIsReset(chip) ELSE chip
       /\ peer' = IF reset THEN [peer EXCEPT !.out = <<>>] ELSE peer
       /\ IF reset /\ cfg.target
          THEN Return("use_condition", <<>>) /\ UNCHANGED hal
          ELSE /\ hal' = [hal EXCEPT !.rxLen = 0]
               /\ call' = IF late /\ ~cfg.rxMultiple
                          THEN [call EXCEPT !.pc = "finish", !.status = "timeout"]
                          ELSE [call EXCEPT !.pc = "irq"]
               /\ UNCHANGED ret
       /\ UNCHANGED <<cfg, mem, composed, kept, calls, faults>>

ReadIrq ==
    /\ At("irq")
    /\ call' = [call EXCEPT !.irq = chip.irq, !.pc = "modem"]
    /\ UNCHANGED <<cfg, hal, mem, ret, chip, peer, composed, kept, calls, faults>>

\* STATUS2: poll on while the modem is at work and nothing is flagged
ReadModem ==
    /\ At("modem")
    /\ call' = [call EXCEPT !.modem = chip.modem,
                  !.pc = IF call.irq \intersect WaitedFor = {} /\ chip.modem # "idle"
                         THEN "irq" ELSE "fifo"]
    /\ UNCHANGED <<cfg, hal, mem, ret, chip, peer, composed, kept, calls, faults>>

\* ReadFifo: the bytes there are, unless they do not fit; TRUE when the loop
\* is over is for the caller to say
TakeFifo(over, done) ==
    LET room == BufSize - hal.start - Len(call.got)
        n    == Smaller(Len(chip.fifo), room)
    IN /\ mem' = Put("rx", hal.start + Len(call.got), SubSeq(chip.fifo, 1, n))
       /\ chip' = [chip EXCEPT !.fifo = <<>>]
       /\ IF Len(chip.fifo) > room
          THEN Return("overflow", <<>>)
          ELSE /\ call' = [call EXCEPT !.got = @ \o chip.fifo,
                             !.pc = IF over /\ chip.fifo = <<>> THEN done ELSE "irq"]
               /\ UNCHANGED ret

ReadFifo ==
    /\ At("fifo")
    /\ TakeFifo(call.irq \intersect (WaitedFor \ {"HIALERT"}) # {} \/ call.modem = "idle",
                "finish")
    /\ UNCHANGED <<cfg, hal, peer, composed, kept, calls, faults>>

\* what the ERROR register says, in the order in which it is asked
ErrorStatus ==
    IF "ERR" \notin call.irq THEN "success"
    ELSE IF "WRERR" \in chip.err THEN "read_write"
    ELSE IF "BUFFEROVFL" \in chip.err THEN "overflow"
    ELSE IF "COLLERR" \in chip.err
         THEN IF call.got = <<>> THEN "timeout" ELSE "collision"
    ELSE IF "CRCERR" \in chip.err THEN "integrity" ELSE "success"

AnswerStatus ==
    IF call.status # "success" THEN call.status
    ELSE IF ErrorStatus # "success" THEN ErrorStatus
    ELSE IF call.got = <<>> THEN "timeout"
    ELSE IF peer.quality = "bits" THEN "incomplete" ELSE "success"

\* up to the bit at which two cards differ
CollisionLength == 1

\* the end of the answer: on an error the chip is stopped
Finish ==
    LET status == AnswerStatus
        len    == hal.start + IF status = "collision" THEN CollisionLength ELSE Len(call.got)
        failed == status \notin {"success", "incomplete"}
        idle   == [ToIdle(chip) EXCEPT !.fifo = <<>>]
    IN /\ At("finish")
       /\ chip' = IF ~failed THEN chip
                  ELSE IF cfg.target THEN Listen(idle, "transceive") ELSE idle
       /\ peer' = IF failed THEN Unheard(peer) ELSE peer
       /\ hal' = [hal EXCEPT !.rxLen = len]
       /\ Return(status, SubSeq(mem["rx"], 1, len))
       /\ UNCHANGED <<cfg, mem, composed, kept, calls, faults>>

(***************************************************************************)
(* The other calls.                                                        *)
(***************************************************************************)
\* (Set Config) RXBUFFER_STARTPOS, set while no request waits
SetStart(p) ==
    /\ MayCall("start_pos")
    /\ hal.txLen = 0 /\ p \in {0, hal.rxLen} /\ p < BufSize
    /\ hal' = [hal EXCEPT !.start = p]
    /\ kept' = SubSeq(mem["rx"], 1, p)
    /\ ReturnAtOnce("start_pos", "success")
    /\ UNCHANGED <<cfg, mem, chip, peer, composed, faults>>

\* (Cmd Calc Crc) through the scratch area, without clearing COMMIRQ
CalcCrc(n) ==
    LET room == BufSize - Scratch.base
        data == [i \in 1..n |-> -9]
    IN /\ MayCall("crc")
       /\ IF n > room
          THEN /\ ReturnAtOnce("crc", "overflow")
               /\ chip' = [chip EXCEPT !.fifo = <<>>]
               /\ UNCHANGED mem
          ELSE /\ mem' = Put(Scratch.buf, Scratch.base, data)
               /\ chip' = [Fill([chip EXCEPT !.fifo = <<>>], data) EXCEPT
                               !.cmd = "calccrc", !.modem = "idle"]
               /\ Begin("crc", {}, "crc", data)
               /\ UNCHANGED ret
       /\ peer' = Unheard(peer)
       /\ UNCHANGED <<cfg, hal, composed, kept, faults>>

\* an error flag of an earlier call ends the call without a result
CrcDone ==
    /\ At("crc")
    /\ chip.irq \intersect {"IDLE", "ERR"} # {} \/ "CRC" \in chip.irq
    /\ IF "ERR" \in chip.irq THEN Return("success", <<>>)
       ELSE IF "CRC" \in chip.irq THEN Return("success", call.data)
       ELSE Return("internal", <<>>)
    /\ UNCHANGED <<cfg, hal, mem, chip, peer, composed, kept, calls, faults>>

\* (Cmd Mem) reads the chip's memory through the scratch area
Mem ==
    /\ MayCall("mem")
    /\ chip' = [chip EXCEPT !.fifo = <<>>, !.cmd = "mem", !.modem = "idle"]
    /\ peer' = Unheard(peer)
    /\ Begin("mem", {}, "mem", <<>>)
    /\ UNCHANGED <<cfg, hal, mem, ret, composed, kept, faults>>

MemDone ==
    LET fits == Len(chip.fifo) <= BufSize - Scratch.base
        n    == Smaller(Len(chip.fifo), BufSize - Scratch.base)
    IN /\ At("mem")
       /\ chip.irq \intersect {"IDLE", "ERR"} # {}
       /\ mem' = Put(Scratch.buf, Scratch.base, SubSeq(chip.fifo, 1, n))
       /\ chip' = [chip EXCEPT !.fifo = <<>>]
       /\ IF ~fits THEN Return("overflow", <<>>)
          ELSE IF chip.fifo = <<>> THEN Return("internal", <<>>)
          ELSE Return("success", chip.fifo)
       /\ UNCHANGED <<cfg, hal, peer, composed, kept, calls, faults>>

\* (Mfc Authenticate) command, block, key and UID go into the FIFO as it is
MfcAuthenticate(type, key) ==
    /\ IF Len(chip.fifo) + 2 > FifoSize
       THEN ReturnAtOnce("auth", "overflow") /\ UNCHANGED <<chip, peer>>
       ELSE /\ chip' = [Fill(chip, <<type, key>>) EXCEPT
                            !.irq = {}, !.cmd = "authent", !.modem = "idle"]
            /\ peer' = Unheard(peer)
            /\ Begin("auth", {type}, "auth", <<>>)
            /\ UNCHANGED ret
    /\ UNCHANGED <<cfg, hal, mem, composed, kept, faults>>

\* the bytes that stand for the two commands and the two keys
AuthA == -1
AuthB == -2
KeyOf(type) == IF type = AuthA THEN -3 ELSE -4

\* (Mfc Authenticate Key No) looks the entry up and passes its first key on
MfcAuthenticateKeyNo(type) ==
    /\ MayCall("auth_key_no")
    /\ MfcAuthenticate(type, KeyOf(AuthA))

MfcAuthenticateKey(type) ==
    /\ MayCall("auth")
    /\ MfcAuthenticate(type, KeyOf(type))

AuthDone ==
    /\ At("auth")
    /\ chip.irq \intersect {"RX", "ERR", "TIMER", "IDLE"} # {}
    /\ chip' = [ToIdle(chip) EXCEPT !.fifo = <<>>]
    /\ Return(IF "TIMER" \in chip.irq THEN "timeout"
              ELSE IF chip.crypto THEN "success" ELSE "auth", <<>>)
    /\ UNCHANGED <<cfg, hal, mem, peer, composed, kept, calls, faults>>

\* (Wait) the chip's timer measures the time; (Field Reset) waits twice
Wait(op) ==
    /\ MayCall(op)
    /\ chip' = [ToIdle(chip) EXCEPT !.irq = {}, !.timer = TRUE,
                                    !.crypto = @ /\ op = "wait"]
    /\ peer' = IF op = "reset" THEN [peer EXCEPT !.out = <<>>] ELSE Unheard(peer)
    /\ Begin(op, {}, "wait", <<>>)
    /\ UNCHANGED <<cfg, hal, mem, ret, composed, kept, faults>>

Waited ==
    /\ At("wait")
    /\ chip.irq \intersect {"ERR", "TIMER"} # {}
    /\ chip' = [chip EXCEPT !.irq = {}]
    /\ IF call.op = "reset" /\ cfg.target THEN Return("use_condition", <<>>)
       ELSE Return("success", <<>>)
    /\ UNCHANGED <<cfg, hal, mem, peer, composed, kept, calls, faults>>

(***************************************************************************)
(* The target: the chip answers the initiator's polls by itself and stops  *)
(* with the first frame of the protocol in the FIFO.                       *)
(***************************************************************************)
Autocoll(op) ==
    /\ MayCall(op) /\ cfg.target
    /\ chip' = [Cleared(ToIdle(chip)) EXCEPT
                    !.cmd = "autocoll", !.activated = "no",
                    !.timer = @ \/ (op = "autocoll" /\ cfg.collTimer)]
    /\ peer' = Unheard(peer)
    /\ hal' = [hal EXCEPT !.dep = FALSE]
    /\ Begin(op, {}, "autocoll", <<>>)
    /\ UNCHANGED <<cfg, mem, ret, composed, kept, faults>>

\* with its timer on, the call ends with it even when a frame has just come
AutocollWait ==
    /\ At("autocoll") /\ call.op = "autocoll"
    /\ chip.irq \intersect
         ({"IDLE", "ERR"} \union IF cfg.collTimer THEN {"TIMER"} ELSE {}) # {}
    /\ IF "TIMER" \in chip.irq
       THEN Return("timeout", <<>>) /\ UNCHANGED hal
       ELSE Goto("atr") /\ hal' = [hal EXCEPT !.rxLen = 0] /\ UNCHANGED ret
    /\ UNCHANGED <<cfg, mem, chip, peer, composed, kept, calls, faults>>

\* (Cmd Autocoll) no frame is read from a chip that was not activated
CmdAutocollWait ==
    /\ At("autocoll") /\ call.op = "cmd_autocoll"
    /\ chip.irq \intersect {"IDLE", "ERR"} # {}
    /\ hal' = [hal EXCEPT !.rxLen = 0]
    /\ IF chip.activated = "passive" THEN Goto("atr")
       ELSE call' = [call EXCEPT !.pc = "target", !.status = "timeout"]
    /\ UNCHANGED <<cfg, mem, ret, chip, peer, composed, kept, calls, faults>>

\* the whole frame is in the FIFO: IDLEI has been raised behind it
ReadAtr ==
    /\ At("atr")
    /\ mem' = Put("rx", hal.start, chip.fifo)
    /\ chip' = [chip EXCEPT !.fifo = <<>>]
    /\ IF Len(chip.fifo) > BufSize - hal.start
       THEN Return("overflow", <<>>)
       ELSE /\ call' = [call EXCEPT !.got = chip.fifo, !.irq = chip.irq, !.pc = "target"]
            /\ UNCHANGED ret
    /\ UNCHANGED <<cfg, hal, peer, composed, kept, calls, faults>>

\* the first frame must be an ATR request, from whatever field it comes
AtrStatus ==
    IF call.op = "autocoll" /\ chip.activated = "no" THEN "protocol"
    ELSE IF AnswerStatus \notin {"success", "incomplete"} THEN AnswerStatus
    ELSE IF call.op = "autocoll" /\ peer.quality = "other" THEN "protocol"
    ELSE AnswerStatus

AutocollDone ==
    LET nobody == call.op = "autocoll" /\ chip.activated = "no"
        ok  == nobody \/ AnswerStatus \in {"success", "incomplete"}
        len == IF nobody THEN 0 ELSE hal.start + Len(call.got)
    IN /\ At("target")
       /\ chip' = IF ok THEN chip ELSE [chip EXCEPT !.fifo = <<>>]
       /\ hal' = [hal EXCEPT !.rxLen = len, !.dep = (AtrStatus = "success")]
       /\ Return(AtrStatus, SubSeq(mem["rx"], 1, len))
       /\ UNCHANGED <<cfg, mem, peer, composed, kept, calls, faults>>

(***************************************************************************)
(* A register access fails: every call gives up where it is.  The caller   *)
(* then initialises the layer and applies the protocol settings anew.      *)
(***************************************************************************)
BusFails ==
    /\ ~At("idle") /\ faults < cfg.faults
    /\ faults' = faults + 1
    /\ Return("interface", <<>>)
    /\ composed' = [composed EXCEPT !.open = FALSE]
    /\ UNCHANGED <<cfg, hal, mem, chip, peer, kept, calls>>

\* (Init, Apply Protocol Settings) COMMAND, the FIFO and COMMIRQ stay
Reapply ==
    /\ At("idle") /\ ret.status = "interface"
    /\ hal' = [txLen |-> 0, rxLen |-> 0, start |-> 0, dep |-> FALSE]
    /\ chip' = [chip EXCEPT !.auto = ~cfg.target, !.crypto = FALSE]
    /\ composed' = [bytes |-> <<>>, open |-> FALSE]
    /\ kept' = <<>>
    /\ ret' = [op |-> "init", status |-> "success", data |-> <<>>]
    /\ UNCHANGED <<cfg, mem, call, peer, calls, faults>>

(***************************************************************************)
(* The chip, its timer and the peer (external).                            *)
(***************************************************************************)
\* On a host that is not preempted the FIFO does not run empty between the
\* underflow check and the write that follows it, and a polling round is
\* over before a byte has come in
FifoHolds == Preempted \/ ~At("write")
RoundHolds == Preempted \/ "TIMER" \notin chip.irq \/ call.pc \notin {"irq", "modem", "fifo"}

ChipSends ==
    /\ chip.modem = "tx" /\ chip.fifo # <<>>
    /\ FifoHolds \/ Len(chip.fifo) > 1
    /\ chip' = [chip EXCEPT !.fifo = Tail(@)]
    /\ peer' = [peer EXCEPT !.frame = Append(@, Head(chip.fifo))]
    /\ UNCHANGED <<cfg, hal, mem, call, ret, composed, kept, calls, faults>>

\* The peer answers the frame, or not; its frame may come disturbed
Answers(n, quality) ==
    LET frame == [i \in 1..n |-> 100 * (peer.count + 1) + i]
    IN [peer EXCEPT !.answer = frame, !.out = frame, !.quality = quality,
                    !.count = @ + 1]

Disturbs(n, quality) == n = 0 \/ quality \in {"crc", "coll"}
Qualities == IF cfg.target THEN {"whole", "crc"} ELSE {"whole", "bits", "crc", "coll"}

ChipHasSent(n, quality) ==
    /\ chip.modem = "tx" /\ chip.fifo = <<>> /\ FifoHolds
    /\ n = 0 => quality = "whole"
    /\ ~Disturbs(n, quality) \/ faults < cfg.faults
    /\ faults' = faults + IF Disturbs(n, quality) THEN 1 ELSE 0
    /\ peer' = Answers(n, quality)
    /\ LET c == Raise([chip EXCEPT !.timer = @ \/ chip.auto], {"TX"})
       IN chip' = IF c.cmd = "transmit" THEN Raise(ToIdle(c), {"IDLE"})
                  ELSE [c EXCEPT !.modem = IF cfg.target THEN "start" ELSE "wait"]
    /\ UNCHANGED <<cfg, hal, mem, call, ret, composed, kept, calls>>

Hears == chip.modem = "wait" \/ (chip.modem = "start" /\ chip.cmd = "transceive")

\* a reception that was only started is not timed: the peer is not late
AnswerBegins ==
    /\ Hears /\ peer.out # <<>>
    /\ ret.op = "start" => "TIMER" \notin chip.irq
    /\ chip' = [chip EXCEPT !.modem = "rx", !.timer = @ /\ ~chip.auto]
    /\ UNCHANGED <<cfg, hal, mem, call, ret, peer, composed, kept, calls, faults>>

ChipReceives ==
    /\ chip.modem = "rx" /\ peer.out # <<>> /\ RoundHolds
    /\ chip' = Fill(chip, <<Head(peer.out)>>)
    /\ peer' = [peer EXCEPT !.out = Tail(@)]
    /\ UNCHANGED <<cfg, hal, mem, call, ret, composed, kept, calls, faults>>

ChipHasReceived ==
    LET flagged == CASE peer.quality = "crc"  -> {"CRCERR"}
                     [] peer.quality = "coll" -> {"COLLERR"}
                     [] OTHER -> {}
        c == Raise([chip EXCEPT !.err = @ \union flagged],
                   {"RX"} \union IF flagged = {} THEN {} ELSE {"ERR"})
    IN /\ chip.modem = "rx" /\ peer.out = <<>>
       /\ chip' = IF c.cmd = "receive" THEN Raise(ToIdle(c), {"IDLE"})
                  ELSE [c EXCEPT !.modem = "start"]
       /\ UNCHANGED <<cfg, hal, mem, call, ret, peer, composed, kept, calls, faults>>

\* an answer that nobody listens to
AnswerIsLost ==
    /\ chip.modem = "idle" /\ peer.out # <<>>
    /\ peer' = [peer EXCEPT !.out = <<>>]
    /\ UNCHANGED <<cfg, hal, mem, call, ret, chip, composed, kept, calls, faults>>

TimerExpires ==
    /\ chip.timer /\ ~(chip.auto /\ chip.modem = "rx")
    /\ chip' = Raise([chip EXCEPT !.timer = FALSE], {"TIMER"})
    /\ UNCHANGED <<cfg, hal, mem, call, ret, peer, composed, kept, calls, faults>>

\* the card knows whether command and key belong together
ChipAuthenticates ==
    /\ chip.cmd = "authent" /\ chip.fifo # <<>>
    /\ LET right == Len(chip.fifo) = 2 /\ chip.fifo[2] = KeyOf(chip.fifo[1])
           c == [chip EXCEPT !.fifo = <<>>, !.crypto = right]
       IN chip' = IF right THEN Raise(c, {"IDLE"}) ELSE [c EXCEPT !.timer = @ \/ chip.auto]
    /\ peer' = [peer EXCEPT !.frame = chip.fifo]
    /\ UNCHANGED <<cfg, hal, mem, call, ret, composed, kept, calls, faults>>

ChipCalculates ==
    /\ chip.cmd \in {"calccrc", "mem"}
    /\ chip' = IF chip.cmd = "calccrc"
               THEN Raise([chip EXCEPT !.fifo = <<>>, !.cmd = "idle"], {"CRC"})
               ELSE Raise(Fill([chip EXCEPT !.cmd = "idle"], <<-8, -8>>), {"IDLE"})
    /\ UNCHANGED <<cfg, hal, mem, call, ret, peer, composed, kept, calls, faults>>

ChipIsActivated(n, quality, field) ==
    /\ chip.cmd = "autocoll" /\ chip.fifo = <<>>
    /\ quality \in {"whole", "crc", "other"}
    /\ quality = "whole" \/ faults < cfg.faults
    /\ faults' = faults + IF quality = "whole" THEN 0 ELSE 1
    /\ peer' = [Answers(n, quality) EXCEPT !.out = <<>>]
    /\ LET c == Fill([chip EXCEPT !.cmd = "transceive", !.modem = "start",
                                  !.activated = field], Answers(n, quality).answer)
       IN chip' = IF quality = "crc"
                  THEN Raise([c EXCEPT !.err = {"CRCERR"}], {"IDLE", "ERR"})
                  ELSE Raise(c, {"IDLE"})
    /\ UNCHANGED <<cfg, hal, mem, call, ret, composed, kept, calls>>

\* the initiator's field goes away again
ChipIsLeft ==
    /\ chip.cmd = "autocoll" /\ faults < cfg.faults
    /\ faults' = faults + 1
    /\ chip' = Raise(ToIdle(chip), {"IDLE"})
    /\ UNCHANGED <<cfg, hal, mem, call, ret, peer, composed, kept, calls>>

Options == {{}, {"buffered"}, {"leave"}, {"buffered", "leave"}}

Host ==
    \/ \E opt \in Options, n \in Lengths :
         \/ Exchange(opt, n)
         \/ cfg.target /\ Exchange(opt \union {"listen"}, n)
         \/ Transmit(opt, n)
         \/ Transmit(opt \union {"timer"}, n)
    \/ Clear \/ Feed \/ CheckUnderflow \/ WriteFifo \/ Sent \/ Restore
    \/ \E opt \in {{"fifo"}, {"timer"}, {"start"}, {"timer", "transceive"},
                   {"start", "transceive"}} : Receive(opt)
    \/ Await \/ ReadIrq \/ ReadModem \/ ReadFifo \/ Finish
    \/ \E p \in 0..BufSize : SetStart(p)
    \/ \E n \in Lengths \ {0} : n <= FifoSize /\ CalcCrc(n)
    \/ CrcDone \/ Mem \/ MemDone
    \/ \E type \in {AuthA, AuthB} : MfcAuthenticateKey(type) \/ MfcAuthenticateKeyNo(type)
    \/ AuthDone
    \/ Wait("wait") \/ Wait("reset") \/ Waited
    \/ Autocoll("autocoll") \/ Autocoll("cmd_autocoll")
    \/ AutocollWait \/ CmdAutocollWait \/ ReadAtr \/ AutocollDone
    \/ BusFails \/ Reapply

Chip ==
    \/ ChipSends \/ AnswerBegins \/ ChipReceives \/ ChipHasReceived
    \/ \E n \in AnswerLengths \union {0}, q \in Qualities : ChipHasSent(n, q)
    \/ AnswerIsLost \/ TimerExpires \/ ChipAuthenticates \/ ChipCalculates
    \/ \E n \in AnswerLengths, q \in {"whole", "crc", "other"}, f \in {"passive", "active"} :
         n <= FifoSize /\ ChipIsActivated(n, q, f)
    \/ ChipIsLeft

Next == Host \/ Chip

Spec == Init /\ [][Next]_vars

(***************************************************************************)
(* Properties.                                                             *)
(***************************************************************************)
\* No call receives into a shared buffer while a request waits in it.
RequestsApart(setups) ==
    \A c \in setups : c.shared =>
        IF c.target THEN "transmit" \notin c.calls ELSE c.calls \intersect {"receive", "fifo"} = {}

\* A reader's Transmit takes the caller's bytes as they are.
TransmitsDirectly(setups) ==
    \A c \in setups : "transmit" \in c.calls /\ ~c.target => ~c.spi /\ "transmit_buffered" \notin c.calls

\* A reader receives with TRANSCEIVE only, and a target does not time its Receive.
ReceivesByTransceive(setups) ==
    \A c \in setups : IF c.target THEN c.calls \intersect {"receive_timer", "fifo"} = {}
                     ELSE "receive_only" \notin c.calls

Transmits == ret.op \in {"exchange", "transmit"} /\ ~composed.open
Receives == IF cfg.target THEN ret.op \in {"receive", "autocoll", "cmd_autocoll"}
            ELSE ret.op \in {"exchange", "receive"} /\ ~composed.open

\* A call that says it has sent has put on the air exactly the bytes the
\* caller composed: none is lost, doubled or taken from another frame when
\* the FIFO is refilled while the chip empties it, when the buffer is shared
\* with the answers, or when a command borrows the buffer in between.
SentAsComposed ==
    At("idle") /\ Transmits /\ ret.status = "success" => peer.frame = composed.bytes

\* A call that says it has received hands over, behind the bytes that were to
\* be kept, the peer's whole frame and no other, and never one that came
\* disturbed: whatever the FIFO held before, however the chip's flags and the
\* host's polling interleave, and even when the timer runs out just before.
ReceivedAsSent ==
    At("idle") /\ Receives /\ ~cfg.rxMultiple =>
        /\ ret.status \in {"success", "incomplete"} =>
             /\ ret.data = kept \o peer.answer
             /\ \/ peer.quality \in {"whole", "bits"}
                \/ ret.op = "cmd_autocoll" /\ peer.quality = "other"
        /\ ret.status = "collision" =>
             ret.data = kept \o SubSeq(peer.answer, 1, Smaller(CollisionLength, Len(peer.answer)))

\* A host that waits for a flag of the chip is never left waiting: the chip is
\* still at work on something that raises one, or the timer runs.
WakesUp ==
    \/ cfg.target
    \/ /\ At("sent")  => chip.modem = "tx" \/ chip.irq \intersect {"TX", "IDLE", "ERR"} # {}
       /\ At("await") => \/ chip.irq \intersect WaitedFor # {}
                         \/ chip.timer \/ chip.modem = "rx"
       /\ At("auth")  => chip.irq # {} \/ chip.timer \/ chip.fifo # <<>>
       /\ call.pc \in {"irq", "modem"} =>
            \/ chip.irq \intersect WaitedFor # {}
            \/ chip.timer \/ chip.modem \in {"rx", "idle"}
=============================================================================
