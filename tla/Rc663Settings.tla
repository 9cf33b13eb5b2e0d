--------------------------- MODULE Rc663Settings ---------------------------
(***************************************************************************)
(* How phhalHw_Rc663 is configured: ApplyProtocolSettings, SetConfig,      *)
(* GetConfig, the field, Wait.  Here a change of a data rate rewrites a    *)
(* whole set of registers from a table and lays the shadow over it again.  *)
(* The registers are drive (DRVMODE: field and driver), txAmp, txCrc and   *)
(* rxCrc, txDataNum, frameCon (parity and symbols), the two halves of      *)
(* TxWait, rxWait, rxBit (RXBITCTRL), the reload values of timers 0 and 1, *)
(* and those no setting touches, which name the set they came from.  A     *)
(* command of the chip counts as one access.                               *)
(***************************************************************************)
EXTENDS HalSettings

CONSTANTS BufSize,     \* bytes of the one buffer, transmit and receive
          LoadRegs     \* has the application stored registers for LoadReg?

DefaultTimeout == 150
FifoSize == 255

(* The data rates of phhalHw.h beyond 848 kBit/s.                          *)
OneOf256 == 10
OneOf4   == 11
Low      == 12
High     == 13
FastLow  == 14
FastHigh == 15
Epc      == 16
Pie      == 17
Man2     == 18
Man4     == 19

Cards == {"A", "B", "FELICA", "I15693", "EPCUID", "I18000P3M3", "MPI"}

(* Which cards a member of the chip family can talk to.                    *)
Products ==
  [CLRC663 |-> Cards, MFRC631 |-> {"A", "B"}, MFRC630 |-> {"A"},
   SLRC610 |-> {"I15693", "EPCUID", "I18000P3M3"}]

Table(parity, crc, deaf, wait, tx, rx, ask) ==
  [PARITY |-> parity, TXCRC |-> crc, RXCRC |-> crc, RXDEAFBITS |-> deaf, TXWAIT_US |-> wait,
   TXDATARATE |-> tx, RXDATARATE |-> rx, TIMEOUT_VALUE_US |-> DefaultTimeout,
   TIMEOUT_VALUE_MS |-> 0, ASK100 |-> ask]

Defaults ==
  [A |-> Table(TRUE, FALSE, 8, 81, R106, R106, TRUE),
   B |-> Table(FALSE, TRUE, 8, 85, R106, R106, FALSE) @@ [MODINDEX |-> 204],
   FELICA |-> Table(FALSE, TRUE, 3, 0, R212, R212, FALSE) @@ [MODINDEX |-> 23],
   I15693 |-> Table(FALSE, TRUE, 3, 0, OneOf4, High, TRUE)
                @@ [SUBCARRIER |-> "SINGLE", MODINDEX |-> 16],
   EPCUID |-> Table(FALSE, FALSE, 6, 302, Epc, Epc, FALSE) @@ [MODINDEX |-> 16],
   I18000P3M3 |-> Table(FALSE, TRUE, 1, 0, Pie, Man2, FALSE)
                    @@ [SUBCARRIER |-> "DUAL", MODINDEX |-> 16],
   MPI |-> Table(TRUE, TRUE, 3, 81, R106, R106, TRUE) @@ [MODINDEX |-> 23]]

Zero == [PARITY |-> FALSE, TXCRC |-> FALSE, RXCRC |-> FALSE, TXLASTBITS |-> 0, RXALIGN |-> 0,
         RXDEAFBITS |-> 0, TXWAIT_US |-> 0, CLEARBITSAFTERCOLL |-> FALSE, TXDATARATE |-> R106,
         RXDATARATE |-> R106, MODINDEX |-> 0, ASK100 |-> FALSE, TIMEOUT_VALUE_US |-> 0,
         TIMEOUT_VALUE_MS |-> 0, SUBCARRIER |-> "SINGLE"]

-----------------------------------------------------------------------------
(* The tables of registers, named by family, rate and subcarrier.          *)

AllOn == {"RFON", "TPUSHON", "TPULLON"}

Registers == <<"drive", "txAmp", "drvCon", "txI", "txCrc", "rxCrc", "txDataNum", "txModWidth",
               "burstLen", "txWaitHi", "frameCon", "rxCtrl", "rxThreshold", "rcv", "rxAna">>

RxRegisters == {"rxCrc", "rxCtrl", "rxThreshold", "rcv", "rxAna"}

RegisterSet(card, rate, subcarrier) ==
  CASE card = "A" \/ (card = "MPI" /\ rate = R106) -> <<"A", rate>>
    [] card = "B" -> <<"B", rate>>
    [] card \in {"FELICA", "MPI"} -> <<"FELICA", rate>>
    [] card = "I18000P3M3" -> <<card, rate, subcarrier>>
    [] OTHER -> <<card, rate>>

TypeA(set) == set[1] = "A"
Driver(set) == IF TypeA(set) /\ set[2] # R848 THEN {"RFON", "TPUSHON"} ELSE AllOn
Residual(set) ==
  CASE TypeA(set) -> <<21, 18, 18, 28>>[set[2] + 1]
    [] set[1] = "B" -> 12
    [] set[1] = "FELICA" -> 23
    [] OTHER -> 16

(* What a register of the set holds; the field is left as it is.           *)
Content(chip, register, set) ==
  CASE register = "drive" -> [chip.drive EXCEPT !.driver = Driver(set)]
    [] register = "txAmp" -> [from |-> set, residual |-> Residual(set)]
    [] register \in {"txCrc", "rxCrc"} ->
         [on |-> ~TypeA(set) /\ (set[1] = "EPCUID" => register = "rxCrc"), kind |-> set[1]]
    [] register = "txDataNum" -> CASE TypeA(set) -> 7 [] set[1] = "I18000P3M3" -> 1 [] OTHER -> 0
    [] register = "txWaitHi" -> 0
    [] register = "frameCon" ->
         [tx |-> TypeA(set), rx |-> TypeA(set),
          start |-> IF set[1] \in {"A", "I15693", "EPCUID"} THEN "SYM2" ELSE "SYM0",
          stop |-> CASE set[1] \in {"A", "I15693", "EPCUID"} -> "SYM3"
                     [] set[1] = "B" -> "SYM1" [] OTHER -> "NONE"]
    [] OTHER -> set

Blank == <<"RESET", R106>>

Fresh(product) ==
  [reader |-> "RC663", card |-> "A", unit |-> "us", shadow |-> Zero,
   host |-> [TIMING_MODE |-> "OFF", FIELD_OFF_TIME |-> 5,
             FIELD_RECOVERY_TIME |-> 5, ADDITIONAL_INFO |-> 0, RXBUFFER_STARTPOS |-> 0,
             TXBUFFER_LENGTH |-> 0, MAX_PRECACHED_BYTES |-> FifoSize, BAL_CONNECTION |-> 0,
             RFRESET_ON_TIMEOUT |-> FALSE, FIFOSIZE |-> FifoSize, LOADREG_MODE |-> FALSE,
             SYMBOL_START |-> "OFF", SYMBOL_END |-> "OFF"],
   chip |-> [r \in ToSet(Registers) |->
              IF r = "drive" THEN [field |-> FALSE, driver |-> {}]
              ELSE Content([drive |-> [field |-> FALSE, driver |-> {}]], r, Blank)]
            @@ [product |-> product, protocol |-> Blank, txWaitLo |-> 0, rxWait |-> 0,
                rxBit |-> [align |-> 0, keep |-> FALSE], fifo |-> 512, crypto1 |-> FALSE,
                serial |-> 115200, t0Hi |-> NoTime, t0Lo |-> NoTime, t1Hi |-> NoTime, t1Lo |-> NoTime],
   saved |-> 0, status |-> "SUCCESS", left |-> 0]

-----------------------------------------------------------------------------
(* The timers.  In microseconds the digital delay of the receiver is added *)
(* to the timeout: it depends on the card and on the rate then configured. *)

DelayKnown(h) ==
  /\ h.card \in Cards
  /\ h.card = "I18000P3M3" => h.shadow.RXDATARATE \in {Man2, Man4}

SetFdt(h, unit, value) ==
  LET delayed == unit = "us"
      time == [us |-> Micros(unit, value), rate |-> IF delayed THEN h.shadow.RXDATARATE ELSE R106,
               delayed |-> delayed]
  IN  IF delayed /\ ~DelayKnown(h) THEN Fail(h, "INTERNAL")
      ELSE WriteAll(h, << <<"t0Hi", time>>, <<"t0Lo", time>>, <<"t1Hi", time>>, <<"t1Lo", time>> >>)

SetTimeout(h, option, value) ==
  LET unit == IF option = "TIMEOUT_VALUE_US" THEN "us" ELSE "ms"
      set  == SetFdt(h, unit, value)
  IN  Remember(IF set.status = "SUCCESS" THEN [set EXCEPT !.unit = unit] ELSE set, option, value)

(* What GetConfig returns: the timeout in either unit, unless it takes     *)
(* more than 16 bits; the bits of alignment are not reported.              *)
GetTimeout(h, option) ==
  CASE option = "TIMEOUT_VALUE_MS" -> Timeout(h) \div 1000
    [] h.unit = "ms" /\ h.shadow.TIMEOUT_VALUE_MS > 65 -> "OVERFLOW"
    [] OTHER -> Timeout(h)

GetConfig(h, option) ==
  CASE option \in {"TIMEOUT_VALUE_US", "TIMEOUT_VALUE_MS"} -> GetTimeout(h, option)
    [] option \in DOMAIN h.shadow \ {"TIMEOUT_VALUE_US", "TIMEOUT_VALUE_MS", "RXALIGN"} -> h.shadow[option]
    [] option \in DOMAIN h.host -> h.host[option]
    [] option = "DISABLE_MF_CRYPTO1" -> ~h.chip.crypto1
    [] OTHER -> "UNSUPPORTED"

(* A transmit rate beyond 848 leaves the timeout just read, in ms.         *)
MinFdt == <<101, 127, 119, 128>>

SetMinFdt(h, on) ==
  LET rate == GetConfig(h, "TXDATARATE")
      kept == GetConfig(h, "TIMEOUT_VALUE_MS")
  IN  IF on THEN SetTimeout([h EXCEPT !.saved = kept], "TIMEOUT_VALUE_US",
                            IF rate \in R106 .. R848 THEN MinFdt[rate + 1] ELSE kept)
      ELSE SetTimeout(h, "TIMEOUT_VALUE_MS", h.saved)

(* The guard before the next frame, in ticks of the rate in the shadow.    *)
HundredthsPerTick(rate) ==
  CASE rate \in R106 .. R848 -> 472 * (rate + 1)
    [] rate \in {OneOf256, OneOf4} -> 944
    [] rate \in {Epc, Pie} -> 472

Ticks(us, rate) ==
  LET tick  == HundredthsPerTick(rate)
      ticks == (100 * us + tick - 1) \div tick
  IN  IF ticks > 8 THEN ticks - 8 ELSE 0

SetTxWait(h, us) ==
  LET rate  == h.shadow.TXDATARATE
      ticks == Ticks(us, rate)
  IN  IF rate \notin R106 .. R848 \cup {OneOf256, OneOf4, Epc, Pie} THEN Fail(h, "INTERNAL")
      ELSE IF ticks > 2047 THEN Fail(h, "INVALID")
      ELSE Write(Modify(h, "txWaitHi", ticks), "txWaitLo", ticks)

(* The deaf time of the receiver, likewise in units of its rate.           *)
Scale(rate) == IF rate \in {High, Epc} THEN 4 ELSE 2

SetRxWait(h, etu) ==
  LET rate == h.shadow.RXDATARATE
  IN  IF rate \notin R106 .. R848 \cup {High, FastHigh, Epc, Man2, Man4} THEN Fail(h, "INTERNAL")
      ELSE IF etu > 127 \div Scale(rate) THEN Fail(h, "INVALID")
      ELSE Write(h, "rxWait", etu * Scale(rate))

-----------------------------------------------------------------------------
(* SetConfig_Int: the settings laid over a register set.                   *)

(* The NFC initiator has parity at 106 only; of the two directions the     *)
(* receiver's, looked at last, wins.                                       *)
WithParity(h, on) ==
  LET frame == h.chip.frameCon
  IN  CASE h.card # "MPI" -> [frame EXCEPT !.tx = on, !.rx = on]
        [] h.card = "MPI" /\ h.shadow.RXDATARATE = R106 -> [frame EXCEPT !.rx = on]
        [] h.card = "MPI" /\ h.shadow.RXDATARATE # R106 /\ h.shadow.TXDATARATE = R106 ->
             [frame EXCEPT !.tx = on]
        [] OTHER -> frame

SetParity(h, on) == Change(h, "frameCon", WithParity(h, on))

SetCrc(h, register, on) ==
  LET crc == h.chip[register]
  IN  Change(h, register, [on |-> on,
               kind |-> IF on /\ h.card = "I18000P3M3" THEN "PRESET" ELSE crc.kind])

SetTxLastBits(h, bits) ==
  IF bits > 7 THEN Fail(h, "INVALID") ELSE Modify(h, "txDataNum", bits)

AskDriver(h) ==
  CASE h.card = "A" -> Driver(<<"A", h.shadow.TXDATARATE>>)
    [] h.card = "MPI" /\ h.shadow.TXDATARATE = R106 -> Driver(<<"A", R106>>)
    [] OTHER -> {"TPULLON"}

SetAsk100(h, on) ==
  IF on /\ h.card = "A" /\ h.shadow.TXDATARATE \notin R106 .. R848 THEN Fail(Access(h), "INTERNAL")
  ELSE Change(h, "drive", [h.chip.drive EXCEPT !.driver = IF on THEN AskDriver(h) ELSE AllOn])

SetInternal(h, option, value) ==
  CASE option = "PARITY" -> SetParity(h, value)
    [] option = "TXCRC" -> SetCrc(h, "txCrc", value)
    [] option = "RXCRC" -> SetCrc(h, "rxCrc", value)
    [] option = "TXLASTBITS" -> SetTxLastBits(h, value)
    [] option = "ASK100" -> SetAsk100(h, value)

-----------------------------------------------------------------------------
(* SetCardMode: the protocol, the register set and what lies over it.      *)

Allowed(card, tx, rx, subcarrier) ==
  CASE card \in {"A", "B"} -> {tx, rx} \subseteq R106 .. R848
    [] card = "MPI" -> {tx, rx} \subseteq R106 .. R424
    [] card = "FELICA" -> tx = rx /\ tx \in {R212, R424}
    [] card = "I15693" -> /\ tx \in {OneOf256, OneOf4}
                          /\ rx = FastHigh \/ (rx = High /\ subcarrier \in {"SINGLE", "DUAL"})
    [] card = "EPCUID" -> tx = Epc /\ rx = Epc
    [] card = "I18000P3M3" -> tx = Pie /\ rx \in {Man2, Man4} /\ subcarrier \in {"DUAL", "QUAD"}
    [] OTHER -> FALSE

Refusal(card, tx, rx) ==
  IF card = "I15693" /\ tx \in {OneOf256, OneOf4} /\ rx \in {Low, FastLow}
  THEN "UNSUPPORTED" ELSE "INVALID"

(* 15693 and 18000 take everything from the receiver's set.                *)
LoadSet(h, tx, rx, subcarrier) ==
  LET rxSet == RegisterSet(h.card, rx, subcarrier)
      txSet == IF h.card \in {"I15693", "I18000P3M3"} THEN rxSet ELSE RegisterSet(h.card, tx, subcarrier)
      Entry(r) == <<r, Content(h.chip, r, IF r \in RxRegisters THEN rxSet ELSE txSet)>>
  IN  WriteAll(h, Others(1) \o [i \in DOMAIN Registers |-> Entry(Registers[i])])

(* Registers the application stored replace the table; only those are      *)
(* taken to be stored that no setting touches.                             *)
LoadReg(h) ==
  LET stored == [r \in DOMAIN h.chip |-> IF r \in {"drvCon", "txI", "txModWidth", "burstLen",
                                                  "rxCtrl", "rxThreshold", "rcv", "rxAna"}
                                         THEN <<"STORED", R106>> ELSE h.chip[r]]
      done   == Access(h)
  IN  IF done.status = "SUCCESS" THEN [done EXCEPT !.chip = stored] ELSE done

(* What LoadProtocol selects, for the two directions.                      *)
Protocol(card, tx, rx, subcarrier) ==
  <<card, tx, rx, IF card = "I18000P3M3" \/ rx = High THEN subcarrier ELSE "NONE">>

(* (mutant) The bits of the last byte are left as the set has them. *)
LaidWithoutBits == <<"PARITY", "TXCRC", "RXCRC">>

(* The settings laid over a register set.                                  *)
Laid == <<"PARITY", "TXCRC", "RXCRC", "TXLASTBITS">>

(* TxWait and the driver are computed while the shadow still holds the     *)
(* rate before; the rates follow, and parity, CRC and last bits after them.*)
SetCardMode(h, tx, rx, subcarrier) ==
  LET protocol == Write(Access(h), "protocol", Protocol(h.card, tx, rx, subcarrier))
      table    == LoadSet(protocol, tx, rx, subcarrier)
      shaped   == IF h.host.LOADREG_MODE THEN LoadReg(protocol)
                  ELSE SetTxWait(SetAsk100(table, h.shadow.ASK100), h.shadow.TXWAIT_US)
      rated    == Remember(Remember(shaped, "TXDATARATE", tx), "RXDATARATE", rx)
      Lay(g, o) == SetInternal(g, o, h.shadow[o])
  IN  IF ~Allowed(h.card, tx, rx, subcarrier) THEN Fail(h, Refusal(h.card, tx, rx))
      ELSE FoldLeft(Lay, rated, Laid)

(* FeliCa has one rate for both directions; the NFC initiator's modulation *)
(* follows its transmit rate, in the shadow and before the rate is tried.  *)
SetTxRate(h, rate) ==
  LET rx  == IF h.card = "FELICA" THEN rate ELSE h.shadow.RXDATARATE
      ask == IF h.card = "MPI" THEN Remember(h, "ASK100", rate = R106) ELSE h
  IN  SetCardMode(ask, rate, rx, h.shadow.SUBCARRIER)

SetRxRate(h, rate) ==
  SetCardMode(h, IF h.card = "FELICA" THEN rate ELSE h.shadow.TXDATARATE, rate, h.shadow.SUBCARRIER)

SetSubcarrier(h, subcarrier) ==
  IF h.card \notin {"I15693", "I18000P3M3"} THEN Fail(h, "USE_CONDITION")
  ELSE Remember(SetCardMode(h, h.shadow.TXDATARATE, h.shadow.RXDATARATE, subcarrier),
                "SUBCARRIER", subcarrier)

-----------------------------------------------------------------------------
(* SetConfig, option by option.                                            *)

SetRxAlign(h, bit) ==
  IF bit > 7 THEN Fail(h, "INVALID")
  ELSE Change(h, "rxBit", [h.chip.rxBit EXCEPT !.align = bit])

SetClearBits(h, on) == Change(h, "rxBit", [h.chip.rxBit EXCEPT !.keep = ~on])

SetModIndex(h, index) ==
  IF index >= 205 THEN Fail(h, "INVALID")
  ELSE Remember(Change(h, "txAmp", [h.chip.txAmp EXCEPT !.residual = index % 32]),
                "MODINDEX", index % 32)

SetOption(h, option, value) ==
  CASE option \in {"PARITY", "TXCRC", "RXCRC", "TXLASTBITS", "ASK100"} ->
         Remember(SetInternal(h, option, value), option, value)
    [] option = "RXALIGN" -> Remember(SetRxAlign(h, value), option, value)
    [] option = "RXDEAFBITS" -> Remember(SetRxWait(h, value), option, value)
    [] option = "TXWAIT_US" -> Remember(SetTxWait(h, value), option, value)
    [] option = "CLEARBITSAFTERCOLL" -> Remember(SetClearBits(h, value), option, value)
    [] option = "TXDATARATE" -> SetTxRate(h, value)
    [] option = "RXDATARATE" -> SetRxRate(h, value)
    [] option = "MODINDEX" -> SetModIndex(h, value)
    [] option \in {"TIMEOUT_VALUE_US", "TIMEOUT_VALUE_MS"} -> SetTimeout(h, option, value)
    [] option = "SUBCARRIER" -> SetSubcarrier(h, value)

(* The symbols that open and close a frame: remembered first, then put     *)
(* into the register.                                                      *)
StartSymbols ==
  [SSOF |-> [card |-> "EPCUID", as |-> "SYM2"], LSOF |-> [card |-> "EPCUID", as |-> "SYM0"],
   CS |-> [card |-> "EPCUID", as |-> "SYM1"], SOF |-> [card |-> "I15693", as |-> "SYM2"],
   PREAMBLE |-> [card |-> "I18000P3M3", as |-> "SYM0"],
   FSYNC |-> [card |-> "I18000P3M3", as |-> "SYM1"]]

StartAs(symbol) == IF symbol = "OFF" THEN "NONE" ELSE StartSymbols[symbol].as

SetSymbolStart(h, symbol) ==
  IF h.card \notin {"EPCUID", "I15693", "I18000P3M3"} THEN Fail(h, "USE_CONDITION")
  ELSE IF symbol \notin DOMAIN StartSymbols \cup {"OFF"} THEN Fail(h, "UNSUPPORTED")
  ELSE IF symbol # "OFF" /\ StartSymbols[symbol].card # h.card THEN Fail(h, "INVALID")
  ELSE Change(Keep(h, "SYMBOL_START", symbol), "frameCon",
              [h.chip.frameCon EXCEPT !.start = StartAs(symbol)])

SetSymbolEnd(h, symbol) ==
  IF h.card # "EPCUID" THEN Fail(h, "USE_CONDITION")
  ELSE IF symbol \notin {"CEOF", "OFF"} THEN Fail(h, "INVALID")
  ELSE Change(Keep(h, "SYMBOL_END", symbol), "frameCon",
              [h.chip.frameCon EXCEPT !.stop = IF symbol = "CEOF" THEN "SYM3" ELSE "NONE"])

(* Raw registers: the opening of an 18000-3 frame by hand, the data bits.  *)
SetFrameSync(h) ==
  LET crc    == [on |-> TRUE, kind |-> "B"]
      framed == Write(h, "frameCon", [tx |-> FALSE, rx |-> FALSE, start |-> "SYM1", stop |-> "NONE"])
      shaped == Write(Accesses(framed, 4), "burstLen", Blank)
  IN  Write(Write(Accesses(shaped, 3), "txCrc", crc), "rxCrc", crc)

SetTxDataNum(h, value) == Write(h, "txDataNum", value % 8)

(* The smaller FIFO takes no more than it holds in advance; the larger one *)
(* leaves that as it is.                                                   *)
SetFifoSize(h, size) ==
  LET sized == Write(h, "fifo", size)
      less  == Keep(sized, "MAX_PRECACHED_BYTES",
                    IF h.host.MAX_PRECACHED_BYTES > FifoSize THEN FifoSize ELSE h.host.MAX_PRECACHED_BYTES)
  IN  IF size \notin {255, 512} THEN Fail(h, "INVALID")
      ELSE Keep(Access(IF size = 255 THEN less ELSE sized), "FIFOSIZE", size)

SetTimingMode(h, mode) ==
  IF mode \in {"OFF", "FDT"} THEN Keep(h, "TIMING_MODE", mode)
  ELSE Fail(h, IF mode = "COMM" THEN "UNSUPPORTED" ELSE "INVALID")

(* A start position is compared with what the one before it leaves.        *)
SetHost(h, option, value) ==
  IF \/ option = "FIELD_OFF_TIME" /\ value = 0
     \/ option = "MAX_PRECACHED_BYTES" /\ value > h.host.FIFOSIZE
     \/ option = "BAL_CONNECTION" /\ value > 2
  THEN Fail(h, "INVALID")
  ELSE IF \/ option = "RXBUFFER_STARTPOS" /\ value >= BufSize - h.host.RXBUFFER_STARTPOS
          \/ option = "TXBUFFER_LENGTH" /\ value > BufSize - h.host.RXBUFFER_STARTPOS
  THEN Fail(h, "BUFFER_OVERFLOW")
  ELSE IF option = "LOADREG_MODE" /\ value /\ ~LoadRegs THEN Fail(h, "USE_CONDITION")
  ELSE Keep(h, option, value)

CryptoOff(h) == Change(h, "crypto1", FALSE)

SetSerialBitrate(h, rate) ==
  IF rate \in {7200, 9600, 14400, 19200, 38400, 57600, 115200, 128000, 230400, 460800, 921600, 1228800}
  THEN Write(h, "serial", rate) ELSE Fail(h, "INVALID")

SetConfig(h, option, value) ==
  CASE option \in DOMAIN h.shadow -> SetOption(h, option, value)
    [] option = "TIMING_MODE" -> SetTimingMode(h, value)
    [] option = "SYMBOL_START" -> SetSymbolStart(h, value)
    [] option = "SYMBOL_END" -> SetSymbolEnd(h, value)
    [] option = "FRAME_SYNC" -> SetFrameSync(h)
    [] option = "TXDATANUM" -> SetTxDataNum(h, value)
    [] option = "DISABLE_MF_CRYPTO1" -> IF value THEN CryptoOff(h) ELSE h
    [] option = "SERIAL_BITRATE" -> SetSerialBitrate(h, value)
    [] option = "FIFOSIZE" -> SetFifoSize(h, value)
    [] option = "SETMINFDT" -> SetMinFdt(h, value)
    [] option \in DOMAIN h.host \ {"TIMING_MODE", "SYMBOL_START", "SYMBOL_END", "FIFOSIZE"} ->
         SetHost(h, option, value)
    [] OTHER -> Fail(h, "UNSUPPORTED")

-----------------------------------------------------------------------------
(* ApplyProtocolSettings.                                                  *)

(* EPCV2_Init: the registers of 18000-3 mode 3, among them the driver with *)
(* the field on; those no setting touches are only counted.                *)
EpcV2Init(h) ==
  LET set    == <<"EPCV2", R106>>
      crc    == [on |-> TRUE, kind |-> "EPCV2"]
  IN  WriteAll(h,
        << <<"txAmp", [from |-> set, residual |-> 0]>>, <<"txI", set>>, <<"rcv", set>> >>
        \o Others(1)
        \o << <<"drvCon", set>>, <<"drive", [field |-> TRUE, driver |-> AllOn]>>, <<"rxAna", set>>,
              <<"frameCon", [tx |-> FALSE, rx |-> FALSE, start |-> "SYM0", stop |-> "NONE"]>> >>
        \o Others(5) \o << <<"burstLen", set>> >> \o Others(8)
        \o << <<"txModWidth", set>>, <<"txWaitHi", 0>>, <<"txWaitLo", 18>> >> \o Others(2)
        \o << <<"txCrc", crc>>, <<"txDataNum", 0>> >> \o Others(1)
        \o << <<"rxWait", 0>>, <<"rxBit", [align |-> 0, keep |-> FALSE]>> >> \o Others(2)
        \o << <<"rxCrc", crc>> >> \o Others(3) \o << <<"rxThreshold", set>> >> \o Others(3)
        \o << <<"rxCtrl", set>> >> \o Others(4) \o << <<"fifo", 512>> >> \o Others(2)
        \o << <<"txDataNum", 4>>, <<"rxBit", [align |-> 7, keep |-> FALSE]>> >>)

(* What a new card type starts from: timers, FIFO and bits after collision.*)
Prepare(h) ==
  LET fifo == SetFifoSize(Accesses(h, 6), h.host.FIFOSIZE)
  IN  Access(Write(fifo, "rxBit", [align |-> 0, keep |-> TRUE]))

(* memset clears as many bytes of the shadow as it has 16-bit entries: the *)
(* options up to TXWAIT_US; then the defaults are copied over it.          *)
Cleared == {"PARITY", "TXCRC", "RXCRC", "TXLASTBITS", "RXALIGN", "RXDEAFBITS", "TXWAIT_US"}

DefaultShadow(h, card) ==
  [o \in DOMAIN h.shadow |-> IF o \in DOMAIN Defaults[card] THEN Defaults[card][o]
                             ELSE IF o \in Cleared THEN Zero[o] ELSE h.shadow[o]]

(* What SetCardMode has not laid over the registers already, in the order  *)
(* of the table; LoadReg's registers are left alone.                       *)
Remaining(h) ==
  SelectSeq(<<"RXDEAFBITS", "TXWAIT_US", TimeoutOption(h.unit), "MODINDEX", "ASK100">>, LAMBDA o :
    /\ o \in DOMAIN Defaults[h.card]
    /\ h.host.LOADREG_MODE => o = TimeoutOption(h.unit))

ApplyProtocolSettings(h, card) ==
  LET new      == card # "CURRENT"
      read     == Access(h)
      begun    == IF new THEN [read EXCEPT !.card = card, !.unit = "us"] ELSE read
      opened   == IF begun.card = "I18000P3M3"
                  THEN EpcV2Init(SetSymbolStart(begun, "FSYNC")) ELSE begun
      prepared == IF new THEN Prepare(opened) ELSE opened
      default  == IF new /\ prepared.status = "SUCCESS"
                  THEN [prepared EXCEPT !.shadow = DefaultShadow(prepared, card)] ELSE prepared
      mode     == SetCardMode(default, default.shadow.TXDATARATE, default.shadow.RXDATARATE,
                              default.shadow.SUBCARRIER)
      Apply(g, o) == SetOption(g, o, g.shadow[o])
  IN  IF read.status # "SUCCESS" THEN read
      ELSE IF begun.card \notin Cards THEN Fail(begun, "INVALID")
      ELSE IF begun.card \notin Products[h.chip.product] THEN Fail(begun, "USE_CONDITION")
      ELSE CryptoOff(FoldLeft(Apply, mode, Remaining(begun)))

-----------------------------------------------------------------------------
(* The field, and waiting.                                                 *)

FieldOn(h) == Modify(h, "drive", [h.chip.drive EXCEPT !.field = TRUE])

FieldOff(h) == Modify(h, "drive", [h.chip.drive EXCEPT !.field = FALSE])

(* Timers 0 and 1 are borrowed; WaitIrq enables the interrupt, polls for   *)
(* it and disables it again.                                               *)
Wait(h, unit, value) ==
  LET waited == Accesses(SetFdt(h, unit, value), 11)
  IN  IF unit \notin {"us", "ms"} THEN Fail(h, "INVALID")
      ELSE SetFdt(waited, h.unit, h.shadow[TimeoutOption(h.unit)])

FieldReset(h) ==
  Wait(FieldOn(Wait(FieldOff(h), "ms", h.host.FIELD_OFF_TIME)), "ms", h.host.FIELD_RECOVERY_TIME)

=============================================================================
