--------------------------- MODULE Rc523Settings ---------------------------
(***************************************************************************)
(* How phhalHw_Rc523 is configured: ApplyProtocolSettings, SetConfig,      *)
(* GetConfig, the field, Wait.  The registers of the chip are kept as the  *)
(* fields the settings write: txMode and rxMode [framing, speed, crc] (and *)
(* multiple), parity, rxWait, modGsp, txAsk and mode (sets of bits),       *)
(* bitFraming, modWidth, threshold, tMode [auto, time] with the upper part *)
(* of the prescaler, prescaler and the two halves of the reload value,     *)
(* each with the time it was computed for.                                 *)
(***************************************************************************)
EXTENDS HalSettings

CONSTANTS BufSize,     \* bytes of the one buffer, transmit and receive
          TimerMax     \* PHHAL_HW_RC523_TIMER_MAX_VALUE_US

DefaultTimeout == 150
FifoSize == 64
FelicaDelay == 240

Initiators == {"MPI", "MPI_212", "MPI_424"}
Nfc == Initiators \cup {"MPT"}

(* The tables of defaults, in the order in which they are applied.         *)
Table(parity, crc, deaf, rate, index, ask) ==
  << <<"PARITY", parity>>, <<"TXCRC", crc>>, <<"RXCRC", crc>>, <<"RXDEAFBITS", deaf>>,
     <<"TXDATARATE", rate>>, <<"RXDATARATE", rate>>,
     <<"TIMEOUT_VALUE_US", DefaultTimeout>>, <<"TIMEOUT_VALUE_MS", 0>>,
     <<"MODINDEX", index>>, <<"ASK100", ask>> >>

Defaults ==
  [A |-> Table(TRUE, FALSE, 8, R106, 63, TRUE),
   B |-> Table(TRUE, TRUE, 8, R106, 17, FALSE),
   FELICA |-> Table(FALSE, TRUE, 3, R212, 18, FALSE),
   FELICA_424 |-> Table(FALSE, TRUE, 3, R424, 18, FALSE),
   MPI |-> Table(TRUE, TRUE, 3, R106, 18, TRUE),
   MPI_212 |-> Table(FALSE, TRUE, 3, R212, 18, FALSE),
   MPI_424 |-> Table(FALSE, TRUE, 3, R424, 18, FALSE),
   MPT |-> RemoveAt(Table(TRUE, TRUE, 8, R106, 0, TRUE), 9)]

Zero == [PARITY |-> FALSE, TXCRC |-> FALSE, RXCRC |-> FALSE, TXLASTBITS |-> 0, RXALIGN |-> 0,
         RXDEAFBITS |-> 0, CLEARBITSAFTERCOLL |-> FALSE, TXDATARATE |-> R106, RXDATARATE |-> R106,
         MODINDEX |-> 0, ASK100 |-> FALSE, TIMEOUT_VALUE_US |-> 0, TIMEOUT_VALUE_MS |-> 0]

(* What is known after Init and a reset of the chip.                       *)
Fresh ==
  [reader |-> "RC523", card |-> "A", unit |-> "us", shadow |-> Zero,
   host |-> [TIMING_MODE |-> "OFF", FIELD_OFF_TIME |-> 5,
             FIELD_RECOVERY_TIME |-> 5, ADDITIONAL_INFO |-> 0, RXBUFFER_STARTPOS |-> 0,
             TXBUFFER_LENGTH |-> 0, MAX_PRECACHED_BYTES |-> FifoSize, BAL_CONNECTION |-> 0,
             RFRESET_ON_TIMEOUT |-> FALSE, RXMULTIPLE |-> FALSE, ACTIVEMODE |-> FALSE,
             AUTOCOLL_TIMER |-> TRUE],
   chip |-> [txMode |-> [framing |-> "MIFARE", speed |-> R106, crc |-> FALSE],
             rxMode |-> [framing |-> "MIFARE", speed |-> R106, crc |-> FALSE, multiple |-> FALSE],
             parity |-> TRUE, bitFraming |-> [last |-> 0, align |-> 0], rxWait |-> 4,
             modGsp |-> 32, modWidth |-> ToString(R106), threshold |-> "A", initiator |-> FALSE,
             field |-> FALSE, txAsk |-> {}, bitPhase |-> 0, mode |-> {"SYNC"},
             tMode |-> [auto |-> FALSE, time |-> NoTime], prescaler |-> NoTime,
             reloadLo |-> NoTime, reloadHi |-> NoTime, crypto1 |-> FALSE, serial |-> 9600,
             halted |-> FALSE],
   saved |-> 0, status |-> "SUCCESS", left |-> 0]

-----------------------------------------------------------------------------
(* What GetConfig returns; it keeps to its 16 bits by refusing.            *)

Overflows(h) == Fail(h, "PARAMETER_OVERFLOW")

(* The timeout in either unit; what no 16 bits hold is not reported.       *)
GetTimeout(h, option) ==
  CASE option = "TIMEOUT_VALUE_MS" -> Timeout(h) \div 1000
    [] h.unit = "ms" /\ h.shadow.TIMEOUT_VALUE_MS > 65 -> "OVERFLOW"
    [] OTHER -> Timeout(h)

GetConfig(h, option) ==
  CASE option \in {"TIMEOUT_VALUE_US", "TIMEOUT_VALUE_MS"} -> GetTimeout(h, option)
    [] option \in DOMAIN h.shadow \ {"TIMEOUT_VALUE_US", "TIMEOUT_VALUE_MS", "RXALIGN"} -> h.shadow[option]
    [] option \in DOMAIN h.host -> h.host[option]
    [] option = "DISABLE_MF_CRYPTO1" -> ~h.chip.crypto1
    [] option = "RX_FRAME_MODE" -> h.chip.rxMode.framing
    [] option = "RXSPEED" -> h.chip.rxMode.speed
    [] OTHER -> "UNSUPPORTED"

-----------------------------------------------------------------------------
(* The timer.                                                              *)

Delayed(h) == \/ h.card = "FELICA"
              \/ h.card \in Initiators /\ h.shadow.RXDATARATE > R106

SetFdt(h, unit, value) ==
  LET time == [us |-> Micros(unit, value), rate |-> h.shadow.RXDATARATE, delayed |-> Delayed(h)]
      low  == Write(h, "prescaler", time)
      high == Modify(low, "tMode", [h.chip.tMode EXCEPT !.time = time])
  IN  IF time.us + (IF time.delayed THEN FelicaDelay ELSE 0) > TimerMax
      THEN Overflows(h)
      ELSE Write(Write(high, "reloadLo", time), "reloadHi", time)

(* (mutant) The unit is taken over before the value is found to fit. *)
SetTimeoutEarly(h, option, value) ==
  LET unit == IF option = "TIMEOUT_VALUE_US" THEN "us" ELSE "ms"
  IN  Remember([SetFdt(h, unit, value) EXCEPT !.unit = unit], option, value)

SetTimeout(h, option, value) ==
  LET unit == IF option = "TIMEOUT_VALUE_US" THEN "us" ELSE "ms"
      set  == SetFdt(h, unit, value)
  IN  Remember(IF set.status = "SUCCESS" THEN [set EXCEPT !.unit = unit] ELSE set, option, value)

MinFdt == <<101, 127, 119, 128>>

SetMinFdt(h, on) ==
  IF on THEN SetTimeout([h EXCEPT !.saved = GetConfig(h, "TIMEOUT_VALUE_MS")],
                        "TIMEOUT_VALUE_US", MinFdt[h.shadow.TXDATARATE + 1])
  ELSE SetTimeout(h, "TIMEOUT_VALUE_MS", h.saved)

-----------------------------------------------------------------------------
(* SetConfig, option by option.                                            *)

SetParity(h, on) == Remember(Change(h, "parity", on), "PARITY", on)

SetTxCrc(h, on) ==
  Remember(Change(h, "txMode", [h.chip.txMode EXCEPT !.crc = on]), "TXCRC", on)

SetRxCrc(h, on) ==
  Remember(Change(h, "rxMode", [h.chip.rxMode EXCEPT !.crc = on]), "RXCRC", on)

SetTxLastBits(h, bits) ==
  IF bits > 7 THEN Fail(h, "INVALID")
  ELSE Remember(Modify(h, "bitFraming", [h.chip.bitFraming EXCEPT !.last = bits]), "TXLASTBITS", bits)

(* The shadow keeps the value as it is shifted into the register.          *)
SetRxAlign(h, bit) ==
  IF bit > 7 THEN Fail(h, "INVALID")
  ELSE Remember(Modify(h, "bitFraming", [h.chip.bitFraming EXCEPT !.align = bit]), "RXALIGN", bit * 16)

SetRxDeafBits(h, etu) ==
  IF etu > 63 THEN Fail(h, "INVALID")
  ELSE Remember(Modify(h, "rxWait", etu), "RXDEAFBITS", etu)

SetModIndex(h, index) ==
  IF index > 63 THEN Fail(h, "INVALID")
  ELSE Remember(Write(h, "modGsp", index), "MODINDEX", index)

(* (mutant) Read, modify, write: the bits of the active mode stay. *)
SetAsk100Keeping(h, on) ==
  LET bits == h.chip.txAsk \ {"FORCE100"}
  IN  Remember(Modify(h, "txAsk", IF on THEN bits \cup {"FORCE100"} ELSE bits), "ASK100", on)

(* The whole register is written: bits of the active mode go.              *)
SetAsk100(h, on) ==
  Remember(Write(h, "txAsk", IF on THEN {"FORCE100"} ELSE {}), "ASK100", on)

(* Everything that is not a data rate, as the tables hold it.              *)
SetShadowed(h, option, value) ==
  CASE option = "PARITY" -> SetParity(h, value)
    [] option = "TXCRC" -> SetTxCrc(h, value)
    [] option = "RXCRC" -> SetRxCrc(h, value)
    [] option = "TXLASTBITS" -> SetTxLastBits(h, value)
    [] option = "RXALIGN" -> SetRxAlign(h, value)
    [] option = "RXDEAFBITS" -> SetRxDeafBits(h, value)
    [] option = "CLEARBITSAFTERCOLL" -> Remember(h, option, value)
    [] option = "MODINDEX" -> SetModIndex(h, value)
    [] option = "ASK100" -> SetAsk100(h, value)
    [] option \in {"TIMEOUT_VALUE_US", "TIMEOUT_VALUE_MS"} -> SetTimeout(h, option, value)

(* In the NFC modes a rate below 212 is sent as type A, the others as      *)
(* FeliCa, and crossing from one to the other loads the defaults of the    *)
(* new one, the timeout in milliseconds and the rates excepted.            *)
Load(h, entry) == SetShadowed(h, entry[1], entry[2])

LoadDefaults(h, table) ==
  FoldLeft(Load, h, SelectSeq(table, LAMBDA entry :
             entry[1] \notin {"TXDATARATE", "RXDATARATE", "TIMEOUT_VALUE_MS"}))

RateMode(option) == IF option = "TXDATARATE" THEN "txMode" ELSE "rxMode"

RateAllowed(h, rate) ==
  /\ rate \in R106 .. R848
  /\ h.card = "FELICA" => rate \in {R212, R424}
  /\ h.card \in Nfc => rate # R848

(* The mode register is written last, with what it held when the call      *)
(* began: a CRC the defaults switched meanwhile is switched back.          *)
SetOneRate(h, option, rate) ==
  LET mode     == h.chip[RateMode(option)]
      crossing == h.card \in Nfc /\ (rate = R106) # (mode.speed = R106)
      as       == IF rate = R106 THEN "A" ELSE "FELICA"
      framing  == IF ~crossing THEN mode.framing ELSE IF rate = R106 THEN "MIFARE" ELSE "FELICA"
      wanted   == [mode EXCEPT !.speed = rate, !.framing = framing]
      read     == Access(h)
      loaded   == IF crossing THEN LoadDefaults(Write(read, "threshold", as), Defaults[as]) ELSE read
      written  == Write(loaded, RateMode(option), wanted)
      shaped   == IF option = "TXDATARATE" THEN Write(written, "modWidth", ToString(rate)) ELSE written
  IN  IF ~RateAllowed(h, rate) THEN Fail(read, "INVALID")
      ELSE Remember(IF wanted = mode THEN loaded ELSE shaped, option, rate)

(* FeliCa knows one rate for both directions.                              *)
SetRate(h, option, rate) ==
  LET set   == SetOneRate(h, option, rate)
      other == IF option = "TXDATARATE" THEN "RXDATARATE" ELSE "TXDATARATE"
  IN  IF set.status = "SUCCESS" /\ h.card = "FELICA" /\ set.shadow[other] # rate
      THEN SetOneRate(set, other, rate)
      ELSE set

SetOption(h, option, value) ==
  IF option \in {"TXDATARATE", "RXDATARATE"} THEN SetRate(h, option, value)
  ELSE SetShadowed(h, option, value)

(* Settings of the host, and those kept in neither place.                  *)
SetTimingMode(h, mode) ==
  IF mode \in {"OFF", "FDT"} THEN Keep(h, "TIMING_MODE", mode)
  ELSE Fail(h, IF mode = "COMM" THEN "UNSUPPORTED" ELSE "INVALID")

SetHost(h, option, value) ==
  IF \/ option = "FIELD_OFF_TIME" /\ value = 0
     \/ option = "MAX_PRECACHED_BYTES" /\ value > FifoSize
     \/ option = "BAL_CONNECTION" /\ value > 2
  THEN Fail(h, "INVALID")
  ELSE IF \/ option = "RXBUFFER_STARTPOS" /\ value >= BufSize
          \/ option = "TXBUFFER_LENGTH" /\ value > BufSize - h.host.RXBUFFER_STARTPOS
  THEN Fail(h, "BUFFER_OVERFLOW")
  ELSE Keep(h, option, value)

CryptoOff(h) == Change(h, "crypto1", FALSE)

SetSerialBitrate(h, rate) ==
  IF rate \in {9600, 19200, 38400, 57600, 115200, 230400, 460800}
  THEN Write(h, "serial", rate) ELSE Fail(h, "INVALID")

SetRxMultiple(h, on) ==
  Modify(Keep(h, "RXMULTIPLE", on), "rxMode", [h.chip.rxMode EXCEPT !.multiple = on])

SetHalted(h, on) == Modify(h, "halted", on)

(* On: as initiator the framing becomes ACTIVE and the field is driven by  *)
(* the chip; as target both modes are written anew, at the receiver's rate.*)
ActiveInitiator(h) ==
  LET tx == Modify(h, "txMode", [h.chip.txMode EXCEPT !.framing = "ACTIVE"])
      rx == Modify(tx, "rxMode", [h.chip.rxMode EXCEPT !.framing = "ACTIVE"])
      ca == Modify(rx, "txAsk", h.chip.txAsk \ {"CA"})
  IN  Modify(ca, "txAsk", (h.chip.txAsk \ {"CA"}) \cup {"AUTO_RF"})

ActiveTarget(h) ==
  LET mode == [framing |-> "ACTIVE", speed |-> h.chip.rxMode.speed, crc |-> TRUE]
      both == Write(Write(h, "txMode", mode), "rxMode",
                    [framing |-> "ACTIVE", speed |-> mode.speed, crc |-> TRUE, multiple |-> FALSE])
  IN  Modify(both, "mode", h.chip.mode \cup {"WAIT_RF"})

(* Off: one bit of the framing is cleared, which makes FeliCa of type B.   *)
Deactivated(framing) ==
  CASE framing = "ACTIVE" -> "MIFARE" [] framing = "TYPEB" -> "FELICA" [] OTHER -> framing

ActiveOff(h) ==
  LET tx == Modify(h, "txMode", [h.chip.txMode EXCEPT !.framing = Deactivated(@)])
      rx == Modify(tx, "rxMode", [h.chip.rxMode EXCEPT !.framing = Deactivated(@)])
  IN  Modify(rx, "mode", h.chip.mode \ {"WAIT_RF"})

SetActiveMode(h, on) ==
  LET kept  == Access(Keep(h, "ACTIVEMODE", TRUE))
      asked == IF h.chip.rxMode.speed = R106
               THEN Modify(Write(kept, "bitPhase", 15), "txAsk", h.chip.txAsk \cup {"FORCE100"})
               ELSE Modify(kept, "txAsk", h.chip.txAsk \ {"FORCE100"})
      sync  == Modify(asked, "mode", h.chip.mode \cup {"SYNC"})
  IN  IF ~on THEN ActiveOff(Keep(h, "ACTIVEMODE", FALSE))
      ELSE IF h.card \in Initiators THEN ActiveInitiator(sync) ELSE ActiveTarget(sync)

SetConfig(h, option, value) ==
  CASE option \in DOMAIN h.shadow -> SetOption(h, option, value)
    [] option = "TIMING_MODE" -> SetTimingMode(h, value)
    [] option = "DISABLE_MF_CRYPTO1" -> IF value THEN CryptoOff(h) ELSE h
    [] option = "SERIAL_BITRATE" -> SetSerialBitrate(h, value)
    [] option = "SETMINFDT" -> Ignore(SetMinFdt(h, value))
    [] option = "RXMULTIPLE" -> SetRxMultiple(h, value)
    [] option = "ACTIVEMODE" -> SetActiveMode(h, value)
    [] option = "MFHALTED" -> SetHalted(h, value)
    [] option \in DOMAIN h.host \ {"TIMING_MODE", "RXMULTIPLE", "ACTIVEMODE"} -> SetHost(h, option, value)
    [] OTHER -> Fail(h, "UNSUPPORTED")

-----------------------------------------------------------------------------
(* ApplyProtocolSettings.                                                  *)

Framing(card) ==
  CASE card \in {"A", "MPI", "MPT"} -> "MIFARE"
    [] card = "B" -> "TYPEB"
    [] OTHER -> "FELICA"

Preset(h, card) ==
  LET mode     == [framing |-> Framing(card), speed |-> R106, crc |-> FALSE]
      tx       == Write(h, "txMode", mode)
      rx       == Write(tx, "rxMode", [framing |-> mode.framing, speed |-> R106, crc |-> FALSE,
                                       multiple |-> FALSE])
      width    == IF card \in {"A"} \cup Nfc THEN Write(rx, "modWidth", ToString(R106)) ELSE rx
      receiver == Write(width, "threshold", CASE mode.framing = "MIFARE" -> "A"
                                              [] mode.framing = "TYPEB" -> "B"
                                              [] OTHER -> "FELICA")
      typeB    == IF card = "B" THEN Access(receiver) ELSE receiver
      role     == Write(typeB, "initiator", card # "MPT")
  IN  IF card = "MPT" THEN Write(role, "field", FALSE) ELSE role

(* What is the same for every card type; the field ends up on.             *)
Generic(h) ==
  LET rf    == Access(h)
      field == Modify(rf, "field", TRUE)
      rxSel == Write(field, "rxWait", 0)
      mode  == Write(rxSel, "mode", {})
      drive == Access(Access(Access(mode)))
      bits  == Write(drive, "bitFraming", [last |-> 0, align |-> 0])
  IN  Access(Write(bits, "tMode", [auto |-> h.card # "MPT", time |-> NoTime]))

(* An entry of the table: the other unit's timeout is passed over.         *)
Skipped(h, option) ==
  \/ option = "TIMEOUT_VALUE_US" /\ h.unit # "us"
  \/ option = "TIMEOUT_VALUE_MS" /\ h.unit # "ms"

ApplyDefault(h, entry) == IF Skipped(h, entry[1]) THEN h ELSE SetOption(h, entry[1], entry[2])
ApplyShadow(h, entry) == IF Skipped(h, entry[1]) THEN h ELSE SetOption(h, entry[1], h.shadow[entry[1]])

(* memset clears as many bytes of the shadow as it has 16-bit entries: the *)
(* options up to RXDEAFBITS.                                               *)
Cleared == {"PARITY", "TXCRC", "RXCRC", "TXLASTBITS", "RXALIGN", "RXDEAFBITS"}

ApplyProtocolSettings(h, card) ==
  LET new   == card # "CURRENT"
      begun == IF ~new THEN h
               ELSE [h EXCEPT !.card = card, !.unit = "us",
                              !.shadow = [o \in DOMAIN @ |-> IF o \in Cleared THEN Zero[o] ELSE @[o]]]
      set   == Generic(Preset(begun, begun.card))
      table == Defaults[begun.card]
  IN  IF begun.card \notin DOMAIN Defaults THEN Fail(begun, "INVALID")
      ELSE CryptoOff(IF new THEN FoldLeft(ApplyDefault, set, table)
                     ELSE FoldLeft(ApplyShadow, set, table))

-----------------------------------------------------------------------------
(* The field, and waiting.                                                 *)

FieldOn(h) ==
  IF h.card = "MPT" /\ ~h.host.ACTIVEMODE THEN Fail(h, "USE_CONDITION")
  ELSE Modify(h, "field", TRUE)

FieldOff(h) == Modify(h, "field", FALSE)

(* The time runs in rounds of what the timer can hold.                     *)
Rounds(unit, value) ==
  LET most == TimerMax \div 1000 - 1
  IN  IF unit = "us" THEN <<IF value > 45 THEN value - 45 ELSE 0>>
      ELSE IF value > most THEN <<most, value - most>> ELSE <<value>>

WaitRound(h, unit, value) ==
  LET started == Access(Access(Access(Access(SetFdt(h, unit, value)))))
  IN  Access(Access(started))

(* (mutant) The timer keeps the time that was waited. *)
LeaveTimer(h) == h

RestoreTimer(h) == SetFdt(h, h.unit, h.shadow[TimeoutOption(h.unit)])

Wait(h, unit, value) ==
  LET rounds == Rounds(unit, value)
      first  == WaitRound(Access(h), unit, rounds[1])
      waited == IF Len(rounds) = 1 THEN first ELSE WaitRound(first, unit, rounds[2])
  IN  IF unit \notin {"us", "ms"} THEN Fail(h, "INVALID")
      ELSE RestoreTimer(waited)

FieldReset(h) ==
  Wait(FieldOn(Wait(FieldOff(h), "ms", h.host.FIELD_OFF_TIME)), "ms", h.host.FIELD_RECOVERY_TIME)

=============================================================================
