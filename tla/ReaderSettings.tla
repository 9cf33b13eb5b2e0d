--------------------------- MODULE ReaderSettings ---------------------------
(***************************************************************************)
(* A reader component of phhalHw, Rc523 or Rc663, as its caller configures *)
(* it: any sequence of SetConfig, ApplyProtocolSettings, FieldOn, FieldOff,*)
(* FieldReset and Wait, on a bus that may fail in the middle of a call.    *)
(*                                                                         *)
(* What the component remembers (the shadow) and what the chip holds are   *)
(* two copies of one thing, kept equal by hand, register by register.      *)
(***************************************************************************)
EXTENDS Integers, FiniteSets

CONSTANTS Setups,      \* [reader, product, cards, options, waits, field, calls, faults]
          FaultPoints, \* accesses a failing bus still performs
          BufSize, TimerMax, LoadRegs

RC523 == INSTANCE Rc523Settings
RC663 == INSTANCE Rc663Settings

Unlimited == 1000

VARIABLES
  setup,      \* the reader, and the calls its caller makes
  hal,        \* the data parameters and the chip
  call,       \* the call made last
  calls,      \* how many calls there may still be
  faults,     \* how often the bus may still fail
  applied     \* the card applied last, "none" once the two may differ

vars == <<setup, hal, call, calls, faults, applied>>

IsRc523 == setup.reader = "RC523"

FreshHal(s) == IF s.reader = "RC523" THEN RC523!Fresh ELSE RC663!Fresh(s.product)

Init ==
  /\ setup \in Setups
  /\ hal = FreshHal(setup)
  /\ call = [op |-> "Init"]
  /\ calls = setup.calls
  /\ faults = setup.faults
  /\ applied = "none"

-----------------------------------------------------------------------------
(* Settings that write a register behind the shadow's back, by design.     *)
Raw == {"FRAME_SYNC", "TXDATANUM", "LOADREG_MODE", "ACTIVEMODE"}

(* The call starts, on a bus that is good for so many register accesses.   *)
Budgets == {Unlimited} \cup (IF faults = 0 THEN {} ELSE FaultPoints)

Begun(left) == RC523!Begin(hal, left)

(* It returns.  The shadow is only trusted while the bus has not failed.   *)
Called(made, result, before) ==
  /\ calls > 0
  /\ hal' = [result EXCEPT !.left = 0]
  /\ faults' = IF result.left < 0 THEN faults - 1 ELSE faults
  /\ applied' = IF result.left < 0 THEN "none" ELSE before
  /\ call' = made
  /\ calls' = calls - 1
  /\ UNCHANGED setup

SetConfig(option, value) ==
  \E left \in Budgets :
    Called([op |-> "SetConfig", option |-> option, value |-> value],
           IF IsRc523 THEN RC523!SetConfig(Begun(left), option, value)
           ELSE RC663!SetConfig(Begun(left), option, value),
           IF option \in Raw THEN "none" ELSE applied)

(* Registers the application stored are laid over by nothing.              *)
LaidOver(h) == IsRc523 \/ ~h.host.LOADREG_MODE

ApplyProtocolSettings(card) ==
  \E left \in Budgets :
    LET result == IF IsRc523 THEN RC523!ApplyProtocolSettings(Begun(left), card)
                  ELSE RC663!ApplyProtocolSettings(Begun(left), card)
    IN  Called([op |-> "ApplyProtocolSettings", card |-> card], result,
               CASE result.status # "SUCCESS" \/ ~LaidOver(hal) -> "none"
                 [] result.status = "SUCCESS" /\ LaidOver(hal) /\ card = "CURRENT" -> applied
                 [] OTHER -> card)

FieldOn ==
  \E left \in Budgets :
    Called([op |-> "FieldOn"],
           IF IsRc523 THEN RC523!FieldOn(Begun(left)) ELSE RC663!FieldOn(Begun(left)), applied)

FieldOff ==
  \E left \in Budgets :
    Called([op |-> "FieldOff"],
           IF IsRc523 THEN RC523!FieldOff(Begun(left)) ELSE RC663!FieldOff(Begun(left)), applied)

FieldReset ==
  \E left \in Budgets :
    Called([op |-> "FieldReset"],
           IF IsRc523 THEN RC523!FieldReset(Begun(left)) ELSE RC663!FieldReset(Begun(left)), applied)

Wait(unit, value) ==
  \E left \in Budgets :
    Called([op |-> "Wait"],
           IF IsRc523 THEN RC523!Wait(Begun(left), unit, value)
           ELSE RC663!Wait(Begun(left), unit, value), applied)

(* A MIFARE card that accepts an authentication leaves the chip enciphering*)
(* until it is told otherwise.                                             *)
MfcAuthenticate ==
  /\ hal.card = "A"
  /\ Called([op |-> "MfcAuthenticate"], [Begun(Unlimited) EXCEPT !.chip.crypto1 = TRUE], applied)

Next ==
  \/ \E o \in setup.options : SetConfig(o[1], o[2])
  \/ \E card \in setup.cards : ApplyProtocolSettings(card)
  \/ setup.field /\ FieldOn
  \/ setup.field /\ FieldOff
  \/ setup.field /\ FieldReset
  \/ setup.field /\ MfcAuthenticate
  \/ \E w \in setup.waits : Wait(w[1], w[2])

Spec == Init /\ [][Next]_vars

-----------------------------------------------------------------------------
(* What the registers say of the settings, where the code keeps the two    *)
(* together: not the modulation index and the deaf time of the Rc663 after *)
(* another rate, nor the driver, nor (Rc523) what active mode overwrites,  *)
(* nor the CRC of the NFC modes, which a single change of rate to 106      *)
(* switches off in the shadow and, by writing back a mode register read    *)
(* before, leaves on in the chip, nor the FIFO of 18000-3 mode 3 after its *)
(* settings were applied once more.  Settings of the Rc523 that are applied*)
(* once more (CURRENT) also take TXLASTBITS and RXMULTIPLE out of the chip,*)
(* and so does another card type with RXMULTIPLE, while GetConfig goes on  *)
(* to report them: of these two the chip has what is reported, or nothing. *)

Rc523Agrees(h) ==
  LET c == h.chip
      Get(option) == RC523!GetConfig(h, option)
  IN  /\ c.parity = Get("PARITY")
      /\ c.txMode.speed = Get("TXDATARATE")
      /\ Get("RXSPEED") = Get("RXDATARATE")
      /\ c.rxWait = Get("RXDEAFBITS")
      /\ applied # "MPT" => c.modGsp = Get("MODINDEX")
      /\ c.bitFraming.last \in {0, Get("TXLASTBITS")}
      /\ c.rxMode.multiple => Get("RXMULTIPLE")
      /\ c.txAsk = IF Get("ASK100") THEN {"FORCE100"} ELSE {}
      /\ h.card \notin RC523!Nfc => /\ c.txMode.crc = Get("TXCRC")
                                   /\ c.rxMode.crc = Get("RXCRC")
                                   /\ Get("RX_FRAME_MODE") = c.txMode.framing

Rc663Agrees(h) ==
  LET c == h.chip
      Get(option) == RC663!GetConfig(h, option)
  IN  /\ c.protocol = RC663!Protocol(h.card, Get("TXDATARATE"), Get("RXDATARATE"), Get("SUBCARRIER"))
      /\ c.txCrc.on = Get("TXCRC")
      /\ c.rxCrc.on = Get("RXCRC")
      /\ c.txDataNum = Get("TXLASTBITS")
      /\ h.card # "MPI" => c.frameCon.tx = Get("PARITY") /\ c.frameCon.rx = Get("PARITY")
      /\ h.card # "I18000P3M3" => c.fifo = Get("FIFOSIZE")
      /\ Get("MAX_PRECACHED_BYTES") <= Get("FIFOSIZE")

(* Once a card type is applied, the chip transmits and receives as         *)
(* GetConfig reports, up to the settings named above, whatever calls       *)
(* succeed or are refused, in whatever order.                              *)
ChipAsConfigured ==
  applied # "none" => IF IsRc523 THEN Rc523Agrees(hal) ELSE Rc663Agrees(hal)

TimerHolds(h) ==
  IF h.reader = "RC523"
  THEN {h.chip.prescaler.us, h.chip.tMode.time.us, h.chip.reloadLo.us, h.chip.reloadHi.us}
         = {RC523!Timeout(h)}
  ELSE {h.chip[r].us : r \in {"t0Hi", "t0Lo", "t1Hi", "t1Lo"}} = {RC663!Timeout(h)}

(* The one timer serves Wait, FieldReset and every timeout: between calls  *)
(* all of its registers hold the timeout that was configured last.         *)
TimerAsConfigured == applied # "none" => TimerHolds(hal)

(* A setting that is refused leaves the chip and all settings as they were *)
(* (the transmit rate of the Rc663's NFC initiator excepted: the shadow of *)
(* ASK100 is set before the rate is looked at).                            *)
RefusedChangesNothing ==
  [][ call'.op = "SetConfig" /\ hal'.status \notin {"SUCCESS", "INTERFACE"}
      /\ ~(hal.reader = "RC663" /\ hal.card = "MPI" /\ call'.option = "TXDATARATE")
        => hal' = [hal EXCEPT !.status = hal'.status] ]_vars

(* What ApplyProtocolSettings decides, and what it leaves to other calls.  *)
Decided(h) ==
  LET kept == IF h.reader = "RC523"
              THEN {"field", "serial", "halted", "bitPhase"}
                     \cup (IF h.card = "B" THEN {"modWidth"} ELSE {})
                     \cup (IF h.card = "MPT" THEN {"modGsp"} ELSE {})
              ELSE {"serial", "drive", "fifo"}
  IN  <<[r \in DOMAIN h.chip \ kept |-> h.chip[r]], h.card, h.unit,
        IF h.reader = "RC663" THEN h.chip.drive.driver ELSE {}>>

(* What every card type decides when it is the first to be applied.        *)
AppliedFirst ==
  [s \in Setups |-> [card \in s.cards |->
     LET first == RC523!Begin(FreshHal(s), Unlimited)
     IN  Decided(IF s.reader = "RC523" THEN RC523!ApplyProtocolSettings(first, card)
                 ELSE RC663!ApplyProtocolSettings(first, card))]]

(* Whatever was configured before, and wherever the bus failed, a card     *)
(* type that is applied finds the chip as after the first start.           *)
ApplyForgetsHistory ==
  [][ applied' # "none" /\ call'.op = "ApplyProtocolSettings" /\ call'.card = applied'
        => Decided(hal') = AppliedFirst[setup][applied'] ]_vars
=============================================================================
