---------------------------- MODULE HalSettings ----------------------------
(***************************************************************************)
(* What the two reader components of phhalHw have in common when they are  *)
(* configured: a record h of what the component remembers                  *)
(*                                                                         *)
(*   card, unit   bCardType and bTimeoutUnit                               *)
(*   shadow       wCfgShadow: the value last set, by option                *)
(*   host         the settings that never reach the chip                   *)
(*   saved        dwFdtPc, the timeout put aside by SETMINFDT              *)
(*                                                                         *)
(* of the chip's registers (chip), of the status of the call being made    *)
(* and of the number of register accesses the bus still performs (left).   *)
(* An operator that follows a failed one changes nothing: that is          *)
(* PH_CHECK_SUCCESS_FCT, and a call is the composition of its steps.       *)
(***************************************************************************)
EXTENDS Integers, Sequences, SequencesExt, FiniteSetsExt

Fail(h, error) == IF h.status = "SUCCESS" THEN [h EXCEPT !.status = error] ELSE h

(* One access to a register: the bus may fail and nothing is read/written; *)
(* then it stays broken for the rest of the call.                          *)
Access(h) ==
  CASE h.status # "SUCCESS" -> h
    [] h.status = "SUCCESS" /\ h.left > 0 -> [h EXCEPT !.left = @ - 1]
    [] OTHER -> [h EXCEPT !.status = "INTERFACE", !.left = -1]

Write(h, register, value) ==
  LET done == Access(h)
  IN  IF done.status = "SUCCESS" THEN [done EXCEPT !.chip[register] = value] ELSE done

(* Read, modify and write back, always or only when it makes a difference. *)
Modify(h, register, value) == Write(Access(h), register, value)

Change(h, register, value) ==
  IF h.chip[register] = value THEN Access(h) ELSE Modify(h, register, value)

Remember(h, option, value) ==
  IF h.status = "SUCCESS" THEN [h EXCEPT !.shadow[option] = value] ELSE h

Keep(h, field, value) ==
  IF h.status = "SUCCESS" THEN [h EXCEPT !.host[field] = value] ELSE h

(* A failure the caller does not look at; as many accesses in a row.       *)
Ignore(h) == [h EXCEPT !.status = "SUCCESS"]

Accesses(h, n) ==
  CASE h.status # "SUCCESS" -> h
    [] h.status = "SUCCESS" /\ h.left >= n -> [h EXCEPT !.left = @ - n]
    [] OTHER -> [h EXCEPT !.status = "INTERFACE", !.left = -1]

(* A list of <<register, value>> written in order, as far as the bus goes; *)
(* Others(n) are accesses to registers that are not modelled.              *)
Others(n) == [i \in 1 .. n |-> <<"other", 0>>]

WriteAll(h, entries) ==
  LET writes(r) == {i \in DOMAIN entries : i <= h.left /\ entries[i][1] = r}
      chip == [r \in DOMAIN h.chip |-> IF writes(r) = {} THEN h.chip[r]
                                      ELSE entries[Max(writes(r))][2]]
  IN  IF h.status # "SUCCESS" THEN h ELSE [Accesses(h, Len(entries)) EXCEPT !.chip = chip]

(* A call that starts now, on a bus good for that many accesses.           *)
Begin(h, left) == [h EXCEPT !.status = "SUCCESS", !.left = left]

-----------------------------------------------------------------------------
(* Data rates, as the numbers of phhalHw.h; microseconds of a timeout.     *)

R106 == 0
R212 == 1
R424 == 2
R848 == 3

Micros(unit, value) == IF unit = "us" THEN value ELSE 1000 * value

TimeoutOption(unit) == IF unit = "us" THEN "TIMEOUT_VALUE_US" ELSE "TIMEOUT_VALUE_MS"

(* The timeout as it was last configured.                                  *)
Timeout(h) == Micros(h.unit, h.shadow[TimeoutOption(h.unit)])

(* Register contents no call has written yet.                              *)
NoTime == [us |-> -1, rate |-> R106, delayed |-> FALSE]

=============================================================================
