--------------------------------- MODULE T2T ---------------------------------
(***************************************************************************)
(* The operations on a type 2 tag, phalTop_Sw_Int_T2T.c.  tag.nmn: the     *)
(* magic number of the capability container (CC); tag.otp: the bits of the *)
(* CC can only be set; tag.tlv: there is an NDEF TLV, of length tag.len,   *)
(* in the block at the start of the data area, with the first cell.        *)
(***************************************************************************)
EXTENDS TagSession

Tags ==
  {[nmn |-> "00", otp |-> o, rwa |-> "RW", locked |-> FALSE, tlv |-> FALSE, len |-> 0,
    cells |-> Empty] : o \in BOOLEAN} \cup
  {[nmn |-> "E1", otp |-> o, rwa |-> IF l THEN "RO" ELSE "RW", locked |-> l, tlv |-> TRUE,
    len |-> Size[m], cells |-> Filled(m)] : o \in BOOLEAN, l \in BOOLEAN, m \in Fitting}
Reset ==
  [formatted |-> FALSE, presence |-> FALSE, state |-> "UNKNOWN", rwa |-> "RW",
   hdr |-> FALSE, len |-> 0]
ResetTop == Reset

Content ==
  IF tag.nmn = "E1" /\ tag.tlv THEN Stored(tag.cells, tag.len) ELSE None
\* EraseNdef clears the magic number and nothing else.
Hidden ==
  IF tag.nmn = "00" /\ tag.tlv THEN Stored(tag.cells, tag.len) ELSE None
Readable == top.presence /\ top.state \in {"READWRITE", "READONLY"}
Writable == tag.nmn = "E1" /\ tag.tlv /\ tag.rwa = "RW" /\ ~tag.locked
Loss == BOOLEAN

Refuses(c) ==
  tag.locked /\ c.name \in {"ClearNmn", "WriteCc", "WriteRo", "WriteHeader", "Data", "WriteLock"}

\* A write to the CC of a tag with OTP bytes sets bits and clears none.
WithCc(nmn, rwa) ==
  [tag EXCEPT !.nmn = IF tag.otp /\ @ = "E1" THEN @ ELSE nmn,
              !.rwa = IF tag.otp /\ @ = "RO" THEN @ ELSE rwa]

Execute(c) ==
  CASE c.name = "ClearNmn" -> WithCc("00", top.rwa)
    [] c.name = "WriteCc" -> WithCc("E1", "RW")
    [] c.name = "WriteRo" -> WithCc(tag.nmn, "RO")
    [] c.name = "WriteHeader" ->
         [tag EXCEPT !.tlv = TRUE, !.len = c.k, !.cells[1] = call.msg]
    [] c.name = "Data" -> [tag EXCEPT !.cells[c.k] = call.msg]
    [] c.name = "WriteLock" -> [tag EXCEPT !.locked = TRUE]
    [] OTHER -> tag

CheckNdef ==
  /\ Start("check", None, Cmd("CheckCc"))
  /\ top' = [Reset EXCEPT !.rwa = top.rwa]
  /\ UNCHANGED tag

EraseNdef ==
  /\ UNCHANGED <<tag, top>>
  /\ IF top.presence /\ top.state = "READWRITE"
     THEN Start("erase", None, Cmd("ClearNmn") \o Cmd("VerifyErased"))
     ELSE Refuse("erase", None, "INVALID_STATE")

\* (mutant) The header is written once, before the message.
HeaderFirst(m) ==
  Cmd("ReadHeader") \o Cell("WriteHeader", Size[m]) \o Cells("Data", 2, Size[m])

\* The length is 0 in the header until all cells have been written.
MessageCommands(m) ==
  Cmd("ReadHeader") \o Cell("WriteHeader", 0) \o Cells("Data", 2, Size[m])
  \o Cell("WriteHeader", Size[m])

FormatNdef ==
  /\ UNCHANGED tag
  /\ IF top.formatted /\ ~top.presence
     THEN /\ Start("format", Default, Cmd("WriteCc") \o Cmd("VerifyCc") \o MessageCommands(Default))
          /\ top' = [top EXCEPT !.rwa = "RW"]
     ELSE Refuse("format", Default, "USE_CONDITION") /\ UNCHANGED top

WriteNdef(m) ==
  /\ UNCHANGED <<tag, top>>
  /\ IF Size[m] > Room THEN Refuse("write", m, "INVALID_PARAMETER")
     ELSE IF top.state = "READONLY" THEN Refuse("write", m, "UNSUPPORTED_COMMAND")
     ELSE IF top.presence /\ top.state # "UNKNOWN" /\ top.hdr
       THEN Start("write", m, MessageCommands(m))
     ELSE Refuse("write", m, "INVALID_PARAMETER")

ReadNdef ==
  /\ UNCHANGED <<tag, top>>
  /\ IF Readable THEN Start("read", None, Cells("Read", 1, top.len))
     ELSE Refuse("read", None, "PROTOCOL_ERROR")

\* phalTop_SetConfig of the access: bRwa is set before SetReadOnly may refuse.
SetReadOnly ==
  /\ UNCHANGED tag
  /\ top' = [top EXCEPT !.rwa = "RO"]
  /\ IF top.state = "READWRITE"
     THEN Start("readonly", None, Cmd("ReadLock") \o Cmd("WriteRo") \o Cmd("WriteLock"))
     ELSE Refuse("readonly", None, "INVALID_STATE")

-----------------------------------------------------------------------------
\* State and presence after the detection of the TLVs.
Detected(rwa, hdr, len) ==
  [top EXCEPT !.hdr = hdr, !.len = len, !.presence = hdr /\ (len # 0 \/ rwa = "RW"),
              !.state = IF ~hdr \/ (len = 0 /\ rwa = "RO") THEN "UNKNOWN"
                        ELSE IF len = 0 THEN "INITIALIZED"
                        ELSE IF rwa = "RW" THEN "READWRITE" ELSE "READONLY"]

\* (mutant) The first write of the header, with the length 0, taken for it.
FirstHeader(c) == c.name = "WriteHeader" /\ c.k = 0

\* The write of the header that makes the message valid.
LastHeader(c) == c.name = "WriteHeader" /\ c.k # 0

Learnt(c) ==
  CASE c.name = "CheckCc" /\ tag.nmn = "00" -> [top EXCEPT !.formatted = TRUE]
    [] c.name = "CheckCc" /\ tag.nmn = "E1" ->
         [top EXCEPT !.formatted = TRUE, !.rwa = tag.rwa]
    [] c.name = "CheckTlv" -> Detected(top.rwa, tag.tlv, IF tag.tlv THEN tag.len ELSE 0)
    [] c.name = "VerifyErased" /\ tag.nmn = "00" ->
         [top EXCEPT !.state = "UNKNOWN", !.formatted = TRUE, !.presence = FALSE,
                     !.hdr = FALSE, !.len = 0]
    [] c.name = "VerifyCc" /\ tag.nmn = "E1" /\ tag.rwa = "RW" ->
         [top EXCEPT !.hdr = TRUE, !.state = "INITIALIZED", !.presence = TRUE]
    [] LastHeader(c) -> [top EXCEPT !.state = "READWRITE", !.presence = TRUE, !.len = c.k]
    [] OTHER -> top

Rest(c) ==
  IF c.name = "CheckCc" /\ tag.nmn = "E1" THEN Cmd("CheckTlv") ELSE Tail(call.todo)

\* (mutant) What a write to the CC did is not verified.
VerdictUnverified(c) == IF c.name = "WriteLock" THEN "SUCCESS" ELSE "BUSY"

Verdict(c) ==
  CASE c.name = "VerifyErased" /\ tag.nmn # "00" -> "UNSUPPORTED_TAG"
    [] c.name = "VerifyCc" /\ ~(tag.nmn = "E1" /\ tag.rwa = "RW") -> "UNSUPPORTED_COMMAND"
    [] c.name = "WriteLock" -> "SUCCESS"
    [] OTHER -> "BUSY"

\* The state READONLY is set when the last lock byte has been written; the
\* length is cached before the last write of the header is sent.
Answer ==
  LET c == Head1 IN
  /\ Busy /\ ~call.gone /\ ~Refuses(c)
  /\ tag' = Execute(c)
  /\ top' = IF c.name = "WriteLock" THEN [top EXCEPT !.state = "READONLY"] ELSE Learnt(c)
  /\ call' = Go(IF c.name = "Read" THEN Reply(tag.cells[c.k]) ELSE call, Rest(c), Verdict(c))

\* A format that fails while it writes the default message forgets the TLV;
\* what it wrote of the CC is not looked at before it is read back; a CC that
\* cannot be read is a tag without NDEF.
Failed(c, k) ==
  /\ top' = LET t == IF LastHeader(k) THEN [top EXCEPT !.len = k.k] ELSE top IN
            IF c.op = "format" /\ k.name \in {"ReadHeader", "WriteHeader", "Data"}
            THEN [t EXCEPT !.state = "UNKNOWN", !.hdr = FALSE, !.presence = FALSE] ELSE t
  /\ call' = CASE k.name = "WriteCc" -> Go(c, Tail(c.todo), "BUSY")
               [] k.name = "CheckCc" -> Go(c, <<>>, "SUCCESS")
               [] OTHER -> Go(c, <<>>, IF c.clean THEN "REFUSED" ELSE "TIMEOUT")

Refused == Busy /\ ~call.gone /\ Refuses(Head1) /\ UNCHANGED tag /\ Failed(call, Head1)

NoAnswer ==
  /\ Busy
  /\ tag' \in Maybe(Execute(Head1), Refuses(Head1))
  /\ \E gone \in Loss : Failed(Lost(call.gone \/ gone), Head1)

Operation ==
  /\ ~Busy
  /\ \/ CheckNdef \/ FormatNdef \/ ReadNdef \/ EraseNdef \/ SetReadOnly
     \/ \E m \in Messages : WriteNdef(m)

Next == Operation \/ Answer \/ Refused \/ NoAnswer

=============================================================================
