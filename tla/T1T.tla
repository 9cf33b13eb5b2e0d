--------------------------------- MODULE T1T ---------------------------------
(***************************************************************************)
(* The operations on a type 1 tag (Topaz), phalTop_Sw_Int_T1T.c.  tag.nmn: *)
(* the NDEF magic number is written; tag.tlv: there is an NDEF TLV, of     *)
(* length tag.len, at address 12; tag.dynamic: the memory is read by       *)
(* blocks, the CC and the TLV share one, and the code may skip the read of *)
(* the block it has read last (top.cached), though each function reads     *)
(* into a buffer of its own.                                               *)
(***************************************************************************)
EXTENDS TagSession

Tags ==
  {[dynamic |-> d, nmn |-> FALSE, rwa |-> "RW", locked |-> FALSE, tlv |-> FALSE, len |-> 0,
    cells |-> Empty] : d \in BOOLEAN} \cup
  {[dynamic |-> d, nmn |-> TRUE, rwa |-> a, locked |-> a = "RO", tlv |-> TRUE,
    len |-> Size[m], cells |-> Filled(m)] : d \in BOOLEAN, a \in Access, m \in Fitting}
Reset ==
  [support |-> FALSE, formatted |-> FALSE, presence |-> FALSE, state |-> "UNKNOWN",
   rwa |-> "RW", hdr |-> FALSE, len |-> 0, block |-> "invalid"]
ResetTop == Reset

Content == IF tag.nmn /\ tag.tlv THEN Stored(tag.cells, tag.len) ELSE None
Hidden == None
Readable == top.state \in {"READWRITE", "READONLY"}
Writable == tag.rwa = "RW" /\ ~tag.locked
Loss == BOOLEAN

Refuses(c) ==
  tag.locked /\ c.name \in {"ClearNmn", "WriteRwa", "WriteTlv", "WriteLen", "Data", "SetNmn",
                            "ClearTlv", "ClearLen", "Zero", "Lock"}

Execute(c) ==
  CASE c.name = "ClearNmn" -> [tag EXCEPT !.nmn = FALSE]
    [] c.name = "WriteRwa" -> [tag EXCEPT !.rwa = top.rwa]
    [] c.name = "WriteTlv" -> [tag EXCEPT !.tlv = TRUE]
    [] c.name = "WriteLen" -> [tag EXCEPT !.len = c.k]
    [] c.name = "Data" -> [tag EXCEPT !.cells[c.k] = call.msg]
    [] c.name = "SetNmn" -> [tag EXCEPT !.nmn = TRUE]
    [] c.name = "ClearTlv" -> [tag EXCEPT !.tlv = FALSE]
    [] c.name = "ClearLen" -> [tag EXCEPT !.len = 0]
    [] c.name = "Zero" -> [tag EXCEPT !.cells[c.k] = Blank]
    [] c.name = "Lock" -> [tag EXCEPT !.locked = TRUE]
    [] OTHER -> tag

-----------------------------------------------------------------------------
CheckNdef ==
  /\ Start("check", None, Cmd("CheckNmn") \o (IF tag.dynamic THEN <<>> ELSE Cmd("CheckRwa"))
                          \o Cmd("CheckTlv"))
  /\ top' = [Reset EXCEPT !.support = TRUE, !.formatted = TRUE, !.rwa = top.rwa,
                          !.block = top.block]
  /\ UNCHANGED tag

\* What the answer to a read of the access byte decides.
Formattable(rwa) == IF top.support /\ rwa = "RW" THEN "BUSY" ELSE "UNSUPPORTED_COMMAND"
FormatCommands == Cmd("ClearNmn") \o Cmd("WriteRwa")

\* With the block in the cache the byte looked at is not initialised.
FormatNdef ==
  /\ UNCHANGED <<tag, top>>
  /\ IF tag.dynamic /\ top.block = "cc"
     THEN \E rwa \in Access :
       IF Formattable(rwa) = "BUSY" THEN Start("format", None, FormatCommands)
       ELSE Refuse("format", None, "UNSUPPORTED_COMMAND")
     ELSE Start("format", None, Cmd("ReadRwa") \o FormatCommands)

\* (mutant) Only a message that is there can be replaced.
WriteNdefFormatted(m) ==
  /\ UNCHANGED <<tag, top>>
  /\ IF top.presence
     THEN Start("write", m, Cmd("ClearNmn") \o Cmd("WriteRwa") \o Cmd("WriteTlv")
            \o Cell("WriteLen", Size[m]) \o Cells("Data", 1, Size[m]) \o Cmd("SetNmn"))
     ELSE Refuse("write", m, "UNSUPPORTED_COMMAND")

\* The mark is cleared first and set last.  The size is checked after that.
WriteNdef(m) ==
  /\ UNCHANGED <<tag, top>>
  /\ IF ~top.support THEN Refuse("write", m, "UNSUPPORTED_COMMAND")
     ELSE IF top.rwa = "RO" THEN Refuse("write", m, "INVALID_PARAMETER")
     ELSE Start("write", m, Cmd("ClearNmn") \o Cmd("WriteRwa") \o Cmd("WriteTlv")
            \o Cell("WriteLen", Size[m]) \o Cells("Data", 1, Size[m]) \o Cmd("SetNmn"))

ReadNdef ==
  /\ UNCHANGED <<tag, top>>
  /\ IF Readable THEN Start("read", None, Cells("Read", 1, top.len))
     ELSE Refuse("read", None, "PROTOCOL_ERROR")

\* With no TLV known the two bytes cleared are those of the CC.
EraseNdef ==
  /\ UNCHANGED <<tag, top>>
  /\ Start("erase", None, Cmd("ClearNmn") \o
       IF top.hdr THEN Cmd("ClearTlv") \o Cmd("ClearLen") \o Cells("Zero", 1, top.len)
       ELSE Cmd("ClearNmn") \o Cmd("ClearVno"))

\* phalTop_SetConfig of the access.
SetReadOnly ==
  /\ UNCHANGED tag
  /\ top' = [top EXCEPT !.rwa = "RO"]
  /\ Start("readonly", None, Cmd("WriteRwa") \o Cmd("Lock"))
SetReadWrite == top' = [top EXCEPT !.rwa = "RW"] /\ UNCHANGED <<tag, call>>

-----------------------------------------------------------------------------
\* sSegment after a read: of the block of the CC, or of another.
LastBlock(cc) == IF ~tag.dynamic THEN top.block ELSE IF cc THEN "cc" ELSE "other"

\* State after the detection of the TLVs.
Detected(t, hdr, len) ==
  [t EXCEPT !.hdr = hdr, !.len = len, !.block = LastBlock(tag.tlv),
            !.state = IF ~t.presence \/ len = 0 THEN "INITIALIZED"
                      ELSE IF t.rwa = "RW" THEN "READWRITE" ELSE "READONLY"]

Verdict(c) ==
  CASE c.name = "ReadRwa" -> Formattable(tag.rwa)
    [] c.name = "WriteRwa" /\ call.op = "write" ->
         IF Size[call.msg] > Room THEN "INVALID_PARAMETER" ELSE "BUSY"
    [] OTHER -> "BUSY"

Learnt(c) ==
  CASE c.name = "CheckNmn" ->
         [top EXCEPT !.presence = tag.nmn, !.rwa = IF tag.dynamic THEN tag.rwa ELSE @,
                     !.block = LastBlock(TRUE)]
    [] c.name = "CheckRwa" -> [top EXCEPT !.rwa = tag.rwa]
    [] c.name = "CheckTlv" ->
         LET hdr == tag.nmn /\ tag.tlv IN
         Detected(top, hdr, IF hdr THEN tag.len ELSE 0)
    [] c.name = "Read" -> [top EXCEPT !.block = LastBlock(c.k = 1)]
    [] c.name = "ClearNmn" /\ call.op = "erase" -> [top EXCEPT !.block = "invalid"]
    [] c.name = "WriteRwa" /\ Verdict(c) = "BUSY" /\ call.op = "write" ->
         [top EXCEPT !.hdr = TRUE]
    [] c.name = "WriteLen" -> [top EXCEPT !.len = c.k]
    [] c.name = "SetNmn" ->
         [top EXCEPT !.presence = TRUE, !.formatted = TRUE, !.state = "READWRITE"]
    [] c.name = "Lock" -> [top EXCEPT !.state = "READONLY"]
    [] c.name = "ReadRwa" -> [top EXCEPT !.block = LastBlock(TRUE)]
    [] OTHER -> top

\* What a finished operation leaves.
Finished(t) ==
  CASE call.op = "format" -> [t EXCEPT !.formatted = TRUE, !.presence = FALSE, !.hdr = TRUE,
                                       !.state = "INITIALIZED"]
    [] call.op = "erase" -> [t EXCEPT !.presence = FALSE, !.state = "INITIALIZED"]
    [] OTHER -> t

Answer ==
  LET c == Head1 IN
  /\ Busy /\ ~call.gone /\ ~Refuses(c)
  /\ tag' = Execute(c)
  /\ call' = Go(IF c.name = "Read" THEN Reply(tag.cells[c.k]) ELSE call, Tail(call.todo), Verdict(c))
  /\ top' = IF call'.status = "SUCCESS" THEN Finished(Learnt(c)) ELSE Learnt(c)

\* The block is noted before it is read; a read that fails leaves the note.
Failed(c, k) ==
  /\ top' = IF k.name \notin {"CheckNmn", "CheckTlv", "Read", "ReadRwa"} \/ top.block = "invalid"
            THEN top ELSE [top EXCEPT !.block = LastBlock(k.name # "Read" \/ k.k = 1)]
  /\ call' = Go(c, <<>>, IF c.clean THEN "REFUSED" ELSE "TIMEOUT")

Refused == Busy /\ ~call.gone /\ Refuses(Head1) /\ UNCHANGED tag /\ Failed(call, Head1)

NoAnswer ==
  /\ Busy
  /\ tag' \in Maybe(Execute(Head1), Refuses(Head1))
  /\ \E gone \in Loss : Failed(Lost(call.gone \/ gone), Head1)

Operation ==
  /\ ~Busy
  /\ \/ CheckNdef \/ FormatNdef \/ ReadNdef \/ EraseNdef \/ SetReadOnly \/ SetReadWrite
     \/ \E m \in Messages : WriteNdef(m)

Next == Operation \/ Answer \/ Refused \/ NoAnswer

=============================================================================
