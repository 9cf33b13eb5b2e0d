--------------------------------- MODULE T3T ---------------------------------
(***************************************************************************)
(* The operations on a type 3 tag (FeliCa), phalTop_Sw_Int_T3T.c.          *)
(* tag.ndef: the memory configuration makes it an NDEF tag (SYS_OP);       *)
(* tag.len, tag.rwa: length and access of the attribute block (AIB).       *)
(***************************************************************************)
EXTENDS TagSession

Tags ==
  {[ndef |-> FALSE, rwa |-> "RW", locked |-> FALSE, len |-> 0, cells |-> Empty]} \cup
  {[ndef |-> TRUE, rwa |-> a, locked |-> l, len |-> Size[m], cells |-> Filled(m)] :
      m \in Fitting, a \in Access, l \in BOOLEAN}
Reset ==
  [support |-> FALSE, formatted |-> FALSE, presence |-> FALSE, state |-> "UNKNOWN",
   len |-> 0, max |-> 0]
\* phalTop_Reset clears bNdefSupport at its place in another structure.
ResetTop == [Reset EXCEPT !.support = top.support]

Content == IF tag.ndef THEN Stored(tag.cells, tag.len) ELSE None
Hidden == None
Readable == top.presence /\ top.state \in {"READWRITE", "READONLY"}
Writable == tag.ndef /\ tag.rwa = "RW" /\ ~tag.locked
Loss == BOOLEAN

Writes == {"WriteMc", "WriteAib", "SetFlag", "Data", "Zero", "ResetFlag"}
Refuses(c) ==
  \/ c.name = "PollNdef" /\ ~tag.ndef
  \/ c.name \in Writes /\ tag.locked

Execute(c) ==
  CASE c.name = "WriteMc" -> [tag EXCEPT !.ndef = TRUE]
    [] c.name = "WriteAib" -> [tag EXCEPT !.len = 0, !.rwa = "RW"]
    [] c.name = "SetFlag" -> [tag EXCEPT !.len = 0]
    [] c.name = "Data" -> [tag EXCEPT !.cells[c.k] = call.msg]
    [] c.name = "Zero" -> [tag EXCEPT !.cells[c.k] = Blank]
    [] c.name = "ResetFlag" -> [tag EXCEPT !.len = c.k]
    [] OTHER -> tag

-----------------------------------------------------------------------------
CheckNdef ==
  /\ Start("check", None, Cmd("PollNdef") \o Cmd("CheckAib"))
  /\ top' = [top EXCEPT !.support = FALSE, !.formatted = FALSE, !.presence = FALSE]
  /\ UNCHANGED tag

FormatNdef ==
  /\ Start("format", None,
           IF top.support THEN Cmd("WriteAib") ELSE Cmd("PollSystem") \o Cmd("ReadMc"))
  /\ UNCHANGED <<tag, top>>

WriteNdef(m) ==
  /\ UNCHANGED <<tag, top>>
  /\ IF ~top.formatted /\ ~top.support THEN Refuse("write", m, "NOT_FORMATTED")
     ELSE IF Size[m] > top.max THEN Refuse("write", m, "INVALID_PARAMETER")
     ELSE Start("write", m, Cmd("ReadAccess") \o Cmd("SetFlag") \o Cells("Data", 1, Size[m])
                            \o Cmd("ReadAib") \o Cell("ResetFlag", Size[m]))

ReadNdef ==
  /\ UNCHANGED <<tag, top>>
  /\ IF Readable THEN Start("read", None, Cells("Read", 1, top.len))
     ELSE Refuse("read", None, "PROTOCOL_ERROR")

EraseNdef == Start("erase", None, Cmd("ReadLength")) /\ UNCHANGED <<tag, top>>

-----------------------------------------------------------------------------
(* The answer to a command. *)

\* What phalTop_T3T_t holds after the answer to c.
Learnt(c) ==
  CASE c.name = "PollNdef" -> [top EXCEPT !.support = TRUE, !.formatted = TRUE]
    [] c.name = "CheckAib" ->
         [top EXCEPT !.max = Room, !.len = tag.len, !.presence = tag.len # 0,
                     !.state = IF tag.len = 0 THEN "INITIALIZED"
                               ELSE IF tag.rwa = "RW" THEN "READWRITE" ELSE "READONLY"]
    [] c.name = "CheckMc" -> [top EXCEPT !.formatted = TRUE]
    [] c.name = "WriteAib" ->
         [top EXCEPT !.formatted = TRUE, !.presence = FALSE, !.len = 0,
                     !.state = "INITIALIZED", !.max = Room]
    [] c.name = "ResetFlag" /\ call.op = "write" ->
         [top EXCEPT !.state = "READWRITE", !.len = c.k, !.presence = TRUE]
    [] c.name = "ResetFlag" /\ call.op = "erase" -> [top EXCEPT !.presence = FALSE]
    [] OTHER -> top

\* The commands that follow the answer to c.  An erase writes one block more
\* than the message has.
Rest(c) ==
  CASE c.name = "ReadMc" -> (IF tag.ndef THEN <<>> ELSE Cmd("WriteMc")) \o Cmd("WriteAib")
    [] c.name = "ReadLength" ->
         Cmd("SetFlag") \o Cells("Zero", 1, tag.len + 1) \o Cmd("ReadAib") \o Cell("ResetFlag", 0)
    [] OTHER -> Tail(call.todo)

Answer ==
  LET c == Head1 IN
  /\ Busy /\ ~call.gone /\ ~Refuses(c)
  /\ tag' = Execute(c) /\ top' = Learnt(c)
  /\ call' = Go(IF c.name = "Read" THEN Reply(tag.cells[c.k]) ELSE call, Rest(c),
                IF c.name = "ReadAccess" /\ tag.rwa # "RW" THEN "READONLY_TAG" ELSE "BUSY")

\* A tag that does not answer the poll for NDEF is polled for its own system;
\* one that does not answer that, either, is no tag of this type.
Failed(c, k) ==
  /\ UNCHANGED top
  /\ call' = CASE k.name = "PollNdef" -> Go(c, Cmd("CheckSystem") \o Cmd("CheckMc"), "BUSY")
               [] k.name = "CheckSystem" -> Go(c, <<>>, "SUCCESS")
               [] OTHER -> Go(c, <<>>, IF c.clean THEN "REFUSED" ELSE "TIMEOUT")

Refused == Busy /\ ~call.gone /\ Refuses(Head1) /\ UNCHANGED tag /\ Failed(call, Head1)

NoAnswer ==
  /\ Busy
  /\ tag' \in Maybe(Execute(Head1), Refuses(Head1))
  /\ \E gone \in Loss : Failed(Lost(call.gone \/ gone), Head1)

Operation ==
  /\ ~Busy
  /\ \/ CheckNdef \/ FormatNdef \/ ReadNdef \/ EraseNdef
     \/ \E m \in Messages : WriteNdef(m)

Next == Operation \/ Answer \/ Refused \/ NoAnswer

=============================================================================
