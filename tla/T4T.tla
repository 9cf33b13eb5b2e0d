--------------------------------- MODULE T4T ---------------------------------
(***************************************************************************)
(* The operations on a type 4 tag (a DESFire card), phalTop_Sw_Int_T4T.c.  *)
(* tag.app, tag.cc, tag.file: the NDEF application, its capability         *)
(* container and its NDEF file exist; tag.len: NLEN; tag.dir, tag.ef: the  *)
(* selected application and file.  Frames go through ISO-DEP, which        *)
(* deselects the card when its retries are used up: a card that has not    *)
(* answered once does not answer in the rest of the call.                  *)
(***************************************************************************)
EXTENDS TagSession

NoApp ==
  [app |-> FALSE, cc |-> "absent", file |-> FALSE, wa |-> "RW", len |-> 0, cells |-> Empty,
   dir |-> "master", ef |-> "none"]
Tags ==
  {NoApp} \cup
  {[app |-> TRUE, cc |-> "valid", file |-> TRUE, wa |-> a, len |-> Size[m], cells |-> Filled(m),
    dir |-> "master", ef |-> "none"] : a \in Access, m \in Fitting}
\* notFound: wAdditionalInfo of the DESFire layer is 6A82.  Reset is of
\* phalTop_T4T_t; the field of the layer below keeps its value.
Reset ==
  [support |-> FALSE, formatted |-> FALSE, presence |-> FALSE, state |-> "UNKNOWN",
   wa |-> "RW", max |-> 0, len |-> 0, notFound |-> FALSE]
ResetTop == [Reset EXCEPT !.notFound = top.notFound]

Content ==
  IF tag.app /\ tag.cc = "valid" /\ tag.file THEN Stored(tag.cells, tag.len)
  ELSE None
Hidden == None
Readable == top.presence
Writable == tag.app /\ tag.cc = "valid" /\ tag.file /\ tag.wa = "RW" /\ top.wa = "RW"
Loss == {TRUE}

Updates == {"UpdateLen", "Update", "Zero"}
\* A select of what is not there is refused with 6A82; UpdateCc writes 15
\* bytes at offset 2 of a file of 15.
Refuses(c) ==
  CASE c.name \in {"SelectApp", "SelectAppAgain"} -> ~tag.app
    [] c.name = "SelectCc" -> tag.dir = "master" \/ tag.cc = "absent"
    [] c.name = "SelectFile" -> tag.dir = "master" \/ ~tag.file \/ tag.cc # "valid"
    [] c.name = "CreateApp" -> tag.app
    [] c.name = "CreateCc" -> tag.cc # "absent"
    [] c.name = "CreateFile" -> tag.file
    [] c.name = "UpdateCc" -> TRUE
    [] c.name \in Updates -> tag.ef # "ndef" \/ tag.wa = "RO"
    [] OTHER -> FALSE

\* The third and later pieces of an erase are written at a wrong offset.
Execute(c) ==
  CASE c.name \in {"SelectApp", "SelectAppAgain"} -> [tag EXCEPT !.dir = "app", !.ef = "none"]
    [] c.name = "SelectCreated" -> [tag EXCEPT !.dir = "app", !.ef = "none"]
    [] c.name = "SelectCc" -> [tag EXCEPT !.ef = "cc"]
    [] c.name = "SelectFile" -> [tag EXCEPT !.ef = "ndef"]
    [] c.name = "SelectMaster" -> [tag EXCEPT !.dir = "master", !.ef = "none"]
    [] c.name = "CreateApp" -> [tag EXCEPT !.app = TRUE]
    [] c.name = "CreateCc" -> [tag EXCEPT !.cc = "empty"]
    [] c.name = "CreateFile" -> [tag EXCEPT !.file = TRUE]
    [] c.name = "WriteCc" -> [tag EXCEPT !.cc = "valid", !.wa = top.wa]
    [] c.name = "WriteLen" -> [tag EXCEPT !.len = 0]
    [] c.name = "UpdateLen" -> [tag EXCEPT !.len = c.k]
    [] c.name = "Update" -> [tag EXCEPT !.cells[c.k] = call.msg]
    [] c.name = "Zero" -> [tag EXCEPT !.len = 0, !.cells[IF c.k > 2 THEN 2 ELSE c.k] = Blank]
    [] OTHER -> tag

-----------------------------------------------------------------------------
FormatCommands ==
  Cmd("CreateApp") \o Cmd("SelectCreated") \o Cmd("CreateCc") \o Cmd("CreateFile")
  \o Cmd("WriteCc") \o Cmd("WriteLen") \o Cmd("SelectMaster")

EraseCommands ==
  Cmd("SelectApp") \o Cmd("SelectCc") \o Cmd("ReadCc") \o Cmd("SelectFile")
  \o Cells("Zero", 1, IF top.len = 0 THEN 1 ELSE top.len) \o Cmd("SelectMaster")

CheckNdef ==
  /\ Start("check", None, Cmd("SelectApp") \o Cmd("SelectCc") \o Cmd("CheckCc")
                          \o Cmd("SelectFile") \o Cmd("CheckLen") \o Cmd("SelectMaster"))
  /\ top' = [top EXCEPT !.support = FALSE, !.formatted = FALSE, !.presence = FALSE]
  /\ UNCHANGED tag

FormatNdef ==
  /\ Start("format", None, IF top.support THEN EraseCommands ELSE FormatCommands)
  /\ UNCHANGED <<tag, top>>

EraseNdef == Start("erase", None, EraseCommands) /\ UNCHANGED <<tag, top>>

WriteNdef(m) ==
  /\ UNCHANGED <<tag, top>>
  /\ IF top.formatted \/ top.support
     THEN Start("write", m,
            Cmd("SelectApp") \o Cmd("SelectCc") \o Cmd("ReadAccess") \o Cmd("SelectFile")
            \o Cell("UpdateLen", 0) \o Cells("Update", 1, Size[m]) \o Cell("UpdateLen", Size[m])
            \o (IF top.wa = "RO" THEN Cmd("SelectCc") \o Cmd("UpdateCc") ELSE <<>>)
            \o Cmd("SelectMaster"))
     ELSE Refuse("write", m, "NOT_FORMATTED")

ReadNdef ==
  /\ UNCHANGED <<tag, top>>
  /\ IF Readable
     THEN Start("read", None,
            Cmd("SelectApp") \o Cmd("SelectCc") \o Cmd("ReadCc") \o Cmd("SelectFile")
            \o Cmd("ReadLen") \o Cells("Read", 1, top.len) \o Cmd("SelectMaster"))
     ELSE Refuse("read", None, "PROTOCOL_ERROR")

\* phalTop_SetConfig of the write access: the next WriteNdef is to apply it.
SetWriteAccess(wa) == top' = [top EXCEPT !.wa = wa] /\ UNCHANGED <<tag, call>>

-----------------------------------------------------------------------------
Learnt(c) ==
  CASE c.name = "SelectAppAgain" -> [top EXCEPT !.formatted = TRUE]
    [] c.name = "SelectApp" /\ call.op = "check" /\ ~top.notFound ->
         [top EXCEPT !.formatted = TRUE]
    [] c.name = "CheckCc" /\ tag.cc = "valid" -> [top EXCEPT !.wa = tag.wa, !.max = Room]
    [] c.name = "CheckLen" ->
         [top EXCEPT !.support = TRUE, !.len = tag.len, !.presence = tag.len # 0,
                     !.state = IF tag.len = 0 THEN "INITIALIZED"
                               ELSE IF top.wa = "RO" THEN "READONLY" ELSE "READWRITE"]
    [] c.name = "WriteLen" ->
         [top EXCEPT !.formatted = TRUE, !.presence = FALSE, !.state = "INITIALIZED"]
    [] c.name = "Zero" /\ Tail(call.todo) = Cmd("SelectMaster") ->
         [top EXCEPT !.state = "INITIALIZED", !.presence = FALSE]
    [] c.name = "UpdateLen" /\ c.k # 0 -> [top EXCEPT !.len = c.k, !.presence = TRUE]
    [] c.name = "SelectMaster" /\ call.op = "format" -> [top EXCEPT !.formatted = TRUE]
    [] OTHER -> top

\* A tag without the application is formatted by CheckNdef; the test is on
\* what the layer below noted of its last error, not on this select.
AutoFormat == FormatCommands \o Cmd("SelectAppAgain") \o Tail(call.todo)

Verdict(c) ==
  CASE c.name = "CheckCc" /\ tag.cc = "empty" -> "PROTOCOL_ERROR"
    [] c.name = "ReadAccess" /\ tag.cc = "valid" /\ tag.wa = "RO" -> "READONLY_TAG"
    [] c.name = "SelectFile" /\ call.op = "write" /\ Size[call.msg] > top.max ->
         "INVALID_PARAMETER"
    [] c.name = "ReadLen" /\ tag.len # top.len -> "INVALID_LENGTH"
    [] OTHER -> "BUSY"

Answer ==
  LET c == Head1 IN
  /\ Busy /\ ~call.gone /\ ~Refuses(c)
  /\ tag' = Execute(c) /\ top' = Learnt(c)
  /\ call' = Go(IF c.name = "Read" THEN Reply(tag.cells[c.k]) ELSE call,
                IF c.name = "SelectApp" /\ call.op = "check" /\ top.notFound
                THEN AutoFormat ELSE Tail(call.todo),
                Verdict(c))

\* Selects of which only a refusal is looked at: when the answer is lost the
\* call goes on.
OnlyRefusal(c) ==
  \/ call.op \in {"read", "write", "erase", "format"} /\ c.name = "SelectApp"
  \/ call.op \in {"write", "erase", "format"} /\ c.name \in {"SelectCc", "SelectFile"}

Refused ==
  LET c == Head1 IN
  /\ Busy /\ ~call.gone /\ Refuses(c) /\ UNCHANGED tag
  /\ top' = [top EXCEPT !.notFound =
               CASE c.name \in {"SelectApp", "SelectAppAgain", "SelectCc", "SelectFile"} -> TRUE
                 [] c.name \in Updates \cup {"UpdateCc"} -> FALSE
                 [] OTHER -> @]
  /\ call' = IF c.name = "SelectApp" /\ call.op = "check" THEN Go(call, AutoFormat, "BUSY")
             ELSE Go(call, <<>>, CASE c.name = "CreateApp" -> "ALREADY_FORMATTED"
                                   [] OnlyRefusal(c) -> "NOT_FORMATTED"
                                   [] OTHER -> "REFUSED")

\* A card that is activated again has its master application selected.
Released(t) == [t EXCEPT !.dir = "master", !.ef = "none"]

NoAnswer ==
  LET c == Head1
      executed == Maybe(Execute(c), Refuses(c)) IN
  /\ Busy /\ UNCHANGED top
  /\ tag' \in {Released(t) : t \in executed}
  /\ \E gone \in Loss :
       call' = Go(Lost(gone), Tail(call.todo), IF OnlyRefusal(c) \/ c.name = "CreateApp" THEN "BUSY" ELSE "TIMEOUT")

Operation ==
  /\ ~Busy
  /\ \/ CheckNdef \/ FormatNdef \/ ReadNdef \/ EraseNdef
     \/ \E m \in Messages : WriteNdef(m)
     \/ \E wa \in Access : SetWriteAccess(wa)

Next == Operation \/ Answer \/ Refused \/ NoAnswer

=============================================================================
