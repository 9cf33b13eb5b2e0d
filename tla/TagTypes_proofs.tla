----------------------------- MODULE TagTypes_proofs -----------------------------
(***************************************************************************)
(* The operations on the tags, for every value of the constants of         *)
(* TagOperations: the inductive invariant of each type of tag, and that    *)
(* every step on a tag of type 1, 2 and 3 keeps it.                        *)
(*                                                                         *)
(* An operation is a plan of commands, and a call is at a place in one: as *)
(* many commands are left.  The invariant says, for each operation, what   *)
(* the commands before have made of the tag and of the parameters.  Every  *)
(* command is looked at four times: answered, refused, not answered, and   *)
(* as the first of its operation.                                          *)
(***************************************************************************)
EXTENDS TagOperations, SequenceTheorems, TLAPS

(* Calls and the commands they have left to send.                           *)

(* One command.                                                             *)
C(name, k) == [name |-> name, k |-> k]

(* The names of the commands of the four types.                             *)
Names ==
  {"ClearNmn", "WriteRwa", "WriteTlv", "WriteLen", "Data", "SetNmn", "ClearTlv", "ClearLen",
   "Zero", "Lock", "CheckNmn", "CheckRwa", "CheckTlv", "ReadRwa", "Read", "ClearVno",
   "WriteCc", "WriteRo", "WriteHeader", "WriteLock", "CheckCc", "VerifyErased", "VerifyCc",
   "ReadHeader", "ReadLock",
   "WriteMc", "WriteAib", "SetFlag", "ResetFlag", "PollNdef", "CheckAib", "PollSystem",
   "ReadMc", "ReadAccess", "ReadAib", "ReadLength", "CheckSystem", "CheckMc",
   "SelectApp", "SelectAppAgain", "SelectCc", "SelectFile", "SelectMaster", "SelectCreated",
   "CreateApp", "CreateCc", "CreateFile", "UpdateCc", "UpdateLen", "Update", "ReadCc",
   "CheckLen", "ReadLen"}

(* The commands a call may have to send.                                    *)
Commands == [name : Names, k : Nat]

(* What phalTop returns, and BUSY as long as it has not.                    *)
Statuses ==
  {"BUSY", "SUCCESS", "TIMEOUT", "REFUSED", "UNSUPPORTED_COMMAND", "UNSUPPORTED_TAG",
   "INVALID_PARAMETER", "INVALID_STATE", "INVALID_LENGTH", "USE_CONDITION", "PROTOCOL_ERROR",
   "NOT_FORMATTED", "ALREADY_FORMATTED", "READONLY_TAG"}

(* The calls there can be.                                                  *)
Calls ==
  [op : Operations \cup {"none"}, msg : Messages \cup {None}, todo : Seq(Commands),
   got : Seq(Messages \cup {Blank}), status : Statuses,
   gone : BOOLEAN, clean : BOOLEAN, checked : BOOLEAN]

(* A call is busy as long as it has commands to send.                       *)
CallOK == call \in Calls /\ (Busy <=> call.todo # <<>>) /\ (call.op = "none" => ~Busy)

(* plan[r] is the command after which r - 1 are left.                       *)
Follows(todo, plan) ==
  \A i \in 1 .. Len(todo) : todo[i] = plan[Len(todo) + 1 - i]

(* All names of the commands are among names.                               *)
Named(todo, names) == \A i \in 1 .. Len(todo) : todo[i].name \in names

(* A tag has at least one cell for a message.                               *)
LEMMA RoomPositive == Room \in Nat /\ Room > 0 /\ Area = 1 .. Room + 1
BY SizeAssumption DEF Area

(* A message has at least one cell.                                         *)
LEMMA Sizes == ASSUME NEW m \in Messages PROVE Size[m] \in Nat /\ Size[m] > 0
BY SizeAssumption

(* The first command of a call that is busy, and those after it.            *)
LEMMA TodoTail ==
  ASSUME NEW s \in Seq(Commands), s # <<>>
  PROVE  /\ Len(s) \in Nat /\ Len(s) > 0
         /\ Head(s) = s[1] /\ Head(s) \in Commands
         /\ Tail(s) \in Seq(Commands) /\ Len(Tail(s)) = Len(s) - 1
         /\ \A i \in 1 .. Len(Tail(s)) : Tail(s)[i] = s[i + 1]
         /\ (Tail(s) = <<>>) <=> (Len(s) = 1)
<1>1. Len(s) \in Nat /\ Len(s) > 0
  BY EmptySeq, LenProperties
<1>2. Head(s) = s[1] /\ Head(s) \in Commands
  BY <1>1, HeadTailProperties
<1>3. /\ Tail(s) \in Seq(Commands) /\ Len(Tail(s)) = Len(s) - 1
      /\ \A i \in 1 .. Len(Tail(s)) : Tail(s)[i] = s[i + 1]
  BY HeadTailProperties
<1>4. (Tail(s) = <<>>) <=> (Len(Tail(s)) = 0)
  BY <1>3, EmptySeq
<1> QED BY <1>1, <1>2, <1>3, <1>4

(* A plan is followed on.                                                   *)
LEMMA FollowsTail ==
  ASSUME NEW s \in Seq(Commands), s # <<>>, NEW plan, Follows(s, plan)
  PROVE  Head(s) = plan[Len(s)] /\ Follows(Tail(s), plan)
<1>1. Head(s) = plan[Len(s)]
  BY TodoTail DEF Follows
<1>2. ASSUME NEW i \in 1 .. Len(Tail(s))
      PROVE  Tail(s)[i] = plan[Len(Tail(s)) + 1 - i]
  <2>1. /\ i + 1 \in 1 .. Len(s) /\ Tail(s)[i] = s[i + 1]
        /\ Len(s) + 1 - (i + 1) = Len(Tail(s)) + 1 - i
    BY TodoTail
  <2> QED BY <2>1 DEF Follows
<1> QED BY <1>1, <1>2 DEF Follows

(* What holds of the names of all commands holds of the rest of them.       *)
LEMMA NamedTail ==
  ASSUME NEW s \in Seq(Commands), s # <<>>, NEW names, Named(s, names)
  PROVE  Head(s).name \in names /\ Named(Tail(s), names)
<1>1. Head(s).name \in names
  BY TodoTail DEF Named
<1>2. ASSUME NEW i \in 1 .. Len(Tail(s))
      PROVE  Tail(s)[i].name \in names
  <2>1. i + 1 \in 1 .. Len(s) /\ Tail(s)[i] = s[i + 1]
    BY TodoTail
  <2> QED BY <2>1 DEF Named
<1> QED BY <1>1, <1>2 DEF Named

(* Commands put together.                                                   *)
LEMMA OneCommand ==
  ASSUME NEW name \in Names, NEW k \in Nat
  PROVE  /\ Cmd(name) \in Seq(Commands) /\ Len(Cmd(name)) = 1 /\ Cmd(name)[1] = C(name, 0)
         /\ Cell(name, k) \in Seq(Commands) /\ Len(Cell(name, k)) = 1
         /\ Cell(name, k)[1] = C(name, k)
BY DEF Cmd, Cell, C, Commands

(* The commands for the cells from a to b.                                  *)
LEMMA ManyCommands ==
  ASSUME NEW name \in Names, NEW a \in Nat, NEW b \in Nat, a <= b + 1
  PROVE  /\ Cells(name, a, b) \in Seq(Commands) /\ Len(Cells(name, a, b)) = b + 1 - a
         /\ \A i \in 1 .. b + 1 - a : Cells(name, a, b)[i] = C(name, a + i - 1)
<1> DEFINE n == b + 1 - a
           s == [k \in 1 .. n |-> [name |-> name, k |-> a + k - 1]]
<1>1. n \in Nat
  OBVIOUS
<1>2. ASSUME NEW k \in 1 .. n
      PROVE  [name |-> name, k |-> a + k - 1] \in Commands
  BY <1>1 DEF Commands
<1>3. s \in [1 .. n -> Commands]
  BY <1>2, Zenon
<1>4. s \in Seq(Commands) /\ Len(s) = n
  BY <1>1, <1>3
<1>5. Cells(name, a, b) = s
  BY Zenon DEF Cells
<1>6. \A i \in 1 .. n : s[i] = C(name, a + i - 1)
  BY DEF C
<1> QED BY <1>4, <1>5, <1>6

(* Two lists of commands, one after the other.                              *)
LEMMA Together ==
  ASSUME NEW s \in Seq(Commands), NEW t \in Seq(Commands)
  PROVE  /\ s \o t \in Seq(Commands) /\ Len(s \o t) = Len(s) + Len(t)
         /\ \A i \in 1 .. Len(s) : (s \o t)[i] = s[i]
         /\ \A i \in 1 .. Len(t) : (s \o t)[Len(s) + i] = t[i]
         /\ Len(s) \in Nat /\ Len(t) \in Nat
<1>1. /\ s \o t \in Seq(Commands) /\ Len(s \o t) = Len(s) + Len(t)
      /\ Len(s) \in Nat /\ Len(t) \in Nat
  BY ConcatProperties, LenProperties
<1>2. \A i \in 1 .. Len(s) + Len(t) :
        (s \o t)[i] = IF i <= Len(s) THEN s[i] ELSE t[i - Len(s)]
  BY ConcatProperties, <1>1
<1> QED BY <1>1, <1>2

(* s are the first l of the n commands of a plan.                           *)
First(s, l, n, plan) ==
  s \in Seq(Commands) /\ Len(s) = l /\ \A i \in 1 .. l : s[i] = plan[n + 1 - i]

(* Commands that are the whole of a plan follow it.                         *)
LEMMA FirstAll ==
  ASSUME NEW n \in Nat, NEW plan, NEW s, First(s, n, n, plan)
  PROVE  s \in Seq(Commands) /\ Len(s) = n /\ Follows(s, plan)
BY DEF First, Follows

(* The first command of a plan.                                             *)
LEMMA FirstNone ==
  ASSUME NEW n \in Nat, NEW plan, NEW name \in Names, NEW k \in Nat, plan[n] = C(name, k)
  PROVE  First(Cell(name, k), 1, n, plan)
BY OneCommand DEF First

(* One more command of a plan.                                              *)
LEMMA FirstOne ==
  ASSUME NEW n \in Nat, NEW plan, NEW s, NEW l \in Nat, First(s, l, n, plan),
         NEW name \in Names, NEW k \in Nat, plan[n - l] = C(name, k), NEW j, j = l + 1
  PROVE  First(s \o Cell(name, k), j, n, plan)
<1>1. PICK t : /\ t = Cell(name, k) /\ t \in Seq(Commands) /\ Len(t) = 1 /\ t[1] = plan[n - l]
               /\ s \in Seq(Commands) /\ Len(s) = l
  BY OneCommand DEF First
<1>4. /\ s \o t \in Seq(Commands) /\ Len(s \o t) = Len(s) + Len(t)
      /\ \A i \in 1 .. Len(s) : (s \o t)[i] = s[i]
      /\ \A i \in 1 .. Len(t) : (s \o t)[Len(s) + i] = t[i]
  BY <1>1, Together
<1>2. /\ s \o t \in Seq(Commands) /\ Len(s \o t) = j
      /\ \A i \in 1 .. l : (s \o t)[i] = s[i]
      /\ (s \o t)[l + 1] = plan[n - l]
  BY <1>1, <1>4
<1>3. \A i \in 1 .. j : i \in 1 .. l \/ (i = l + 1 /\ n + 1 - i = n - l)
  OBVIOUS
<1> QED BY <1>1, <1>2, <1>3 DEF First

(* Commands for the cells from a to b as the next ones of a plan.           *)
LEMMA FirstMany ==
  ASSUME NEW n \in Nat, NEW plan, NEW s, NEW l \in Nat, First(s, l, n, plan),
         NEW name \in Names, NEW a \in Nat, NEW b \in Nat, a <= b + 1,
         \A k \in a .. b : plan[n - l + a - k] = C(name, k),
         NEW j, j = l + (b + 1 - a)
  PROVE  First(s \o Cells(name, a, b), j, n, plan)
<1> DEFINE t == Cells(name, a, b)
           c == b + 1 - a
<1>1. t \in Seq(Commands) /\ Len(t) = c /\ \A i \in 1 .. c : t[i] = plan[n + 1 - l - i]
  <2>1. t \in Seq(Commands) /\ Len(t) = c /\ \A i \in 1 .. c : t[i] = C(name, a + i - 1)
    BY ManyCommands
  <2>2. ASSUME NEW i \in 1 .. c
        PROVE  t[i] = plan[n + 1 - l - i]
    <3>1. PICK k \in a .. b : k = a + i - 1 /\ n - l + a - k = n + 1 - l - i
      BY DEF c
    <3> QED BY <2>1, <3>1
  <2> QED BY <2>1, <2>2
<1>2. c \in Nat /\ s \in Seq(Commands) /\ Len(s) = l
  BY DEF First
<1> HIDE DEF t, c
<1>3. /\ s \o t \in Seq(Commands) /\ Len(s \o t) = l + c
      /\ \A i \in 1 .. l : (s \o t)[i] = s[i]
      /\ \A i \in 1 .. c : (s \o t)[l + i] = t[i]
  BY <1>1, <1>2, Together
<1>4. ASSUME NEW i \in 1 .. l + c
      PROVE  (s \o t)[i] = plan[n + 1 - i]
  <2>1. CASE i <= l
    BY <1>2, <1>3, <2>1 DEF First
  <2>2. CASE i > l
    <3>1. PICK e \in 1 .. c : i = l + e /\ n + 1 - i = n + 1 - l - e
      <4>1. i - l \in 1 .. c
        BY <1>2, <2>2
      <4> QED BY <4>1
    <3> QED BY <1>1, <1>3, <3>1
  <2>3. i <= l \/ i > l
    BY <1>2
  <2> QED BY <2>1, <2>2, <2>3
<1>5. j = l + c
  BY DEF c
<1> QED BY <1>3, <1>4, <1>5 DEF First, t

(* A command without a cell is one for cell 0.                              *)
LEMMA CmdIsCell == \A name : Cmd(name) = Cell(name, 0)
BY DEF Cmd, Cell

-----------------------------------------------------------------------------
(* What a reader makes of the cells.                                        *)

(* A cell holds a part of a message, or nothing.                            *)
CellValues == Messages \cup {Blank}

(* A reader finds no message in no cells.                                   *)
LEMMA StoredNothing == \A cells : Stored(cells, 0) = None
BY DEF Stored

(* A reader finds a message in the cells it fills.                          *)
LEMMA StoredWhole ==
  ASSUME NEW m \in Messages, NEW cells, \A k \in 1 .. Size[m] : cells[k] = m
  PROVE  Stored(cells, Size[m]) = m
<1> DEFINE whole == {x \in Messages : Size[x] = Size[m] /\ \A k \in 1 .. Size[x] : cells[k] = x}
           found == {x \in Messages : Size[x] = Size[m] /\ \A k \in 1 .. Size[m] : cells[k] = x}
<1>1. 1 \in 1 .. Size[m] /\ Size[m] # 0
  BY Sizes
<1>2. found = {m}
  BY <1>1
<1>3. Stored(cells, Size[m]) = CHOOSE x \in found : TRUE
  BY <1>1, <1>2 DEF Stored
<1> QED BY <1>2, <1>3

(* What a reader finds depends on the cells it reads only.                  *)
LEMMA StoredSame ==
  ASSUME NEW n, NEW cells, NEW others, \A k \in 1 .. n : cells[k] = others[k]
  PROVE  Stored(cells, n) = Stored(others, n)
<1> DEFINE W1 == {x \in Messages : Size[x] = n /\ \A k \in 1 .. n : cells[k] = x}
           W2 == {x \in Messages : Size[x] = n /\ \A k \in 1 .. n : others[k] = x}
<1>1. W1 = W2
  OBVIOUS
<1>2. /\ Stored(cells, n) = IF n = 0 THEN None ELSE IF W1 = {} THEN Torn ELSE CHOOSE x \in W1 : TRUE
      /\ Stored(others, n) = IF n = 0 THEN None ELSE IF W2 = {} THEN Torn ELSE CHOOSE x \in W2 : TRUE
  BY Zenon DEF Stored
<1> HIDE DEF W1, W2
<1> QED BY <1>1, <1>2

(* The tag of a message that fits holds it.                                 *)
LEMMA FilledStored ==
  ASSUME NEW m \in Fitting
  PROVE  /\ m \in Messages /\ Size[m] \in 0 .. Room
         /\ Filled(m) \in [Area -> CellValues] /\ Stored(Filled(m), Size[m]) = m
<1>1. m \in Messages /\ Size[m] \in Nat /\ Size[m] > 0 /\ Size[m] <= Room
  BY Sizes DEF Fitting
<1>2. Filled(m) \in [Area -> CellValues]
  BY DEF Filled, CellValues, Fitting
<1>3. \A k \in 1 .. Size[m] : Filled(m)[k] = m
  BY <1>1, RoomPositive DEF Filled
<1> QED BY <1>1, <1>2, <1>3, StoredWhole, RoomPositive

(* A blank tag.                                                             *)
LEMMA EmptyCells == Empty \in [Area -> CellValues]
BY DEF Empty, CellValues

-----------------------------------------------------------------------------
(* The three ways on from an answer, or from its absence.                   *)

(* Calls that differ in what is left to do and in how they end.             *)
Same(c, d) == d.op = c.op /\ d.msg = c.msg /\ d.got = c.got /\ d.clean = c.clean

(* A call that goes on or ends is a call.                                   *)
LEMMA GoCall ==
  ASSUME NEW c \in Calls, NEW todo \in Seq(Commands), NEW status \in Statuses
  PROVE  Go(c, todo, status) \in Calls
<1>1. <<>> \in Seq(Commands) /\ "SUCCESS" \in Statuses
  BY EmptySeq DEF Statuses
<1> QED BY <1>1 DEF Go, Calls

(* The call goes on with todo, returns PH_ERR_SUCCESS, or returns an error. *)
LEMMA Went ==
  ASSUME NEW c \in Calls, c.op # "none", NEW todo \in Seq(Commands), NEW status \in Statuses,
         call' = Go(c, todo, status)
  PROVE  /\ CallOK' /\ Same(c, call')
         /\ status = "BUSY" /\ todo # <<>> =>
              call'.status = "BUSY" /\ call'.todo = todo /\ call'.gone = c.gone /\ call'.checked = c.checked
         /\ status = "SUCCESS" \/ (status = "BUSY" /\ todo = <<>>) =>
              /\ call'.status = "SUCCESS" /\ call'.todo = <<>>
              /\ call'.checked => c.op # "readonly" /\ (c.checked \/ (c.op = "check" /\ c.clean))
         /\ status \notin {"BUSY", "SUCCESS"} =>
              call'.status = status /\ call'.todo = <<>> /\ ~call'.checked
<1>0. PICK s : s = IF status = "BUSY" /\ todo = <<>> THEN "SUCCESS" ELSE status
  OBVIOUS
<1>7. Same(c, call') /\ call'.status = s
  BY <1>0 DEF Go, Calls, Same
<1>8. call'.todo = IF s = "BUSY" THEN todo ELSE <<>>
  BY <1>0 DEF Go, Calls
<1>9. call'.gone = (c.gone /\ s = "BUSY")
  BY <1>0 DEF Go, Calls
<1>10. call'.checked = CASE s = "BUSY" -> c.checked
                          [] s = "SUCCESS" /\ c.op # "readonly" ->
                               c.checked \/ (c.op = "check" /\ c.clean)
                          [] OTHER -> FALSE
  BY <1>0 DEF Go, Calls
<1>2. call' \in Calls
  BY GoCall
<1>3. CallOK'
  BY <1>0, <1>7, <1>8, <1>2 DEF CallOK, Busy, Same
<1>4. ASSUME status = "BUSY" /\ todo # <<>>
      PROVE  /\ call'.status = "BUSY" /\ call'.todo = todo
             /\ call'.gone = c.gone /\ call'.checked = c.checked
  <2>1. s = "BUSY"
    BY <1>0, <1>4
  <2>2. call'.status = "BUSY" /\ call'.todo = todo
    BY <1>7, <1>8, <2>1
  <2>3. call'.gone = c.gone
    BY <1>9, <2>1 DEF Calls
  <2>4. call'.checked = c.checked
    BY <1>10, <2>1 DEF Calls
  <2> QED BY <2>2, <2>3, <2>4
<1>5. ASSUME status = "SUCCESS" \/ (status = "BUSY" /\ todo = <<>>)
      PROVE  /\ call'.status = "SUCCESS" /\ call'.todo = <<>>
             /\ call'.checked => c.op # "readonly" /\ (c.checked \/ (c.op = "check" /\ c.clean))
  BY <1>0, <1>7, <1>8, <1>10, <1>5
<1>6. ASSUME status \notin {"BUSY", "SUCCESS"}
      PROVE  call'.status = status /\ call'.todo = <<>> /\ ~call'.checked
  BY <1>0, <1>7, <1>8, <1>10, <1>6
<1> QED BY <1>7, <1>3, <1>4, <1>5, <1>6, Zenon

(* A call that begins, and one that is refused.                             *)
LEMMA Started ==
  ASSUME NEW op \in Operations, NEW m \in Messages \cup {None}, NEW todo \in Seq(Commands),
         Start(op, m, todo), call \in Calls
  PROVE  /\ CallOK' /\ call'.op = op /\ call'.msg = m /\ call'.todo = todo /\ call'.got = <<>>
         /\ call'.status = (IF todo = <<>> THEN "SUCCESS" ELSE "BUSY")
         /\ ~call'.gone /\ call'.clean
         /\ call'.checked => call.checked /\ op # "check"
         /\ call.checked /\ op # "check" => call'.checked
<1>1. <<>> \in Seq(Messages \cup {Blank}) /\ call.checked \in BOOLEAN
  BY EmptySeq DEF Calls
<1>2. call' \in Calls
  BY <1>1 DEF Start, Calls, Statuses
<1> QED BY <1>2 DEF Start, CallOK, Busy, Operations

(* A call refused before its first command.                                 *)
LEMMA WasRefused ==
  ASSUME NEW op \in Operations, NEW m \in Messages \cup {None}, NEW status \in Statuses,
         status \notin {"BUSY", "SUCCESS"}, Refuse(op, m, status), call \in Calls
  PROVE  /\ CallOK' /\ call'.op = op /\ call'.msg = m /\ call'.todo = <<>>
         /\ call'.status = status /\ call'.checked = call.checked
<1>1. <<>> \in Seq(Messages \cup {Blank}) /\ <<>> \in Seq(Commands)
  BY EmptySeq
<1>2. call' \in Calls
  BY <1>1 DEF Refuse, Calls
<1> QED BY <1>2 DEF Refuse, CallOK, Busy

(* phalTop_Reset leaves a call that has returned.                           *)
LEMMA ReturnedCall ==
  call' = Returned("SUCCESS") =>
    CallOK' /\ call'.op = "none" /\ call'.status = "SUCCESS" /\ ~call'.checked
<1> SUFFICES ASSUME call' = Returned("SUCCESS")
             PROVE  CallOK' /\ call'.op = "none" /\ call'.status = "SUCCESS" /\ ~call'.checked
  OBVIOUS
<1>1. <<>> \in Seq(Messages \cup {Blank}) /\ <<>> \in Seq(Commands)
  BY EmptySeq
<1>2. call' \in Calls
  BY <1>1 DEF Returned, Calls, Statuses
<1> QED BY <1>2 DEF Returned, CallOK, Busy

(* The call without an answer, and with one more cell.                      *)
LEMMA LostCall ==
  ASSUME call \in Calls, NEW gone \in BOOLEAN
  PROVE  /\ Lost(gone) \in Calls /\ Lost(gone).op = call.op /\ Lost(gone).msg = call.msg
         /\ Lost(gone).todo = call.todo /\ Lost(gone).got = call.got
         /\ Lost(gone).checked = call.checked /\ ~Lost(gone).clean /\ Lost(gone).gone = gone
BY DEF Lost, Calls

(* The call after the answer to a read.                                     *)
LEMMA ReplyCall ==
  ASSUME call \in Calls, NEW cell \in Messages \cup {Blank}
  PROVE  /\ Reply(cell) \in Calls /\ Reply(cell).op = call.op /\ Reply(cell).msg = call.msg
         /\ Reply(cell).todo = call.todo /\ Reply(cell).got = Append(call.got, cell)
         /\ Reply(cell).checked = call.checked /\ Reply(cell).clean = call.clean
         /\ Reply(cell).gone = call.gone
<1>1. Append(call.got, cell) \in Seq(Messages \cup {Blank})
  BY DEF Calls
<1> QED BY <1>1 DEF Reply, Calls

-----------------------------------------------------------------------------
(* What holds of the last call when it has returned.                        *)

(* The last call was an op and succeeded.                                   *)
Ended(c, op) == c.op = op /\ c.status = "SUCCESS"

(* What SuccessMeansDone and ReadIsCurrent say of a call c that has         *)
(* ended, the message on the tag being content; and a write that could be   *)
(* done has been, which WriteSucceeds needs where a parameter is set        *)
(* after it.                                                                *)
EndedWell(c, content, writable) ==
  /\ Ended(c, "write") /\ c.checked => content = c.msg
  /\ Ended(c, "erase") => content = None
  /\ Ended(c, "format") => content = c.msg
  /\ Ended(c, "read") /\ c.checked => Stored(c.got, Len(c.got)) = content
  /\ c.op = "write" /\ c.status # "BUSY" /\ c.checked /\ Size[c.msg] <= Room /\ writable
       => c.status = "SUCCESS"

(* How many commands are left: the place of a call in its plan.             *)
Left == Len(call.todo)

(* The states of a tag that phalTop knows.                                  *)
States == {"UNKNOWN", "INITIALIZED", "READWRITE", "READONLY"}

(* The cells from the first one on, read in turn; last commands follow.     *)
ReadPlan == [r \in 1 .. top.len |-> C("Read", top.len + 1 - r)]

(* What was read so far is what is on the tag.                              *)
GotCells == \A i \in 1 .. Len(call.got) : call.got[i] = tag.cells[i]

(* A read is at its place: it has read the cells before.                    *)
ReadingCells ==
  /\ call.op = "read" /\ call.msg = None
  /\ Left <= top.len /\ Follows(call.todo, ReadPlan)
  /\ Len(call.got) = top.len - Left /\ GotCells

(* What one command does to the message on the tag and to the one that lacks *)
(* its mark: before <<c, h>>, then <<d, g>>.                                 *)
Effect(k, c, h, d, g) ==
  \/ d = c /\ g = h
  \/ k.op \in {"format", "write", "erase"} /\ d = None /\ (g = None \/ (k.op = "erase" /\ g = c))
  \/ k.op \in {"format", "write"} /\ ((d = k.msg /\ g = None) \/ (c = None /\ d = c /\ g = k.msg))
  \/ k.op = "format" /\ c = None /\ d = h /\ g = None

(* The same call goes on with todo, has succeeded, or has failed.            *)
Keeps == CallOK' /\ call'.op = call.op /\ call'.msg = call.msg

(* The call goes on with todo.                                              *)
GoesOn(todo) ==
  call'.status = "BUSY" /\ call'.todo = todo /\ call'.checked = call.checked /\ call'.gone = call.gone

(* The call returns PH_ERR_SUCCESS.                                         *)
Succeeds ==
  /\ call'.status = "SUCCESS" /\ call'.todo = <<>>
  /\ call'.checked => call.op # "readonly" /\ (call.checked \/ (call.op = "check" /\ call'.clean))

(* The call returns an error: nothing is known of the tag any more.         *)
Fails == call'.status \notin {"BUSY", "SUCCESS"} /\ call'.todo = <<>> /\ ~call'.checked

(* The step that WriteSucceeds is about.                                     *)
WriteStep(writable) ==
  call'.op = "write" /\ call'.status # "BUSY" /\ call'.clean /\ call.checked
    /\ Size[call'.msg] <= Room /\ writable
  => call'.status = "SUCCESS"

(* Nothing is promised of a call that goes on, of one that failed, of a     *)
(* check and of SetReadOnly.                                                *)
LEMMA NotEnded ==
  ASSUME NEW c, c.status = "BUSY" \/ (c.status # "SUCCESS" /\ ~c.checked) \/ c.op \in {"none", "check", "readonly"},
         NEW content, NEW writable
  PROVE  EndedWell(c, content, writable)
BY DEF EndedWell, Ended

(* The command at the head of a busy call.                                  *)
LEMMA Heading ==
  ASSUME CallOK, Busy
  PROVE  /\ call \in Calls /\ call.todo \in Seq(Commands) /\ call.todo # <<>>
         /\ Left \in Nat /\ Left > 0 /\ Head1 \in Commands
         /\ Tail(call.todo) \in Seq(Commands) /\ Len(Tail(call.todo)) = Left - 1
         /\ (Tail(call.todo) = <<>>) <=> (Left = 1)
<1>1. call \in Calls /\ call.todo \in Seq(Commands) /\ call.todo # <<>>
  BY DEF CallOK, Calls
<1> QED BY <1>1, TodoTail DEF Left, Head1

(* The call goes on with the rest of its commands.                          *)
LEMMA Onwards ==
  ASSUME CallOK, Busy, call'.status = "BUSY", call'.todo = Tail(call.todo)
  PROVE  /\ Busy' /\ Left' = Left - 1
         /\ \A plan : Follows(call.todo, plan) => Follows(call'.todo, plan)
         /\ \A names : Named(call.todo, names) => Named(call'.todo, names)
BY Heading, FollowsTail, NamedTail DEF Busy, Left

(* The call after an answer, which may be that to a read, and without one.  *)
LEMMA AnswerGoes ==
  ASSUME CallOK, Busy, NEW read \in BOOLEAN, NEW cell, read => cell \in CellValues,
         NEW todo \in Seq(Commands), NEW verdict \in Statuses,
         call' = Go(IF read THEN Reply(cell) ELSE call, todo, verdict)
  PROVE  /\ Keeps /\ call'.clean = call.clean
         /\ call'.got = IF read THEN Append(call.got, cell) ELSE call.got
         /\ verdict = "BUSY" /\ todo # <<>> => GoesOn(todo)
         /\ verdict = "SUCCESS" \/ (verdict = "BUSY" /\ todo = <<>>) => Succeeds
         /\ verdict \notin {"BUSY", "SUCCESS"} => Fails
<1>0. call \in Calls /\ call.op # "none"
  BY DEF CallOK
<1>1. PICK c : c = IF read THEN Reply(cell) ELSE call
  OBVIOUS
<1>2. /\ c \in Calls /\ c.op = call.op /\ c.msg = call.msg /\ c.checked = call.checked
      /\ c.clean = call.clean /\ c.gone = call.gone
      /\ c.got = IF read THEN Append(call.got, cell) ELSE call.got
  BY <1>0, <1>1, ReplyCall DEF CellValues
<1>3. call' = Go(c, todo, verdict)
  BY <1>1, Zenon
<1>4. /\ CallOK' /\ Same(c, call')
      /\ verdict = "BUSY" /\ todo # <<>> =>
              call'.status = "BUSY" /\ call'.todo = todo /\ call'.gone = c.gone /\ call'.checked = c.checked
      /\ verdict = "SUCCESS" \/ (verdict = "BUSY" /\ todo = <<>>) =>
              /\ call'.status = "SUCCESS" /\ call'.todo = <<>>
              /\ call'.checked => c.op # "readonly" /\ (c.checked \/ (c.op = "check" /\ c.clean))
      /\ verdict \notin {"BUSY", "SUCCESS"} =>
              call'.status = verdict /\ call'.todo = <<>> /\ ~call'.checked
  BY <1>0, <1>2, <1>3, Went, Zenon
<1> QED BY <1>2, <1>4 DEF Keeps, Same, GoesOn, Succeeds, Fails

(* The call after a refusal, or without an answer.                          *)
LEMMA LossGoes ==
  ASSUME CallOK, Busy, NEW lost \in BOOLEAN, NEW gone \in BOOLEAN,
         NEW todo \in Seq(Commands), NEW verdict \in Statuses,
         call' = Go(IF lost THEN Lost(gone) ELSE call, todo, verdict)
  PROVE  /\ Keeps /\ call'.got = call.got /\ call'.clean = (call.clean /\ ~lost)
         /\ verdict = "BUSY" /\ todo # <<>> =>
              /\ call'.status = "BUSY" /\ call'.todo = todo /\ call'.checked = call.checked
              /\ call'.gone = IF lost THEN gone ELSE call.gone
         /\ verdict = "SUCCESS" \/ (verdict = "BUSY" /\ todo = <<>>) => Succeeds
         /\ verdict \notin {"BUSY", "SUCCESS"} => Fails
<1>0. call \in Calls /\ call.op # "none"
  BY DEF CallOK
<1>1. PICK c : c = IF lost THEN Lost(gone) ELSE call
  OBVIOUS
<1>2. /\ c \in Calls /\ c.op = call.op /\ c.msg = call.msg /\ c.checked = call.checked
      /\ c.got = call.got
  BY <1>0, <1>1, LostCall
<1>5. c.clean = (call.clean /\ ~lost)
  BY <1>0, <1>1, LostCall DEF Calls
<1>6. c.gone = IF lost THEN gone ELSE call.gone
  BY <1>0, <1>1, LostCall
<1>3. call' = Go(c, todo, verdict)
  BY <1>1, Zenon
<1>4. /\ CallOK' /\ Same(c, call')
      /\ verdict = "BUSY" /\ todo # <<>> =>
              call'.status = "BUSY" /\ call'.todo = todo /\ call'.gone = c.gone /\ call'.checked = c.checked
      /\ verdict = "SUCCESS" \/ (verdict = "BUSY" /\ todo = <<>>) =>
              /\ call'.status = "SUCCESS" /\ call'.todo = <<>>
              /\ call'.checked => c.op # "readonly" /\ (c.checked \/ (c.op = "check" /\ c.clean))
      /\ verdict \notin {"BUSY", "SUCCESS"} =>
              call'.status = verdict /\ call'.todo = <<>> /\ ~call'.checked
  BY <1>0, <1>2, <1>3, Went, Zenon
<1>7. Keeps /\ call'.got = call.got /\ call'.clean = c.clean
  BY <1>2, <1>4 DEF Keeps, Same
<1>8. /\ verdict = "BUSY" /\ todo # <<>> =>
              /\ call'.status = "BUSY" /\ call'.todo = todo /\ call'.checked = call.checked
              /\ call'.gone = IF lost THEN gone ELSE call.gone
      /\ verdict = "SUCCESS" \/ (verdict = "BUSY" /\ todo = <<>>) => Succeeds
      /\ verdict \notin {"BUSY", "SUCCESS"} => Fails
  BY <1>2, <1>4, <1>6 DEF Same, Succeeds, Fails
<1> QED BY <1>5, <1>7, <1>8, Zenon

-----------------------------------------------------------------------------
(* Type 1.                                                                  *)

(* A type 1 tag.                                                            *)
T1Tag ==
  tag \in [dynamic : BOOLEAN, nmn : BOOLEAN, rwa : Access, locked : BOOLEAN,
          tlv : BOOLEAN, len : 0 .. Room, cells : [Area -> CellValues]]

(* The parameters of type 1 in phalTop_Sw_DataParams_t.                     *)
T1Top ==
  top \in [support : BOOLEAN, formatted : BOOLEAN, presence : BOOLEAN, state : States,
           rwa : Access, hdr : BOOLEAN, len : 0 .. Room, block : {"invalid", "cc", "other"}]

(* The commands of CheckNdef, the last one first.                           *)
T1CheckPlan ==
  [r \in 1 .. 3 |-> CASE r = 1 -> C("CheckTlv", 0)
                      [] r = 2 -> C(IF tag.dynamic THEN "CheckNmn" ELSE "CheckRwa", 0)
                      [] OTHER -> C("CheckNmn", 0)]

(* A check at its place: what it has read so far is in the parameters.      *)
T1Checking ==
  /\ call.op = "check" /\ call.msg = None /\ ~call.checked
  /\ Left <= (IF tag.dynamic THEN 2 ELSE 3) /\ Follows(call.todo, T1CheckPlan)
  /\ top.support
  /\ Left = 1 => top.presence = tag.nmn /\ top.rwa = tag.rwa
  /\ Left = 2 /\ ~tag.dynamic => top.presence = tag.nmn

(* The commands of FormatNdef, the last one first.                          *)
T1FormatPlan ==
  [r \in 1 .. 3 |-> CASE r = 1 -> C("WriteRwa", 0) [] r = 2 -> C("ClearNmn", 0)
                      [] OTHER -> C("ReadRwa", 0)]

(* A format at its place: the magic number is cleared first.                *)
T1Formatting ==
  /\ call.op = "format" /\ call.msg = None
  /\ Left <= 3 /\ Follows(call.todo, T1FormatPlan)
  /\ Left = 1 => ~tag.nmn

(* The commands of WriteNdef, the last one first: the NDEF magic number     *)
(* is cleared before and set after all others.                              *)
T1WritePlan(m) ==
  [r \in 1 .. Size[m] + 5 |->
     CASE r = 1 -> C("SetNmn", 0)
       [] r \in 2 .. Size[m] + 1 -> C("Data", Size[m] + 2 - r)
       [] r = Size[m] + 2 -> C("WriteLen", Size[m])
       [] r = Size[m] + 3 -> C("WriteTlv", 0)
       [] r = Size[m] + 4 -> C("WriteRwa", 0)
       [] OTHER -> C("ClearNmn", 0)]

(* What a write has done when left commands are left: the tag shows no      *)
(* message until the last one, and then all cells and the length are m's.   *)
T1Written(m, n, left) ==
  /\ left <= n + 4 => ~tag.nmn
  /\ left <= n + 3 => n <= Room /\ top.hdr
  /\ left <= n + 2 => tag.tlv
  /\ left <= n + 1 => tag.len = n /\ top.len = n
  /\ \A k \in 1 .. n : left <= n + 1 - k => tag.cells[k] = m

(* A write at its place.                                                    *)
T1Writing ==
  /\ call.op = "write" /\ call.msg \in Messages /\ top.rwa = "RW"
  /\ Left <= Size[call.msg] + 5 /\ Follows(call.todo, T1WritePlan(call.msg))
  /\ T1Written(call.msg, Size[call.msg], Left)

(* An erase at its place: after its first command there is no message.      *)
T1Erasing ==
  /\ call.op = "erase" /\ call.msg = None
  /\ Named(call.todo, {"ClearNmn", "ClearVno", "ClearTlv", "ClearLen", "Zero"})
  /\ Head1.name = "ClearNmn" \/ ~tag.nmn

(* SetReadOnly at its place: it changes no message.                         *)
T1Locking ==
  call.op = "readonly" /\ call.msg = None /\ Named(call.todo, {"WriteRwa", "Lock"})

(* A read at its place.                                                     *)
T1Reading == ReadingCells /\ T1!Readable

(* A call is one of the operations, at its place.                           *)
T1Doing ==
  Busy => T1Checking \/ T1Formatting \/ T1Writing \/ T1Erasing \/ T1Locking \/ T1Reading

(* What the parameters say of a checked tag is true of it: what it says     *)
(* is there to read is there, and a tag that can be written is not taken    *)
(* for a read-only one.                                                     *)
T1Known ==
  /\ call.checked /\ ~(Busy /\ call.op = "readonly") =>
       top.support /\ (T1!Writable => top.rwa = "RW")
  /\ call.checked /\ (~Busy \/ call.op = "read") /\ T1!Readable =>
       tag.nmn /\ tag.tlv /\ top.len = tag.len

(* The inductive invariant of type 1.                                       *)
T1Inv == T1Tag /\ T1Top /\ CallOK /\ T1Doing /\ T1Known /\ EndedWell(call, T1!Content, T1!Writable)

-----------------------------------------------------------------------------
(* Type 2.                                                                  *)

(* A type 2 tag.                                                            *)
T2Tag ==
  tag \in [nmn : {"00", "E1"}, otp : BOOLEAN, rwa : Access, locked : BOOLEAN,
          tlv : BOOLEAN, len : 0 .. Room, cells : [Area -> CellValues]]

(* The parameters of type 2 in phalTop_Sw_DataParams_t.                     *)
T2Top ==
  top \in [formatted : BOOLEAN, presence : BOOLEAN, state : States, rwa : Access,
          hdr : BOOLEAN, len : 0 .. Room]

(* A check at its place.                                                    *)
T2Checking ==
  /\ call.op = "check" /\ call.msg = None /\ ~call.checked /\ Left = 1
  /\ \/ Head1.name = "CheckCc" /\ ~top.presence /\ ~top.hdr
     \/ Head1.name = "CheckTlv" /\ tag.nmn = "E1" /\ top.rwa = tag.rwa

(* The commands of a write, and those a format puts before them, the last   *)
(* one first: the length in the header is 0 until all cells are written.    *)
T2MessagePlan(m) ==
  [r \in 1 .. Size[m] + 4 |->
     CASE r = 1 -> C("WriteHeader", Size[m])
       [] r \in 2 .. Size[m] -> C("Data", Size[m] + 2 - r)
       [] r = Size[m] + 1 -> C("WriteHeader", 0)
       [] r = Size[m] + 2 -> C("ReadHeader", 0)
       [] r = Size[m] + 3 -> C("VerifyCc", 0)
       [] OTHER -> C("WriteCc", 0)]

(* What a write has done when left commands are left: the first cell goes   *)
(* with the header, before the others, and the length with the header at    *)
(* the end.                                                                 *)
T2Written(m, n, left) ==
  /\ left <= n => tag.tlv /\ tag.len = 0 /\ tag.cells[1] = m
  /\ \A k \in 2 .. n : left <= n + 1 - k => tag.cells[k] = m

(* A format at its place: it makes the tag one that holds a message, and    *)
(* writes the default one.                                                  *)
T2Formatting ==
  /\ call.op = "format" /\ call.msg = Default
  /\ Left <= Size[Default] + 4 /\ Follows(call.todo, T2MessagePlan(Default))
  /\ T2Written(Default, Size[Default], Left)
  /\ Left <= Size[Default] + 2 => tag.nmn = "E1" /\ top.hdr /\ top.presence

(* A write at its place: a checked tag has its magic number.                *)
T2Writing ==
  /\ call.op = "write" /\ call.msg \in Fitting
  /\ Left <= Size[call.msg] + 2 /\ Follows(call.todo, T2MessagePlan(call.msg))
  /\ T2Written(call.msg, Size[call.msg], Left)
  /\ call.checked => tag.nmn = "E1" /\ top.hdr /\ top.presence

(* The commands of EraseNdef, the last one first.                           *)
T2ErasePlan ==
  [r \in 1 .. 2 |-> IF r = 1 THEN C("VerifyErased", 0) ELSE C("ClearNmn", 0)]

(* An erase at its place.                                                   *)
T2Erasing ==
  /\ call.op = "erase" /\ call.msg = None
  /\ Left <= 2 /\ Follows(call.todo, T2ErasePlan)

(* SetReadOnly at its place.                                                *)
T2Locking ==
  call.op = "readonly" /\ call.msg = None /\ Named(call.todo, {"ReadLock", "WriteRo", "WriteLock"})

(* A read at its place.                                                     *)
T2Reading == ReadingCells /\ T2!Readable

(* A call is one of the operations, at its place.                           *)
T2Doing ==
  Busy => T2Checking \/ T2Formatting \/ T2Writing \/ T2Erasing \/ T2Locking \/ T2Reading

(* What the parameters say of a checked tag is true of it.                  *)
T2Known ==
  call.checked /\ (~Busy \/ call.op = "read") =>
    /\ top.hdr => tag.nmn = "E1" /\ tag.tlv
    /\ T2!Readable => top.hdr /\ top.len = tag.len
    /\ T2!Writable => top.hdr /\ top.presence /\ top.state \in {"INITIALIZED", "READWRITE"}

(* The inductive invariant of type 2.                                       *)
T2Inv == T2Tag /\ T2Top /\ CallOK /\ T2Doing /\ T2Known /\ EndedWell(call, T2!Content, T2!Writable)

-----------------------------------------------------------------------------
(* Type 3.                                                                  *)

(* A type 3 tag.                                                            *)
T3Tag ==
  /\ tag \in [ndef : BOOLEAN, rwa : Access, locked : BOOLEAN, len : 0 .. Room,
              cells : [Area -> CellValues]]
  /\ ~tag.ndef => tag.len = 0

(* The parameters of type 3 in phalTop_Sw_DataParams_t.                     *)
T3Top ==
  top \in [support : BOOLEAN, formatted : BOOLEAN, presence : BOOLEAN, state : States,
          len : 0 .. Room, max : {0, Room}]

(* The parameters say that the tag supports NDEF only of one that does.     *)
T3Seen == top.support \/ top.max # 0 => tag.ndef

(* The commands of CheckNdef, the last one first: the tag is polled with    *)
(* the NDEF system code.                                                    *)
T3PollPlan == [r \in 1 .. 2 |-> IF r = 1 THEN C("CheckAib", 0) ELSE C("PollNdef", 0)]

(* The commands after a poll that was not answered.                         *)
T3SystemPlan == [r \in 1 .. 2 |-> IF r = 1 THEN C("CheckMc", 0) ELSE C("CheckSystem", 0)]

(* A check at its place: a poll that was not answered, and was not lost,    *)
(* was not answered because the tag has no NDEF.                            *)
T3Checking ==
  /\ call.op = "check" /\ call.msg = None /\ ~call.checked /\ Left <= 2 /\ ~top.presence
  /\ \/ Follows(call.todo, T3PollPlan) /\ (Left = 1 => top.support)
     \/ Follows(call.todo, T3SystemPlan) /\ (call.clean => ~tag.ndef)

(* The commands of FormatNdef before the memory configuration is known,     *)
(* the last one first.                                                      *)
T3McPlan == [r \in 1 .. 2 |-> IF r = 1 THEN C("ReadMc", 0) ELSE C("PollSystem", 0)]

(* The rest of them: the memory configuration, if need be, and the          *)
(* attribute block.                                                         *)
T3AibPlan == [r \in 1 .. 2 |-> IF r = 1 THEN C("WriteAib", 0) ELSE C("WriteMc", 0)]

(* A format at its place: the attribute block is written to a tag with      *)
(* NDEF.                                                                    *)
T3Formatting ==
  /\ call.op = "format" /\ call.msg = None /\ Left <= 2
  /\ \/ Follows(call.todo, T3McPlan)
     \/ Follows(call.todo, T3AibPlan) /\ (Left = 1 => tag.ndef)

(* The commands of WriteNdef, the last one first: WriteFlag is set before   *)
(* the cells are written and reset with the new length.                     *)
T3WritePlan(m) ==
  [r \in 1 .. Size[m] + 4 |->
     CASE r = 1 -> C("ResetFlag", Size[m])
       [] r = 2 -> C("ReadAib", 0)
       [] r \in 3 .. Size[m] + 2 -> C("Data", Size[m] + 3 - r)
       [] r = Size[m] + 3 -> C("SetFlag", 0)
       [] OTHER -> C("ReadAccess", 0)]

(* What a write has done when left commands are left.                       *)
T3Written(m, n, left) ==
  /\ left <= n + 2 => tag.len = 0
  /\ \A k \in 1 .. n : left <= n + 2 - k => tag.cells[k] = m

(* A write at its place.                                                    *)
T3Writing ==
  /\ call.op = "write" /\ call.msg \in Fitting /\ tag.ndef
  /\ Left <= Size[call.msg] + 4 /\ Follows(call.todo, T3WritePlan(call.msg))
  /\ T3Written(call.msg, Size[call.msg], Left)

(* An erase at its place, which ends with the length 0.                     *)
T3Erasing ==
  /\ call.op = "erase" /\ call.msg = None
  /\ Named(call.todo, {"ReadLength", "SetFlag", "Zero", "ReadAib", "ResetFlag"})
  /\ \A i \in 1 .. Left : call.todo[i].name = "ResetFlag" => call.todo[i].k = 0
  /\ call.todo[Left].name \in {"ReadLength", "ResetFlag"}
  /\ Head1.name \in {"ReadLength", "SetFlag"} \/ tag.len = 0

(* A read at its place.                                                     *)
T3Reading == ReadingCells /\ T3!Readable

(* A call is one of the operations, at its place.                           *)
T3Doing == Busy => T3Checking \/ T3Formatting \/ T3Writing \/ T3Erasing \/ T3Reading

(* What the parameters say of a checked tag is true of it.                  *)
T3Known ==
  /\ call.checked /\ ~(Busy /\ call.op = "format") /\ tag.ndef =>
       (top.formatted \/ top.support) /\ top.max = Room
  /\ call.checked /\ (~Busy \/ call.op = "read") /\ T3!Readable =>
       tag.ndef /\ top.len = tag.len

(* The inductive invariant of type 3.                                       *)
T3Inv == T3Tag /\ T3Top /\ T3Seen /\ CallOK /\ T3Doing /\ T3Known /\ EndedWell(call, T3!Content, T3!Writable)

-----------------------------------------------------------------------------
(* Type 4.                                                                  *)

(* A card: its NDEF file is of use with a valid capability container        *)
(* only, and what is selected exists.                                       *)
T4Shape(t) ==
  /\ t \in [app : BOOLEAN, cc : {"absent", "empty", "valid"}, file : BOOLEAN, wa : Access,
            len : 0 .. Room, cells : [Area -> CellValues],
            dir : {"master", "app"}, ef : {"none", "cc", "ndef"}]
  /\ t.cc = "valid" => t.app /\ t.file
  /\ t.cc # "valid" => t.len = 0
  /\ t.dir = "app" => t.app
  /\ t.ef = "ndef" => t.cc = "valid"

(* The card is one.                                                         *)
T4Tag == T4Shape(tag)

(* The parameters of type 4 in phalTop_Sw_DataParams_t.                     *)
T4Top ==
  top \in [support : BOOLEAN, formatted : BOOLEAN, presence : BOOLEAN, state : States,
          wa : Access, max : {0, Room}, len : 0 .. Room, notFound : BOOLEAN]

(* The commands that create the files, and then b more.                     *)
T4Creates(r) ==
  CASE r = 1 -> C("SelectMaster", 0) [] r = 2 -> C("WriteLen", 0) [] r = 3 -> C("WriteCc", 0)
    [] r = 4 -> C("CreateFile", 0) [] r = 5 -> C("CreateCc", 0) [] r = 6 -> C("SelectCreated", 0)
    [] OTHER -> C("CreateApp", 0)

(* What is there of the files when left commands of a format are left,      *)
(* unless the card has gone.                                                *)
T4Created(left) ==
  /\ left \in 1 .. 6 => call.gone \/ (tag.app /\ tag.len = 0)
  /\ left \in 1 .. 3 => call.gone \/ tag.file

(* The commands of CheckNdef, the last one first, and before them those     *)
(* of the format of a card without the application, after which the         *)
(* application is selected again.                                           *)
T4CheckPlan(first) ==
  [r \in 1 .. 13 |->
     CASE r = 1 -> C("SelectMaster", 0) [] r = 2 -> C("CheckLen", 0) [] r = 3 -> C("SelectFile", 0)
       [] r = 4 -> C("CheckCc", 0) [] r = 5 -> C("SelectCc", 0) [] r = 6 -> C(first, 0)
       [] OTHER -> T4Creates(r - 6)]

(* A check at its place: what it has read so far is in the parameters.      *)
T4Checking ==
  /\ call.op = "check" /\ call.msg = None /\ ~call.checked
  /\ \/ Left <= 6 /\ Follows(call.todo, T4CheckPlan("SelectApp"))
     \/ Left <= 13 /\ Follows(call.todo, T4CheckPlan("SelectAppAgain")) /\ T4Created(Left - 6)
  /\ Left = 4 => call.gone \/ tag.cc # "absent"
  /\ Left <= 3 => top.max = Room
  /\ Left = 1 => top.support

(* The commands of FormatNdef, the last one first.                          *)
T4FormatPlan == [r \in 1 .. 7 |-> T4Creates(r)]

(* The pieces an erase overwrites.                                          *)
Pieces == IF top.len = 0 THEN 1 ELSE top.len

(* The commands of EraseNdef, the last one first.                           *)
T4ErasePlan(z) ==
  [r \in 1 .. z + 5 |->
     CASE r = 1 -> C("SelectMaster", 0) [] r \in 2 .. z + 1 -> C("Zero", z + 2 - r)
       [] r = z + 2 -> C("SelectFile", 0) [] r = z + 3 -> C("ReadCc", 0)
       [] r = z + 4 -> C("SelectCc", 0) [] OTHER -> C("SelectApp", 0)]

(* An erase at its place: with the first piece the length is 0.             *)
T4Zeroing ==
  /\ Left <= Pieces + 5 /\ Follows(call.todo, T4ErasePlan(Pieces))
  /\ Left <= Pieces => tag.len = 0

(* A format at its place, which is an erase of a formatted card.            *)
T4Formatting ==
  /\ call.op = "format" /\ call.msg = None
  /\ \/ T4Zeroing
     \/ Left <= 7 /\ Follows(call.todo, T4FormatPlan) /\ T4Created(Left)

(* EraseNdef at its place.                                                  *)
T4Erasing == call.op = "erase" /\ call.msg = None /\ T4Zeroing

(* The commands of a write after the message: more when the card is to be   *)
(* made read-only.                                                          *)
After == IF top.wa = "RO" THEN 3 ELSE 1

(* The commands of WriteNdef, the last one first: the length is 0 until     *)
(* all pieces are written.                                                  *)
T4WritePlan(n, b) ==
  [r \in 1 .. b + n + 6 |->
     CASE r = 1 -> C("SelectMaster", 0)
       [] b = 3 /\ r = 2 -> C("UpdateCc", 0)
       [] b = 3 /\ r = 3 -> C("SelectCc", 0)
       [] r = b + 1 -> C("UpdateLen", n)
       [] r \in b + 2 .. b + n + 1 -> C("Update", b + n + 2 - r)
       [] r = b + n + 2 -> C("UpdateLen", 0)
       [] r = b + n + 3 -> C("SelectFile", 0)
       [] r = b + n + 4 -> C("ReadAccess", 0)
       [] r = b + n + 5 -> C("SelectCc", 0)
       [] OTHER -> C("SelectApp", 0)]

(* What a write has done when left commands are left, of which b come       *)
(* after the message: the length is 0 until all pieces are m's.             *)
T4Written(m, n, b, left) ==
  /\ left <= b + n + 5 => call.gone \/ tag.dir = "app"
  /\ left \in b + 1 .. b + n + 2 => call.gone \/ (tag.ef = "ndef" /\ n <= top.max)
  /\ left \in b + 1 .. b + n + 1 => tag.len = 0
  /\ \A k \in 1 .. n : left <= b + n + 1 - k => tag.cells[k] = m
  /\ left <= b => tag.len = n /\ tag.cc = "valid"

(* A write at its place.                                                    *)
T4Writing ==
  /\ call.op = "write" /\ call.msg \in Messages
  /\ Left <= After + Size[call.msg] + 6
  /\ Follows(call.todo, T4WritePlan(Size[call.msg], After))
  /\ T4Written(call.msg, Size[call.msg], After, Left)

(* The commands of ReadNdef, the last one first.                            *)
T4ReadPlan(l) ==
  [r \in 1 .. l + 6 |->
     CASE r = 1 -> C("SelectMaster", 0) [] r \in 2 .. l + 1 -> C("Read", l + 2 - r)
       [] r = l + 2 -> C("ReadLen", 0) [] r = l + 3 -> C("SelectFile", 0)
       [] r = l + 4 -> C("ReadCc", 0) [] r = l + 5 -> C("SelectCc", 0)
       [] OTHER -> C("SelectApp", 0)]

(* A read at its place: the length on the card is the one the parameters    *)
(* say.                                                                     *)
T4Reading ==
  /\ call.op = "read" /\ call.msg = None
  /\ Left <= top.len + 6 /\ Follows(call.todo, T4ReadPlan(top.len))
  /\ Left <= top.len + 2 => tag.cc = "valid"
  /\ Left <= top.len + 1 => tag.len = top.len
  /\ Len(call.got) = (IF Left <= top.len THEN top.len + 1 - Left ELSE 0) /\ GotCells

(* A call is one of the operations, at its place.                           *)
T4Doing == Busy => T4Checking \/ T4Formatting \/ T4Writing \/ T4Erasing \/ T4Reading

(* What the parameters say of a checked card is true of it.                 *)
T4Known == call.checked => top.support /\ top.max = Room

(* The inductive invariant of type 4.                                       *)
T4Inv == T4Tag /\ T4Top /\ CallOK /\ T4Doing /\ T4Known /\ EndedWell(call, T4!Content, TRUE)

-----------------------------------------------------------------------------
(* The inductive invariant: that of the type that is set.                   *)
TagInvariant ==
  /\ type \in {"T1T", "T2T", "T3T", "T4T"}
  /\ type = "T1T" => T1Inv
  /\ type = "T2T" => T2Inv
  /\ type = "T3T" => T3Inv
  /\ type = "T4T" => T4Inv

-----------------------------------------------------------------------------
(* Type 1: its module's copies of the operators of TagSession.              *)

(* The module of type 1 says of the session what TagSession says.           *)
LEMMA T1Session ==
  /\ T1!Busy <=> Busy
  /\ T1!Head1 = Head1
  /\ \A c, t, s : T1!Go(c, t, s) = Go(c, t, s)
  /\ \A x : T1!Reply(x) = Reply(x)
  /\ \A g : T1!Lost(g) = Lost(g)
  /\ \A s, n : T1!Stored(s, n) = Stored(s, n)
<1>1. \A c, t, s : T1!Go(c, t, s) = Go(c, t, s)
  BY Zenon DEF T1!Go, Go
<1>2. \A s, n : T1!Stored(s, n) = Stored(s, n)
  BY Zenon DEF T1!Stored, Stored
<1>3. (T1!Busy <=> Busy) /\ T1!Head1 = Head1
  BY DEF T1!Busy, Busy, T1!Head1, Head1
<1>4. (\A x : T1!Reply(x) = Reply(x)) /\ \A g : T1!Lost(g) = Lost(g)
  BY DEF T1!Reply, Reply, T1!Lost, Lost
<1> QED BY <1>1, <1>2, <1>3, <1>4, Zenon

(* The module of type 1 names commands as TagSession does.                  *)
LEMMA T1Commands ==
  \A name, a, b : /\ T1!Cmd(name) = Cmd(name) /\ T1!Cell(name, a) = Cell(name, a)
                  /\ T1!Cells(name, a, b) = Cells(name, a, b)
BY Zenon DEF T1!Cmd, Cmd, T1!Cell, Cell, T1!Cells, Cells

(* The module of type 1 begins and refuses operations as TagSession does.   *)
LEMMA T1Calls ==
  ASSUME NEW op, NEW m, NEW t
  PROVE  (T1!Start(op, m, t) <=> Start(op, m, t)) /\ (T1!Refuse(op, m, t) <=> Refuse(op, m, t))
BY Zenon DEF T1!Start, Start, T1!Refuse, Refuse

(* The message on a tag of type 1.                                          *)
LEMMA T1ContentIs == T1!Content = IF tag.nmn /\ tag.tlv THEN Stored(tag.cells, tag.len) ELSE None
BY T1Session, Zenon DEF T1!Content

(* The command a check, a format or a write is at.                          *)
LEMMA T1PlanHead ==
  ASSUME CallOK, Busy
  PROVE  /\ T1Checking => \/ Left = 1 /\ Head1 = C("CheckTlv", 0)
                          \/ Left = 2 /\ tag.dynamic /\ Head1 = C("CheckNmn", 0)
                          \/ Left = 2 /\ ~tag.dynamic /\ Head1 = C("CheckRwa", 0)
                          \/ Left = 3 /\ ~tag.dynamic /\ Head1 = C("CheckNmn", 0)
         /\ T1Formatting => \/ Left = 1 /\ Head1 = C("WriteRwa", 0)
                            \/ Left = 2 /\ Head1 = C("ClearNmn", 0)
                            \/ Left = 3 /\ Head1 = C("ReadRwa", 0)
         /\ T1Reading => /\ Left <= top.len /\ Head1 = C("Read", top.len + 1 - Left)
         /\ T1Writing => LET n == Size[call.msg] IN
              \/ Left = 1 /\ Head1 = C("SetNmn", 0)
              \/ Left \in 2 .. n + 1 /\ Head1 = C("Data", n + 2 - Left)
              \/ Left = n + 2 /\ Head1 = C("WriteLen", n)
              \/ Left = n + 3 /\ Head1 = C("WriteTlv", 0)
              \/ Left = n + 4 /\ Head1 = C("WriteRwa", 0)
              \/ Left = n + 5 /\ Head1 = C("ClearNmn", 0)
<1>0. \A plan : Follows(call.todo, plan) => Head1 = plan[Left]
  BY Heading, FollowsTail DEF Head1, Left
<1>1. ASSUME T1Checking
      PROVE  \/ Left = 1 /\ Head1 = C("CheckTlv", 0)
             \/ Left = 2 /\ tag.dynamic /\ Head1 = C("CheckNmn", 0)
             \/ Left = 2 /\ ~tag.dynamic /\ Head1 = C("CheckRwa", 0)
             \/ Left = 3 /\ ~tag.dynamic /\ Head1 = C("CheckNmn", 0)
  <2>1. Left \in 1 .. 3 /\ Head1 = T1CheckPlan[Left]
    BY <1>0, <1>1, Heading DEF T1Checking
  <2> QED BY <1>1, <2>1 DEF T1CheckPlan, T1Checking
<1>2. ASSUME T1Formatting
      PROVE  \/ Left = 1 /\ Head1 = C("WriteRwa", 0)
             \/ Left = 2 /\ Head1 = C("ClearNmn", 0)
             \/ Left = 3 /\ Head1 = C("ReadRwa", 0)
  <2>1. Left \in 1 .. 3 /\ Head1 = T1FormatPlan[Left]
    BY <1>0, <1>2, Heading DEF T1Formatting
  <2> QED BY <1>2, <2>1 DEF T1FormatPlan
<1>3. ASSUME T1Reading
      PROVE  Left <= top.len /\ Head1 = C("Read", top.len + 1 - Left)
  <2>1. Left \in 1 .. top.len /\ Head1 = ReadPlan[Left]
    BY <1>0, <1>3, Heading DEF T1Reading, ReadingCells
  <2> QED BY <2>1 DEF ReadPlan
<1>4. ASSUME T1Writing
      PROVE  LET n == Size[call.msg] IN
              \/ Left = 1 /\ Head1 = C("SetNmn", 0)
              \/ Left \in 2 .. n + 1 /\ Head1 = C("Data", n + 2 - Left)
              \/ Left = n + 2 /\ Head1 = C("WriteLen", n)
              \/ Left = n + 3 /\ Head1 = C("WriteTlv", 0)
              \/ Left = n + 4 /\ Head1 = C("WriteRwa", 0)
              \/ Left = n + 5 /\ Head1 = C("ClearNmn", 0)
  <2>1. Size[call.msg] \in Nat /\ Size[call.msg] > 0
    BY <1>4, Sizes DEF T1Writing
  <2>2. Left \in 1 .. Size[call.msg] + 5 /\ Head1 = T1WritePlan(call.msg)[Left]
    BY <1>0, <1>4, <2>1, Heading DEF T1Writing
  <2> QED BY <2>1, <2>2 DEF T1WritePlan
<1> QED BY <1>1, <1>2, <1>3, <1>4

(* The command an erase or SetReadOnly is at.                               *)
LEMMA T1NameHead ==
  ASSUME CallOK, Busy
  PROVE  /\ T1Erasing => Head1.name \in {"ClearNmn", "ClearVno", "ClearTlv", "ClearLen", "Zero"}
         /\ T1Locking => Head1.name \in {"WriteRwa", "Lock"}
BY Heading, NamedTail DEF T1Erasing, T1Locking, Head1

(* Which operation sends a command.                                         *)
LEMMA T1Sends ==
  ASSUME CallOK, Busy, T1Doing
  PROVE  LET n == Size[call.msg] IN
         /\ Head1.name = "ClearNmn" => \/ T1Formatting \/ T1Erasing
                                       \/ T1Writing /\ Left = n + 5
         /\ Head1.name = "WriteRwa" => \/ T1Formatting /\ Left = 1
                                       \/ (T1Writing /\ Left = n + 4) \/ T1Locking
         /\ Head1.name = "WriteTlv" => T1Writing /\ Left = n + 3
         /\ Head1.name = "WriteLen" => T1Writing /\ Left = n + 2 /\ Head1.k = n
         /\ Head1.name = "Data" => T1Writing /\ Left \in 2 .. n + 1 /\ Head1.k = n + 2 - Left
         /\ Head1.name = "SetNmn" => T1Writing /\ Left = 1
         /\ Head1.name \in {"ClearTlv", "ClearLen", "Zero"} => T1Erasing
         /\ Head1.name = "Lock" => T1Locking
         /\ Head1.name = "Read" => T1Reading /\ Left <= top.len /\ Head1.k = top.len + 1 - Left
<1>1. CASE T1Checking
  BY <1>1, T1PlanHead DEF C
<1>2. CASE T1Formatting
  BY <1>2, T1PlanHead DEF C
<1>3. CASE T1Reading
  BY <1>3, T1PlanHead DEF C
<1>4. CASE T1Writing
  BY <1>4, T1PlanHead DEF C
<1>5. CASE T1Erasing
  BY <1>5, T1NameHead
<1>6. CASE T1Locking
  BY <1>6, T1NameHead
<1> QED BY <1>1, <1>2, <1>3, <1>4, <1>5, <1>6 DEF T1Doing

(* What a command that is executed does to the tag.                         *)
LEMMA T1Executed ==
  ASSUME T1Inv, Busy, ~T1!Refuses(Head1), tag' = T1!Execute(Head1)
  PROVE  T1Tag' /\ Effect(call, T1!Content, None, T1!Content', None)
<1> USE DEF T1Inv
<1>0. /\ T1!Content = IF tag.nmn /\ tag.tlv THEN Stored(tag.cells, tag.len) ELSE None
      /\ T1!Content' = IF tag'.nmn /\ tag'.tlv THEN Stored(tag'.cells, tag'.len) ELSE None
  BY T1ContentIs, T1Session DEF T1!Content
<1>1. CASE Head1.name \notin {"ClearNmn", "WriteRwa", "WriteTlv", "WriteLen", "Data", "SetNmn",
                              "ClearTlv", "ClearLen", "Zero", "Lock"}
  <2>1. tag' = tag
    BY <1>1 DEF T1!Execute
  <2> QED BY <2>1, <1>0 DEF T1Tag, Effect
<1>2. CASE Head1.name = "ClearNmn"
  <2>1. tag' = [tag EXCEPT !.nmn = FALSE]
    BY <1>2 DEF T1!Execute
  <2>2. T1Tag' /\ T1!Content' = None
    BY <2>1, <1>0 DEF T1Tag
  <2>3. call.op \in {"format", "write", "erase"}
    BY <1>2, T1Sends DEF T1Formatting, T1Writing, T1Erasing
  <2> QED BY <2>2, <2>3 DEF Effect
<1>3. CASE Head1.name = "WriteRwa"
  <2>1. tag' = [tag EXCEPT !.rwa = top.rwa]
    BY <1>3 DEF T1!Execute
  <2>2. T1Tag' /\ T1!Content' = T1!Content
    BY <2>1, <1>0 DEF T1Tag, T1Top
  <2> QED BY <2>2 DEF Effect
<1>4. CASE Head1.name = "WriteTlv"
  <2>1. tag' = [tag EXCEPT !.tlv = TRUE]
    BY <1>4 DEF T1!Execute
  <2>2. ~tag.nmn
    BY <1>4, T1Sends, Sizes DEF T1Writing, T1Written
  <2>3. T1Tag' /\ T1!Content' = T1!Content
    BY <2>1, <2>2, <1>0 DEF T1Tag, T1Top
  <2> QED BY <2>3 DEF Effect
<1>5. CASE Head1.name = "WriteLen"
  <2>1. tag' = [tag EXCEPT !.len = Head1.k]
    BY <1>5 DEF T1!Execute
  <2>2. ~tag.nmn /\ Head1.k \in 0 .. Room
    BY <1>5, T1Sends, Sizes, RoomPositive DEF T1Writing, T1Written
  <2>3. T1Tag' /\ T1!Content' = T1!Content
    BY <2>1, <2>2, <1>0 DEF T1Tag, T1Top
  <2> QED BY <2>3 DEF Effect
<1>6. CASE Head1.name = "Data"
  <2>1. tag' = [tag EXCEPT !.cells[Head1.k] = call.msg]
    BY <1>6 DEF T1!Execute
  <2>2. ~tag.nmn /\ call.msg \in CellValues
    BY <1>6, T1Sends, Sizes DEF T1Writing, T1Written, CellValues
  <2>3. T1Tag' /\ T1!Content' = T1!Content
    BY <2>1, <2>2, <1>0 DEF T1Tag, T1Top
  <2> QED BY <2>3 DEF Effect
<1>7. CASE Head1.name = "SetNmn"
  <2>1. tag' = [tag EXCEPT !.nmn = TRUE]
    BY <1>7 DEF T1!Execute
  <2>2. call.msg \in Messages /\ call.op = "write" /\ T1Written(call.msg, Size[call.msg], 1)
    BY <1>7, T1Sends DEF T1Writing
  <2>3. /\ tag.tlv /\ tag.len = Size[call.msg]
        /\ \A k \in 1 .. Size[call.msg] : tag.cells[k] = call.msg
    BY <2>2, Sizes DEF T1Written
  <2>4. Stored(tag.cells, tag.len) = call.msg
    BY <2>2, <2>3, StoredWhole
  <2>5. T1Tag' /\ T1!Content' = call.msg
    BY <2>1, <2>3, <2>4, <1>0 DEF T1Tag
  <2> QED BY <2>2, <2>5 DEF Effect
<1>8. CASE Head1.name \in {"ClearTlv", "ClearLen", "Zero"}
  <2>1. ~tag.nmn /\ Blank \in CellValues
    BY <1>8, T1Sends DEF T1Erasing, CellValues
  <2>2. CASE Head1.name = "ClearTlv"
    <3>1. tag' = [tag EXCEPT !.tlv = FALSE]
      BY <2>2 DEF T1!Execute
    <3> QED BY <2>1, <3>1, <1>0 DEF T1Tag, Effect
  <2>3. CASE Head1.name = "ClearLen"
    <3>1. tag' = [tag EXCEPT !.len = 0]
      BY <2>3 DEF T1!Execute
    <3> QED BY <2>1, <3>1, <1>0, RoomPositive DEF T1Tag, Effect
  <2>4. CASE Head1.name = "Zero"
    <3>1. tag' = [tag EXCEPT !.cells[Head1.k] = Blank]
      BY <2>4 DEF T1!Execute
    <3> QED BY <2>1, <3>1, <1>0 DEF T1Tag, Effect
  <2> QED BY <1>8, <2>2, <2>3, <2>4
<1>9. CASE Head1.name = "Lock"
  <2>1. tag' = [tag EXCEPT !.locked = TRUE]
    BY <1>9 DEF T1!Execute
  <2>2. T1Tag' /\ T1!Content' = T1!Content
    BY <2>1, <1>0 DEF T1Tag
  <2> QED BY <2>2 DEF Effect
<1> QED BY <1>1, <1>2, <1>3, <1>4, <1>5, <1>6, <1>7, <1>8, <1>9

(* The steps of a call that is busy, taken apart.                           *)
LEMMA T1Answered ==
  ASSUME T1Inv, T1!Answer
  PROVE  /\ Busy /\ ~T1!Refuses(Head1) /\ tag' = T1!Execute(Head1) /\ Keeps /\ call'.clean = call.clean
         /\ call'.got = IF Head1.name = "Read" THEN Append(call.got, tag.cells[Head1.k]) ELSE call.got
         /\ T1!Verdict(Head1) = "BUSY" /\ Left # 1 =>
              GoesOn(Tail(call.todo)) /\ top' = T1!Learnt(Head1)
         /\ T1!Verdict(Head1) = "BUSY" /\ Left = 1 =>
              Succeeds /\ top' = T1!Finished(T1!Learnt(Head1))
         /\ T1!Verdict(Head1) # "BUSY" => Fails /\ top' = T1!Learnt(Head1)
<1>1. /\ Busy /\ ~T1!Refuses(Head1) /\ tag' = T1!Execute(Head1)
      /\ call' = Go(IF Head1.name = "Read" THEN Reply(tag.cells[Head1.k]) ELSE call,
                    Tail(call.todo), T1!Verdict(Head1))
      /\ top' = IF call'.status = "SUCCESS" THEN T1!Finished(T1!Learnt(Head1)) ELSE T1!Learnt(Head1)
  BY T1Session DEF T1!Answer
<1>2. CallOK /\ T1Doing
  BY DEF T1Inv
<1>3. T1!Verdict(Head1) \in Statuses \ {"SUCCESS"}
  BY DEF T1!Verdict, T1!Formattable, Statuses
<1>4. ASSUME Head1.name = "Read"
      PROVE  tag.cells[Head1.k] \in CellValues
  <2>1. Head1.k \in Area
    BY <1>1, <1>2, <1>4, T1Sends, Heading, RoomPositive DEF T1Inv, T1Top, T1Reading
  <2> QED BY <2>1 DEF T1Inv, T1Tag
<1>a. PICK cell : cell = tag.cells[Head1.k]
  OBVIOUS
<1>5. PICK verdict \in Statuses \ {"SUCCESS"}, read \in BOOLEAN :
        /\ verdict = T1!Verdict(Head1) /\ read = (Head1.name = "Read") /\ cell = tag.cells[Head1.k]
  BY <1>a, <1>3
<1>6. call' = Go(IF read THEN Reply(cell) ELSE call, Tail(call.todo), verdict)
  BY <1>1, <1>5
<1>7. read => cell \in CellValues
  BY <1>4, <1>5
<1>8. /\ Keeps /\ call'.clean = call.clean
      /\ call'.got = IF read THEN Append(call.got, cell) ELSE call.got
      /\ verdict = "BUSY" /\ Tail(call.todo) # <<>> => GoesOn(Tail(call.todo))
      /\ verdict = "BUSY" /\ Tail(call.todo) = <<>> => Succeeds
      /\ verdict \notin {"BUSY", "SUCCESS"} => Fails
  BY <1>1, <1>2, <1>6, <1>7, Heading, AnswerGoes, Zenon
<1>9. (Tail(call.todo) = <<>>) <=> (Left = 1)
  BY <1>1, <1>2, Heading
<1> QED BY <1>1, <1>5, <1>8, <1>9 DEF GoesOn, Succeeds, Fails

(* A failure leaves little to show.                                         *)
LEMMA T1FailsKeeps ==
  ASSUME Keeps, Fails, T1Tag', T1Top'
  PROVE  T1Inv'
BY NotEnded DEF T1Inv, Keeps, Fails, T1Doing, T1Known, CallOK, Busy

(* An answer to a check keeps the invariant.                                *)
LEMMA T1AnswerCheck ==
  ASSUME T1Inv, T1Checking, T1!Answer
  PROVE  T1Inv' /\ WriteStep(T1!Writable)
<1>1. /\ Busy /\ tag' = T1!Execute(Head1) /\ Keeps /\ CallOK /\ T1Tag /\ T1Top /\ T1Tag'
      /\ call.op = "check" /\ call.msg = None /\ ~call.checked
  BY T1Answered, T1Executed DEF T1Inv, T1Checking
<1>2. /\ EndedWell(call, T1!Content, T1!Writable)' /\ WriteStep(T1!Writable)
  BY <1>1, NotEnded DEF Keeps, WriteStep
<1>3. /\ tag' = tag /\ T1!Verdict(Head1) = "BUSY"
      /\ Left # 1 => GoesOn(Tail(call.todo)) /\ top' = T1!Learnt(Head1)
      /\ Left = 1 => Succeeds /\ top' = T1!Finished(T1!Learnt(Head1))
  BY <1>1, T1PlanHead, T1Answered DEF C, T1!Execute, T1!Verdict
<1>4. CASE Left # 1
  <2>0. call'.status = "BUSY" /\ call'.todo = Tail(call.todo) /\ ~call'.checked
    BY <1>1, <1>3, <1>4 DEF GoesOn
  <2>5. Left \in 2 .. 3
    BY <1>1, <1>4, Heading DEF T1Checking
  <2>1. Left \in 2 .. 3 /\ Busy' /\ Left' = Left - 1 /\ Follows(call'.todo, T1CheckPlan) /\ ~call'.checked
    BY <1>1, <2>0, <2>5, Onwards DEF T1Checking
  <2>2. T1CheckPlan' = T1CheckPlan
    BY <1>3 DEF T1CheckPlan
  <2>3. CASE Head1.name = "CheckNmn"
    <3>1. top' = [top EXCEPT !.presence = tag.nmn, !.rwa = IF tag.dynamic THEN tag.rwa ELSE @,
                             !.block = T1!LastBlock(TRUE)]
      BY <1>3, <1>4, <2>3 DEF T1!Learnt
    <3>2. /\ T1Top' /\ top'.presence = tag.nmn /\ top'.support = top.support
          /\ tag.dynamic => top'.rwa = tag.rwa
      BY <3>1, <1>1 DEF T1Top, T1Tag, T1!LastBlock
    <3>3. T1Checking'
      BY <1>1, <1>3, <1>4, <2>1, <2>2, <2>3, <3>2, T1PlanHead DEF T1Checking, Keeps, C
    <3> QED BY <1>1, <1>2, <2>1, <3>2, <3>3 DEF T1Inv, T1Doing, T1Known, Keeps
  <2>4. CASE Head1.name = "CheckRwa"
    <3>1. top' = [top EXCEPT !.rwa = tag.rwa]
      BY <1>3, <1>4, <2>4 DEF T1!Learnt
    <3>2. /\ T1Top' /\ top'.presence = top.presence /\ top'.support = top.support
          /\ top'.rwa = tag.rwa
      BY <3>1, <1>1 DEF T1Top, T1Tag
    <3>3. T1Checking'
      BY <1>1, <1>3, <1>4, <2>1, <2>2, <2>4, <3>2, T1PlanHead DEF T1Checking, Keeps, C
    <3> QED BY <1>1, <1>2, <2>1, <3>2, <3>3 DEF T1Inv, T1Doing, T1Known, Keeps
  <2> QED BY <1>1, <1>4, <2>3, <2>4, T1PlanHead DEF C
<1>5. CASE Left = 1
  <2> DEFINE hdr == tag.nmn /\ tag.tlv
             len == IF hdr THEN tag.len ELSE 0
  <2>1. top' = T1!Detected(top, hdr, len)
    <3>1. T1!Finished(T1!Learnt(Head1)) = T1!Learnt(Head1)
      BY <1>1 DEF T1!Finished
    <3>2. Head1.name = "CheckTlv"
      BY <1>1, <1>5, T1PlanHead DEF C
    <3>3. T1!Learnt(Head1) = T1!Detected(top, hdr, len)
      BY <3>2 DEF T1!Learnt
    <3> QED BY <1>3, <1>5, <3>1, <3>3, Zenon
  <2>2. /\ top.support /\ top.presence = tag.nmn /\ top.rwa = tag.rwa
        /\ call'.status = "SUCCESS"
    BY <1>3, <1>5 DEF T1Checking, Succeeds
  <2>3. /\ T1Top' /\ top'.support /\ top'.rwa = tag.rwa /\ top'.len = len
        /\ top'.state \in {"READWRITE", "READONLY"} => tag.nmn /\ len # 0
    <3>1. hdr \in BOOLEAN /\ len \in 0 .. Room /\ (len # 0 => tag.nmn)
      BY <1>1, RoomPositive DEF T1Tag
    <3>2. T1!LastBlock(tag.tlv) \in {"invalid", "cc", "other"}
      BY <1>1 DEF T1Top, T1!LastBlock
    <3> HIDE DEF hdr, len
    <3>3. T1Top'
      BY <2>1, <3>1, <3>2, <1>1 DEF T1Top, T1!Detected, States
    <3> QED BY <2>1, <2>2, <3>1, <3>3, <1>1 DEF T1Top, T1!Detected
  <2>4. T1Doing' /\ T1Known'
    BY <1>3, <2>2, <2>3 DEF T1Doing, T1Known, Busy, T1!Readable, T1!Writable
  <2> QED BY <1>1, <1>2, <2>3, <2>4 DEF T1Inv, Keeps
<1> QED BY <1>4, <1>5

(* An answer to a format keeps the invariant.                               *)
LEMMA T1AnswerFormat ==
  ASSUME T1Inv, T1Formatting, T1!Answer
  PROVE  T1Inv' /\ WriteStep(T1!Writable)
<1>1. /\ Busy /\ tag' = T1!Execute(Head1) /\ Keeps /\ CallOK /\ T1Tag /\ T1Top /\ T1Tag'
      /\ call.op = "format" /\ call.msg = None
  BY T1Answered, T1Executed DEF T1Inv, T1Formatting
<1>2. WriteStep(T1!Writable)
  BY <1>1 DEF Keeps, WriteStep
<1>3. /\ T1!Verdict(Head1) = "BUSY" /\ Left # 1 => GoesOn(Tail(call.todo)) /\ top' = T1!Learnt(Head1)
      /\ T1!Verdict(Head1) = "BUSY" /\ Left = 1 => Succeeds /\ top' = T1!Finished(T1!Learnt(Head1))
      /\ T1!Verdict(Head1) # "BUSY" => Fails /\ top' = T1!Learnt(Head1)
  BY T1Answered
<1>4. CASE Left = 1
  <2>1. Head1.name = "WriteRwa" /\ ~tag.nmn
    BY <1>1, <1>4, T1PlanHead DEF C, T1Formatting
  <2>2. T1!Verdict(Head1) = "BUSY" /\ T1!Learnt(Head1) = top /\ tag' = [tag EXCEPT !.rwa = top.rwa]
    BY <1>1, <2>1 DEF T1!Verdict, T1!Learnt, T1!Execute
  <2>3. Succeeds /\ top' = [top EXCEPT !.formatted = TRUE, !.presence = FALSE, !.hdr = TRUE,
                                       !.state = "INITIALIZED"]
    BY <1>1, <1>3, <1>4, <2>2 DEF T1!Finished
  <2>4. /\ T1Top' /\ top'.support = top.support /\ top'.rwa = top.rwa /\ top'.state = "INITIALIZED"
        /\ ~tag'.nmn /\ tag'.rwa = top.rwa
    BY <1>1, <2>1, <2>2, <2>3 DEF T1Top, T1Tag, States
  <2>5. call'.status = "SUCCESS" /\ call'.op = "format" /\ call'.msg = None /\ (call'.checked => call.checked)
    BY <1>1, <2>3 DEF Succeeds, Keeps
  <2>6. T1Doing' /\ T1Known'
    <3>1. call.checked => top.support
      BY <1>1 DEF T1Inv, T1Known
    <3> QED BY <2>4, <2>5, <3>1 DEF T1Doing, T1Known, Busy, T1!Readable, T1!Writable
  <2>7. T1!Content' = None
    BY <2>4 DEF T1!Content
  <2>8. EndedWell(call, T1!Content, T1!Writable)'
    BY <2>5, <2>7 DEF EndedWell, Ended
  <2> QED BY <1>1, <1>2, <2>4, <2>6, <2>8 DEF T1Inv, Keeps
<1>5. CASE Left = 2
  <2>1. Head1.name = "ClearNmn"
    BY <1>1, <1>5, T1PlanHead DEF C
  <2>2. T1!Verdict(Head1) = "BUSY" /\ T1!Learnt(Head1) = top /\ tag' = [tag EXCEPT !.nmn = FALSE]
    BY <1>1, <2>1 DEF T1!Verdict, T1!Learnt, T1!Execute
  <2>3. GoesOn(Tail(call.todo)) /\ top' = top
    BY <1>3, <1>5, <2>2
  <2>4. /\ Busy' /\ Left' = 1 /\ Follows(call'.todo, T1FormatPlan) /\ call'.checked = call.checked
        /\ call'.status = "BUSY"
    BY <1>1, <1>5, <2>3, Onwards DEF GoesOn, T1Formatting
  <2>5. ~tag'.nmn /\ tag'.rwa = tag.rwa /\ tag'.locked = tag.locked
    BY <1>1, <2>2 DEF T1Tag
  <2>6. T1Formatting'
    BY <1>1, <2>4, <2>5 DEF T1Formatting, Keeps, T1FormatPlan
  <2>7. T1Known'
    BY <1>1, <2>3, <2>4, <2>5 DEF T1Inv, T1Known, Keeps, T1!Writable
  <2> QED BY <1>1, <1>2, <2>3, <2>4, <2>6, <2>7, NotEnded DEF T1Inv, T1Doing, T1Top, Keeps
<1>6. CASE Left = 3
  <2>1. Head1.name = "ReadRwa"
    BY <1>1, <1>6, T1PlanHead DEF C
  <2>2. T1!Learnt(Head1) = [top EXCEPT !.block = T1!LastBlock(TRUE)] /\ tag' = tag
    BY <1>1, <2>1 DEF T1!Learnt, T1!Execute
  <2>3. top' = T1!Learnt(Head1)
    BY <1>3, <1>6
  <2>4. /\ T1Top' /\ top'.support = top.support /\ top'.rwa = top.rwa
    BY <1>1, <2>2, <2>3 DEF T1Top, T1!LastBlock
  <2>5. CASE T1!Verdict(Head1) = "BUSY"
    <3>1. GoesOn(Tail(call.todo))
      BY <1>3, <1>6, <2>5
    <3>2. /\ Busy' /\ Left' = 2 /\ Follows(call'.todo, T1FormatPlan) /\ call'.checked = call.checked
          /\ call'.status = "BUSY"
      BY <1>1, <1>6, <3>1, Onwards DEF GoesOn, T1Formatting
    <3>3. T1Formatting'
      BY <1>1, <3>2 DEF T1Formatting, Keeps, T1FormatPlan
    <3>4. T1Known'
      BY <1>1, <2>2, <2>4, <3>2 DEF T1Inv, T1Known, Keeps, T1!Writable
    <3> QED BY <1>1, <1>2, <2>4, <3>2, <3>3, <3>4, NotEnded DEF T1Inv, T1Doing, Keeps
  <2>6. CASE T1!Verdict(Head1) # "BUSY"
    BY <1>1, <1>2, <1>3, <2>4, <2>6, T1FailsKeeps
  <2> QED BY <2>5, <2>6
<1> QED BY <1>1, <1>4, <1>5, <1>6, T1PlanHead

(* An answer to SetReadOnly keeps the invariant.                            *)
LEMMA T1AnswerLock ==
  ASSUME T1Inv, T1Locking, T1!Answer
  PROVE  T1Inv' /\ WriteStep(T1!Writable)
<1>1. /\ Busy /\ tag' = T1!Execute(Head1) /\ Keeps /\ CallOK /\ T1Tag /\ T1Top /\ T1Tag'
      /\ call.op = "readonly" /\ call.msg = None
  BY T1Answered, T1Executed DEF T1Inv, T1Locking
<1>2. WriteStep(T1!Writable) /\ EndedWell(call, T1!Content, T1!Writable)'
  BY <1>1, NotEnded DEF Keeps, WriteStep
<1>3. Head1.name \in {"WriteRwa", "Lock"}
  BY <1>1, T1NameHead
<1>4. /\ T1!Verdict(Head1) = "BUSY"
      /\ top' = top \/ top' = [top EXCEPT !.state = "READONLY"]
      /\ GoesOn(Tail(call.todo)) \/ Succeeds
  BY <1>1, <1>3, T1Answered DEF T1!Verdict, T1!Learnt, T1!Finished
<1>5. T1Top'
  BY <1>1, <1>4 DEF T1Top, States
<1>6. CASE GoesOn(Tail(call.todo))
  <2>1. Busy' /\ T1Locking'
    BY <1>1, <1>6, Onwards DEF GoesOn, T1Locking, Keeps
  <2> QED BY <1>1, <1>2, <1>5, <2>1 DEF T1Inv, T1Doing, T1Known, Keeps
<1>7. CASE Succeeds
  <2>1. call'.status = "SUCCESS" /\ ~call'.checked
    BY <1>1, <1>7 DEF Succeeds
  <2> QED BY <1>1, <1>2, <1>5, <2>1 DEF T1Inv, T1Doing, T1Known, Busy, Keeps
<1> QED BY <1>4, <1>6, <1>7

(* An answer to an erase keeps the invariant.                               *)
LEMMA T1AnswerErase ==
  ASSUME T1Inv, T1Erasing, T1!Answer
  PROVE  T1Inv' /\ WriteStep(T1!Writable)
<1>1. /\ Busy /\ tag' = T1!Execute(Head1) /\ Keeps /\ CallOK /\ T1Tag /\ T1Top /\ T1Tag'
      /\ call.op = "erase" /\ call.msg = None
  BY T1Answered, T1Executed DEF T1Inv, T1Erasing
<1>2. WriteStep(T1!Writable)
  BY <1>1 DEF Keeps, WriteStep
<1>3. Head1.name \in {"ClearNmn", "ClearVno", "ClearTlv", "ClearLen", "Zero"}
  BY <1>1, T1NameHead
<1>4. /\ T1!Verdict(Head1) = "BUSY"
      /\ T1!Learnt(Head1) = top \/ T1!Learnt(Head1) = [top EXCEPT !.block = "invalid"]
  BY <1>1, <1>3 DEF T1!Verdict, T1!Learnt
<1>5. ~tag'.nmn /\ tag'.rwa = tag.rwa /\ tag'.locked = tag.locked
  BY <1>1, <1>3 DEF T1!Execute, T1Tag, T1Erasing
<1>6. call.checked => top.support /\ (T1!Writable => top.rwa = "RW")
  BY <1>1 DEF T1Inv, T1Known
<1>7. CASE Left # 1
  <2>1. GoesOn(Tail(call.todo)) /\ top' = T1!Learnt(Head1)
    BY <1>4, <1>7, T1Answered
  <2>2. T1Top' /\ top'.support = top.support /\ top'.rwa = top.rwa
    BY <1>1, <1>4, <2>1 DEF T1Top
  <2>3. Busy' /\ T1Erasing'
    BY <1>1, <1>5, <2>1, Onwards DEF GoesOn, T1Erasing, Keeps
  <2>4. T1Known'
    BY <1>1, <1>5, <1>6, <2>1, <2>2, <2>3 DEF T1Known, Keeps, T1!Writable, GoesOn
  <2> QED BY <1>1, <1>2, <2>2, <2>3, <2>4, NotEnded DEF T1Inv, T1Doing, Keeps, Busy
<1>8. CASE Left = 1
  <2>1. /\ Succeeds
        /\ top' = [T1!Learnt(Head1) EXCEPT !.presence = FALSE, !.state = "INITIALIZED"]
    BY <1>1, <1>4, <1>8, T1Answered DEF T1!Finished
  <2>2. /\ T1Top' /\ top'.support = top.support /\ top'.rwa = top.rwa /\ top'.state = "INITIALIZED"
    BY <1>1, <1>4, <2>1 DEF T1Top, States
  <2>3. call'.status = "SUCCESS" /\ call'.op = "erase" /\ (call'.checked => call.checked)
    BY <1>1, <2>1 DEF Succeeds, Keeps
  <2>4. T1Doing' /\ T1Known'
    BY <1>5, <1>6, <2>2, <2>3 DEF T1Doing, T1Known, Busy, T1!Readable, T1!Writable
  <2>5. T1!Content' = None
    BY <1>5 DEF T1!Content
  <2>6. EndedWell(call, T1!Content, T1!Writable)'
    BY <2>3, <2>5 DEF EndedWell, Ended
  <2> QED BY <1>1, <1>2, <2>2, <2>4, <2>6 DEF T1Inv, Keeps
<1> QED BY <1>7, <1>8

(* An answer to a read keeps the invariant.                                 *)
LEMMA T1AnswerRead ==
  ASSUME T1Inv, T1Reading, T1!Answer
  PROVE  T1Inv' /\ WriteStep(T1!Writable)
<1>1. /\ Busy /\ tag' = T1!Execute(Head1) /\ Keeps /\ CallOK /\ T1Tag /\ T1Top /\ T1Tag'
      /\ call.op = "read" /\ call.msg = None
  BY T1Answered, T1Executed DEF T1Inv, T1Reading, ReadingCells
<1>2. WriteStep(T1!Writable)
  BY <1>1 DEF Keeps, WriteStep
<1>3. /\ Head1.name = "Read" /\ Head1.k = top.len + 1 - Left /\ Left \in 1 .. top.len
      /\ top.len \in Nat
  BY <1>1, T1PlanHead, Heading, RoomPositive DEF C, T1Top
<1>4. /\ tag' = tag /\ T1!Verdict(Head1) = "BUSY"
      /\ T1!Learnt(Head1) = [top EXCEPT !.block = T1!LastBlock(Head1.k = 1)]
      /\ \A t : T1!Finished(t) = t
  BY <1>1, <1>3 DEF T1!Execute, T1!Verdict, T1!Learnt, T1!Finished
<1>5. /\ top' = T1!Learnt(Head1)
      /\ Left # 1 => GoesOn(Tail(call.todo))
      /\ Left = 1 => Succeeds
      /\ call'.got = Append(call.got, tag.cells[Head1.k])
  BY <1>3, <1>4, T1Answered
<1>6. T1Top' /\ top' = [top EXCEPT !.block = top'.block]
  BY <1>1, <1>4, <1>5 DEF T1Top, T1!LastBlock
<1>7. /\ top'.len = top.len /\ top'.state = top.state /\ top'.support = top.support
      /\ top'.rwa = top.rwa
  BY <1>1, <1>6 DEF T1Top
<1>8. /\ Len(call'.got) = top.len + 1 - Left
      /\ \A i \in 1 .. Len(call'.got) : call'.got[i] = tag.cells[i]
  <2>1. call.got \in Seq(Messages \cup {Blank}) /\ Len(call.got) = top.len - Left
    BY <1>1 DEF CallOK, Calls, T1Reading, ReadingCells
  <2>2. tag.cells[Head1.k] \in Messages \cup {Blank}
    BY <1>1, <1>3, RoomPositive DEF T1Tag, T1Top, CellValues
  <2>3. \A i \in 1 .. Len(call.got) : call.got[i] = tag.cells[i]
    BY DEF T1Reading, ReadingCells, GotCells
  <2> QED BY <1>3, <1>5, <2>1, <2>2, <2>3, AppendProperties
<1>9. CASE Left # 1
  <2>1. /\ Busy' /\ Left' = Left - 1 /\ Follows(call'.todo, ReadPlan) /\ call'.status = "BUSY"
        /\ call'.checked = call.checked
    BY <1>1, <1>5, <1>9, Onwards DEF GoesOn, T1Reading, ReadingCells
  <2>2. ReadPlan' = ReadPlan
    BY <1>7 DEF ReadPlan
  <2>3. T1Reading'
    BY <1>1, <1>3, <1>4, <1>7, <1>8, <2>1, <2>2 DEF T1Reading, ReadingCells, GotCells, Keeps, T1!Readable
  <2>4. T1Known'
    BY <1>1, <1>4, <1>7, <2>1 DEF T1Inv, T1Known, Keeps, T1!Readable, T1!Writable
  <2> QED BY <1>1, <1>2, <1>6, <2>1, <2>3, <2>4, NotEnded DEF T1Inv, T1Doing, Keeps
<1>10. CASE Left = 1
  <2>1. call'.status = "SUCCESS" /\ call'.op = "read" /\ (call'.checked => call.checked)
    BY <1>1, <1>5, <1>10 DEF Succeeds, Keeps
  <2>2. T1Doing' /\ T1Known'
    BY <1>1, <1>4, <1>7, <2>1 DEF T1Inv, T1Doing, T1Known, Busy, T1!Readable, T1!Writable
  <2>3. call'.checked => Stored(call'.got, Len(call'.got)) = T1!Content'
    <3>1. SUFFICES ASSUME call.checked
                   PROVE  Stored(call'.got, Len(call'.got)) = T1!Content'
      BY <2>1
    <3>2. tag.nmn /\ tag.tlv /\ top.len = tag.len
      BY <1>1, <3>1 DEF T1Inv, T1Known, T1Reading
    <3>3. Stored(call'.got, Len(call'.got)) = Stored(tag.cells, Len(call'.got))
      BY <1>8, StoredSame
    <3>4. Len(call'.got) = tag.len
      BY <1>3, <1>8, <1>10, <3>2
    <3>5. T1!Content' = Stored(tag.cells, tag.len)
      BY <1>4, <3>2, T1Session DEF T1!Content
    <3> QED BY <3>3, <3>4, <3>5
  <2>4. EndedWell(call, T1!Content, T1!Writable)'
    BY <2>1, <2>3 DEF EndedWell, Ended
  <2> QED BY <1>1, <1>2, <1>6, <2>2, <2>4 DEF T1Inv, Keeps
<1> QED BY <1>9, <1>10

(* An answer to a write keeps the invariant.                                *)
LEMMA T1AnswerWrite ==
  ASSUME T1Inv, T1Writing, T1!Answer
  PROVE  T1Inv' /\ WriteStep(T1!Writable)
<1>1. /\ Busy /\ tag' = T1!Execute(Head1) /\ Keeps /\ CallOK /\ T1Tag /\ T1Top /\ T1Tag'
      /\ call.op = "write" /\ call.msg \in Messages /\ top.rwa = "RW"
  BY T1Answered, T1Executed DEF T1Inv, T1Writing
<1>2. PICK m \in Messages, n \in Nat, left \in Nat :
        m = call.msg /\ n = Size[m] /\ n > 0 /\ left = Left
  BY <1>1, Sizes, Heading
<1>3. /\ T1!Verdict(Head1) = "BUSY" /\ Left # 1 => GoesOn(Tail(call.todo)) /\ top' = T1!Learnt(Head1)
      /\ T1!Verdict(Head1) = "BUSY" /\ Left = 1 => Succeeds /\ top' = T1!Finished(T1!Learnt(Head1))
      /\ T1!Verdict(Head1) # "BUSY" => Fails /\ top' = T1!Learnt(Head1)
  BY T1Answered
<1>4. /\ Follows(call.todo, T1WritePlan(m)) /\ left \in 1 .. n + 5 /\ T1Written(m, n, left)
  BY <1>1, <1>2, Heading DEF T1Writing
<1>5. call.checked => top.support
  BY <1>1 DEF T1Inv, T1Known
<1>6. \/ Left = 1 /\ Head1 = C("SetNmn", 0)
      \/ Left \in 2 .. n + 1 /\ Head1 = C("Data", n + 2 - Left)
      \/ Left = n + 2 /\ Head1 = C("WriteLen", n)
      \/ Left = n + 3 /\ Head1 = C("WriteTlv", 0)
      \/ Left = n + 4 /\ Head1 = C("WriteRwa", 0)
      \/ Left = n + 5 /\ Head1 = C("ClearNmn", 0)
  BY <1>1, <1>2, T1PlanHead
\* What is left to show when the call goes on.
<1>7. ASSUME Left # 1, T1!Verdict(Head1) = "BUSY", T1Written(m, n, left - 1)', T1Top',
             top'.rwa = top.rwa, top'.support = top.support
      PROVE  T1Inv' /\ WriteStep(T1!Writable)
  <2>1. /\ Busy' /\ Left' = Left - 1 /\ Follows(call'.todo, T1WritePlan(m)) /\ call'.status = "BUSY"
        /\ call'.checked = call.checked
    BY <1>1, <1>3, <1>4, <1>7, Onwards DEF GoesOn
  <2>2. T1Writing'
    BY <1>1, <1>2, <1>4, <1>7, <2>1 DEF T1Writing, Keeps, T1Written
  <2>3. T1Known' /\ WriteStep(T1!Writable)
    BY <1>1, <1>5, <1>7, <2>1 DEF T1Known, Keeps, WriteStep
  <2> QED BY <1>1, <1>7, <2>1, <2>2, <2>3, NotEnded DEF T1Inv, T1Doing, Keeps
<1>8. CASE Left = n + 5
  <2>1. Head1.name = "ClearNmn"
    BY <1>2, <1>6, <1>8 DEF C
  <2>2. /\ tag' = [tag EXCEPT !.nmn = FALSE] /\ T1!Verdict(Head1) = "BUSY" /\ T1!Learnt(Head1) = top
    BY <1>1, <2>1 DEF T1!Execute, T1!Verdict, T1!Learnt
  <2>3. top' = top /\ ~tag'.nmn /\ Left # 1
    BY <1>1, <1>2, <1>3, <1>8, <2>2 DEF T1Tag
  <2>4. T1Written(m, n, left - 1)'
    BY <1>2, <1>8, <2>3 DEF T1Written
  <2> QED BY <1>1, <1>7, <2>2, <2>3, <2>4 DEF T1Top
<1>9. CASE Left = n + 4
  <2>1. Head1.name = "WriteRwa"
    BY <1>2, <1>6, <1>9 DEF C
  <2>2. tag' = [tag EXCEPT !.rwa = top.rwa] /\ ~tag.nmn
    BY <1>1, <1>2, <1>4, <1>9, <2>1 DEF T1!Execute, T1Written
  <2>3. CASE n > Room
    <3>1. T1!Verdict(Head1) = "INVALID_PARAMETER" /\ T1!Learnt(Head1) = top
      BY <1>1, <1>2, <2>1, <2>3, RoomPositive DEF T1!Verdict, T1!Learnt
    <3>2. Fails /\ top' = top
      BY <1>3, <3>1
    <3> QED BY <1>1, <1>2, <2>3, <3>2, RoomPositive, T1FailsKeeps DEF T1Top, Keeps, WriteStep
  <2>4. CASE n <= Room
    <3>1. T1!Verdict(Head1) = "BUSY"
      BY <1>1, <1>2, <2>1, <2>4, RoomPositive DEF T1!Verdict
    <3>2. T1!Learnt(Head1) = [top EXCEPT !.hdr = TRUE]
      BY <1>1, <2>1, <3>1 DEF T1!Learnt
    <3>3. Left # 1 /\ top' = [top EXCEPT !.hdr = TRUE]
      BY <1>2, <1>3, <1>9, <3>1, <3>2
    <3>4. T1Top' /\ top'.rwa = top.rwa /\ top'.support = top.support /\ top'.hdr /\ ~tag'.nmn
      BY <1>1, <2>2, <3>3 DEF T1Top, T1Tag
    <3>5. T1Written(m, n, left - 1)'
      BY <1>2, <1>9, <2>4, <3>4 DEF T1Written
    <3> QED BY <1>7, <3>1, <3>3, <3>4, <3>5
  <2> QED BY <1>2, <2>3, <2>4, RoomPositive
<1>10. CASE Left = n + 3
  <2>1. Head1.name = "WriteTlv"
    BY <1>2, <1>6, <1>10 DEF C
  <2>2. /\ tag' = [tag EXCEPT !.tlv = TRUE] /\ ~tag.nmn /\ n <= Room /\ top.hdr
        /\ T1!Verdict(Head1) = "BUSY" /\ T1!Learnt(Head1) = top
    BY <1>1, <1>2, <1>4, <1>10, <2>1 DEF T1!Execute, T1Written, T1!Verdict, T1!Learnt
  <2>3. top' = top /\ ~tag'.nmn /\ tag'.tlv /\ Left # 1
    BY <1>1, <1>2, <1>3, <1>10, <2>2 DEF T1Tag
  <2>4. T1Written(m, n, left - 1)'
    BY <1>2, <1>10, <2>2, <2>3 DEF T1Written
  <2> QED BY <1>1, <1>7, <2>2, <2>3, <2>4 DEF T1Top
<1>11. CASE Left = n + 2
  <2>1. Head1.name = "WriteLen" /\ Head1.k = n
    BY <1>2, <1>6, <1>11 DEF C
  <2>2. /\ tag' = [tag EXCEPT !.len = n] /\ ~tag.nmn /\ n <= Room /\ top.hdr /\ tag.tlv
        /\ T1!Verdict(Head1) = "BUSY" /\ T1!Learnt(Head1) = [top EXCEPT !.len = n]
    BY <1>1, <1>2, <1>4, <1>11, <2>1 DEF T1!Execute, T1Written, T1!Verdict, T1!Learnt
  <2>3. Left # 1 /\ top' = [top EXCEPT !.len = n]
    BY <1>2, <1>3, <1>11, <2>2
  <2>4. /\ T1Top' /\ top'.rwa = top.rwa /\ top'.support = top.support /\ top'.hdr /\ top'.len = n
        /\ ~tag'.nmn /\ tag'.tlv /\ tag'.len = n
    BY <1>1, <1>2, <2>2, <2>3, RoomPositive DEF T1Top, T1Tag
  <2>5. T1Written(m, n, left - 1)'
    BY <1>2, <1>11, <2>2, <2>4 DEF T1Written
  <2> QED BY <1>7, <2>2, <2>3, <2>4, <2>5
<1>12. CASE Left \in 2 .. n + 1
  <2>1. Head1.name = "Data" /\ Head1.k = n + 2 - left
    BY <1>2, <1>6, <1>12 DEF C
  <2>2. /\ tag' = [tag EXCEPT !.cells[n + 2 - left] = m]
        /\ T1!Verdict(Head1) = "BUSY" /\ T1!Learnt(Head1) = top
    BY <1>1, <1>2, <2>1 DEF T1!Execute, T1!Verdict, T1!Learnt
  <2>3. /\ ~tag.nmn /\ n <= Room /\ top.hdr /\ tag.tlv /\ tag.len = n /\ top.len = n
        /\ \A k \in 1 .. n : left <= n + 1 - k => tag.cells[k] = m
    BY <1>2, <1>4, <1>12 DEF T1Written
  <2>4. Left # 1 /\ top' = top
    BY <1>2, <1>3, <1>12, <2>2
  <2>5. /\ ~tag'.nmn /\ tag'.tlv /\ tag'.len = n
        /\ \A k \in 1 .. n : k = n + 2 - left \/ left <= n + 1 - k => tag'.cells[k] = m
    BY <1>1, <1>2, <1>12, <2>2, <2>3, RoomPositive DEF T1Tag
  <2>6. T1Written(m, n, left - 1)'
    BY <1>2, <1>12, <2>3, <2>4, <2>5 DEF T1Written
  <2> QED BY <1>1, <1>7, <2>2, <2>4, <2>6 DEF T1Top
<1>13. CASE Left = 1
  <2>1. Head1.name = "SetNmn"
    BY <1>2, <1>6, <1>13 DEF C
  <2>2. /\ tag' = [tag EXCEPT !.nmn = TRUE]
        /\ T1!Verdict(Head1) = "BUSY"
        /\ T1!Finished(T1!Learnt(Head1))
             = [top EXCEPT !.presence = TRUE, !.formatted = TRUE, !.state = "READWRITE"]
    BY <1>1, <2>1 DEF T1!Execute, T1!Verdict, T1!Learnt, T1!Finished
  <2>3. /\ n <= Room /\ tag.tlv /\ tag.len = n /\ top.len = n
        /\ \A k \in 1 .. n : tag.cells[k] = m
    BY <1>2, <1>4, <1>13 DEF T1Written
  <2>4. Succeeds /\ top' = [top EXCEPT !.presence = TRUE, !.formatted = TRUE, !.state = "READWRITE"]
    BY <1>3, <1>13, <2>2
  <2>5. T1Top' /\ top'.support = top.support /\ top'.rwa = "RW" /\ top'.len = n
    BY <1>1, <2>3, <2>4 DEF T1Top, States
  <2>6. tag'.nmn /\ tag'.tlv /\ tag'.len = n /\ tag'.cells = tag.cells
    BY <1>1, <2>2, <2>3 DEF T1Tag
  <2>7. /\ call'.status = "SUCCESS" /\ call'.op = "write" /\ call'.msg = m
        /\ call'.checked => call.checked
    BY <1>1, <1>2, <2>4 DEF Succeeds, Keeps
  <2>8. T1Doing' /\ T1Known'
    BY <1>5, <2>5, <2>6, <2>7 DEF T1Doing, T1Known, Busy
  <2>9. T1!Content' = m
    BY <1>2, <2>3, <2>6, StoredWhole, T1Session DEF T1!Content
  <2>10. EndedWell(call, T1!Content, T1!Writable)' /\ WriteStep(T1!Writable)
    BY <2>7, <2>9 DEF EndedWell, Ended, WriteStep
  <2> QED BY <1>1, <2>5, <2>8, <2>10 DEF T1Inv, Keeps
<1> QED BY <1>6, <1>8, <1>9, <1>10, <1>11, <1>12, <1>13

(* Every answer of a type 1 tag keeps the invariant.                        *)
LEMMA T1AnswerKeeps ==
  ASSUME T1Inv, T1!Answer
  PROVE  /\ T1Inv' /\ WriteStep(T1!Writable) /\ Busy /\ Keeps
         /\ Effect(call, T1!Content, None, T1!Content', None)
<1>1. /\ Busy /\ Keeps /\ Effect(call, T1!Content, None, T1!Content', None)
  BY T1Answered, T1Executed
<1>2. T1Checking \/ T1Formatting \/ T1Writing \/ T1Erasing \/ T1Locking \/ T1Reading
  BY <1>1 DEF T1Inv, T1Doing
<1> QED BY <1>1, <1>2, T1AnswerCheck, T1AnswerFormat, T1AnswerWrite, T1AnswerErase,
           T1AnswerLock, T1AnswerRead

(* The commands an operation starts with.                                   *)
LEMMA T1CheckStarts ==
  LET s == Cmd("CheckNmn") \o (IF tag.dynamic THEN <<>> ELSE Cmd("CheckRwa")) \o Cmd("CheckTlv")
  IN  s \in Seq(Commands) /\ Len(s) = (IF tag.dynamic THEN 2 ELSE 3) /\ Follows(s, T1CheckPlan)
<1>0. PICK p : p = T1CheckPlan
  OBVIOUS
<1>1. CASE tag.dynamic
  <2>1. p[1] = C("CheckTlv", 0) /\ p[2] = C("CheckNmn", 0)
    BY <1>0, <1>1 DEF T1CheckPlan
  <2>2. First(Cell("CheckNmn", 0), 1, 2, p)
    BY <2>1, FirstNone DEF Names
  <2>3. First(Cell("CheckNmn", 0) \o Cell("CheckTlv", 0), 2, 2, p)
    BY <2>1, <2>2, FirstOne DEF Names
  <2>4. Cell("CheckNmn", 0) \o <<>> = Cell("CheckNmn", 0)
    BY OneCommand, ConcatEmptySeq DEF Names
  <2> QED BY <1>0, <1>1, <2>3, <2>4, FirstAll, CmdIsCell
<1>2. CASE ~tag.dynamic
  <2>1. p[1] = C("CheckTlv", 0) /\ p[2] = C("CheckRwa", 0) /\ p[3] = C("CheckNmn", 0)
    BY <1>0, <1>2 DEF T1CheckPlan
  <2>2. First(Cell("CheckNmn", 0), 1, 3, p)
    BY <2>1, FirstNone DEF Names
  <2>3. First(Cell("CheckNmn", 0) \o Cell("CheckRwa", 0), 2, 3, p)
    BY <2>1, <2>2, FirstOne DEF Names
  <2>4. First(Cell("CheckNmn", 0) \o Cell("CheckRwa", 0) \o Cell("CheckTlv", 0), 3, 3, p)
    BY <2>1, <2>3, FirstOne DEF Names
  <2> QED BY <1>0, <1>2, <2>4, FirstAll, CmdIsCell
<1> QED BY <1>1, <1>2

(* Where each command of WriteNdef is in its plan.                          *)
LEMMA T1WriteAt ==
  ASSUME NEW m \in Messages, NEW n \in Nat, n = Size[m], n > 0
  PROVE  /\ T1WritePlan(m)[n + 5] = C("ClearNmn", 0) /\ T1WritePlan(m)[n + 4] = C("WriteRwa", 0)
         /\ T1WritePlan(m)[n + 3] = C("WriteTlv", 0) /\ T1WritePlan(m)[n + 2] = C("WriteLen", n)
         /\ \A k \in 1 .. n : T1WritePlan(m)[n + 2 - k] = C("Data", k)
         /\ T1WritePlan(m)[1] = C("SetNmn", 0)
<1>1. T1WritePlan(m)[n + 5] = C("ClearNmn", 0)
  BY DEF T1WritePlan
<1>2. T1WritePlan(m)[n + 4] = C("WriteRwa", 0)
  BY DEF T1WritePlan
<1>3. T1WritePlan(m)[n + 3] = C("WriteTlv", 0)
  BY DEF T1WritePlan
<1>4. T1WritePlan(m)[n + 2] = C("WriteLen", n)
  BY DEF T1WritePlan
<1>5. ASSUME NEW k \in 1 .. n, NEW r, r = n + 2 - k
      PROVE  T1WritePlan(m)[r] = C("Data", k)
  <2>1. r \in 1 .. n + 5 /\ r \in 2 .. n + 1 /\ n + 2 - r = k
    BY <1>5
  <2> QED BY <2>1 DEF T1WritePlan
<1>6. T1WritePlan(m)[1] = C("SetNmn", 0)
  BY DEF T1WritePlan
<1> QED BY <1>1, <1>2, <1>3, <1>4, <1>5, <1>6

(* The commands of WriteNdef.                                               *)
LEMMA T1WriteStarts ==
  ASSUME NEW m \in Messages
  PROVE  LET s == Cmd("ClearNmn") \o Cmd("WriteRwa") \o Cmd("WriteTlv") \o Cell("WriteLen", Size[m])
                  \o Cells("Data", 1, Size[m]) \o Cmd("SetNmn")
         IN  s \in Seq(Commands) /\ Len(s) = Size[m] + 5 /\ Follows(s, T1WritePlan(m))
<1>a. PICK p : p = T1WritePlan(m)
  OBVIOUS
<1>0. PICK n \in Nat : n = Size[m] /\ n > 0 /\ p = T1WritePlan(m)
  BY <1>a, Sizes
<1>1. /\ p[n + 5] = C("ClearNmn", 0) /\ p[n + 4] = C("WriteRwa", 0) /\ p[n + 3] = C("WriteTlv", 0)
      /\ p[n + 2] = C("WriteLen", n) /\ \A k \in 1 .. n : p[n + 2 - k] = C("Data", k)
      /\ p[1] = C("SetNmn", 0)
  BY <1>0, T1WriteAt
<1> DEFINE s1 == Cell("ClearNmn", 0)
           s2 == s1 \o Cell("WriteRwa", 0)
           s3 == s2 \o Cell("WriteTlv", 0)
           s4 == s3 \o Cell("WriteLen", n)
           s5 == s4 \o Cells("Data", 1, n)
           s6 == s5 \o Cell("SetNmn", 0)
<1>2. First(s1, 1, n + 5, p)
  BY <1>1, FirstNone DEF Names
<1>3. First(s2, 2, n + 5, p)
  BY <1>1, <1>2, FirstOne DEF Names
<1>4. First(s3, 3, n + 5, p)
  BY <1>1, <1>3, FirstOne DEF Names
<1>5. First(s4, 4, n + 5, p)
  BY <1>1, <1>4, FirstOne DEF Names
<1> HIDE DEF s4
<1>6. First(s5, n + 4, n + 5, p)
  <2>1. /\ \A k \in 1 .. n : p[n + 5 - 4 + 1 - k] = C("Data", k)
        /\ n + 4 = 4 + (n + 1 - 1) /\ 1 <= n + 1 /\ n + 5 \in Nat /\ "Data" \in Names
    BY <1>1 DEF Names
  <2> QED BY <1>5, <2>1, FirstMany
<1> HIDE DEF s5
<1>7. First(s6, n + 5, n + 5, p)
  BY <1>1, <1>6, FirstOne DEF Names
<1> HIDE DEF s6
<1>8. s6 \in Seq(Commands) /\ Len(s6) = n + 5 /\ Follows(s6, p)
  BY <1>7, FirstAll
<1>9. s6 = Cmd("ClearNmn") \o Cmd("WriteRwa") \o Cmd("WriteTlv") \o Cell("WriteLen", Size[m])
           \o Cells("Data", 1, Size[m]) \o Cmd("SetNmn")
  BY <1>0, CmdIsCell DEF s4, s5, s6
<1> QED BY <1>0, <1>8, <1>9

(* The commands of FormatNdef.                                              *)
LEMMA T1FormatStarts ==
  LET s == Cmd("ClearNmn") \o Cmd("WriteRwa")
      t == Cmd("ReadRwa") \o s
  IN  /\ s \in Seq(Commands) /\ Len(s) = 2 /\ Follows(s, T1FormatPlan)
      /\ t \in Seq(Commands) /\ Len(t) = 3 /\ Follows(t, T1FormatPlan)
<1>0. PICK p : p = T1FormatPlan
  OBVIOUS
<1>1. p[3] = C("ReadRwa", 0) /\ p[2] = C("ClearNmn", 0) /\ p[1] = C("WriteRwa", 0)
  BY <1>0 DEF T1FormatPlan
<1> DEFINE a == Cell("ReadRwa", 0)
           b == Cell("ClearNmn", 0)
           c == Cell("WriteRwa", 0)
<1>2. First(b, 1, 2, p) /\ First(a, 1, 3, p)
  BY <1>1, FirstNone DEF Names
<1>3. First(b \o c, 2, 2, p) /\ First(a \o b, 2, 3, p)
  BY <1>1, <1>2, FirstOne DEF Names
<1>4. First((a \o b) \o c, 3, 3, p)
  BY <1>1, <1>3, FirstOne DEF Names
<1>5. a \o (b \o c) = (a \o b) \o c
  <2>1. a \in Seq(Commands) /\ b \in Seq(Commands) /\ c \in Seq(Commands)
    BY OneCommand DEF Names
  <2> HIDE DEF a, b, c
  <2> QED BY <2>1, ConcatAssociative
<1>6. /\ b \o c \in Seq(Commands) /\ Len(b \o c) = 2 /\ Follows(b \o c, p)
      /\ (a \o b) \o c \in Seq(Commands) /\ Len((a \o b) \o c) = 3 /\ Follows((a \o b) \o c, p)
  BY <1>3, <1>4, FirstAll
<1> QED BY <1>0, <1>5, <1>6, CmdIsCell

(* The commands of a read of all cells.                                     *)
LEMMA ReadStarts ==
  ASSUME top.len \in Nat
  PROVE  LET s == Cells("Read", 1, top.len) IN
         s \in Seq(Commands) /\ Len(s) = top.len /\ Follows(s, ReadPlan)
<1>1. PICK n \in Nat : n = top.len
  OBVIOUS
<1>2. /\ Cells("Read", 1, n) \in Seq(Commands) /\ Len(Cells("Read", 1, n)) = n
      /\ \A i \in 1 .. n : Cells("Read", 1, n)[i] = C("Read", i)
  <2>1. /\ Cells("Read", 1, n) \in Seq(Commands) /\ Len(Cells("Read", 1, n)) = n + 1 - 1
        /\ \A i \in 1 .. n + 1 - 1 : Cells("Read", 1, n)[i] = C("Read", 1 + i - 1)
    <3>1. "Read" \in Names /\ 1 \in Nat /\ 1 <= n + 1
      BY DEF Names
    <3> QED BY <3>1, ManyCommands
  <2> QED BY <2>1
<1> QED BY <1>1, <1>2 DEF Follows, ReadPlan

(* Commands that are all among some names.                                  *)
LEMMA NamedTogether ==
  ASSUME NEW s \in Seq(Commands), NEW t \in Seq(Commands), NEW names, Named(s, names), Named(t, names)
  PROVE  s \o t \in Seq(Commands) /\ Named(s \o t, names)
<1>1. ASSUME NEW i \in 1 .. Len(s \o t)
      PROVE  (s \o t)[i].name \in names
  <2>1. CASE i <= Len(s)
    BY <2>1, Together DEF Named
  <2>2. CASE i > Len(s)
    <3>1. PICK j \in 1 .. Len(t) : i = Len(s) + j
      <4>1. i - Len(s) \in 1 .. Len(t) /\ i = Len(s) + (i - Len(s))
        BY <2>2, Together
      <4> QED BY <4>1
    <3> QED BY <3>1, Together DEF Named
  <2> QED BY <2>1, <2>2, Together
<1> QED BY <1>1, Together DEF Named

(* Commands for several cells all have the name.                            *)
LEMMA NamedCommands ==
  ASSUME NEW name \in Names, NEW names, name \in names, NEW a \in Nat, NEW b \in Nat, a <= b + 1
  PROVE  /\ Cmd(name) \in Seq(Commands) /\ Named(Cmd(name), names)
         /\ Cell(name, a) \in Seq(Commands) /\ Named(Cell(name, a), names)
         /\ Cells(name, a, b) \in Seq(Commands) /\ Named(Cells(name, a, b), names)
<1>0. \A k : C(name, k).name = name
  BY DEF C
<1>1. /\ Cmd(name) \in Seq(Commands) /\ Len(Cmd(name)) = 1 /\ Cmd(name)[1].name = name
      /\ Cell(name, a) \in Seq(Commands) /\ Len(Cell(name, a)) = 1 /\ Cell(name, a)[1].name = name
  BY OneCommand, <1>0
<1>2. /\ Cells(name, a, b) \in Seq(Commands) /\ Len(Cells(name, a, b)) = b + 1 - a
      /\ \A i \in 1 .. b + 1 - a : Cells(name, a, b)[i].name = name
  <2>1. /\ Cells(name, a, b) \in Seq(Commands) /\ Len(Cells(name, a, b)) = b + 1 - a
        /\ \A i \in 1 .. b + 1 - a : Cells(name, a, b)[i] = C(name, a + i - 1)
    BY ManyCommands
  <2> QED BY <2>1, <1>0
<1>3. \A i : i \in 1 .. 1 => i = 1
  OBVIOUS
<1>4. Named(Cmd(name), names) /\ Named(Cell(name, a), names)
  BY <1>1, <1>3, Zenon DEF Named
<1>5. Named(Cells(name, a, b), names)
  BY <1>2, Zenon DEF Named
<1> QED BY <1>1, <1>2, <1>4, <1>5

(* The commands of EraseNdef.                                               *)
LEMMA T1EraseStarts ==
  ASSUME top.len \in Nat
  PROVE  LET s == Cmd("ClearNmn") \o
                  IF top.hdr THEN Cmd("ClearTlv") \o Cmd("ClearLen") \o Cells("Zero", 1, top.len)
                  ELSE Cmd("ClearNmn") \o Cmd("ClearVno")
         IN  /\ s \in Seq(Commands) /\ s # <<>> /\ Head(s).name = "ClearNmn"
             /\ Named(s, {"ClearNmn", "ClearVno", "ClearTlv", "ClearLen", "Zero"})
<1>0. PICK names : names = {"ClearNmn", "ClearVno", "ClearTlv", "ClearLen", "Zero"}
  OBVIOUS
<1>1. \A name \in names : Cmd(name) \in Seq(Commands) /\ Named(Cmd(name), names)
  <2>1. ASSUME NEW name \in names
        PROVE  Cmd(name) \in Seq(Commands) /\ Named(Cmd(name), names)
    <3>1. name \in Names /\ 0 \in Nat /\ 0 <= 0 + 1
      BY <1>0 DEF Names
    <3> QED BY <3>1, NamedCommands
  <2> QED BY <2>1
<1>2. PICK t : t = IF top.hdr THEN Cmd("ClearTlv") \o Cmd("ClearLen") \o Cells("Zero", 1, top.len)
                   ELSE Cmd("ClearNmn") \o Cmd("ClearVno")
  OBVIOUS
<1>3. t \in Seq(Commands) /\ Named(t, names)
  <2>1. Cells("Zero", 1, top.len) \in Seq(Commands) /\ Named(Cells("Zero", 1, top.len), names)
    <3>1. "Zero" \in Names /\ "Zero" \in names /\ 1 \in Nat /\ 1 <= top.len + 1
      BY <1>0 DEF Names
    <3> QED BY <3>1, NamedCommands
  <2>2. /\ Cmd("ClearTlv") \o Cmd("ClearLen") \in Seq(Commands)
        /\ Named(Cmd("ClearTlv") \o Cmd("ClearLen"), names)
    BY <1>0, <1>1, NamedTogether
  <2>3. /\ (Cmd("ClearTlv") \o Cmd("ClearLen")) \o Cells("Zero", 1, top.len) \in Seq(Commands)
        /\ Named((Cmd("ClearTlv") \o Cmd("ClearLen")) \o Cells("Zero", 1, top.len), names)
    BY <2>1, <2>2, NamedTogether
  <2>4. Cmd("ClearNmn") \o Cmd("ClearVno") \in Seq(Commands) /\ Named(Cmd("ClearNmn") \o Cmd("ClearVno"), names)
    BY <1>0, <1>1, NamedTogether
  <2> QED BY <1>2, <2>3, <2>4
<1>4. PICK s : s = Cmd("ClearNmn") \o t
  OBVIOUS
<1>5. s \in Seq(Commands) /\ Named(s, names)
  BY <1>0, <1>1, <1>3, <1>4, NamedTogether
<1>6. Len(s) > 0 /\ s[1] = C("ClearNmn", 0)
  <2>1. PICK c : c = Cmd("ClearNmn")
    OBVIOUS
  <2>2. c \in Seq(Commands) /\ Len(c) = 1 /\ c[1] = C("ClearNmn", 0)
    BY <2>1, OneCommand DEF Names
  <2>3. Len(c \o t) = Len(c) + Len(t) /\ (c \o t)[1] = c[1] /\ Len(t) \in Nat
    BY <1>3, <2>2, Together
  <2> QED BY <1>4, <2>1, <2>2, <2>3
<1>7. s # <<>> /\ Head(s).name = "ClearNmn"
  BY <1>5, <1>6, TodoTail, EmptySeq DEF C
<1> QED BY <1>0, <1>2, <1>4, <1>5, <1>7

-----------------------------------------------------------------------------
(* No answer, or a refusal.                                                 *)

(* What a refusal or a lost frame makes of the call.                        *)
LEMMA T1Lost ==
  ASSUME T1Inv, T1!Refused \/ T1!NoAnswer
  PROVE  /\ Busy /\ Keeps /\ Fails /\ T1Top' /\ (call'.clean => tag.locked)
         /\ tag' = tag \/ (~T1!Refuses(Head1) /\ tag' = T1!Execute(Head1))
<1>1. Busy /\ CallOK /\ T1Top /\ call.gone \in BOOLEAN /\ call.clean \in BOOLEAN
  BY T1Session DEF T1!Refused, T1!NoAnswer, T1Inv, CallOK, Calls
<1>2. PICK lost \in BOOLEAN, gone \in BOOLEAN :
        /\ T1!Failed(IF lost THEN Lost(gone) ELSE call, Head1)
        /\ ~lost => T1!Refuses(Head1) /\ tag' = tag
        /\ lost => tag' = tag \/ (~T1!Refuses(Head1) /\ tag' = T1!Execute(Head1))
  <2>1. CASE T1!Refused
    <3>1. T1!Failed(call, Head1) /\ T1!Refuses(Head1) /\ tag' = tag
      BY <2>1, T1Session DEF T1!Refused
    <3> QED BY <3>1
  <2>2. CASE T1!NoAnswer
    <3>1. /\ tag' = tag \/ (~T1!Refuses(Head1) /\ tag' = T1!Execute(Head1))
          /\ \E g \in BOOLEAN : T1!Failed(Lost(call.gone \/ g), Head1)
      BY <2>2, T1Session DEF T1!NoAnswer, T1!Maybe, T1!Loss
    <3>2. PICK g \in BOOLEAN : T1!Failed(Lost(call.gone \/ g), Head1)
      BY <3>1
    <3>3. PICK gone \in BOOLEAN : gone = (call.gone \/ g)
      BY <1>1
    <3>4. T1!Failed(Lost(gone), Head1)
      BY <3>2, <3>3
    <3> QED BY <3>1, <3>4
  <2> QED BY <2>1, <2>2
<1>3. PICK c : c = IF lost THEN Lost(gone) ELSE call
  OBVIOUS
<1>4. /\ call' = Go(c, <<>>, IF c.clean THEN "REFUSED" ELSE "TIMEOUT")
      /\ top' = top \/ \E cc \in BOOLEAN : top' = [top EXCEPT !.block = T1!LastBlock(cc)]
  <2>1. T1!Failed(c, Head1)
    BY <1>2, <1>3
  <2> QED BY <2>1, T1Session DEF T1!Failed
<1>5. T1Top'
  BY <1>1, <1>4 DEF T1Top, T1!LastBlock
<1>6. PICK verdict \in Statuses : verdict \notin {"BUSY", "SUCCESS"}
                                  /\ call' = Go(IF lost THEN Lost(gone) ELSE call, <<>>, verdict)
  BY <1>3, <1>4 DEF Statuses
<1>7. <<>> \in Seq(Commands)
  BY EmptySeq
<1>8. Keeps /\ Fails /\ call'.clean = (call.clean /\ ~lost)
  BY <1>1, <1>6, <1>7, LossGoes
<1> QED BY <1>1, <1>2, <1>5, <1>8 DEF T1!Refuses

(* So does a refusal, and a command or an answer that is lost.              *)
LEMMA T1LossKeeps ==
  ASSUME T1Inv, T1!Refused \/ T1!NoAnswer
  PROVE  /\ T1Inv' /\ WriteStep(T1!Writable) /\ Busy /\ Keeps
         /\ Effect(call, T1!Content, None, T1!Content', None)
<1>1. /\ Busy /\ Keeps /\ Fails /\ T1Top' /\ (call'.clean => tag.locked)
      /\ tag' = tag \/ (~T1!Refuses(Head1) /\ tag' = T1!Execute(Head1))
  BY T1Lost
<1>2. T1Tag' /\ Effect(call, T1!Content, None, T1!Content', None)
  <2>1. CASE tag' = tag
    BY <2>1, T1ContentIs DEF T1Inv, T1Tag, Effect, T1!Content
  <2> QED BY <1>1, <2>1, T1Executed
<1>3. WriteStep(T1!Writable)
  BY <1>1 DEF WriteStep, T1!Writable
<1> QED BY <1>1, <1>2, <1>3, T1FailsKeeps

-----------------------------------------------------------------------------
(* An operation begins.                                                     *)

(* It sends its first command.                                              *)
LEMMA T1Begins ==
  ASSUME T1Inv, ~Busy, NEW op \in Operations, NEW m \in Messages \cup {None},
         NEW todo \in Seq(Commands), todo # <<>>, Start(op, m, todo), tag' = tag, T1Top',
         op \in {"check", "readonly"} \/ top' = top,
         T1Checking' \/ T1Formatting' \/ T1Writing' \/ T1Erasing' \/ T1Locking' \/ T1Reading'
  PROVE  T1Inv' /\ WriteStep(T1!Writable)
<1>1. /\ CallOK' /\ call'.op = op /\ call'.status = "BUSY"
      /\ call'.checked => call.checked /\ op # "check"
  BY Started DEF T1Inv, CallOK
<1>2. T1Known'
  BY <1>1 DEF T1Inv, T1Known, Busy, T1!Readable, T1!Writable
<1>3. EndedWell(call, T1!Content, T1!Writable)' /\ WriteStep(T1!Writable)
  BY <1>1, NotEnded DEF WriteStep
<1> QED BY <1>1, <1>2, <1>3 DEF T1Inv, T1Tag, T1Doing

(* It is refused.                                                           *)
LEMMA T1Refuses ==
  ASSUME T1Inv, ~Busy, NEW op \in Operations, NEW m \in Messages \cup {None},
         NEW status \in Statuses, status \notin {"BUSY", "SUCCESS"}, Refuse(op, m, status),
         tag' = tag, top' = top, op = "write" => ~(call.checked /\ T1!Writable)
  PROVE  T1Inv' /\ WriteStep(T1!Writable)
<1>1. CallOK' /\ call'.op = op /\ call'.status = status /\ call'.checked = call.checked
  BY WasRefused DEF T1Inv, CallOK
<1>2. T1Known' /\ T1Doing' /\ T1Tag' /\ T1Top'
  BY <1>1 DEF T1Inv, T1Known, Busy, T1Doing, T1Tag, T1Top, T1!Readable, T1!Writable
<1>3. T1!Writable' = T1!Writable
  BY DEF T1!Writable
<1>4. EndedWell(call, T1!Content, T1!Writable)' /\ WriteStep(T1!Writable)
  BY <1>1, <1>3 DEF WriteStep, EndedWell, Ended
<1> QED BY <1>1, <1>2, <1>4 DEF T1Inv

(* What a step that begins an operation, or only sets a parameter, is to     *)
(* the caller.                                                              *)
Begun ==
  \/ call' = call
  \/ /\ call'.op \in Operations /\ call'.msg \in Messages \cup {None}

(* An operation that begins or is refused has begun.                        *)
LEMMA StartBegins ==
  ASSUME NEW op \in Operations, NEW m \in Messages \cup {None}, NEW x,
         Start(op, m, x) \/ Refuse(op, m, x)
  PROVE  Begun
BY DEF Begun, Start, Refuse

(* What begins on a type 1 tag is an operation.                             *)
LEMMA T1Begun ==
  ASSUME T1!Operation
  PROVE  ~Busy /\ tag' = tag /\ Begun
<1> USE DEF Operations
<1>1. ~Busy
  BY T1Session DEF T1!Operation
<1>2. CASE T1!CheckNdef
  BY <1>1, <1>2, T1Calls, StartBegins DEF T1!CheckNdef
<1>3. CASE T1!FormatNdef
  BY <1>1, <1>3, T1Calls, StartBegins DEF T1!FormatNdef
<1>4. CASE T1!ReadNdef
  BY <1>1, <1>4, T1Calls, StartBegins DEF T1!ReadNdef
<1>5. CASE T1!EraseNdef
  BY <1>1, <1>5, T1Calls, StartBegins DEF T1!EraseNdef
<1>6. CASE T1!SetReadOnly
  BY <1>1, <1>6, T1Calls, StartBegins DEF T1!SetReadOnly
<1>7. CASE T1!SetReadWrite
  BY <1>1, <1>7 DEF T1!SetReadWrite, Begun
<1>8. ASSUME NEW m \in Messages, T1!WriteNdef(m)
      PROVE  ~Busy /\ tag' = tag /\ Begun
  BY <1>1, <1>8, T1Calls, StartBegins DEF T1!WriteNdef
<1> QED BY <1>2, <1>3, <1>4, <1>5, <1>6, <1>7, <1>8 DEF T1!Operation

(* CheckNdef begins.                                                        *)
LEMMA T1CheckBegins ==
  ASSUME T1Inv, ~Busy, T1!CheckNdef
  PROVE  T1Inv' /\ WriteStep(T1!Writable)
<1> DEFINE s == Cmd("CheckNmn") \o (IF tag.dynamic THEN <<>> ELSE Cmd("CheckRwa")) \o Cmd("CheckTlv")
<1>1. Start("check", None, s) /\ tag' = tag
  <2>1. PICK x : /\ x = T1!Cmd("CheckNmn") \o (IF tag.dynamic THEN <<>> ELSE T1!Cmd("CheckRwa"))
                         \o T1!Cmd("CheckTlv")
                 /\ T1!Start("check", None, x) /\ tag' = tag
    BY DEF T1!CheckNdef
  <2>2. x = s
    BY <2>1, Zenon DEF T1!Cmd, Cmd, T1!Cell, Cell, T1!Cells, Cells
  <2> HIDE DEF s
  <2> QED BY <2>1, <2>2, T1Calls
<1>2. top' = [T1!Reset EXCEPT !.support = TRUE, !.formatted = TRUE, !.rwa = top.rwa, !.block = top.block]
  BY DEF T1!CheckNdef
<1>3. T1Top' /\ top'.support
  <2>1. top' = [support |-> TRUE, formatted |-> TRUE, presence |-> FALSE, state |-> "UNKNOWN",
                rwa |-> top.rwa, hdr |-> FALSE, len |-> 0, block |-> top.block]
    BY <1>2 DEF T1!Reset
  <2>2. top.rwa \in Access /\ top.block \in {"invalid", "cc", "other"} /\ 0 \in 0 .. Room
    BY RoomPositive DEF T1Inv, T1Top
  <2> QED BY <2>1, <2>2 DEF T1Top, States
<1>4. s \in Seq(Commands) /\ Len(s) = (IF tag.dynamic THEN 2 ELSE 3) /\ Follows(s, T1CheckPlan)
  BY T1CheckStarts
<1> HIDE DEF s
<1>5. s # <<>>
  <2>1. Len(s) > 0
    BY <1>4
  <2>2. Len(<<>>) = 0
    OBVIOUS
  <2> QED BY <2>1, <2>2
<1>6. call'.op = "check" /\ call'.msg = None /\ call'.todo = s /\ ~call'.checked
  BY <1>1, <1>4, Started DEF T1Inv, CallOK, Operations
<1>7. T1Checking'
  <2>1. T1CheckPlan' = T1CheckPlan
    BY <1>1 DEF T1CheckPlan
  <2>2. Left' = (IF tag'.dynamic THEN 2 ELSE 3)
    BY <1>1, <1>4, <1>6 DEF Left
  <2>3. Left' <= (IF tag'.dynamic THEN 2 ELSE 3) /\ Left' # 1 /\ (Left' = 2 => tag'.dynamic)
    BY <2>2
  <2> QED BY <1>3, <1>4, <1>6, <2>1, <2>3 DEF T1Checking
<1> QED BY <1>1, <1>3, <1>4, <1>5, <1>7, T1Begins DEF Operations

(* FormatNdef begins.                                                       *)
LEMMA T1FormatBegins ==
  ASSUME T1Inv, ~Busy, T1!FormatNdef
  PROVE  T1Inv' /\ WriteStep(T1!Writable)
<1> DEFINE s == Cmd("ClearNmn") \o Cmd("WriteRwa")
           t == Cmd("ReadRwa") \o s
<1>1. /\ s \in Seq(Commands) /\ Len(s) = 2 /\ Follows(s, T1FormatPlan)
      /\ t \in Seq(Commands) /\ Len(t) = 3 /\ Follows(t, T1FormatPlan)
  BY T1FormatStarts
<1>2. /\ tag' = tag /\ top' = top
      /\ \/ Start("format", None, s) \/ Start("format", None, t)
         \/ Refuse("format", None, "UNSUPPORTED_COMMAND")
  BY T1Calls, T1Commands, Zenon DEF T1!FormatNdef, T1!FormatCommands
<1> HIDE DEF s, t
<1>3. T1Top'
  BY <1>2 DEF T1Inv, T1Top
<1>4. ASSUME NEW x \in Seq(Commands), Len(x) \in 2 .. 3, Follows(x, T1FormatPlan), Start("format", None, x)
      PROVE  T1Inv' /\ WriteStep(T1!Writable)
  <2>1. x # <<>>
    BY <1>4, EmptySeq
  <2>2. call'.op = "format" /\ call'.msg = None /\ call'.todo = x
    BY <1>4, Started DEF T1Inv, CallOK, Operations
  <2>3. T1Formatting'
    <3>1. T1FormatPlan' = T1FormatPlan /\ Left' = Len(x)
      BY <2>2 DEF T1FormatPlan, Left
    <3>2. Left' <= 3 /\ Left' # 1
      BY <1>4, <3>1
    <3> QED BY <1>4, <2>2, <3>1, <3>2 DEF T1Formatting
  <2> QED BY <1>2, <1>3, <1>4, <2>1, <2>3, T1Begins DEF Operations
<1>5. CASE Refuse("format", None, "UNSUPPORTED_COMMAND")
  BY <1>2, <1>5, T1Refuses DEF Operations, Statuses
<1>6. Len(s) \in 2 .. 3 /\ Len(t) \in 2 .. 3
  BY <1>1
<1> QED BY <1>1, <1>2, <1>4, <1>5, <1>6

(* WriteNdef begins.                                                        *)
LEMMA T1WriteBegins ==
  ASSUME T1Inv, ~Busy, NEW m \in Messages, T1!WriteNdef(m)
  PROVE  T1Inv' /\ WriteStep(T1!Writable)
<1> DEFINE s == Cmd("ClearNmn") \o Cmd("WriteRwa") \o Cmd("WriteTlv") \o Cell("WriteLen", Size[m])
                \o Cells("Data", 1, Size[m]) \o Cmd("SetNmn")
<1>1. s \in Seq(Commands) /\ Len(s) = Size[m] + 5 /\ Follows(s, T1WritePlan(m))
  BY T1WriteStarts
<1>2. /\ tag' = tag /\ top' = top
      /\ \/ ~top.support /\ Refuse("write", m, "UNSUPPORTED_COMMAND")
         \/ top.rwa = "RO" /\ Refuse("write", m, "INVALID_PARAMETER")
         \/ top.rwa # "RO" /\ Start("write", m, s)
  <2>1. PICK x : /\ x = T1!Cmd("ClearNmn") \o T1!Cmd("WriteRwa") \o T1!Cmd("WriteTlv")
                         \o T1!Cell("WriteLen", Size[m]) \o T1!Cells("Data", 1, Size[m]) \o T1!Cmd("SetNmn")
                 /\ tag' = tag /\ top' = top
                 /\ \/ ~top.support /\ T1!Refuse("write", m, "UNSUPPORTED_COMMAND")
                    \/ top.rwa = "RO" /\ T1!Refuse("write", m, "INVALID_PARAMETER")
                    \/ top.rwa # "RO" /\ T1!Start("write", m, x)
    BY DEF T1!WriteNdef
  <2>2. x = s
    BY <2>1, Zenon DEF T1!Cmd, Cmd, T1!Cell, Cell, T1!Cells, Cells
  <2> HIDE DEF s
  <2> QED BY <2>1, <2>2, T1Calls
<1> HIDE DEF s
<1>3. T1Top' /\ m \in Messages \cup {None} /\ Size[m] \in Nat
  BY <1>2, Sizes DEF T1Inv, T1Top
<1>4. call.checked => top.support /\ (T1!Writable => top.rwa = "RW")
  BY DEF T1Inv, T1Known
<1>5. CASE ~top.support /\ Refuse("write", m, "UNSUPPORTED_COMMAND")
  BY <1>2, <1>3, <1>4, <1>5, T1Refuses DEF Operations, Statuses
<1>6. CASE top.rwa = "RO" /\ Refuse("write", m, "INVALID_PARAMETER")
  BY <1>2, <1>3, <1>4, <1>6, T1Refuses DEF Operations, Statuses
<1>7. CASE top.rwa # "RO" /\ Start("write", m, s)
  <2>1. s # <<>>
    BY <1>1, <1>3, EmptySeq
  <2>2. call'.op = "write" /\ call'.msg = m /\ call'.todo = s
    BY <1>1, <1>3, <1>7, Started DEF T1Inv, CallOK, Operations
  <2>3. top.rwa = "RW"
    BY <1>7 DEF T1Inv, T1Top, Access
  <2>4. /\ Left' = Size[m] + 5 /\ T1Written(m, Size[m], Size[m] + 5)'
    BY <1>1, <1>3, <2>2 DEF Left, T1Written
  <2>5. T1Writing'
    BY <1>1, <1>2, <1>3, <2>2, <2>3, <2>4 DEF T1Writing, T1WritePlan
  <2> QED BY <1>1, <1>2, <1>3, <1>7, <2>1, <2>5, T1Begins DEF Operations
<1> QED BY <1>2, <1>5, <1>6, <1>7

(* ReadNdef begins.                                                         *)
LEMMA T1ReadBegins ==
  ASSUME T1Inv, ~Busy, T1!ReadNdef
  PROVE  T1Inv' /\ WriteStep(T1!Writable)
<1> DEFINE s == Cells("Read", 1, top.len)
<1>1. top.len \in Nat
  BY RoomPositive DEF T1Inv, T1Top
<1>2. s \in Seq(Commands) /\ Len(s) = top.len /\ Follows(s, ReadPlan)
  BY <1>1, ReadStarts
<1>3. /\ tag' = tag /\ top' = top
      /\ \/ T1!Readable /\ Start("read", None, s)
         \/ Refuse("read", None, "PROTOCOL_ERROR")
  BY T1Calls, T1Commands, Zenon DEF T1!ReadNdef
<1> HIDE DEF s
<1>4. T1Top' /\ None \in Messages \cup {None} /\ T1Tag'
  BY <1>3 DEF T1Inv, T1Top, T1Tag
<1>5. CASE Refuse("read", None, "PROTOCOL_ERROR")
  BY <1>3, <1>5, T1Refuses DEF Operations, Statuses
<1>6. CASE T1!Readable /\ Start("read", None, s)
  <2>1. /\ CallOK' /\ call'.op = "read" /\ call'.msg = None /\ call'.todo = s /\ call'.got = <<>>
        /\ call'.status = (IF s = <<>> THEN "SUCCESS" ELSE "BUSY")
        /\ call'.checked => call.checked
    BY <1>2, <1>6, Started DEF T1Inv, CallOK, Operations
  <2>2. CASE s # <<>>
    <3>1. T1Reading'
      BY <1>1, <1>2, <1>3, <1>6, <2>1 DEF T1Reading, ReadingCells, ReadPlan, GotCells, Left, T1!Readable
    <3> QED BY <1>2, <1>3, <1>4, <1>6, <2>2, <3>1, T1Begins DEF Operations
  <2>3. CASE s = <<>>
    <3>1. top.len = 0 /\ call'.status = "SUCCESS"
      BY <1>2, <2>1, <2>3
    <3>2. call.checked => tag.nmn /\ tag.tlv /\ tag.len = 0
      BY <1>6, <3>1 DEF T1Inv, T1Known
    <3>3. Len(call'.got) = 0 /\ Stored(call'.got, 0) = None
      BY <2>1, StoredNothing
    <3>4. call'.checked => T1!Content' = None
      BY <1>3, <2>1, <3>2, StoredNothing, T1ContentIs DEF T1!Content
    <3>5. EndedWell(call, T1!Content, T1!Writable)' /\ WriteStep(T1!Writable)
      BY <2>1, <3>1, <3>3, <3>4 DEF EndedWell, Ended, WriteStep
    <3>6. T1Known' /\ T1Doing'
      BY <1>3, <2>1, <3>1 DEF T1Inv, T1Known, T1Doing, Busy, T1!Readable, T1!Writable
    <3> QED BY <1>4, <2>1, <3>5, <3>6 DEF T1Inv
  <2> QED BY <2>2, <2>3
<1> QED BY <1>3, <1>5, <1>6

(* EraseNdef begins.                                                        *)
LEMMA T1EraseBegins ==
  ASSUME T1Inv, ~Busy, T1!EraseNdef
  PROVE  T1Inv' /\ WriteStep(T1!Writable)
<1> DEFINE s == Cmd("ClearNmn") \o
                  IF top.hdr THEN Cmd("ClearTlv") \o Cmd("ClearLen") \o Cells("Zero", 1, top.len)
                  ELSE Cmd("ClearNmn") \o Cmd("ClearVno")
<1>0. top.len \in Nat
  BY RoomPositive DEF T1Inv, T1Top
<1>1. /\ s \in Seq(Commands) /\ s # <<>> /\ Head(s).name = "ClearNmn"
      /\ Named(s, {"ClearNmn", "ClearVno", "ClearTlv", "ClearLen", "Zero"})
  BY <1>0, T1EraseStarts, Zenon
<1>2. tag' = tag /\ top' = top /\ Start("erase", None, s)
  <2>1. PICK x : /\ x = T1!Cmd("ClearNmn") \o
                         IF top.hdr THEN T1!Cmd("ClearTlv") \o T1!Cmd("ClearLen") \o T1!Cells("Zero", 1, top.len)
                         ELSE T1!Cmd("ClearNmn") \o T1!Cmd("ClearVno")
                 /\ tag' = tag /\ top' = top /\ T1!Start("erase", None, x)
    BY DEF T1!EraseNdef
  <2>2. x = s
    BY <2>1, Zenon DEF T1!Cmd, Cmd, T1!Cell, Cell, T1!Cells, Cells
  <2> HIDE DEF s
  <2> QED BY <2>1, <2>2, T1Calls
<1> HIDE DEF s
<1>3. call'.op = "erase" /\ call'.msg = None /\ call'.todo = s
  BY <1>1, <1>2, Started DEF T1Inv, CallOK, Operations
<1>4. T1Erasing' /\ T1Top'
  BY <1>1, <1>2, <1>3 DEF T1Erasing, Head1, T1Inv, T1Top
<1> QED BY <1>1, <1>2, <1>4, T1Begins DEF Operations

(* SetReadOnly begins.                                                      *)
LEMMA T1LockBegins ==
  ASSUME T1Inv, ~Busy, T1!SetReadOnly
  PROVE  T1Inv' /\ WriteStep(T1!Writable)
<1> DEFINE s == Cmd("WriteRwa") \o Cmd("Lock")
<1>1. s \in Seq(Commands) /\ Len(s) = 2 /\ Named(s, {"WriteRwa", "Lock"})
  <2>1. PICK a, b : a = Cmd("WriteRwa") /\ b = Cmd("Lock")
    OBVIOUS
  <2>2. PICK names : names = {"WriteRwa", "Lock"}
    OBVIOUS
  <2>3. "WriteRwa" \in Names /\ "Lock" \in Names /\ 0 \in Nat /\ 0 <= 0 + 1
    BY DEF Names
  <2>4. a \in Seq(Commands) /\ Named(a, names) /\ Len(a) = 1
    BY <2>1, <2>2, <2>3, NamedCommands, OneCommand
  <2>5. b \in Seq(Commands) /\ Named(b, names) /\ Len(b) = 1
    BY <2>1, <2>2, <2>3, NamedCommands, OneCommand
  <2>6. a \o b \in Seq(Commands) /\ Named(a \o b, names) /\ Len(a \o b) = 2
    BY <2>4, <2>5, NamedTogether, Together
  <2> QED BY <2>1, <2>2, <2>6
<1>2. tag' = tag /\ top' = [top EXCEPT !.rwa = "RO"] /\ Start("readonly", None, s)
  <2>1. PICK x : /\ x = T1!Cmd("WriteRwa") \o T1!Cmd("Lock")
                 /\ tag' = tag /\ top' = [top EXCEPT !.rwa = "RO"] /\ T1!Start("readonly", None, x)
    BY DEF T1!SetReadOnly
  <2>2. x = s
    BY <2>1, Zenon DEF T1!Cmd, Cmd, T1!Cell, Cell, T1!Cells, Cells
  <2> HIDE DEF s
  <2> QED BY <2>1, <2>2, T1Calls
<1> HIDE DEF s
<1>3. s # <<>>
  BY <1>1, EmptySeq
<1>4. call'.op = "readonly" /\ call'.msg = None /\ call'.todo = s
  BY <1>1, <1>2, Started DEF T1Inv, CallOK, Operations
<1>5. T1Locking' /\ T1Top'
  BY <1>1, <1>2, <1>4 DEF T1Locking, T1Inv, T1Top, Access
<1> QED BY <1>1, <1>2, <1>3, <1>5, T1Begins DEF Operations

(* SetConfig of the write access keeps the invariant.                       *)
LEMMA T1SetsAccess ==
  ASSUME T1Inv, ~Busy, T1!SetReadWrite
  PROVE  T1Inv' /\ WriteStep(T1!Writable)
<1>1. top' = [top EXCEPT !.rwa = "RW"] /\ tag' = tag /\ call' = call
  BY DEF T1!SetReadWrite
<1>2. T1Top' /\ top'.rwa = "RW" /\ top'.len = top.len /\ top'.support = top.support
      /\ top'.state = top.state /\ T1Tag' /\ CallOK'
  BY <1>1 DEF T1Inv, T1Top, Access, T1Tag, CallOK, Busy
<1>3. T1Doing' /\ T1Known'
  BY <1>1, <1>2 DEF T1Inv, T1Doing, T1Known, Busy, T1!Readable
<1>4. EndedWell(call, T1!Content, T1!Writable)
  BY DEF T1Inv
<1>5. EndedWell(call, T1!Content, T1!Writable)' /\ WriteStep(T1!Writable)
  <2>1. T1!Content' = T1!Content /\ T1!Writable' = T1!Writable
    BY <1>1, T1ContentIs DEF T1!Content, T1!Writable
  <2> QED BY <1>1, <1>4, <2>1 DEF EndedWell, Ended, WriteStep
<1> QED BY <1>2, <1>3, <1>5 DEF T1Inv

(* Every step on a type 1 tag keeps its invariant.                          *)
LEMMA T1NextKeeps ==
  ASSUME T1Inv, T1!Next
  PROVE  /\ T1Inv' /\ WriteStep(T1!Writable)
         /\ \/ ~Busy /\ tag' = tag /\ Begun
            \/ Busy /\ Keeps /\ Effect(call, T1!Content, None, T1!Content', None)
<1>1. CASE T1!Answer
  BY <1>1, T1AnswerKeeps
<1>2. CASE T1!Refused \/ T1!NoAnswer
  BY <1>2, T1LossKeeps
<1>3. CASE T1!Operation
  BY <1>3, T1Begun, T1CheckBegins, T1FormatBegins, T1WriteBegins, T1ReadBegins, T1EraseBegins,
     T1LockBegins, T1SetsAccess DEF T1!Operation
<1> QED BY <1>1, <1>2, <1>3 DEF T1!Next

-----------------------------------------------------------------------------
(* What one more cell is to a reader.                                       *)
LEMMA OneMoreCell ==
  ASSUME CallOK, GotCells, NEW k, k = Len(call.got) + 1, tag.cells[k] \in CellValues,
         call'.got = Append(call.got, tag.cells[k]), tag'.cells = tag.cells
  PROVE  GotCells' /\ Len(call'.got) = k
<1>1. call.got \in Seq(CellValues) /\ Len(call.got) \in Nat
  BY LenProperties DEF CallOK, Calls, CellValues
<1> QED BY <1>1, AppendProperties DEF GotCells

-----------------------------------------------------------------------------
(* Type 2.                                                                  *)

(* The module of type 2 says of the session what TagSession says.           *)
LEMMA T2Session ==
  /\ T2!Busy <=> Busy
  /\ T2!Head1 = Head1
  /\ \A c, t, s : T2!Go(c, t, s) = Go(c, t, s)
  /\ \A x : T2!Reply(x) = Reply(x)
  /\ \A g : T2!Lost(g) = Lost(g)
  /\ \A s, n : T2!Stored(s, n) = Stored(s, n)
<1>1. \A c, t, s : T2!Go(c, t, s) = Go(c, t, s)
  BY Zenon DEF T2!Go, Go
<1>2. \A s, n : T2!Stored(s, n) = Stored(s, n)
  BY Zenon DEF T2!Stored, Stored
<1>3. (T2!Busy <=> Busy) /\ T2!Head1 = Head1
  BY DEF T2!Busy, Busy, T2!Head1, Head1
<1>4. (\A x : T2!Reply(x) = Reply(x)) /\ \A g : T2!Lost(g) = Lost(g)
  BY DEF T2!Reply, Reply, T2!Lost, Lost
<1> QED BY <1>1, <1>2, <1>3, <1>4, Zenon

(* The module of type 2 begins and refuses operations as TagSession does.   *)
LEMMA T2Calls ==
  ASSUME NEW op, NEW m, NEW t
  PROVE  (T2!Start(op, m, t) <=> Start(op, m, t)) /\ (T2!Refuse(op, m, t) <=> Refuse(op, m, t))
BY Zenon DEF T2!Start, Start, T2!Refuse, Refuse

(* The message on a tag of type 2.                                          *)
LEMMA T2ContentIs ==
  /\ T2!Content = IF tag.nmn = "E1" /\ tag.tlv THEN Stored(tag.cells, tag.len) ELSE None
  /\ T2!Hidden = IF tag.nmn = "00" /\ tag.tlv THEN Stored(tag.cells, tag.len) ELSE None
BY T2Session, Zenon DEF T2!Content, T2!Hidden

(* A message on its way to the tag, by a format or a write.                 *)
T2Storing(m, n, left) ==
  /\ call.op \in {"format", "write"} /\ call.msg = m /\ m \in Fitting /\ n = Size[m] /\ left = Left
  /\ n \in 1 .. Room /\ left \in 1 .. n + 4 /\ (call.op = "write" => left \in 1 .. n + 2)
  /\ Follows(call.todo, T2MessagePlan(m)) /\ T2Written(m, n, left)
  /\ (call.op = "format" /\ left <= n + 2) \/ (call.op = "write" /\ call.checked) =>
       tag.nmn = "E1" /\ top.hdr /\ top.presence

(* A message that fits has a size between 1 and Room.                       *)
LEMMA FittingSizes ==
  ASSUME NEW m \in Fitting
  PROVE  m \in Messages /\ Size[m] \in 1 .. Room /\ Room \in Nat
BY Sizes, RoomPositive DEF Fitting

(* A format and a write store a message.                                    *)
LEMMA T2Stores ==
  ASSUME CallOK, Busy, T2Formatting \/ T2Writing
  PROVE  T2Storing(call.msg, Size[call.msg], Left)
<1>1. call.msg \in Fitting
  BY DefaultAssumption DEF Fitting, T2Formatting, T2Writing
<1> QED BY <1>1, FittingSizes, Heading DEF T2Formatting, T2Writing, T2Storing

(* The command a format or a write is at.                                   *)
LEMMA T2StoringHead ==
  ASSUME CallOK, Busy, NEW m, NEW n, NEW left, T2Storing(m, n, left)
  PROVE  \/ left = 1 /\ Head1 = C("WriteHeader", n)
         \/ left \in 2 .. n /\ Head1 = C("Data", n + 2 - left)
         \/ left = n + 1 /\ Head1 = C("WriteHeader", 0)
         \/ left = n + 2 /\ Head1 = C("ReadHeader", 0)
         \/ left = n + 3 /\ call.op = "format" /\ Head1 = C("VerifyCc", 0)
         \/ left = n + 4 /\ call.op = "format" /\ Head1 = C("WriteCc", 0)
<1>1. Head1 = T2MessagePlan(m)[left] /\ left \in 1 .. n + 4 /\ n = Size[m] /\ n \in 1 .. Room
  BY Heading, FollowsTail DEF T2Storing, Head1, Left
<1>2. (left = n + 3 \/ left = n + 4) => call.op = "format"
  BY <1>1 DEF T2Storing
<1> QED BY <1>1, <1>2 DEF T2MessagePlan

(* The command a check, an erase or SetReadOnly is at.                      *)
LEMMA T2PlanHead ==
  ASSUME CallOK, Busy
  PROVE  /\ T2Checking => Left = 1 /\ Head1.name \in {"CheckCc", "CheckTlv"}
         /\ T2Erasing => \/ Left = 1 /\ Head1 = C("VerifyErased", 0)
                         \/ Left = 2 /\ Head1 = C("ClearNmn", 0)
         /\ T2Reading => Left <= top.len /\ Head1 = C("Read", top.len + 1 - Left)
         /\ T2Locking => Head1.name \in {"ReadLock", "WriteRo", "WriteLock"}
<1>0. /\ \A plan : Follows(call.todo, plan) => Head1 = plan[Left]
      /\ Left \in Nat /\ Left > 0
  BY Heading, FollowsTail DEF Head1, Left
<1>1. ASSUME T2Erasing
      PROVE  \/ Left = 1 /\ Head1 = C("VerifyErased", 0)
             \/ Left = 2 /\ Head1 = C("ClearNmn", 0)
  <2>1. Left \in 1 .. 2 /\ Head1 = T2ErasePlan[Left]
    BY <1>0, <1>1 DEF T2Erasing
  <2> QED BY <1>1, <2>1 DEF T2ErasePlan
<1>2. ASSUME T2Reading
      PROVE  Left <= top.len /\ Head1 = C("Read", top.len + 1 - Left)
  <2>1. Left \in 1 .. top.len /\ Head1 = ReadPlan[Left]
    BY <1>0, <1>2 DEF T2Reading, ReadingCells
  <2> QED BY <2>1 DEF ReadPlan
<1>3. T2Locking => Head1.name \in {"ReadLock", "WriteRo", "WriteLock"}
  BY Heading, NamedTail DEF T2Locking, Head1
<1> QED BY <1>1, <1>2, <1>3 DEF T2Checking

(* A call sends a command of its operation.                                 *)
LEMMA T2Sends ==
  ASSUME CallOK, Busy, T2Doing
  PROVE  LET m == call.msg
             n == Size[call.msg] IN
         /\ Head1.name = "ClearNmn" => T2Erasing
         /\ Head1.name = "WriteCc" => call.op = "format"
         /\ Head1.name = "WriteHeader" =>
              T2Storing(m, n, Left) /\ ((Left = 1 /\ Head1.k = n) \/ (Left = n + 1 /\ Head1.k = 0))
         /\ Head1.name = "Data" => T2Storing(m, n, Left) /\ Left \in 2 .. n /\ Head1.k = n + 2 - Left
         /\ Head1.name \in {"WriteRo", "WriteLock"} => T2Locking
         /\ Head1.name = "Read" => T2Reading /\ Left <= top.len /\ Head1.k = top.len + 1 - Left
         /\ Head1.name = "CheckCc" => T2Checking
<1>1. CASE T2Checking
  BY <1>1, T2PlanHead
<1>2. CASE T2Formatting \/ T2Writing
  <2>1. T2Storing(call.msg, Size[call.msg], Left)
    BY <1>2, T2Stores
  <2> QED BY <2>1, T2StoringHead DEF C
<1>3. CASE T2Reading
  BY <1>3, T2PlanHead DEF C
<1>4. CASE T2Erasing
  BY <1>4, T2PlanHead DEF C
<1>5. CASE T2Locking
  BY <1>5, T2PlanHead
<1> QED BY <1>1, <1>2, <1>3, <1>4, <1>5 DEF T2Doing

(* What a command does to the tag and to the message on it.                 *)
LEMMA T2Executed ==
  ASSUME T2Inv, Busy, ~T2!Refuses(Head1), tag' = T2!Execute(Head1)
  PROVE  T2Tag' /\ Effect(call, T2!Content, T2!Hidden, T2!Content', T2!Hidden')
<1> USE DEF T2Inv
<1>0. /\ T2!Content = IF tag.nmn = "E1" /\ tag.tlv THEN Stored(tag.cells, tag.len) ELSE None
      /\ T2!Hidden = IF tag.nmn = "00" /\ tag.tlv THEN Stored(tag.cells, tag.len) ELSE None
      /\ T2!Content' = IF tag'.nmn = "E1" /\ tag'.tlv THEN Stored(tag'.cells, tag'.len) ELSE None
      /\ T2!Hidden' = IF tag'.nmn = "00" /\ tag'.tlv THEN Stored(tag'.cells, tag'.len) ELSE None
  BY T2ContentIs, T2Session DEF T2!Content, T2!Hidden
<1>1. CASE Head1.name \notin {"ClearNmn", "WriteCc", "WriteRo", "WriteHeader", "Data", "WriteLock"}
  <2>1. tag' = tag
    BY <1>1 DEF T2!Execute
  <2> QED BY <2>1, <1>0 DEF T2Tag, Effect
<1>2. CASE Head1.name = "ClearNmn"
  <2>1. tag' = T2!WithCc("00", top.rwa) /\ call.op = "erase"
    BY <1>2, T2Sends DEF T2!Execute, T2Erasing
  <2>2. /\ tag'.nmn \in {tag.nmn, "00"} /\ tag'.tlv = tag.tlv /\ tag'.cells = tag.cells
        /\ tag'.len = tag.len /\ T2Tag'
    BY <2>1 DEF T2!WithCc, T2Tag, T2Top
  <2> QED BY <2>1, <2>2, <1>0 DEF Effect, T2Tag
<1>3. CASE Head1.name = "WriteCc"
  <2>1. tag' = T2!WithCc("E1", "RW") /\ call.op = "format"
    BY <1>3, T2Sends DEF T2!Execute
  <2>2. /\ tag'.nmn = "E1" /\ tag'.tlv = tag.tlv /\ tag'.cells = tag.cells
        /\ tag'.len = tag.len /\ T2Tag'
    BY <2>1 DEF T2!WithCc, T2Tag, Access
  <2> QED BY <2>1, <2>2, <1>0 DEF Effect, T2Tag
<1>4. CASE Head1.name = "WriteRo"
  <2>1. tag' = T2!WithCc(tag.nmn, "RO")
    BY <1>4 DEF T2!Execute
  <2>2. /\ tag'.nmn = tag.nmn /\ tag'.tlv = tag.tlv /\ tag'.cells = tag.cells
        /\ tag'.len = tag.len /\ T2Tag'
    BY <2>1 DEF T2!WithCc, T2Tag, Access
  <2> QED BY <2>2, <1>0 DEF Effect
<1>5. CASE Head1.name = "WriteHeader"
  <2>1. tag' = [tag EXCEPT !.tlv = TRUE, !.len = Head1.k, !.cells[1] = call.msg]
    BY <1>5 DEF T2!Execute
  <2>2. PICK m, n, left :
          /\ m = call.msg /\ n = Size[m] /\ left = Left /\ T2Storing(m, n, left)
          /\ (left = 1 /\ Head1.k = n) \/ (left = n + 1 /\ Head1.k = 0)
    BY <1>5, T2Sends
  <2>3. /\ n \in 1 .. Room /\ m \in Messages /\ m \in CellValues /\ call.op \in {"format", "write"}
        /\ 1 \in Area /\ Head1.k \in 0 .. Room
    BY <2>2, FittingSizes, RoomPositive DEF T2Storing, CellValues
  <2>4. /\ tag'.nmn = tag.nmn /\ tag'.tlv /\ tag'.len = Head1.k
        /\ tag'.cells = [tag.cells EXCEPT ![1] = m] /\ T2Tag'
    <3>1. tag.cells \in [Area -> CellValues] /\ call.msg = m
      BY <2>2 DEF T2Tag
    <3>2. PICK c : c = [tag.cells EXCEPT ![1] = m]
      OBVIOUS
    <3>3. c \in [Area -> CellValues]
      BY <2>3, <3>1, <3>2
    <3>4. tag' = [tag EXCEPT !.tlv = TRUE, !.len = Head1.k, !.cells = c]
      BY <2>1, <3>1, <3>2 DEF T2Tag
    <3>5. /\ tag'.nmn = tag.nmn /\ tag'.len = Head1.k /\ tag'.cells = c
      BY <3>4 DEF T2Tag
    <3>6. tag'.tlv
      BY <3>4 DEF T2Tag
    <3>7. T2Tag'
      BY <2>3, <3>3, <3>4 DEF T2Tag
    <3> QED BY <3>2, <3>5, <3>6, <3>7
  <2>5. CASE Head1.k = 0
    <3>1. Stored(tag'.cells, tag'.len) = None
      BY <2>4, <2>5, StoredNothing
    <3> QED BY <1>0, <2>3, <2>4, <3>1 DEF Effect
  <2>6. CASE left = 1 /\ Head1.k = n
    <3>1. \A k \in 2 .. n : tag.cells[k] = m
      BY <2>2, <2>3, <2>6 DEF T2Storing, T2Written
    <3>2. \A k \in 1 .. n : tag'.cells[k] = m
      BY <2>3, <2>4, <3>1, RoomPositive DEF T2Tag
    <3>3. Stored(tag'.cells, tag'.len) = m
      <4>1. tag'.len = Size[m] /\ \A k \in 1 .. Size[m] : tag'.cells[k] = m
        BY <2>2, <2>4, <2>6, <3>2
      <4> QED BY <2>3, <4>1, StoredWhole
    <3> QED BY <1>0, <2>2, <2>3, <2>4, <3>3 DEF Effect, T2Tag
  <2> QED BY <2>2, <2>5, <2>6
<1>6. CASE Head1.name = "Data"
  <2>1. tag' = [tag EXCEPT !.cells[Head1.k] = call.msg]
    BY <1>6 DEF T2!Execute
  <2>2. tag.len = 0 /\ call.msg \in CellValues
    BY <1>6, T2Sends, FittingSizes DEF T2Storing, T2Written, CellValues
  <2>3. T2Tag' /\ tag'.nmn = tag.nmn /\ tag'.tlv = tag.tlv /\ tag'.len = 0
    BY <2>1, <2>2 DEF T2Tag
  <2> QED BY <2>2, <2>3, <1>0, StoredNothing DEF Effect
<1>7. CASE Head1.name = "WriteLock"
  <2>1. tag' = [tag EXCEPT !.locked = TRUE]
    BY <1>7 DEF T2!Execute
  <2>2. /\ tag'.nmn = tag.nmn /\ tag'.tlv = tag.tlv /\ tag'.cells = tag.cells
        /\ tag'.len = tag.len /\ T2Tag'
    BY <2>1 DEF T2Tag
  <2> QED BY <2>2, <1>0 DEF Effect
<1> QED BY <1>1, <1>2, <1>3, <1>4, <1>5, <1>6, <1>7

(* What an answer makes of the call.                                        *)
LEMMA T2Answered ==
  ASSUME T2Inv, T2!Answer
  PROVE  /\ Busy /\ ~T2!Refuses(Head1) /\ tag' = T2!Execute(Head1) /\ Keeps /\ call'.clean = call.clean
         /\ top' = IF Head1.name = "WriteLock" THEN [top EXCEPT !.state = "READONLY"] ELSE T2!Learnt(Head1)
         /\ call'.got = IF Head1.name = "Read" THEN Append(call.got, tag.cells[Head1.k]) ELSE call.got
         /\ T2!Verdict(Head1) = "BUSY" /\ Left # 1 => GoesOn(Tail(call.todo))
         /\ T2!Verdict(Head1) = "BUSY" /\ Left = 1 =>
              IF Head1.name = "CheckCc" /\ tag.nmn = "E1" THEN GoesOn(Cmd("CheckTlv")) ELSE Succeeds
         /\ T2!Verdict(Head1) = "SUCCESS" => Succeeds
         /\ T2!Verdict(Head1) \notin {"BUSY", "SUCCESS"} => Fails
<1>1. /\ Busy /\ ~T2!Refuses(Head1) /\ tag' = T2!Execute(Head1)
      /\ call' = Go(IF Head1.name = "Read" THEN Reply(tag.cells[Head1.k]) ELSE call,
                    T2!Rest(Head1), T2!Verdict(Head1))
      /\ top' = IF Head1.name = "WriteLock" THEN [top EXCEPT !.state = "READONLY"] ELSE T2!Learnt(Head1)
  BY T2Session DEF T2!Answer
<1>2. CallOK /\ T2Doing
  BY DEF T2Inv
<1>3. T2!Verdict(Head1) \in Statuses
  BY DEF T2!Verdict, Statuses
<1>4. ASSUME Head1.name = "Read"
      PROVE  tag.cells[Head1.k] \in CellValues
  <2>1. Head1.k \in Area
    BY <1>1, <1>2, <1>4, T2Sends, Heading, RoomPositive DEF T2Inv, T2Top, T2Reading
  <2> QED BY <2>1 DEF T2Inv, T2Tag
<1>a. PICK cell, todo : cell = tag.cells[Head1.k] /\ todo = T2!Rest(Head1)
  OBVIOUS
<1>5. PICK verdict \in Statuses, read \in BOOLEAN :
        /\ verdict = T2!Verdict(Head1) /\ read = (Head1.name = "Read") /\ cell = tag.cells[Head1.k]
        /\ todo = T2!Rest(Head1)
  BY <1>a, <1>3
<1>6. call' = Go(IF read THEN Reply(cell) ELSE call, todo, verdict)
  BY <1>1, <1>5
<1>7. read => cell \in CellValues
  BY <1>4, <1>5
<1>8. todo = IF Head1.name = "CheckCc" /\ tag.nmn = "E1" THEN Cmd("CheckTlv") ELSE Tail(call.todo)
  BY <1>5, T2Session, Zenon DEF T2!Rest, T2!Cmd, Cmd
<1>9. /\ Tail(call.todo) \in Seq(Commands)
      /\ (Tail(call.todo) = <<>>) <=> (Left = 1)
      /\ Cmd("CheckTlv") \in Seq(Commands) /\ Len(Cmd("CheckTlv")) = 1
  BY <1>1, <1>2, Heading, OneCommand DEF Names
<1>10. Cmd("CheckTlv") # <<>>
  <2>1. PICK s : s = Cmd("CheckTlv")
    OBVIOUS
  <2>2. Len(s) = 1 /\ Len(<<>>) = 0
    BY <1>9, <2>1
  <2> QED BY <2>1, <2>2
<1>11. todo \in Seq(Commands)
  BY <1>8, <1>9
<1>12. /\ Keeps /\ call'.clean = call.clean
       /\ call'.got = IF read THEN Append(call.got, cell) ELSE call.got
       /\ verdict = "BUSY" /\ todo # <<>> => GoesOn(todo)
       /\ verdict = "SUCCESS" \/ (verdict = "BUSY" /\ todo = <<>>) => Succeeds
       /\ verdict \notin {"BUSY", "SUCCESS"} => Fails
  BY <1>1, <1>2, <1>6, <1>7, <1>11, AnswerGoes, Zenon
<1>13. Head1.name = "CheckCc" => Left = 1
  BY <1>1, <1>2, T2Sends DEF T2Checking
<1> QED BY <1>1, <1>5, <1>8, <1>9, <1>10, <1>12, <1>13 DEF GoesOn, Succeeds, Fails

(* A call that fails keeps the invariant.                                   *)
LEMMA T2FailsKeeps ==
  ASSUME Keeps, Fails, T2Tag', T2Top'
  PROVE  T2Inv'
BY NotEnded DEF T2Inv, Keeps, Fails, T2Doing, T2Known, CallOK, Busy

(* An answer to a check keeps the invariant.                                *)
LEMMA T2AnswerCheck ==
  ASSUME T2Inv, T2Checking, T2!Answer
  PROVE  T2Inv' /\ WriteStep(T2!Writable)
<1>1. /\ Busy /\ tag' = T2!Execute(Head1) /\ Keeps /\ CallOK /\ T2Tag /\ T2Top /\ T2Tag'
      /\ call.op = "check" /\ call.msg = None /\ ~call.checked /\ Left = 1
      /\ Head1.name \in {"CheckCc", "CheckTlv"}
  BY T2Answered, T2Executed DEF T2Inv, T2Checking
<1>2. EndedWell(call, T2!Content, T2!Writable)' /\ WriteStep(T2!Writable)
  BY <1>1, NotEnded DEF Keeps, WriteStep
<1>3. tag' = tag /\ T2!Verdict(Head1) = "BUSY" /\ top' = T2!Learnt(Head1)
  BY <1>1, T2Answered DEF T2!Execute, T2!Verdict
<1>4. CASE Head1.name = "CheckCc" /\ tag.nmn = "E1"
  <2>1. GoesOn(Cmd("CheckTlv")) /\ top' = [top EXCEPT !.formatted = TRUE, !.rwa = tag.rwa]
    <3>1. T2!Learnt(Head1) = [top EXCEPT !.formatted = TRUE, !.rwa = tag.rwa]
      BY <1>4 DEF T2!Learnt, T2!LastHeader
    <3> QED BY <1>1, <1>3, <1>4, <3>1, T2Answered
  <2>2. T2Top' /\ top'.rwa = tag.rwa
    BY <1>1, <2>1 DEF T2Top, T2Tag
  <2>3. Busy' /\ ~call'.checked /\ Left' = 1 /\ Head1'.name = "CheckTlv"
    <3>1. PICK s : s = Cmd("CheckTlv")
      OBVIOUS
    <3>2. s \in Seq(Commands) /\ Len(s) = 1 /\ s[1] = C("CheckTlv", 0) /\ C("CheckTlv", 0).name = "CheckTlv"
      BY <3>1, OneCommand DEF Names, C
    <3>3. call'.todo = s /\ Busy' /\ ~call'.checked
      BY <1>1, <2>1, <3>1 DEF GoesOn, Busy
    <3>4. Head(s) = s[1]
      BY <3>2, HeadTailProperties, TodoTail, EmptySeq
    <3> QED BY <3>2, <3>3, <3>4 DEF Left, Head1
  <2>4. T2Checking'
    BY <1>1, <1>3, <1>4, <2>2, <2>3 DEF T2Checking, Keeps
  <2> QED BY <1>1, <1>2, <2>2, <2>3, <2>4 DEF T2Inv, T2Doing, T2Known, Keeps
<1>5. CASE Head1.name = "CheckCc" /\ tag.nmn # "E1"
  <2>1. Succeeds /\ top' = [top EXCEPT !.formatted = TRUE] /\ ~top.hdr /\ ~top.presence
    <3>1. tag.nmn = "00"
      BY <1>1, <1>5 DEF T2Tag
    <3>2. T2!Learnt(Head1) = [top EXCEPT !.formatted = TRUE]
      BY <1>5, <3>1 DEF T2!Learnt, T2!LastHeader
    <3>3. ~top.hdr /\ ~top.presence
      BY <1>5 DEF T2Checking
    <3> QED BY <1>1, <1>3, <1>5, <3>2, <3>3, T2Answered
  <2>2. T2Top' /\ ~top'.hdr /\ ~top'.presence
    BY <1>1, <2>1 DEF T2Top
  <2>3. T2Known' /\ T2Doing'
    BY <1>3, <1>5, <2>1, <2>2 DEF T2Known, T2Doing, Busy, Succeeds, T2!Readable, T2!Writable
  <2> QED BY <1>1, <1>2, <2>2, <2>3 DEF T2Inv, Keeps
<1>6. CASE Head1.name = "CheckTlv"
  <2>1. Succeeds /\ tag.nmn = "E1" /\ top.rwa = tag.rwa
    BY <1>1, <1>3, <1>6, T2Answered DEF T2Checking
  <2>2. PICK len \in 0 .. Room, hdr \in BOOLEAN :
          len = (IF tag.tlv THEN tag.len ELSE 0) /\ hdr = tag.tlv
    BY <1>1, RoomPositive DEF T2Tag
  <2>3. top' = T2!Detected(top.rwa, hdr, len)
    <3>1. T2!Learnt(Head1) = T2!Detected(top.rwa, tag.tlv, IF tag.tlv THEN tag.len ELSE 0)
      BY <1>6 DEF T2!Learnt, T2!LastHeader
    <3> QED BY <1>3, <2>2, <3>1, Zenon
  <2>4. /\ top'.len = len /\ top'.rwa = tag.rwa
        /\ top'.state = (IF ~hdr \/ (len = 0 /\ top.rwa = "RO") THEN "UNKNOWN"
                         ELSE IF len = 0 THEN "INITIALIZED"
                         ELSE IF top.rwa = "RW" THEN "READWRITE" ELSE "READONLY")
    BY <1>1, <2>1, <2>3 DEF T2!Detected, T2Top
  <2>5. top'.hdr = hdr
    BY <1>1, <2>3 DEF T2!Detected, T2Top
  <2>6. top'.presence = (hdr /\ (len # 0 \/ top.rwa = "RW"))
    BY <1>1, <2>3 DEF T2!Detected, T2Top
  <2>7. T2Top'
    BY <1>1, <2>3 DEF T2!Detected, T2Top, States
  <2>8. T2Known' /\ T2Doing'
    BY <1>1, <1>3, <2>1, <2>2, <2>4, <2>5, <2>6
    DEF T2Known, T2Doing, Busy, Succeeds, T2!Readable, T2!Writable, T2Tag
  <2> QED BY <1>1, <1>2, <2>7, <2>8 DEF T2Inv, Keeps
<1> QED BY <1>1, <1>4, <1>5, <1>6

(* An answer to SetReadOnly keeps the invariant.                            *)
LEMMA T2AnswerLock ==
  ASSUME T2Inv, T2Locking, T2!Answer
  PROVE  T2Inv' /\ WriteStep(T2!Writable)
<1>1. /\ Busy /\ Keeps /\ CallOK /\ T2Tag /\ T2Top /\ T2Tag'
      /\ call.op = "readonly" /\ call.msg = None
  BY T2Answered, T2Executed DEF T2Inv, T2Locking
<1>2. WriteStep(T2!Writable) /\ EndedWell(call, T2!Content, T2!Writable)'
  BY <1>1, NotEnded DEF Keeps, WriteStep
<1>3. Head1.name \in {"ReadLock", "WriteRo", "WriteLock"}
  BY <1>1, T2PlanHead
<1>4. /\ top' = top \/ top' = [top EXCEPT !.state = "READONLY"]
      /\ GoesOn(Tail(call.todo)) \/ Succeeds
  BY <1>1, <1>3, T2Answered DEF T2!Verdict, T2!Learnt, T2!LastHeader
<1>5. T2Top'
  BY <1>1, <1>4 DEF T2Top, States
<1>6. CASE GoesOn(Tail(call.todo))
  <2>1. Busy' /\ T2Locking'
    BY <1>1, <1>6, Onwards DEF GoesOn, T2Locking, Keeps
  <2> QED BY <1>1, <1>2, <1>5, <2>1 DEF T2Inv, T2Doing, T2Known, Keeps
<1>7. CASE Succeeds
  <2>1. call'.status = "SUCCESS" /\ ~call'.checked
    BY <1>1, <1>7 DEF Succeeds
  <2> QED BY <1>1, <1>2, <1>5, <2>1 DEF T2Inv, T2Doing, T2Known, Busy, Keeps
<1> QED BY <1>4, <1>6, <1>7

(* An answer to an erase keeps the invariant.                               *)
LEMMA T2AnswerErase ==
  ASSUME T2Inv, T2Erasing, T2!Answer
  PROVE  T2Inv' /\ WriteStep(T2!Writable)
<1>1. /\ Busy /\ tag' = T2!Execute(Head1) /\ Keeps /\ CallOK /\ T2Tag /\ T2Top /\ T2Tag'
      /\ call.op = "erase" /\ call.msg = None
  BY T2Answered, T2Executed DEF T2Inv, T2Erasing
<1>2. WriteStep(T2!Writable)
  BY <1>1 DEF Keeps, WriteStep
<1>3. CASE Left = 2
  <2>1. Head1.name = "ClearNmn"
    BY <1>1, <1>3, T2PlanHead DEF C
  <2>2. GoesOn(Tail(call.todo)) /\ top' = top
    BY <1>1, <1>3, <2>1, T2Answered DEF T2!Verdict, T2!Learnt, T2!LastHeader
  <2>3. Busy' /\ T2Erasing' /\ T2Top' /\ call'.status = "BUSY"
    <3>1. Busy' /\ Left' = 1 /\ Follows(call'.todo, T2ErasePlan) /\ call'.status = "BUSY"
      BY <1>1, <1>3, <2>2, Onwards DEF GoesOn, T2Erasing
    <3>2. T2ErasePlan' = T2ErasePlan
      BY DEF T2ErasePlan
    <3> QED BY <1>1, <2>2, <3>1, <3>2 DEF T2Erasing, Keeps, T2Top
  <2> QED BY <1>1, <1>2, <2>3, NotEnded DEF T2Inv, T2Doing, T2Known, Keeps
<1>4. CASE Left = 1
  <2>1. Head1.name = "VerifyErased"
    BY <1>1, <1>4, T2PlanHead DEF C
  <2>2. CASE tag.nmn = "00"
    <3>1. /\ Succeeds /\ tag' = tag
          /\ top' = [top EXCEPT !.state = "UNKNOWN", !.formatted = TRUE, !.presence = FALSE,
                                !.hdr = FALSE, !.len = 0]
      <4>1. T2!Verdict(Head1) = "BUSY" /\ T2!Execute(Head1) = tag
        BY <2>1, <2>2 DEF T2!Verdict, T2!Execute
      <4>2. T2!Learnt(Head1) = [top EXCEPT !.state = "UNKNOWN", !.formatted = TRUE, !.presence = FALSE,
                                           !.hdr = FALSE, !.len = 0]
        BY <2>1, <2>2 DEF T2!Learnt, T2!LastHeader
      <4> QED BY <1>1, <1>4, <2>1, <2>2, <4>1, <4>2, T2Answered
    <3>2. T2Top' /\ ~top'.hdr /\ ~top'.presence
      <4>1. 0 \in 0 .. Room /\ "UNKNOWN" \in States
        BY RoomPositive DEF States
      <4> QED BY <1>1, <3>1, <4>1 DEF T2Top
    <3>3. T2Doing' /\ T2Known'
      BY <2>2, <3>1, <3>2 DEF T2Known, T2Doing, Busy, Succeeds, T2!Readable, T2!Writable
    <3>4. T2!Content' = None
      BY <2>2, <3>1 DEF T2!Content
    <3>5. EndedWell(call, T2!Content, T2!Writable)'
      BY <1>1, <3>1, <3>4 DEF EndedWell, Ended, Succeeds, Keeps
    <3> QED BY <1>1, <1>2, <3>2, <3>3, <3>5 DEF T2Inv, Keeps
  <2>3. CASE tag.nmn # "00"
    <3>1. Fails /\ top' = top
      BY <1>1, <1>4, <2>1, <2>3, T2Answered DEF T2!Verdict, T2!Learnt, T2!LastHeader
    <3> QED BY <1>1, <1>2, <3>1, T2FailsKeeps DEF T2Top
  <2> QED BY <2>2, <2>3
<1> QED BY <1>1, <1>3, <1>4, T2PlanHead

(* An answer to a read keeps the invariant.                                 *)
LEMMA T2AnswerRead ==
  ASSUME T2Inv, T2Reading, T2!Answer
  PROVE  T2Inv' /\ WriteStep(T2!Writable)
<1>1. /\ Busy /\ tag' = T2!Execute(Head1) /\ Keeps /\ CallOK /\ T2Tag /\ T2Top /\ T2Tag'
      /\ call.op = "read" /\ call.msg = None
  BY T2Answered, T2Executed DEF T2Inv, T2Reading, ReadingCells
<1>2. WriteStep(T2!Writable)
  BY <1>1 DEF Keeps, WriteStep
<1>3. /\ Head1.name = "Read" /\ Head1.k = top.len + 1 - Left /\ Left \in 1 .. top.len
      /\ top.len \in Nat
  BY <1>1, T2PlanHead, Heading, RoomPositive DEF C, T2Top
<1>4. tag' = tag /\ T2!Verdict(Head1) = "BUSY" /\ T2!Learnt(Head1) = top
  BY <1>1, <1>3 DEF T2!Execute, T2!Verdict, T2!Learnt, T2!LastHeader
<1>5. /\ top' = top
      /\ Left # 1 => GoesOn(Tail(call.todo))
      /\ Left = 1 => Succeeds
      /\ call'.got = Append(call.got, tag.cells[Head1.k])
  BY <1>3, <1>4, T2Answered
<1>6. GotCells' /\ Len(call'.got) = top.len + 1 - Left
  <2>1. top.len + 1 - Left = Len(call.got) + 1 /\ GotCells
    BY <1>1, <1>3 DEF T2Reading, ReadingCells, CallOK, Calls
  <2>2. tag.cells[Head1.k] \in CellValues
    BY <1>1, <1>3, RoomPositive DEF T2Tag, T2Top
  <2> QED BY <1>1, <1>3, <1>4, <1>5, <2>1, <2>2, OneMoreCell
<1>7. CASE Left # 1
  <2>1. /\ Busy' /\ Left' = Left - 1 /\ Follows(call'.todo, ReadPlan) /\ call'.status = "BUSY"
        /\ call'.checked = call.checked
    BY <1>1, <1>5, <1>7, Onwards DEF GoesOn, T2Reading, ReadingCells
  <2>2. ReadPlan' = ReadPlan
    BY <1>5 DEF ReadPlan
  <2>3. T2Reading'
    BY <1>1, <1>3, <1>5, <1>6, <2>1, <2>2 DEF T2Reading, ReadingCells, Keeps, T2!Readable
  <2>4. T2Known'
    BY <1>1, <1>4, <1>5, <2>1 DEF T2Inv, T2Known, Keeps, T2!Readable, T2!Writable
  <2> QED BY <1>1, <1>2, <1>5, <2>1, <2>3, <2>4, NotEnded DEF T2Inv, T2Doing, T2Top, Keeps
<1>8. CASE Left = 1
  <2>1. call'.status = "SUCCESS" /\ call'.op = "read" /\ (call'.checked => call.checked)
    BY <1>1, <1>5, <1>8 DEF Succeeds, Keeps
  <2>2. T2Doing' /\ T2Known'
    BY <1>1, <1>4, <1>5, <2>1 DEF T2Inv, T2Doing, T2Known, Busy, T2!Readable, T2!Writable
  <2>3. call'.checked => Stored(call'.got, Len(call'.got)) = T2!Content'
    <3>1. SUFFICES ASSUME call.checked
                   PROVE  Stored(call'.got, Len(call'.got)) = T2!Content'
      BY <2>1
    <3>2. tag.nmn = "E1" /\ tag.tlv /\ top.len = tag.len
      BY <1>1, <3>1 DEF T2Inv, T2Known, T2Reading
    <3>3. Stored(call'.got, Len(call'.got)) = Stored(tag.cells, Len(call'.got))
      BY <1>4, <1>6, StoredSame DEF GotCells
    <3>4. Len(call'.got) = tag.len
      BY <1>3, <1>6, <1>8, <3>2
    <3>5. T2!Content' = Stored(tag.cells, tag.len)
      BY <1>4, <3>2, T2Session DEF T2!Content
    <3> QED BY <3>3, <3>4, <3>5
  <2>4. EndedWell(call, T2!Content, T2!Writable)'
    BY <2>1, <2>3 DEF EndedWell, Ended
  <2> QED BY <1>1, <1>2, <1>5, <2>2, <2>4 DEF T2Inv, T2Top, Keeps
<1> QED BY <1>7, <1>8

(* A format or a write goes on to its next command.                         *)
LEMMA T2StoringGoes ==
  ASSUME T2Inv, Busy, NEW m, NEW n, NEW left, T2Storing(m, n, left), left # 1,
         Keeps, call'.status = "BUSY", call'.todo = Tail(call.todo), call'.checked = call.checked,
         T2Tag', T2Top', T2Written(m, n, left - 1)',
         (call.op = "format" /\ left - 1 <= n + 2) \/ (call.op = "write" /\ call.checked) =>
           tag'.nmn = "E1" /\ top'.hdr /\ top'.presence
  PROVE  T2Inv' /\ WriteStep(T2!Writable)
<1>1. /\ call.op \in {"format", "write"} /\ call.msg = m /\ m \in Fitting /\ n = Size[m] /\ left = Left
      /\ n \in 1 .. Room /\ left \in 1 .. n + 4 /\ (call.op = "write" => left \in 1 .. n + 2)
      /\ Follows(call.todo, T2MessagePlan(m)) /\ CallOK
  BY DEF T2Storing, T2Inv
<1>2. /\ Busy' /\ Left' = left - 1 /\ Follows(call'.todo, T2MessagePlan(m)) /\ call'.status = "BUSY"
      /\ call'.checked = call.checked /\ call'.op = call.op /\ call'.msg = m /\ CallOK'
  BY <1>1, Onwards DEF GoesOn, Keeps
<1>3. call.op = "format" => call.msg = Default
  BY DEF T2Inv, T2Doing, T2Checking, T2Formatting, T2Writing, T2Erasing, T2Locking, T2Reading, ReadingCells
<1>4. CASE call.op = "format"
  <2>1. T2Formatting'
    BY <1>1, <1>2, <1>3, <1>4 DEF T2Formatting, T2MessagePlan
  <2> QED BY <1>2, <1>4, <2>1, NotEnded DEF T2Inv, T2Doing, T2Known, WriteStep
<1>5. CASE call.op = "write"
  <2>1. T2Writing'
    BY <1>1, <1>2, <1>5 DEF T2Writing, T2MessagePlan
  <2>2. T2Known'
    BY <1>2, <1>5 DEF T2Known
  <2> QED BY <1>2, <1>5, <2>1, <2>2, NotEnded DEF T2Inv, T2Doing, WriteStep
<1> QED BY <1>1, <1>4, <1>5

(* An answer to a format or a write keeps the invariant.                    *)
LEMMA T2AnswerStore ==
  ASSUME T2Inv, T2Formatting \/ T2Writing, T2!Answer
  PROVE  T2Inv' /\ WriteStep(T2!Writable)
<1>1. /\ Busy /\ tag' = T2!Execute(Head1) /\ Keeps /\ CallOK /\ T2Tag /\ T2Top /\ T2Tag'
  BY T2Answered, T2Executed DEF T2Inv
<1>2. PICK m, n, left :
        /\ m = call.msg /\ n = Size[m] /\ left = Left /\ T2Storing(m, n, left)
  BY <1>1, T2Stores
<1>3. /\ call.op \in {"format", "write"} /\ m \in Fitting /\ m \in Messages
      /\ n \in 1 .. Room /\ left \in 1 .. n + 4 /\ (call.op = "write" => left \in 1 .. n + 2)
      /\ T2Written(m, n, left) /\ Room \in Nat
      /\ (call.op = "format" /\ left <= n + 2) \/ (call.op = "write" /\ call.checked) =>
           tag.nmn = "E1" /\ top.hdr /\ top.presence
  BY <1>2, FittingSizes DEF T2Storing
<1>4. \/ left = 1 /\ Head1 = C("WriteHeader", n)
      \/ left \in 2 .. n /\ Head1 = C("Data", n + 2 - left)
      \/ left = n + 1 /\ Head1 = C("WriteHeader", 0)
      \/ left = n + 2 /\ Head1 = C("ReadHeader", 0)
      \/ left = n + 3 /\ call.op = "format" /\ Head1 = C("VerifyCc", 0)
      \/ left = n + 4 /\ call.op = "format" /\ Head1 = C("WriteCc", 0)
  BY <1>1, <1>2, T2StoringHead
<1>5. CASE left = n + 4 /\ call.op = "format" /\ Head1 = C("WriteCc", 0)
  <2>1. GoesOn(Tail(call.todo)) /\ top' = top
    <3>1. T2!Verdict(Head1) = "BUSY" /\ T2!Learnt(Head1) = top /\ Head1.name = "WriteCc"
      BY <1>5 DEF T2!Verdict, T2!Learnt, T2!LastHeader, C
    <3> QED BY <1>2, <1>3, <1>5, <3>1, T2Answered
  <2>2. T2Written(m, n, left - 1)'
    BY <1>3, <1>5 DEF T2Written
  <2>3. T2Top' /\ left # 1 /\ ~(left - 1 <= n + 2)
    BY <1>1, <1>3, <1>5, <2>1 DEF T2Top
  <2> QED BY <1>1, <1>2, <1>5, <2>1, <2>2, <2>3, T2StoringGoes DEF GoesOn
<1>6. CASE left = n + 3 /\ call.op = "format" /\ Head1 = C("VerifyCc", 0)
  <2>1. tag' = tag /\ Head1.name = "VerifyCc"
    BY <1>1, <1>6 DEF T2!Execute, C
  <2>2. CASE tag.nmn = "E1" /\ tag.rwa = "RW"
    <3>1. /\ GoesOn(Tail(call.todo))
          /\ top' = [top EXCEPT !.hdr = TRUE, !.state = "INITIALIZED", !.presence = TRUE]
      <4>1. /\ T2!Verdict(Head1) = "BUSY"
            /\ T2!Learnt(Head1) = [top EXCEPT !.hdr = TRUE, !.state = "INITIALIZED", !.presence = TRUE]
        BY <2>1, <2>2 DEF T2!Verdict, T2!Learnt, T2!LastHeader
      <4> QED BY <1>2, <1>3, <1>6, <2>1, <4>1, T2Answered
    <3>2. T2Top' /\ top'.hdr /\ top'.presence
      BY <1>1, <3>1 DEF T2Top, States
    <3>3. T2Written(m, n, left - 1)' /\ left # 1
      BY <1>3, <1>6 DEF T2Written
    <3> QED BY <1>1, <1>2, <2>1, <2>2, <3>1, <3>2, <3>3, T2StoringGoes DEF GoesOn
  <2>3. CASE ~(tag.nmn = "E1" /\ tag.rwa = "RW")
    <3>1. Fails /\ top' = top
      <4>1. T2!Verdict(Head1) = "UNSUPPORTED_COMMAND" /\ T2!Learnt(Head1) = top
        BY <2>1, <2>3 DEF T2!Verdict, T2!Learnt, T2!LastHeader
      <4> QED BY <2>1, <4>1, T2Answered
    <3> QED BY <1>1, <1>6, <3>1, T2FailsKeeps DEF T2Top, Keeps, WriteStep
  <2> QED BY <2>2, <2>3
<1>7. CASE left = n + 2 /\ Head1 = C("ReadHeader", 0)
  <2>1. GoesOn(Tail(call.todo)) /\ top' = top /\ tag' = tag
    <3>1. /\ T2!Verdict(Head1) = "BUSY" /\ T2!Learnt(Head1) = top /\ T2!Execute(Head1) = tag
          /\ Head1.name = "ReadHeader"
      BY <1>7 DEF T2!Verdict, T2!Learnt, T2!LastHeader, T2!Execute, C
    <3> QED BY <1>1, <1>2, <1>3, <1>7, <3>1, T2Answered
  <2>2. T2Written(m, n, left - 1)'
    BY <1>3, <1>7 DEF T2Written
  <2>3. T2Top' /\ left # 1 /\ left <= n + 2
    BY <1>1, <1>3, <1>7, <2>1 DEF T2Top
  <2> QED BY <1>1, <1>2, <1>3, <2>1, <2>2, <2>3, T2StoringGoes DEF GoesOn
<1>8. CASE left = n + 1 /\ Head1 = C("WriteHeader", 0)
  <2>1. GoesOn(Tail(call.todo)) /\ top' = top
    <3>1. T2!Verdict(Head1) = "BUSY" /\ T2!Learnt(Head1) = top /\ Head1.name = "WriteHeader"
      BY <1>8 DEF T2!Verdict, T2!Learnt, T2!LastHeader, C
    <3> QED BY <1>2, <1>3, <1>8, <3>1, T2Answered
  <2>2. tag' = [tag EXCEPT !.tlv = TRUE, !.len = 0, !.cells[1] = m]
    BY <1>1, <1>2, <1>8 DEF T2!Execute, C
  <2>3. tag'.len = 0 /\ tag'.cells[1] = m /\ tag'.nmn = tag.nmn
    BY <1>1, <1>3, <2>2, RoomPositive DEF T2Tag
  <2>6. tag'.tlv
    BY <1>1, <2>2 DEF T2Tag
  <2>4. T2Written(m, n, left - 1)'
    BY <1>3, <1>8, <2>3, <2>6 DEF T2Written
  <2>5. T2Top' /\ left # 1 /\ left <= n + 2
    BY <1>1, <1>3, <1>8, <2>1 DEF T2Top
  <2> QED BY <1>1, <1>2, <1>3, <2>1, <2>3, <2>4, <2>5, T2StoringGoes DEF GoesOn
<1>9. CASE left \in 2 .. n /\ Head1 = C("Data", n + 2 - left)
  <2>1. GoesOn(Tail(call.todo)) /\ top' = top
    <3>1. T2!Verdict(Head1) = "BUSY" /\ T2!Learnt(Head1) = top /\ Head1.name = "Data"
      BY <1>9 DEF T2!Verdict, T2!Learnt, T2!LastHeader, C
    <3> QED BY <1>2, <1>3, <1>9, <3>1, T2Answered
  <2>2. tag' = [tag EXCEPT !.cells[n + 2 - left] = m]
    BY <1>1, <1>2, <1>9 DEF T2!Execute, C
  <2>7. /\ left <= n => tag.tlv /\ tag.len = 0 /\ tag.cells[1] = m
        /\ \A k \in 2 .. n : left <= n + 1 - k => tag.cells[k] = m
    BY <1>3 DEF T2Written
  <2>3. /\ tag'.len = 0 /\ tag'.cells[1] = m /\ tag'.nmn = tag.nmn
        /\ \A k \in 2 .. n : k = n + 2 - left \/ left <= n + 1 - k => tag'.cells[k] = m
    <3>1. PICK j \in 2 .. n : j = n + 2 - left /\ j \in Area
      BY <1>3, <1>9, RoomPositive
    <3>2. /\ tag'.len = tag.len /\ tag'.nmn = tag.nmn
          /\ \A k \in Area : tag'.cells[k] = IF k = j THEN m ELSE tag.cells[k]
      BY <1>1, <2>2, <3>1 DEF T2Tag
    <3>3. \A k \in 1 .. n : k \in Area
      BY <1>3, RoomPositive
    <3> QED BY <1>3, <1>9, <2>7, <3>1, <3>2, <3>3
  <2>6. tag'.tlv
    BY <1>1, <1>3, <1>9, <2>2, <2>7 DEF T2Tag
  <2>4. T2Written(m, n, left - 1)'
    <3>1. \A k \in 2 .. n : left - 1 <= n + 1 - k => k = n + 2 - left \/ left <= n + 1 - k
      BY <1>3, <1>9
    <3> QED BY <1>3, <1>9, <2>3, <2>6, <3>1 DEF T2Written
  <2>5. T2Top' /\ left # 1 /\ left <= n + 2
    BY <1>1, <1>3, <1>9, <2>1 DEF T2Top
  <2> QED BY <1>1, <1>2, <1>3, <2>1, <2>3, <2>4, <2>5, T2StoringGoes DEF GoesOn
<1>10. CASE left = 1 /\ Head1 = C("WriteHeader", n)
  <2>0. Head1.name = "WriteHeader" /\ Head1.k = n /\ n # 0
    BY <1>3, <1>10 DEF C
  <2>1. Succeeds /\ top' = [top EXCEPT !.state = "READWRITE", !.presence = TRUE, !.len = n]
    <3>1. /\ T2!Verdict(Head1) = "BUSY"
          /\ T2!Learnt(Head1) = [top EXCEPT !.state = "READWRITE", !.presence = TRUE, !.len = n]
      BY <2>0 DEF T2!Verdict, T2!Learnt, T2!LastHeader
    <3> QED BY <1>2, <1>3, <1>10, <2>0, <3>1, T2Answered
  <2>2. tag' = [tag EXCEPT !.tlv = TRUE, !.len = n, !.cells[1] = m]
    BY <1>1, <1>2, <2>0 DEF T2!Execute
  <2>3. \A k \in 2 .. n : tag.cells[k] = m
    BY <1>3, <1>10 DEF T2Written
  <2>4. /\ tag'.len = n /\ tag'.nmn = tag.nmn
        /\ \A k \in 1 .. n : tag'.cells[k] = m
    BY <1>1, <1>3, <2>2, <2>3, RoomPositive DEF T2Tag
  <2>5. tag'.tlv
    BY <1>1, <2>2 DEF T2Tag
  <2>6. T2Top' /\ top'.len = n /\ top'.state = "READWRITE"
    <3>1. n \in 0 .. Room /\ "READWRITE" \in States
      BY <1>3 DEF States
    <3>2. top' = [top EXCEPT !.state = "READWRITE", !.presence = TRUE, !.len = n]
      BY <2>1
    <3>3. T2Top
      BY <1>1
    <3> QED BY <3>1, <3>2, <3>3 DEF T2Top
  <2>13. top'.hdr = top.hdr
    BY <1>1, <2>1 DEF T2Top
  <2>7. top'.presence
    BY <1>1, <2>1 DEF T2Top
  <2>8. /\ call'.status = "SUCCESS" /\ call'.op = call.op /\ call'.msg = m
        /\ call'.checked => call.checked
    <3>1. call'.status = "SUCCESS" /\ call'.op = call.op /\ call'.msg = m
      BY <1>1, <1>2, <2>1 DEF Succeeds, Keeps
    <3>2. call'.checked => call.checked
      BY <1>3, <2>1 DEF Succeeds
    <3> QED BY <3>1, <3>2, Zenon
  <2>9. call.op = "format" \/ call.checked => tag.nmn = "E1" /\ top.hdr
    BY <1>3, <1>10
  <2>10. T2Doing' /\ T2Known'
    BY <2>4, <2>5, <2>6, <2>7, <2>8, <2>9, <2>13 DEF T2Doing, T2Known, Busy
  <2>11. tag.nmn = "E1" => T2!Content' = m
    <3>1. Stored(tag'.cells, tag'.len) = m
      BY <1>2, <1>3, <2>4, StoredWhole
    <3> QED BY <2>4, <2>5, <3>1, T2Session DEF T2!Content
  <2>12. EndedWell(call, T2!Content, T2!Writable)' /\ WriteStep(T2!Writable)
    BY <1>3, <2>8, <2>9, <2>11 DEF EndedWell, Ended, WriteStep
  <2> QED BY <1>1, <2>6, <2>10, <2>12 DEF T2Inv, Keeps
<1> QED BY <1>4, <1>5, <1>6, <1>7, <1>8, <1>9, <1>10

(* Every answer of a type 2 tag keeps the invariant.                        *)
LEMMA T2AnswerKeeps ==
  ASSUME T2Inv, T2!Answer
  PROVE  /\ T2Inv' /\ WriteStep(T2!Writable) /\ Busy /\ Keeps
         /\ Effect(call, T2!Content, T2!Hidden, T2!Content', T2!Hidden')
<1>1. Busy /\ Keeps /\ Effect(call, T2!Content, T2!Hidden, T2!Content', T2!Hidden')
  BY T2Answered, T2Executed
<1>2. T2Checking \/ T2Formatting \/ T2Writing \/ T2Erasing \/ T2Locking \/ T2Reading
  BY <1>1 DEF T2Inv, T2Doing
<1> QED BY <1>1, <1>2, T2AnswerCheck, T2AnswerStore, T2AnswerErase, T2AnswerLock, T2AnswerRead

-----------------------------------------------------------------------------
(* No answer, or a refusal.                                                 *)
LEMMA T2Lost ==
  ASSUME T2Inv, T2!Refused \/ T2!NoAnswer
  PROVE  /\ Busy /\ Keeps /\ T2Top' /\ (call'.clean => tag.locked)
         /\ tag' = tag \/ (~T2!Refuses(Head1) /\ tag' = T2!Execute(Head1))
         /\ Head1.name = "WriteCc" =>
              /\ call'.status = "BUSY" /\ call'.todo = Tail(call.todo) /\ call'.checked = call.checked
              /\ top' = top
         /\ Head1.name = "CheckCc" => Succeeds /\ ~call'.clean /\ top' = top /\ tag' = tag
         /\ Head1.name \notin {"WriteCc", "CheckCc"} => Fails
<1>1. /\ Busy /\ CallOK /\ T2Top /\ call.gone \in BOOLEAN /\ call.clean \in BOOLEAN /\ T2Doing
      /\ Head1 \in Commands
  BY T2Session, Heading DEF T2!Refused, T2!NoAnswer, T2Inv, CallOK, Calls
<1>2. PICK lost \in BOOLEAN, gone \in BOOLEAN :
        /\ T2!Failed(IF lost THEN Lost(gone) ELSE call, Head1)
        /\ ~lost => T2!Refuses(Head1) /\ tag' = tag
        /\ lost => tag' = tag \/ (~T2!Refuses(Head1) /\ tag' = T2!Execute(Head1))
  <2>1. CASE T2!Refused
    <3>1. T2!Failed(call, Head1) /\ T2!Refuses(Head1) /\ tag' = tag
      BY <2>1, T2Session DEF T2!Refused
    <3> QED BY <3>1
  <2>2. CASE T2!NoAnswer
    <3>1. /\ tag' = tag \/ (~T2!Refuses(Head1) /\ tag' = T2!Execute(Head1))
          /\ \E g \in BOOLEAN : T2!Failed(Lost(call.gone \/ g), Head1)
      BY <2>2, T2Session DEF T2!NoAnswer, T2!Maybe, T2!Loss
    <3>2. PICK g \in BOOLEAN : T2!Failed(Lost(call.gone \/ g), Head1)
      BY <3>1
    <3>3. PICK gone \in BOOLEAN : gone = (call.gone \/ g)
      BY <1>1
    <3>4. T2!Failed(Lost(gone), Head1)
      BY <3>2, <3>3
    <3> QED BY <3>1, <3>4
  <2> QED BY <2>1, <2>2
<1>3. PICK c : c = IF lost THEN Lost(gone) ELSE call
  OBVIOUS
<1>4. /\ call' = CASE Head1.name = "WriteCc" -> Go(c, Tail(c.todo), "BUSY")
                   [] Head1.name = "CheckCc" -> Go(c, <<>>, "SUCCESS")
                   [] OTHER -> Go(c, <<>>, IF c.clean THEN "REFUSED" ELSE "TIMEOUT")
      /\ top' = LET t == IF T2!LastHeader(Head1) THEN [top EXCEPT !.len = Head1.k] ELSE top IN
                IF c.op = "format" /\ Head1.name \in {"ReadHeader", "WriteHeader", "Data"}
                THEN [t EXCEPT !.state = "UNKNOWN", !.hdr = FALSE, !.presence = FALSE] ELSE t
  <2>1. T2!Failed(c, Head1)
    BY <1>2, <1>3
  <2> QED BY <2>1, T2Session, Zenon DEF T2!Failed
<1>5. T2Top' /\ (Head1.name \in {"WriteCc", "CheckCc"} => top' = top)
  <2>1. PICK t : /\ t = IF T2!LastHeader(Head1) THEN [top EXCEPT !.len = Head1.k] ELSE top
                 /\ \/ top' = t
                    \/ /\ top' = [t EXCEPT !.state = "UNKNOWN", !.hdr = FALSE, !.presence = FALSE]
                       /\ Head1.name \in {"ReadHeader", "WriteHeader", "Data"}
    BY <1>4
  <2>2. T2!LastHeader(Head1) => Head1.name = "WriteHeader" /\ Head1.k \in 0 .. Room
    BY <1>1, T2Sends, RoomPositive DEF T2!LastHeader, T2Storing
  <2>3. t \in [formatted : BOOLEAN, presence : BOOLEAN, state : States, rwa : Access,
               hdr : BOOLEAN, len : 0 .. Room]
    BY <1>1, <2>1, <2>2 DEF T2Top
  <2>4. "UNKNOWN" \in States
    BY DEF States
  <2> QED BY <2>1, <2>2, <2>3, <2>4 DEF T2Top
<1>6. c.todo = call.todo
  BY <1>1, <1>3, LostCall DEF CallOK
<1>7. PICK todo \in Seq(Commands), verdict \in Statuses :
        /\ call' = Go(c, todo, verdict)
        /\ Head1.name = "WriteCc" => verdict = "BUSY" /\ todo = Tail(call.todo)
        /\ Head1.name = "CheckCc" => verdict = "SUCCESS"
        /\ Head1.name \notin {"WriteCc", "CheckCc"} => verdict \notin {"BUSY", "SUCCESS"}
  <2>1. <<>> \in Seq(Commands) /\ Tail(call.todo) \in Seq(Commands)
    BY <1>1, Heading, EmptySeq
  <2>2. {"BUSY", "SUCCESS", "REFUSED", "TIMEOUT"} \subseteq Statuses
    BY DEF Statuses
  <2>3. CASE Head1.name = "WriteCc"
    <3>1. call' = Go(c, Tail(call.todo), "BUSY")
      BY <1>4, <1>6, <2>3
    <3> QED BY <2>1, <2>2, <2>3, <3>1
  <2>4. CASE Head1.name = "CheckCc"
    <3>1. call' = Go(c, <<>>, "SUCCESS")
      BY <1>4, <2>4
    <3> QED BY <2>1, <2>2, <2>4, <3>1
  <2>5. CASE Head1.name \notin {"WriteCc", "CheckCc"}
    <3>1. call' = Go(c, <<>>, "REFUSED") \/ call' = Go(c, <<>>, "TIMEOUT")
      BY <1>4, <2>5
    <3> QED BY <2>1, <2>2, <2>5, <3>1
  <2> QED BY <2>3, <2>4, <2>5
<1>8. call' = Go(IF lost THEN Lost(gone) ELSE call, todo, verdict)
  BY <1>3, <1>7
<1>9. /\ Keeps /\ call'.clean = (call.clean /\ ~lost)
      /\ verdict = "BUSY" /\ todo # <<>> =>
              call'.status = "BUSY" /\ call'.todo = todo /\ call'.checked = call.checked
      /\ verdict = "SUCCESS" \/ (verdict = "BUSY" /\ todo = <<>>) => Succeeds
      /\ verdict \notin {"BUSY", "SUCCESS"} => Fails
  BY <1>1, <1>8, LossGoes
<1>10. Head1.name = "WriteCc" => Tail(call.todo) # <<>>
  <2>1. SUFFICES ASSUME Head1.name = "WriteCc"
                 PROVE  Tail(call.todo) # <<>>
    OBVIOUS
  <2>2. T2Formatting \/ T2Writing
    BY <1>1, <2>1, T2PlanHead DEF T2Doing, C
  <2>3. T2Storing(call.msg, Size[call.msg], Left)
    BY <1>1, <2>2, T2Stores
  <2>4. Left # 1
    BY <1>1, <2>1, <2>3, T2StoringHead DEF C, T2Storing
  <2> QED BY <1>1, <2>4, Heading
<1>11. Head1.name = "CheckCc" => lost /\ tag' = tag
  BY <1>2 DEF T2!Refuses, T2!Execute
<1>12. (call'.clean => tag.locked)
  BY <1>1, <1>2, <1>9 DEF T2!Refuses
<1>13. tag' = tag \/ (~T2!Refuses(Head1) /\ tag' = T2!Execute(Head1))
  BY <1>2
<1>14. Head1.name = "WriteCc" =>
         call'.status = "BUSY" /\ call'.todo = Tail(call.todo) /\ call'.checked = call.checked
  BY <1>7, <1>9, <1>10
<1>15. /\ Head1.name = "CheckCc" => Succeeds /\ ~call'.clean
       /\ Head1.name \notin {"WriteCc", "CheckCc"} => Fails
  BY <1>7, <1>9, <1>11
<1> QED BY <1>1, <1>5, <1>9, <1>11, <1>12, <1>13, <1>14, <1>15, Zenon

(* So does a refusal, and a command or an answer that is lost.              *)
LEMMA T2LossKeeps ==
  ASSUME T2Inv, T2!Refused \/ T2!NoAnswer
  PROVE  /\ T2Inv' /\ WriteStep(T2!Writable) /\ Busy /\ Keeps
         /\ Effect(call, T2!Content, T2!Hidden, T2!Content', T2!Hidden')
<1>1. /\ Busy /\ Keeps /\ T2Top' /\ (call'.clean => tag.locked)
      /\ tag' = tag \/ (~T2!Refuses(Head1) /\ tag' = T2!Execute(Head1))
  BY T2Lost
<1>2. T2Tag' /\ Effect(call, T2!Content, T2!Hidden, T2!Content', T2!Hidden')
  <2>1. CASE tag' = tag
    BY <2>1, T2ContentIs, T2Session DEF T2Inv, T2Tag, Effect, T2!Content, T2!Hidden
  <2> QED BY <1>1, <2>1, T2Executed
<1>3. WriteStep(T2!Writable)
  BY <1>1 DEF WriteStep, T2!Writable
<1>4. CallOK /\ T2Doing
  BY DEF T2Inv
<1>5. CASE Head1.name \notin {"WriteCc", "CheckCc"}
  BY <1>1, <1>2, <1>3, <1>5, T2Lost, T2FailsKeeps
<1>6. CASE Head1.name = "CheckCc"
  <2>1. Succeeds /\ ~call'.clean /\ tag' = tag /\ top' = top /\ T2Checking
    BY <1>1, <1>4, <1>6, T2Lost, T2Sends
  <2>2. call'.status = "SUCCESS" /\ call'.op = "check" /\ ~call'.checked
    BY <1>1, <2>1 DEF Succeeds, Keeps, T2Checking
  <2>3. T2Doing' /\ T2Known'
    BY <2>2 DEF T2Doing, T2Known, Busy
  <2> QED BY <1>1, <1>2, <1>3, <2>2, <2>3, NotEnded DEF T2Inv, Keeps
<1>7. CASE Head1.name = "WriteCc"
  <2>1. PICK m, n, left :
          /\ m = call.msg /\ n = Size[m] /\ left = Left /\ T2Storing(m, n, left)
    <3>1. T2Formatting \/ T2Writing
      BY <1>1, <1>4, <1>7, T2PlanHead DEF T2Doing, C
    <3> QED BY <1>1, <1>4, <3>1, T2Stores
  <2>2. n \in 1 .. Room /\ left \in 1 .. n + 4 /\ Room \in Nat
    BY <2>1, RoomPositive DEF T2Storing
  <2>3. left = n + 4 /\ call.op = "format"
    BY <1>1, <1>4, <1>7, <2>1, T2StoringHead DEF C
  <2>4. T2Written(m, n, left - 1)'
    BY <2>2, <2>3 DEF T2Written
  <2>5. left # 1 /\ ~(left - 1 <= n + 2)
    BY <2>2, <2>3
  <2>6. call'.status = "BUSY" /\ call'.todo = Tail(call.todo) /\ call'.checked = call.checked
    BY <1>7, T2Lost
  <2>7. T2Inv'
    BY <1>1, <1>2, <2>1, <2>3, <2>4, <2>5, <2>6, T2StoringGoes
  <2> QED BY <1>1, <1>2, <1>3, <2>7
<1> QED BY <1>5, <1>6, <1>7

-----------------------------------------------------------------------------
(* The commands an operation starts with.                                   *)
LEMMA FirstThen ==
  ASSUME NEW n \in Nat, NEW plan, NEW s, NEW l \in Nat, First(s, l, n, plan),
         NEW t \in Seq(Commands), Len(t) + l = n, Follows(t, plan)
  PROVE  First(s \o t, n, n, plan)
<1>1. s \in Seq(Commands) /\ Len(s) = l /\ Len(t) \in Nat /\ \A i \in 1 .. l : s[i] = plan[n + 1 - i]
  BY LenProperties DEF First
<1>2. /\ s \o t \in Seq(Commands) /\ Len(s \o t) = Len(s) + Len(t)
      /\ \A i \in 1 .. Len(s) : (s \o t)[i] = s[i]
      /\ \A i \in 1 .. Len(t) : (s \o t)[Len(s) + i] = t[i]
  BY <1>1, Together
<1>3. ASSUME NEW i \in 1 .. n
      PROVE  (s \o t)[i] = plan[n + 1 - i]
  <2>1. CASE i <= l
    BY <1>1, <1>2, <2>1
  <2>2. CASE i > l
    <3>1. PICK e \in 1 .. Len(t) : i = l + e /\ n + 1 - i = Len(t) + 1 - e
      <4>1. i - l \in 1 .. Len(t)
        BY <1>1, <2>2
      <4> QED BY <1>1, <4>1
    <3> QED BY <1>1, <1>2, <3>1 DEF Follows
  <2>3. i <= l \/ i > l
    OBVIOUS
  <2> QED BY <2>1, <2>2, <2>3
<1>4. Len(s \o t) = n
  BY <1>1, <1>2
<1> QED BY <1>2, <1>3, <1>4 DEF First

(* The commands of a write.                                                 *)
LEMMA T2MessageStarts ==
  ASSUME NEW m \in Messages
  PROVE  LET s == Cmd("ReadHeader") \o Cell("WriteHeader", 0) \o Cells("Data", 2, Size[m])
                  \o Cell("WriteHeader", Size[m])
         IN  s \in Seq(Commands) /\ Len(s) = Size[m] + 2 /\ Follows(s, T2MessagePlan(m))
<1>a. PICK p : p = T2MessagePlan(m)
  OBVIOUS
<1>0. PICK n \in Nat : n = Size[m] /\ n > 0 /\ p = T2MessagePlan(m)
  BY <1>a, Sizes
<1>1. /\ p[n + 2] = C("ReadHeader", 0) /\ p[n + 1] = C("WriteHeader", 0) /\ p[1] = C("WriteHeader", n)
  BY <1>0 DEF T2MessagePlan
<1>2. ASSUME NEW k \in 2 .. n, NEW r, r = n + 2 - k
      PROVE  p[r] = C("Data", k)
  <2>1. r \in 1 .. n + 4 /\ r \in 2 .. n /\ n + 2 - r = k
    BY <1>2
  <2> QED BY <1>0, <2>1 DEF T2MessagePlan
<1> DEFINE s1 == Cell("ReadHeader", 0)
           s2 == s1 \o Cell("WriteHeader", 0)
           s3 == s2 \o Cells("Data", 2, n)
           s4 == s3 \o Cell("WriteHeader", n)
<1>3. First(s1, 1, n + 2, p)
  BY <1>1, FirstNone DEF Names
<1>4. First(s2, 2, n + 2, p)
  BY <1>1, <1>3, FirstOne DEF Names
<1> HIDE DEF s2
<1>5. First(s3, n + 1, n + 2, p)
  <2>1. /\ \A k \in 2 .. n : p[n + 2 - 2 + 2 - k] = C("Data", k)
        /\ n + 1 = 2 + (n + 1 - 2) /\ 2 <= n + 1 /\ n + 2 \in Nat /\ "Data" \in Names
    BY <1>0, <1>2 DEF Names
  <2> QED BY <1>4, <2>1, FirstMany
<1> HIDE DEF s3
<1>6. First(s4, n + 2, n + 2, p)
  BY <1>1, <1>5, FirstOne DEF Names
<1> HIDE DEF s4
<1>7. s4 \in Seq(Commands) /\ Len(s4) = n + 2 /\ Follows(s4, p)
  BY <1>6, FirstAll
<1>8. s4 = Cmd("ReadHeader") \o Cell("WriteHeader", 0) \o Cells("Data", 2, Size[m])
                  \o Cell("WriteHeader", Size[m])
  BY <1>0, CmdIsCell DEF s2, s3, s4
<1> QED BY <1>0, <1>7, <1>8

(* The commands of FormatNdef.                                              *)
LEMMA T2FormatStarts ==
  ASSUME NEW m \in Messages, NEW t \in Seq(Commands), Len(t) = Size[m] + 2, Follows(t, T2MessagePlan(m))
  PROVE  LET s == Cmd("WriteCc") \o Cmd("VerifyCc") \o t
         IN  s \in Seq(Commands) /\ Len(s) = Size[m] + 4 /\ Follows(s, T2MessagePlan(m))
<1>a. PICK p : p = T2MessagePlan(m)
  OBVIOUS
<1>0. PICK n \in Nat : n = Size[m] /\ n > 0 /\ p = T2MessagePlan(m)
  BY <1>a, Sizes
<1>1. /\ p[n + 4] = C("WriteCc", 0) /\ p[n + 3] = C("VerifyCc", 0)
  BY <1>0 DEF T2MessagePlan
<1> DEFINE s1 == Cell("WriteCc", 0)
           s2 == s1 \o Cell("VerifyCc", 0)
           s3 == s2 \o t
<1>3. First(s1, 1, n + 4, p)
  BY <1>1, FirstNone DEF Names
<1>4. First(s2, 2, n + 4, p)
  BY <1>1, <1>3, FirstOne DEF Names
<1> HIDE DEF s2
<1>5. First(s3, n + 4, n + 4, p)
  <2>1. Len(t) + 2 = n + 4 /\ n + 4 \in Nat /\ Follows(t, p)
    BY <1>0
  <2> QED BY <1>4, <2>1, FirstThen
<1> HIDE DEF s3
<1>7. s3 \in Seq(Commands) /\ Len(s3) = n + 4 /\ Follows(s3, p)
  BY <1>5, FirstAll
<1>8. s3 = Cmd("WriteCc") \o Cmd("VerifyCc") \o t
  BY <1>0, CmdIsCell DEF s2, s3
<1> QED BY <1>0, <1>7, <1>8

(* The commands of EraseNdef.                                               *)
LEMMA T2EraseStarts ==
  LET s == Cmd("ClearNmn") \o Cmd("VerifyErased")
  IN  s \in Seq(Commands) /\ Len(s) = 2 /\ Follows(s, T2ErasePlan)
<1>0. PICK p : p = T2ErasePlan
  OBVIOUS
<1>1. p[1] = C("VerifyErased", 0) /\ p[2] = C("ClearNmn", 0)
  BY <1>0 DEF T2ErasePlan
<1>2. First(Cell("ClearNmn", 0), 1, 2, p)
  BY <1>1, FirstNone DEF Names
<1>3. First(Cell("ClearNmn", 0) \o Cell("VerifyErased", 0), 2, 2, p)
  BY <1>1, <1>2, FirstOne DEF Names
<1> QED BY <1>0, <1>3, FirstAll, CmdIsCell

(* The commands of SetReadOnly.                                             *)
LEMMA T2LockStarts ==
  LET s == Cmd("ReadLock") \o Cmd("WriteRo") \o Cmd("WriteLock")
  IN  s \in Seq(Commands) /\ Len(s) = 3 /\ Named(s, {"ReadLock", "WriteRo", "WriteLock"})
<1>1. PICK a, b, c : a = Cmd("ReadLock") /\ b = Cmd("WriteRo") /\ c = Cmd("WriteLock")
  OBVIOUS
<1>2. PICK names : names = {"ReadLock", "WriteRo", "WriteLock"}
  OBVIOUS
<1>3. "ReadLock" \in Names /\ "WriteRo" \in Names /\ "WriteLock" \in Names /\ 0 \in Nat /\ 0 <= 0 + 1
  BY DEF Names
<1>4. a \in Seq(Commands) /\ Named(a, names) /\ Len(a) = 1
  BY <1>1, <1>2, <1>3, NamedCommands, OneCommand
<1>5. b \in Seq(Commands) /\ Named(b, names) /\ Len(b) = 1
  BY <1>1, <1>2, <1>3, NamedCommands, OneCommand
<1>6. c \in Seq(Commands) /\ Named(c, names) /\ Len(c) = 1
  BY <1>1, <1>2, <1>3, NamedCommands, OneCommand
<1>7. a \o b \in Seq(Commands) /\ Named(a \o b, names) /\ Len(a \o b) = 2
  BY <1>4, <1>5, NamedTogether, Together
<1>9. PICK d : d = a \o b
  OBVIOUS
<1>10. d \in Seq(Commands) /\ Named(d, names) /\ Len(d) = 2
  BY <1>7, <1>9
<1>8. d \o c \in Seq(Commands) /\ Named(d \o c, names) /\ Len(d \o c) = 3
  BY <1>6, <1>10, NamedTogether, Together
<1> QED BY <1>1, <1>2, <1>8, <1>9

(* A list with commands is not empty.                                       *)
LEMMA NotEmpty ==
  ASSUME NEW s \in Seq(Commands), Len(s) > 0
  PROVE  s # <<>>
BY EmptySeq

-----------------------------------------------------------------------------
(* An operation begins.                                                     *)
LEMMA T2Begins ==
  ASSUME T2Inv, ~Busy, NEW op \in Operations, NEW m \in Messages \cup {None},
         NEW todo \in Seq(Commands), todo # <<>>, Start(op, m, todo), tag' = tag, T2Top',
         op = "read" => top' = top,
         T2Checking' \/ T2Formatting' \/ T2Writing' \/ T2Erasing' \/ T2Locking' \/ T2Reading'
  PROVE  T2Inv' /\ WriteStep(T2!Writable)
<1>1. /\ CallOK' /\ call'.op = op /\ call'.status = "BUSY"
      /\ call'.checked => call.checked /\ op # "check"
  BY Started DEF T2Inv, CallOK
<1>2. T2Known'
  BY <1>1 DEF T2Inv, T2Known, Busy, T2!Readable, T2!Writable
<1>3. EndedWell(call, T2!Content, T2!Writable)' /\ WriteStep(T2!Writable)
  BY <1>1, NotEnded DEF WriteStep
<1> QED BY <1>1, <1>2, <1>3 DEF T2Inv, T2Tag, T2Doing

(* So does one that is refused at once.                                     *)
LEMMA T2Refuses ==
  ASSUME T2Inv, ~Busy, NEW op \in Operations, NEW m \in Messages \cup {None},
         NEW status \in Statuses, status \notin {"BUSY", "SUCCESS"}, Refuse(op, m, status),
         tag' = tag, top' = top \/ top' = [top EXCEPT !.rwa = "RO"],
         op = "write" => ~(call.checked /\ T2!Writable /\ Size[m] <= Room)
  PROVE  T2Inv' /\ WriteStep(T2!Writable)
<1>1. /\ CallOK' /\ call'.op = op /\ call'.msg = m /\ call'.status = status
      /\ call'.checked = call.checked
  BY WasRefused DEF T2Inv, CallOK
<1>2. T2Top' /\ top'.hdr = top.hdr /\ top'.len = top.len /\ top'.state = top.state
  BY DEF T2Inv, T2Top, Access
<1>4. top'.presence = top.presence
  BY DEF T2Inv, T2Top
<1>5. T2Known' /\ T2Doing' /\ T2Tag'
  BY <1>1, <1>2, <1>4 DEF T2Inv, T2Known, Busy, T2Doing, T2Tag, T2!Readable, T2!Writable
<1>3. T2!Writable' = T2!Writable
  BY DEF T2!Writable
<1>6. EndedWell(call, T2!Content, T2!Writable)' /\ WriteStep(T2!Writable)
  BY <1>1, <1>3 DEF WriteStep, EndedWell, Ended
<1> QED BY <1>1, <1>2, <1>5, <1>6 DEF T2Inv

(* What begins on a type 2 tag is an operation.                             *)
LEMMA T2Begun ==
  ASSUME T2!Operation
  PROVE  ~Busy /\ tag' = tag /\ Begun
<1> USE DEF Operations
<1>1. ~Busy
  BY T2Session DEF T2!Operation
<1>2. CASE T2!CheckNdef
  BY <1>1, <1>2, T2Calls, StartBegins DEF T2!CheckNdef
<1>3. CASE T2!FormatNdef
  BY <1>1, <1>3, T2Calls, StartBegins, DefaultAssumption DEF T2!FormatNdef
<1>4. CASE T2!ReadNdef
  BY <1>1, <1>4, T2Calls, StartBegins DEF T2!ReadNdef
<1>5. CASE T2!EraseNdef
  BY <1>1, <1>5, T2Calls, StartBegins DEF T2!EraseNdef
<1>6. CASE T2!SetReadOnly
  BY <1>1, <1>6, T2Calls, StartBegins DEF T2!SetReadOnly
<1>8. ASSUME NEW m \in Messages, T2!WriteNdef(m)
      PROVE  ~Busy /\ tag' = tag /\ Begun
  BY <1>1, <1>8, T2Calls, StartBegins DEF T2!WriteNdef
<1> QED BY <1>2, <1>3, <1>4, <1>5, <1>6, <1>8 DEF T2!Operation

(* CheckNdef begins.                                                        *)
LEMMA T2CheckBegins ==
  ASSUME T2Inv, ~Busy, T2!CheckNdef
  PROVE  T2Inv' /\ WriteStep(T2!Writable)
<1> DEFINE s == Cmd("CheckCc")
<1>1. Start("check", None, s) /\ tag' = tag /\ top' = [T2!Reset EXCEPT !.rwa = top.rwa]
  <2>1. PICK x : /\ x = T2!Cmd("CheckCc") /\ T2!Start("check", None, x) /\ tag' = tag
                 /\ top' = [T2!Reset EXCEPT !.rwa = top.rwa]
    BY DEF T2!CheckNdef
  <2>2. x = s
    BY <2>1, Zenon DEF T2!Cmd, Cmd
  <2> HIDE DEF s
  <2> QED BY <2>1, <2>2, T2Calls
<1>2. T2Top' /\ ~top'.presence /\ ~top'.hdr
  <2>1. top' = [formatted |-> FALSE, presence |-> FALSE, state |-> "UNKNOWN", rwa |-> top.rwa,
                hdr |-> FALSE, len |-> 0]
    BY <1>1 DEF T2!Reset
  <2>2. top.rwa \in Access /\ 0 \in 0 .. Room /\ "UNKNOWN" \in States
    BY RoomPositive DEF T2Inv, T2Top, States
  <2> QED BY <2>1, <2>2 DEF T2Top
<1>3. s \in Seq(Commands) /\ Len(s) = 1 /\ s[1] = C("CheckCc", 0)
  BY OneCommand DEF Names
<1> HIDE DEF s
<1>4. s # <<>> /\ Head(s) = C("CheckCc", 0)
  <2>1. Len(s) > 0
    BY <1>3
  <2>2. s # <<>>
    BY <1>3, <2>1, NotEmpty
  <2> QED BY <1>3, <2>2, TodoTail
<1>5. call'.op = "check" /\ call'.msg = None /\ call'.todo = s /\ ~call'.checked
  BY <1>1, <1>3, Started DEF T2Inv, CallOK, Operations
<1>6. T2Checking'
  BY <1>2, <1>3, <1>4, <1>5 DEF T2Checking, Left, Head1, C
<1> QED BY <1>1, <1>2, <1>3, <1>4, <1>6, T2Begins DEF Operations

(* EraseNdef begins.                                                        *)
LEMMA T2EraseBegins ==
  ASSUME T2Inv, ~Busy, T2!EraseNdef
  PROVE  T2Inv' /\ WriteStep(T2!Writable)
<1> DEFINE s == Cmd("ClearNmn") \o Cmd("VerifyErased")
<1>1. /\ tag' = tag /\ top' = top
      /\ Start("erase", None, s) \/ Refuse("erase", None, "INVALID_STATE")
  <2>1. PICK x : /\ x = T2!Cmd("ClearNmn") \o T2!Cmd("VerifyErased") /\ tag' = tag /\ top' = top
                 /\ T2!Start("erase", None, x) \/ T2!Refuse("erase", None, "INVALID_STATE")
    BY DEF T2!EraseNdef
  <2>2. x = s
    BY <2>1, Zenon DEF T2!Cmd, Cmd
  <2> HIDE DEF s
  <2> QED BY <2>1, <2>2, T2Calls
<1>2. s \in Seq(Commands) /\ Len(s) = 2 /\ Follows(s, T2ErasePlan)
  BY T2EraseStarts
<1> HIDE DEF s
<1>3. T2Top' /\ s # <<>>
  <2>1. Len(s) > 0
    BY <1>2
  <2>2. s # <<>>
    BY <1>2, <2>1, NotEmpty
  <2> QED BY <1>1, <2>2 DEF T2Inv, T2Top
<1>4. CASE Start("erase", None, s)
  <2>1. call'.op = "erase" /\ call'.msg = None /\ call'.todo = s
    BY <1>2, <1>4, Started DEF T2Inv, CallOK, Operations
  <2>2. T2Erasing'
    <3>1. T2ErasePlan' = T2ErasePlan /\ Left' = 2
      BY <1>2, <2>1 DEF T2ErasePlan, Left
    <3> QED BY <1>2, <2>1, <3>1 DEF T2Erasing
  <2> QED BY <1>1, <1>2, <1>3, <1>4, <2>2, T2Begins DEF Operations
<1>5. CASE Refuse("erase", None, "INVALID_STATE")
  BY <1>1, <1>5, T2Refuses DEF Operations, Statuses
<1> QED BY <1>1, <1>4, <1>5

(* FormatNdef begins.                                                       *)
LEMMA T2FormatBegins ==
  ASSUME T2Inv, ~Busy, T2!FormatNdef
  PROVE  T2Inv' /\ WriteStep(T2!Writable)
<1>0. Default \in Messages /\ Default \in Fitting /\ Default \in Messages \cup {None}
      /\ Size[Default] \in 1 .. Room
  BY DefaultAssumption, FittingSizes DEF Fitting
<1> DEFINE t == Cmd("ReadHeader") \o Cell("WriteHeader", 0) \o Cells("Data", 2, Size[Default])
                  \o Cell("WriteHeader", Size[Default])
           s == Cmd("WriteCc") \o Cmd("VerifyCc") \o t
<1>1. /\ tag' = tag
      /\ \/ Start("format", Default, s) /\ top' = [top EXCEPT !.rwa = "RW"]
         \/ Refuse("format", Default, "USE_CONDITION") /\ top' = top
  <2>1. PICK x : /\ x = T2!Cmd("WriteCc") \o T2!Cmd("VerifyCc") \o T2!MessageCommands(Default)
                 /\ tag' = tag
                 /\ \/ T2!Start("format", Default, x) /\ top' = [top EXCEPT !.rwa = "RW"]
                    \/ T2!Refuse("format", Default, "USE_CONDITION") /\ top' = top
    BY DEF T2!FormatNdef
  <2>2. x = s
    BY <2>1, Zenon DEF T2!Cmd, Cmd, T2!Cell, Cell, T2!Cells, Cells, T2!MessageCommands
  <2> HIDE DEF s
  <2> QED BY <2>1, <2>2, T2Calls
<1>2. t \in Seq(Commands) /\ Len(t) = Size[Default] + 2 /\ Follows(t, T2MessagePlan(Default))
  BY <1>0, T2MessageStarts
<1> HIDE DEF t
<1>3. s \in Seq(Commands) /\ Len(s) = Size[Default] + 4 /\ Follows(s, T2MessagePlan(Default))
  BY <1>0, <1>2, T2FormatStarts
<1> HIDE DEF s
<1>4. CASE Start("format", Default, s) /\ top' = [top EXCEPT !.rwa = "RW"]
  <2>1. call'.op = "format" /\ call'.msg = Default /\ call'.todo = s
    BY <1>0, <1>3, <1>4, Started DEF T2Inv, CallOK, Operations
  <2>2. T2Top' /\ s # <<>>
    BY <1>0, <1>3, <1>4, NotEmpty DEF T2Inv, T2Top, Access
  <2>3. T2Formatting'
    BY <1>0, <1>3, <2>1 DEF T2Formatting, T2MessagePlan, T2Written, Left
  <2> QED BY <1>0, <1>1, <1>3, <1>4, <2>2, <2>3, T2Begins DEF Operations
<1>5. CASE Refuse("format", Default, "USE_CONDITION") /\ top' = top
  BY <1>0, <1>1, <1>5, T2Refuses DEF Operations, Statuses
<1> QED BY <1>1, <1>4, <1>5

(* WriteNdef begins.                                                        *)
LEMMA T2WriteBegins ==
  ASSUME T2Inv, ~Busy, NEW m \in Messages, T2!WriteNdef(m)
  PROVE  T2Inv' /\ WriteStep(T2!Writable)
<1> DEFINE s == Cmd("ReadHeader") \o Cell("WriteHeader", 0) \o Cells("Data", 2, Size[m])
                  \o Cell("WriteHeader", Size[m])
<1>1. /\ tag' = tag /\ top' = top
      /\ \/ Size[m] > Room /\ Refuse("write", m, "INVALID_PARAMETER")
         \/ top.state = "READONLY" /\ Refuse("write", m, "UNSUPPORTED_COMMAND")
         \/ /\ Size[m] <= Room /\ top.presence /\ top.state # "UNKNOWN" /\ top.hdr
            /\ Start("write", m, s)
         \/ ~(top.presence /\ top.state # "UNKNOWN" /\ top.hdr) /\ Refuse("write", m, "INVALID_PARAMETER")
  <2>1. PICK x : /\ x = T2!MessageCommands(m) /\ tag' = tag /\ top' = top
                 /\ \/ Size[m] > Room /\ T2!Refuse("write", m, "INVALID_PARAMETER")
                    \/ top.state = "READONLY" /\ T2!Refuse("write", m, "UNSUPPORTED_COMMAND")
                    \/ /\ ~(Size[m] > Room) /\ top.presence /\ top.state # "UNKNOWN" /\ top.hdr
                       /\ T2!Start("write", m, x)
                    \/ /\ ~(top.presence /\ top.state # "UNKNOWN" /\ top.hdr)
                       /\ T2!Refuse("write", m, "INVALID_PARAMETER")
    BY DEF T2!WriteNdef
  <2>2. x = s
    BY <2>1, Zenon DEF T2!Cmd, Cmd, T2!Cell, Cell, T2!Cells, Cells, T2!MessageCommands
  <2>3. ~(Size[m] > Room) => Size[m] <= Room
    BY Sizes, RoomPositive
  <2> HIDE DEF s
  <2> QED BY <2>1, <2>2, <2>3, T2Calls
<1>2. s \in Seq(Commands) /\ Len(s) = Size[m] + 2 /\ Follows(s, T2MessagePlan(m))
  BY T2MessageStarts
<1> HIDE DEF s
<1>3. T2Top' /\ m \in Messages \cup {None} /\ Size[m] \in Nat /\ Size[m] > 0 /\ Room \in Nat
  BY <1>1, Sizes, RoomPositive DEF T2Inv, T2Top
<1>4. /\ call.checked /\ T2!Writable =>
           /\ top.hdr /\ top.presence /\ top.state \in {"INITIALIZED", "READWRITE"}
      /\ call.checked /\ top.hdr => tag.nmn = "E1" /\ tag.tlv
  BY DEF T2Inv, T2Known
<1>5. CASE Size[m] > Room /\ Refuse("write", m, "INVALID_PARAMETER")
  <2>1. ~(Size[m] <= Room)
    BY <1>3, <1>5
  <2> QED BY <1>1, <1>3, <1>5, <2>1, T2Refuses DEF Operations, Statuses
<1>6. CASE top.state = "READONLY" /\ Refuse("write", m, "UNSUPPORTED_COMMAND")
  BY <1>1, <1>3, <1>4, <1>6, T2Refuses DEF Operations, Statuses
<1>7. CASE ~(top.presence /\ top.state # "UNKNOWN" /\ top.hdr) /\ Refuse("write", m, "INVALID_PARAMETER")
  <2>1. ~(call.checked /\ T2!Writable)
    BY <1>4, <1>7
  <2> QED BY <1>1, <1>3, <1>7, <2>1, T2Refuses DEF Operations, Statuses
<1>8. CASE /\ Size[m] <= Room /\ top.presence /\ top.state # "UNKNOWN" /\ top.hdr
           /\ Start("write", m, s)
  <2>1. call'.op = "write" /\ call'.msg = m /\ call'.todo = s /\ (call'.checked => call.checked)
    BY <1>2, <1>3, <1>8, Started DEF T2Inv, CallOK, Operations
  <2>2. s # <<>>
    BY <1>2, <1>3, NotEmpty
  <2>3. /\ Left' = Size[m] + 2 /\ T2Written(m, Size[m], Size[m] + 2)'
    BY <1>2, <1>3, <2>1 DEF Left, T2Written
  <2>4. T2Writing'
    BY <1>1, <1>2, <1>3, <1>4, <1>8, <2>1, <2>3 DEF T2Writing, T2MessagePlan, Fitting
  <2> QED BY <1>1, <1>2, <1>3, <1>8, <2>2, <2>4, T2Begins DEF Operations
<1> QED BY <1>1, <1>5, <1>6, <1>7, <1>8

(* ReadNdef begins.                                                         *)
LEMMA T2ReadBegins ==
  ASSUME T2Inv, ~Busy, T2!ReadNdef
  PROVE  T2Inv' /\ WriteStep(T2!Writable)
<1> DEFINE s == Cells("Read", 1, top.len)
<1>1. top.len \in Nat
  BY RoomPositive DEF T2Inv, T2Top
<1>2. s \in Seq(Commands) /\ Len(s) = top.len /\ Follows(s, ReadPlan)
  BY <1>1, ReadStarts
<1>3. /\ tag' = tag /\ top' = top
      /\ \/ T2!Readable /\ Start("read", None, s)
         \/ Refuse("read", None, "PROTOCOL_ERROR")
  <2>1. PICK x : /\ x = T2!Cells("Read", 1, top.len) /\ tag' = tag /\ top' = top
                 /\ \/ T2!Readable /\ T2!Start("read", None, x)
                    \/ T2!Refuse("read", None, "PROTOCOL_ERROR")
    BY DEF T2!ReadNdef
  <2>2. x = s
    BY <2>1, Zenon DEF T2!Cells, Cells
  <2> HIDE DEF s
  <2> QED BY <2>1, <2>2, T2Calls
<1> HIDE DEF s
<1>4. T2Top' /\ None \in Messages \cup {None} /\ T2Tag'
  BY <1>3 DEF T2Inv, T2Top, T2Tag
<1>5. CASE Refuse("read", None, "PROTOCOL_ERROR")
  BY <1>3, <1>5, T2Refuses DEF Operations, Statuses
<1>6. CASE T2!Readable /\ Start("read", None, s)
  <2>1. /\ CallOK' /\ call'.op = "read" /\ call'.msg = None /\ call'.todo = s /\ call'.got = <<>>
        /\ call'.status = (IF s = <<>> THEN "SUCCESS" ELSE "BUSY")
        /\ call'.checked => call.checked
    BY <1>2, <1>6, Started DEF T2Inv, CallOK, Operations
  <2>2. CASE s # <<>>
    <3>1. T2Reading'
      BY <1>1, <1>2, <1>3, <1>6, <2>1 DEF T2Reading, ReadingCells, ReadPlan, GotCells, Left, T2!Readable
    <3> QED BY <1>2, <1>3, <1>4, <1>6, <2>2, <3>1, T2Begins DEF Operations
  <2>3. CASE s = <<>>
    <3>1. top.len = 0 /\ call'.status = "SUCCESS"
      BY <1>2, <2>1, <2>3
    <3>2. call.checked => tag.nmn = "E1" /\ tag.tlv /\ tag.len = 0
      BY <1>6, <3>1 DEF T2Inv, T2Known
    <3>3. Len(call'.got) = 0 /\ Stored(call'.got, 0) = None
      BY <2>1, StoredNothing
    <3>4. call'.checked => T2!Content' = None
      BY <1>3, <2>1, <3>2, StoredNothing, T2Session DEF T2!Content
    <3>5. EndedWell(call, T2!Content, T2!Writable)' /\ WriteStep(T2!Writable)
      BY <2>1, <3>1, <3>3, <3>4 DEF EndedWell, Ended, WriteStep
    <3>6. T2Known' /\ T2Doing'
      BY <1>3, <2>1, <3>1 DEF T2Inv, T2Known, T2Doing, Busy, T2!Readable, T2!Writable
    <3> QED BY <1>4, <2>1, <3>5, <3>6 DEF T2Inv
  <2> QED BY <2>2, <2>3
<1> QED BY <1>3, <1>5, <1>6

(* SetReadOnly begins.                                                      *)
LEMMA T2LockBegins ==
  ASSUME T2Inv, ~Busy, T2!SetReadOnly
  PROVE  T2Inv' /\ WriteStep(T2!Writable)
<1> DEFINE s == Cmd("ReadLock") \o Cmd("WriteRo") \o Cmd("WriteLock")
<1>1. s \in Seq(Commands) /\ Len(s) = 3 /\ Named(s, {"ReadLock", "WriteRo", "WriteLock"})
  BY T2LockStarts
<1>2. /\ tag' = tag /\ top' = [top EXCEPT !.rwa = "RO"]
      /\ Start("readonly", None, s) \/ Refuse("readonly", None, "INVALID_STATE")
  <2>1. PICK x : /\ x = T2!Cmd("ReadLock") \o T2!Cmd("WriteRo") \o T2!Cmd("WriteLock")
                 /\ tag' = tag /\ top' = [top EXCEPT !.rwa = "RO"]
                 /\ T2!Start("readonly", None, x) \/ T2!Refuse("readonly", None, "INVALID_STATE")
    BY DEF T2!SetReadOnly
  <2>2. x = s
    BY <2>1, Zenon DEF T2!Cmd, Cmd
  <2> HIDE DEF s
  <2> QED BY <2>1, <2>2, T2Calls
<1> HIDE DEF s
<1>3. T2Top' /\ s # <<>>
  <2>1. Len(s) > 0
    BY <1>1
  <2>2. s # <<>>
    BY <1>1, <2>1, NotEmpty
  <2> QED BY <1>2, <2>2 DEF T2Inv, T2Top, Access
<1>4. CASE Start("readonly", None, s)
  <2>1. call'.op = "readonly" /\ call'.msg = None /\ call'.todo = s
    BY <1>1, <1>4, Started DEF T2Inv, CallOK, Operations
  <2>2. T2Locking'
    BY <1>1, <2>1 DEF T2Locking
  <2> QED BY <1>1, <1>2, <1>3, <1>4, <2>2, T2Begins DEF Operations
<1>5. CASE Refuse("readonly", None, "INVALID_STATE")
  BY <1>2, <1>5, T2Refuses DEF Operations, Statuses
<1> QED BY <1>2, <1>4, <1>5

(* Every step on a type 2 tag keeps its invariant.                          *)
LEMMA T2NextKeeps ==
  ASSUME T2Inv, T2!Next
  PROVE  /\ T2Inv' /\ WriteStep(T2!Writable)
         /\ \/ ~Busy /\ tag' = tag /\ Begun
            \/ Busy /\ Keeps /\ Effect(call, T2!Content, T2!Hidden, T2!Content', T2!Hidden')
<1>1. CASE T2!Answer
  BY <1>1, T2AnswerKeeps
<1>2. CASE T2!Refused \/ T2!NoAnswer
  BY <1>2, T2LossKeeps
<1>3. CASE T2!Operation
  BY <1>3, T2Begun, T2CheckBegins, T2FormatBegins, T2WriteBegins, T2ReadBegins, T2EraseBegins,
     T2LockBegins DEF T2!Operation
<1> QED BY <1>1, <1>2, <1>3 DEF T2!Next

-----------------------------------------------------------------------------
(* Type 3.                                                                  *)

(* The module of type 3 says of the session what TagSession says.           *)
LEMMA T3Session ==
  /\ T3!Busy <=> Busy
  /\ T3!Head1 = Head1
  /\ \A c, t, s : T3!Go(c, t, s) = Go(c, t, s)
  /\ \A x : T3!Reply(x) = Reply(x)
  /\ \A g : T3!Lost(g) = Lost(g)
  /\ \A s, n : T3!Stored(s, n) = Stored(s, n)
<1>1. \A c, t, s : T3!Go(c, t, s) = Go(c, t, s)
  BY Zenon DEF T3!Go, Go
<1>2. \A s, n : T3!Stored(s, n) = Stored(s, n)
  BY Zenon DEF T3!Stored, Stored
<1>3. (T3!Busy <=> Busy) /\ T3!Head1 = Head1
  BY DEF T3!Busy, Busy, T3!Head1, Head1
<1>4. (\A x : T3!Reply(x) = Reply(x)) /\ \A g : T3!Lost(g) = Lost(g)
  BY DEF T3!Reply, Reply, T3!Lost, Lost
<1> QED BY <1>1, <1>2, <1>3, <1>4, Zenon

(* The module of type 3 begins and refuses operations as TagSession does.   *)
LEMMA T3Calls ==
  ASSUME NEW op, NEW m, NEW t
  PROVE  (T3!Start(op, m, t) <=> Start(op, m, t)) /\ (T3!Refuse(op, m, t) <=> Refuse(op, m, t))
BY Zenon DEF T3!Start, Start, T3!Refuse, Refuse

(* The message on a tag of type 3.                                          *)
LEMMA T3ContentIs ==
  /\ T3!Content = IF tag.ndef THEN Stored(tag.cells, tag.len) ELSE None
  /\ T3Tag => T3!Content = Stored(tag.cells, tag.len)
<1>1. T3!Content = IF tag.ndef THEN Stored(tag.cells, tag.len) ELSE None
  BY T3Session, Zenon DEF T3!Content
<1> QED BY <1>1, StoredNothing DEF T3Tag

(* The command at the head of a plan.                                       *)
LEMMA T3PlanHead ==
  ASSUME CallOK, Busy
  PROVE  /\ T3Checking =>
              \/ Left = 1 /\ Head1 = C("CheckAib", 0) /\ Follows(call.todo, T3PollPlan) /\ top.support
              \/ Left = 2 /\ Head1 = C("PollNdef", 0) /\ Follows(call.todo, T3PollPlan)
              \/ /\ Left = 1 /\ Head1 = C("CheckMc", 0) /\ Follows(call.todo, T3SystemPlan)
                 /\ call.clean => ~tag.ndef
              \/ /\ Left = 2 /\ Head1 = C("CheckSystem", 0) /\ Follows(call.todo, T3SystemPlan)
                 /\ call.clean => ~tag.ndef
         /\ T3Formatting =>
              \/ Left = 1 /\ Head1 = C("ReadMc", 0) /\ Follows(call.todo, T3McPlan)
              \/ Left = 2 /\ Head1 = C("PollSystem", 0) /\ Follows(call.todo, T3McPlan)
              \/ Left = 1 /\ Head1 = C("WriteAib", 0) /\ Follows(call.todo, T3AibPlan) /\ tag.ndef
              \/ Left = 2 /\ Head1 = C("WriteMc", 0) /\ Follows(call.todo, T3AibPlan)
         /\ T3Reading => Left <= top.len /\ Head1 = C("Read", top.len + 1 - Left)
         /\ T3Erasing => /\ Head1.name \in {"ReadLength", "SetFlag", "Zero", "ReadAib", "ResetFlag"}
                         /\ Head1.name = "ResetFlag" => Head1.k = 0
                         /\ Left = 1 => Head1.name \in {"ReadLength", "ResetFlag"}
<1>0. /\ \A plan : Follows(call.todo, plan) => Head1 = plan[Left]
      /\ Left \in Nat /\ Left > 0 /\ Head1 = call.todo[1]
  BY Heading, FollowsTail, TodoTail DEF Head1, Left
<1>1. ASSUME T3Checking
      PROVE  \/ Left = 1 /\ Head1 = C("CheckAib", 0) /\ Follows(call.todo, T3PollPlan) /\ top.support
             \/ Left = 2 /\ Head1 = C("PollNdef", 0) /\ Follows(call.todo, T3PollPlan)
             \/ /\ Left = 1 /\ Head1 = C("CheckMc", 0) /\ Follows(call.todo, T3SystemPlan)
                /\ call.clean => ~tag.ndef
             \/ /\ Left = 2 /\ Head1 = C("CheckSystem", 0) /\ Follows(call.todo, T3SystemPlan)
                /\ call.clean => ~tag.ndef
  <2>1. Left \in 1 .. 2
    BY <1>0, <1>1 DEF T3Checking
  <2>2. CASE Follows(call.todo, T3PollPlan) /\ (Left = 1 => top.support)
    <3>1. Head1 = T3PollPlan[Left]
      BY <1>0, <2>2
    <3> QED BY <2>1, <2>2, <3>1 DEF T3PollPlan
  <2>3. CASE Follows(call.todo, T3SystemPlan) /\ (call.clean => ~tag.ndef)
    <3>1. Head1 = T3SystemPlan[Left]
      BY <1>0, <2>3
    <3>2. (Left = 1 /\ Head1 = C("CheckMc", 0)) \/ (Left = 2 /\ Head1 = C("CheckSystem", 0))
      BY <2>1, <3>1 DEF T3SystemPlan
    <3> QED BY <2>3, <3>2
  <2> QED BY <1>1, <2>2, <2>3 DEF T3Checking
<1>2. ASSUME T3Formatting
      PROVE  \/ Left = 1 /\ Head1 = C("ReadMc", 0) /\ Follows(call.todo, T3McPlan)
             \/ Left = 2 /\ Head1 = C("PollSystem", 0) /\ Follows(call.todo, T3McPlan)
             \/ Left = 1 /\ Head1 = C("WriteAib", 0) /\ Follows(call.todo, T3AibPlan) /\ tag.ndef
             \/ Left = 2 /\ Head1 = C("WriteMc", 0) /\ Follows(call.todo, T3AibPlan)
  <2>1. Left \in 1 .. 2
    BY <1>0, <1>2 DEF T3Formatting
  <2>2. CASE Follows(call.todo, T3McPlan)
    <3>1. Head1 = T3McPlan[Left]
      BY <1>0, <2>2
    <3> QED BY <2>1, <2>2, <3>1 DEF T3McPlan
  <2>3. CASE Follows(call.todo, T3AibPlan) /\ (Left = 1 => tag.ndef)
    <3>1. Head1 = T3AibPlan[Left]
      BY <1>0, <2>3
    <3> QED BY <2>1, <2>3, <3>1 DEF T3AibPlan
  <2> QED BY <1>2, <2>2, <2>3 DEF T3Formatting
<1>3. ASSUME T3Reading
      PROVE  Left <= top.len /\ Head1 = C("Read", top.len + 1 - Left)
  <2>1. Left \in 1 .. top.len /\ Head1 = ReadPlan[Left]
    BY <1>0, <1>3 DEF T3Reading, ReadingCells
  <2> QED BY <2>1 DEF ReadPlan
<1>4. ASSUME T3Erasing
      PROVE  /\ Head1.name \in {"ReadLength", "SetFlag", "Zero", "ReadAib", "ResetFlag"}
             /\ Head1.name = "ResetFlag" => Head1.k = 0
             /\ Left = 1 => Head1.name \in {"ReadLength", "ResetFlag"}
  <2>1. 1 \in 1 .. Left /\ 1 \in 1 .. Len(call.todo)
    BY <1>0 DEF Left
  <2> QED BY <1>0, <1>4, <2>1 DEF T3Erasing, Named
<1> QED BY <1>1, <1>2, <1>3, <1>4

(* The command a write is at.                                               *)
LEMMA T3WriteHead ==
  ASSUME CallOK, Busy, T3Writing, NEW n, n = Size[call.msg]
  PROVE  /\ call.msg \in Messages /\ n \in 1 .. Room /\ Left \in 1 .. n + 4 /\ Room \in Nat
         /\ \/ Left = 1 /\ Head1 = C("ResetFlag", n)
            \/ Left = 2 /\ Head1 = C("ReadAib", 0)
            \/ Left \in 3 .. n + 2 /\ Head1 = C("Data", n + 3 - Left)
            \/ Left = n + 3 /\ Head1 = C("SetFlag", 0)
            \/ Left = n + 4 /\ Head1 = C("ReadAccess", 0)
<1>1. call.msg \in Messages /\ n \in 1 .. Room /\ Left \in 1 .. n + 4 /\ Room \in Nat
  BY FittingSizes, Heading DEF T3Writing
<1>2. Head1 = T3WritePlan(call.msg)[Left]
  BY Heading, FollowsTail DEF T3Writing, Head1, Left
<1> QED BY <1>1, <1>2 DEF T3WritePlan

(* Who sends a command.                                                     *)
LEMMA T3Sends ==
  ASSUME CallOK, Busy, T3Doing
  PROVE  /\ Head1.name \in {"PollNdef", "CheckAib", "CheckSystem", "CheckMc"} => T3Checking
         /\ Head1.name \in {"WriteMc", "WriteAib", "ReadMc"} => T3Formatting
         /\ Head1.name \in {"Data", "ReadAccess"} => T3Writing
         /\ Head1.name \in {"SetFlag", "ResetFlag"} => T3Writing \/ T3Erasing
         /\ Head1.name \in {"Zero", "ReadLength"} => T3Erasing
         /\ Head1.name = "Read" => T3Reading
<1>1. CASE T3Checking
  BY <1>1, T3PlanHead DEF C
<1>2. CASE T3Formatting
  BY <1>2, T3PlanHead DEF C
<1>3. CASE T3Writing
  BY <1>3, T3WriteHead DEF C
<1>4. CASE T3Reading
  BY <1>4, T3PlanHead DEF C
<1>5. CASE T3Erasing
  BY <1>5, T3PlanHead
<1> QED BY <1>1, <1>2, <1>3, <1>4, <1>5 DEF T3Doing

(* What a command does to the tag and to the message on it.                 *)
LEMMA T3Executed ==
  ASSUME T3Inv, Busy, ~T3!Refuses(Head1), tag' = T3!Execute(Head1)
  PROVE  /\ T3Tag' /\ (tag.ndef => tag'.ndef)
         /\ Effect(call, T3!Content, None, T3!Content', None)
<1> USE DEF T3Inv
<1>0. /\ T3!Content = Stored(tag.cells, tag.len)
      /\ T3Tag' => T3!Content' = Stored(tag'.cells, tag'.len)
  <2>1. T3!Content' = IF tag'.ndef THEN Stored(tag'.cells, tag'.len) ELSE None
    BY T3Session DEF T3!Content
  <2> QED BY <2>1, T3ContentIs, StoredNothing DEF T3Tag
<1>1. CASE Head1.name \notin {"WriteMc", "WriteAib", "SetFlag", "Data", "Zero", "ResetFlag"}
  <2>1. tag' = tag
    BY <1>1 DEF T3!Execute
  <2> QED BY <2>1, <1>0 DEF T3Tag, Effect
<1>2. CASE Head1.name = "WriteMc"
  <2>1. tag' = [tag EXCEPT !.ndef = TRUE]
    BY <1>2 DEF T3!Execute
  <2>2. /\ tag'.cells = tag.cells /\ tag'.len = tag.len /\ T3Tag' /\ tag'.ndef
    BY <2>1 DEF T3Tag
  <2> QED BY <2>2, <1>0 DEF Effect
<1>3. CASE Head1.name = "WriteAib"
  <2>1. tag' = [tag EXCEPT !.len = 0, !.rwa = "RW"] /\ call.op = "format"
    BY <1>3, T3Sends DEF T3!Execute, T3Formatting
  <2>2. /\ tag'.len = 0 /\ T3Tag' /\ (tag.ndef => tag'.ndef)
    <3>1. 0 \in 0 .. Room /\ "RW" \in Access /\ T3Tag
      BY RoomPositive DEF Access
    <3>2. tag'.len = 0 /\ (tag.ndef => tag'.ndef)
      BY <2>1, <3>1 DEF T3Tag
    <3>3. T3Tag'
      BY <2>1, <3>1, <3>2 DEF T3Tag
    <3> QED BY <3>2, <3>3
  <2> QED BY <2>1, <2>2, <1>0, StoredNothing DEF Effect
<1>4. CASE Head1.name = "SetFlag"
  <2>1. tag' = [tag EXCEPT !.len = 0] /\ call.op \in {"write", "erase"}
    BY <1>4, T3Sends DEF T3!Execute, T3Writing, T3Erasing
  <2>2. /\ tag'.len = 0 /\ T3Tag' /\ (tag.ndef => tag'.ndef)
    BY <2>1, RoomPositive DEF T3Tag
  <2> QED BY <2>1, <2>2, <1>0, StoredNothing DEF Effect
<1>5. CASE Head1.name = "Data"
  <2>1. tag' = [tag EXCEPT !.cells[Head1.k] = call.msg]
    BY <1>5 DEF T3!Execute
  <2>2. tag.len = 0 /\ call.msg \in CellValues
    <3>1. T3Writing
      BY <1>5, T3Sends
    <3>2. PICK n : n = Size[call.msg]
      OBVIOUS
    <3> QED BY <1>5, <3>1, <3>2, T3WriteHead DEF T3Writing, T3Written, CellValues, C
  <2>3. T3Tag' /\ tag'.len = 0 /\ (tag.ndef => tag'.ndef)
    BY <2>1, <2>2 DEF T3Tag
  <2> QED BY <2>2, <2>3, <1>0, StoredNothing DEF Effect
<1>6. CASE Head1.name = "Zero"
  <2>1. tag' = [tag EXCEPT !.cells[Head1.k] = Blank]
    BY <1>6 DEF T3!Execute
  <2>2. tag.len = 0 /\ Blank \in CellValues
    BY <1>6, T3Sends DEF T3Erasing, CellValues
  <2>3. T3Tag' /\ tag'.len = 0 /\ (tag.ndef => tag'.ndef)
    BY <2>1, <2>2 DEF T3Tag
  <2> QED BY <2>2, <2>3, <1>0, StoredNothing DEF Effect
<1>7. CASE Head1.name = "ResetFlag"
  <2>1. tag' = [tag EXCEPT !.len = Head1.k]
    BY <1>7 DEF T3!Execute
  <2>2. CASE T3Erasing
    <3>1. Head1.k = 0 /\ tag.len = 0
      BY <1>7, <2>2, T3PlanHead DEF T3Erasing
    <3>2. tag' = tag
      BY <2>1, <3>1 DEF T3Tag
    <3> QED BY <3>2, <1>0 DEF T3Tag, Effect
  <2>3. CASE T3Writing
    <3>1. PICK m, n : m = call.msg /\ n = Size[m]
      OBVIOUS
    <3>2. m \in Messages /\ n \in 1 .. Room /\ Head1.k = n /\ Left = 1 /\ Room \in Nat
      BY <1>7, <2>3, <3>1, T3WriteHead DEF C
    <3>3. \A k \in 1 .. n : tag.cells[k] = m
      BY <2>3, <3>1, <3>2 DEF T3Writing, T3Written
    <3>4. tag'.len = n /\ tag'.cells = tag.cells /\ tag.ndef /\ tag'.ndef /\ call.op = "write"
      BY <2>1, <2>3, <3>2 DEF T3Tag, T3Writing
    <3>5. T3Tag'
      BY <2>1, <3>2, <3>4 DEF T3Tag
    <3>6. Stored(tag'.cells, tag'.len) = m
      BY <3>1, <3>2, <3>3, <3>4, StoredWhole
    <3> QED BY <3>1, <3>4, <3>5, <3>6, <1>0 DEF Effect
  <2> QED BY <1>7, <2>2, <2>3, T3Sends
<1> QED BY <1>1, <1>2, <1>3, <1>4, <1>5, <1>6, <1>7

-----------------------------------------------------------------------------
(* The commands an operation starts or goes on with.                        *)

(* The commands of two plans of two.                                        *)
LEMMA TwoCommands ==
  ASSUME NEW a \in Names, NEW b \in Names, NEW plan, plan[2] = C(a, 0), plan[1] = C(b, 0)
  PROVE  LET s == Cmd(a) \o Cmd(b) IN
         s \in Seq(Commands) /\ Len(s) = 2 /\ Follows(s, plan) /\ s # <<>>
<1>1. First(Cell(a, 0), 1, 2, plan)
  BY FirstNone
<1>2. PICK s : s = Cell(a, 0) \o Cell(b, 0)
  OBVIOUS
<1>3. First(s, 2, 2, plan)
  BY <1>1, <1>2, FirstOne
<1>4. s \in Seq(Commands) /\ Len(s) = 2 /\ Follows(s, plan)
  BY <1>3, FirstAll
<1>5. Len(s) > 0
  BY <1>4
<1>6. s # <<>>
  BY <1>4, <1>5, NotEmpty
<1> QED BY <1>2, <1>4, <1>6, CmdIsCell

(* One command that is the last of a plan.                                  *)
LEMMA OneLast ==
  ASSUME NEW a \in Names, NEW plan, plan[1] = C(a, 0)
  PROVE  Cmd(a) \in Seq(Commands) /\ Len(Cmd(a)) = 1 /\ Follows(Cmd(a), plan) /\ Cmd(a) # <<>>
<1>1. PICK s : s = Cmd(a)
  OBVIOUS
<1>2. s \in Seq(Commands) /\ Len(s) = 1 /\ s[1] = C(a, 0)
  BY <1>1, OneCommand
<1>3. Len(s) > 0
  BY <1>2
<1>4. s # <<>>
  BY <1>2, <1>3, NotEmpty
<1>5. Follows(s, plan)
  BY <1>2 DEF Follows
<1> QED BY <1>1, <1>2, <1>4, <1>5

(* What FormatNdef sends once it knows the memory configuration.            *)
LEMMA T3AibRest ==
  LET s == (IF tag.ndef THEN <<>> ELSE Cmd("WriteMc")) \o Cmd("WriteAib") IN
  /\ s \in Seq(Commands) /\ s # <<>> /\ Len(s) \in 1 .. 2 /\ Follows(s, T3AibPlan)
  /\ Len(s) = 1 => tag.ndef
<1>1. PICK p : p = T3AibPlan
  OBVIOUS
<1>2. "WriteMc" \in Names /\ "WriteAib" \in Names /\ p[2] = C("WriteMc", 0) /\ p[1] = C("WriteAib", 0)
  BY <1>1 DEF Names, T3AibPlan
<1>3. PICK a, b : a = Cmd("WriteAib") /\ b = Cmd("WriteMc") \o Cmd("WriteAib")
  OBVIOUS
<1>4. a \in Seq(Commands) /\ Len(a) = 1 /\ Follows(a, p) /\ a # <<>>
  BY <1>2, <1>3, OneLast
<1>5. b \in Seq(Commands) /\ Len(b) = 2 /\ Follows(b, p) /\ b # <<>>
  BY <1>2, <1>3, TwoCommands
<1>6. CASE tag.ndef
  <2>1. <<>> \o a = a
    BY <1>4, ConcatEmptySeq
  <2> QED BY <1>1, <1>3, <1>4, <1>6, <2>1
<1>7. CASE ~tag.ndef
  BY <1>1, <1>3, <1>5, <1>7
<1> QED BY <1>6, <1>7

(* Commands that are all in a set.                                          *)
LEMMA TogetherIn ==
  ASSUME NEW S, NEW s \in Seq(S), NEW t \in Seq(S), Len(s) > 0, Len(t) > 0
  PROVE  /\ s \o t \in Seq(S) /\ Len(s \o t) > 0 /\ Len(s \o t) \in Nat
         /\ (s \o t)[1] = s[1] /\ (s \o t)[Len(s \o t)] = t[Len(t)]
<1>1. Len(s) \in Nat /\ Len(t) \in Nat
  BY LenProperties
<1>2. /\ s \o t \in Seq(S) /\ Len(s \o t) = Len(s) + Len(t)
      /\ \A i \in 1 .. Len(s) + Len(t) : (s \o t)[i] = IF i <= Len(s) THEN s[i] ELSE t[i - Len(s)]
  BY ConcatProperties
<1>3. (s \o t)[1] = s[1]
  <2>1. 1 \in 1 .. Len(s) + Len(t) /\ 1 <= Len(s)
    BY <1>1
  <2> QED BY <1>2, <2>1
<1>4. (s \o t)[Len(s) + Len(t)] = t[Len(t)]
  <2>1. /\ Len(s) + Len(t) \in 1 .. Len(s) + Len(t) /\ ~(Len(s) + Len(t) <= Len(s))
        /\ Len(s) + Len(t) - Len(s) = Len(t)
    BY <1>1
  <2> QED BY <1>2, <2>1
<1> QED BY <1>1, <1>2, <1>3, <1>4

(* Commands of one name for several cells are among some names.             *)
LEMMA AllIn ==
  ASSUME NEW S, NEW s \in Seq(Commands), \A i \in 1 .. Len(s) : s[i] \in S
  PROVE  s \in Seq(S)
<1>1. s \in [1 .. Len(s) -> S] /\ Len(s) \in Nat
  OBVIOUS
<1> QED BY <1>1

(* The commands of an erase, from the flag on.                              *)
LEMMA T3EraseRest ==
  ASSUME tag.len \in Nat
  PROVE  LET s == Cmd("SetFlag") \o Cells("Zero", 1, tag.len + 1) \o Cmd("ReadAib") \o Cell("ResetFlag", 0) IN
         /\ s \in Seq(Commands) /\ s # <<>> /\ Head(s).name = "SetFlag" /\ s[Len(s)].name = "ResetFlag"
         /\ Named(s, {"ReadLength", "SetFlag", "Zero", "ReadAib", "ResetFlag"})
         /\ \A i \in 1 .. Len(s) : s[i].name = "ResetFlag" => s[i].k = 0
<1> DEFINE Those == {c \in Commands : /\ c.name \in {"ReadLength", "SetFlag", "Zero", "ReadAib", "ResetFlag"}
                                      /\ c.name = "ResetFlag" => c.k = 0}
<1>1. PICK a, b, c, d : /\ a = Cmd("SetFlag") /\ b = Cells("Zero", 1, tag.len + 1)
                        /\ c = Cmd("ReadAib") /\ d = Cell("ResetFlag", 0)
  OBVIOUS
<1>2. /\ a \in Seq(Commands) /\ Len(a) = 1 /\ a[1] = C("SetFlag", 0)
      /\ c \in Seq(Commands) /\ Len(c) = 1 /\ c[1] = C("ReadAib", 0)
      /\ d \in Seq(Commands) /\ Len(d) = 1 /\ d[1] = C("ResetFlag", 0)
  BY <1>1, OneCommand DEF Names
<1>3. /\ b \in Seq(Commands) /\ Len(b) = tag.len + 1
      /\ \A i \in 1 .. tag.len + 1 : b[i].name = "Zero"
  <2>1. "Zero" \in Names /\ 1 \in Nat /\ tag.len + 1 \in Nat /\ 1 <= tag.len + 1 + 1
    BY DEF Names
  <2>2. /\ b \in Seq(Commands) /\ Len(b) = tag.len + 1 + 1 - 1
        /\ \A i \in 1 .. tag.len + 1 + 1 - 1 : b[i] = C("Zero", 1 + i - 1)
    BY <1>1, <2>1, ManyCommands
  <2>3. Len(b) = tag.len + 1 /\ \A i \in 1 .. tag.len + 1 : b[i] = C("Zero", 1 + i - 1)
    BY <2>2
  <2>4. \A k : C("Zero", k).name = "Zero"
    BY DEF C
  <2> QED BY <2>2, <2>3, <2>4
<1>4. a \in Seq(Those) /\ b \in Seq(Those) /\ c \in Seq(Those) /\ d \in Seq(Those)
  <2>2. C("SetFlag", 0) \in Those /\ C("ReadAib", 0) \in Those /\ C("ResetFlag", 0) \in Those
    BY DEF C, Commands, Names
  <2>3. \A i \in 1 .. Len(b) : b[i] \in Those
    <3>1. \A i \in 1 .. Len(b) : b[i] \in Commands /\ b[i].name = "Zero"
      BY <1>3
    <3> QED BY <3>1
  <2> HIDE DEF Those
  <2>4. b \in Seq(Those)
    BY <1>3, <2>3, AllIn
  <2>5. ASSUME NEW x \in Seq(Commands), Len(x) = 1, x[1] \in Those
        PROVE  x \in Seq(Those)
    <3>1. \A i \in 1 .. Len(x) : x[i] \in Those
      BY <2>5
    <3> QED BY <3>1, AllIn
  <2> QED BY <1>2, <2>2, <2>4, <2>5
<1> HIDE DEF Those
<1>5. PICK e : e = a \o b
  OBVIOUS
<1>6. PICK f : f = e \o c
  OBVIOUS
<1>7. PICK s : s = f \o d
  OBVIOUS
<1>8. e \in Seq(Those) /\ Len(e) > 0 /\ e[1] = a[1]
  <2>1. Len(a) > 0 /\ Len(b) > 0
    BY <1>2, <1>3
  <2> QED BY <1>4, <1>5, <2>1, TogetherIn
<1>9. f \in Seq(Those) /\ Len(f) > 0 /\ f[1] = e[1]
  <2>1. Len(c) > 0
    BY <1>2
  <2> QED BY <1>4, <1>6, <1>8, <2>1, TogetherIn
<1>10. s \in Seq(Those) /\ Len(s) > 0 /\ Len(s) \in Nat /\ s[1] = f[1] /\ s[Len(s)] = d[Len(d)]
  <2>1. Len(d) > 0
    BY <1>2
  <2> QED BY <1>4, <1>7, <1>9, <2>1, TogetherIn
<1>12. s \in Seq(Commands)
  <2>1. Those \subseteq Commands
    BY DEF Those
  <2> QED BY <1>10, <2>1
<1>13. \A i \in 1 .. Len(s) : s[i] \in Those
  BY <1>10
<1>14. Head(s) = C("SetFlag", 0) /\ s[Len(s)] = C("ResetFlag", 0) /\ s # <<>>
  <2>1. s # <<>>
    BY <1>10, <1>12, NotEmpty
  <2> QED BY <1>2, <1>8, <1>9, <1>10, <1>12, <2>1, TodoTail
<1>15. /\ s \in Seq(Commands) /\ s # <<>> /\ Head(s).name = "SetFlag" /\ s[Len(s)].name = "ResetFlag"
       /\ Named(s, {"ReadLength", "SetFlag", "Zero", "ReadAib", "ResetFlag"})
       /\ \A i \in 1 .. Len(s) : s[i].name = "ResetFlag" => s[i].k = 0
  BY <1>12, <1>13, <1>14 DEF Those, Named, C
<1> QED BY <1>1, <1>5, <1>6, <1>7, <1>15

-----------------------------------------------------------------------------
(* The steps of a call that is busy.                                        *)
LEMMA T3Rest ==
  ASSUME T3Inv, Busy
  PROVE  /\ T3!Rest(Head1) \in Seq(Commands)
         /\ Head1.name \notin {"ReadMc", "ReadLength"} =>
              T3!Rest(Head1) = Tail(call.todo) /\ ((T3!Rest(Head1) = <<>>) <=> (Left = 1))
         /\ Head1.name = "ReadMc" =>
              LET s == (IF tag.ndef THEN <<>> ELSE Cmd("WriteMc")) \o Cmd("WriteAib") IN
              T3!Rest(Head1) = s /\ s # <<>>
         /\ Head1.name = "ReadLength" =>
              LET s == Cmd("SetFlag") \o Cells("Zero", 1, tag.len + 1) \o Cmd("ReadAib")
                       \o Cell("ResetFlag", 0) IN
              T3!Rest(Head1) = s /\ s # <<>>
<1>0. /\ Tail(call.todo) \in Seq(Commands) /\ ((Tail(call.todo) = <<>>) <=> (Left = 1))
      /\ tag.len \in Nat
  BY Heading, RoomPositive DEF T3Inv, T3Tag
<1>1. CASE Head1.name \notin {"ReadMc", "ReadLength"}
  <2>1. T3!Rest(Head1) = Tail(call.todo)
    BY <1>1 DEF T3!Rest
  <2> QED BY <1>0, <1>1, <2>1
<1>2. CASE Head1.name = "ReadMc"
  <2>1. T3!Rest(Head1) = (IF tag.ndef THEN <<>> ELSE Cmd("WriteMc")) \o Cmd("WriteAib")
    BY <1>2, Zenon DEF T3!Rest, T3!Cmd, Cmd
  <2> QED BY <1>2, <2>1, T3AibRest
<1>3. CASE Head1.name = "ReadLength"
  <2>1. T3!Rest(Head1) = Cmd("SetFlag") \o Cells("Zero", 1, tag.len + 1) \o Cmd("ReadAib")
                         \o Cell("ResetFlag", 0)
    <3>1. T3!Rest(Head1) = T3!Cmd("SetFlag") \o T3!Cells("Zero", 1, tag.len + 1) \o T3!Cmd("ReadAib")
                           \o T3!Cell("ResetFlag", 0)
      BY <1>3, Zenon DEF T3!Rest
    <3> QED BY <3>1, Zenon DEF T3!Cmd, Cmd, T3!Cell, Cell, T3!Cells, Cells
  <2> QED BY <1>0, <1>3, <2>1, T3EraseRest
<1> QED BY <1>1, <1>2, <1>3

(* What an answer makes of the call.                                        *)
LEMMA T3Answered ==
  ASSUME T3Inv, T3!Answer
  PROVE  /\ Busy /\ ~T3!Refuses(Head1) /\ tag' = T3!Execute(Head1) /\ top' = T3!Learnt(Head1)
         /\ Keeps /\ call'.clean = call.clean
         /\ call'.got = IF Head1.name = "Read" THEN Append(call.got, tag.cells[Head1.k]) ELSE call.got
         /\ Head1.name = "ReadAccess" /\ tag.rwa # "RW" => Fails
         /\ ~(Head1.name = "ReadAccess" /\ tag.rwa # "RW") =>
              /\ T3!Rest(Head1) # <<>> => GoesOn(T3!Rest(Head1))
              /\ T3!Rest(Head1) = <<>> => Succeeds
<1>1. /\ Busy /\ ~T3!Refuses(Head1) /\ tag' = T3!Execute(Head1) /\ top' = T3!Learnt(Head1)
      /\ call' = Go(IF Head1.name = "Read" THEN Reply(tag.cells[Head1.k]) ELSE call,
                    T3!Rest(Head1), IF Head1.name = "ReadAccess" /\ tag.rwa # "RW" THEN "READONLY_TAG" ELSE "BUSY")
  BY T3Session DEF T3!Answer
<1>2. CallOK /\ T3Doing
  BY DEF T3Inv
<1>3. T3!Rest(Head1) \in Seq(Commands)
  BY <1>1, T3Rest
<1>4. ASSUME Head1.name = "Read"
      PROVE  tag.cells[Head1.k] \in CellValues
  <2>1. T3Reading
    BY <1>1, <1>2, <1>4, T3Sends
  <2>2. Head1.k = top.len + 1 - Left /\ Left <= top.len /\ Left \in Nat /\ Left > 0 /\ top.len \in 0 .. Room
    BY <1>1, <1>2, <2>1, T3PlanHead, Heading DEF C, T3Inv, T3Top
  <2>3. Head1.k \in Area
    BY <2>2, RoomPositive
  <2> QED BY <2>3 DEF T3Inv, T3Tag
<1>a. PICK cell, todo : cell = tag.cells[Head1.k] /\ todo = T3!Rest(Head1)
  OBVIOUS
<1>5. PICK verdict \in Statuses, read \in BOOLEAN :
        /\ verdict = (IF Head1.name = "ReadAccess" /\ tag.rwa # "RW" THEN "READONLY_TAG" ELSE "BUSY")
        /\ read = (Head1.name = "Read") /\ cell = tag.cells[Head1.k]
        /\ todo = T3!Rest(Head1)
  BY <1>a DEF Statuses
<1>6. call' = Go(IF read THEN Reply(cell) ELSE call, todo, verdict)
  BY <1>1, <1>5
<1>7. read => cell \in CellValues
  BY <1>4, <1>5
<1>8. todo \in Seq(Commands)
  BY <1>3, <1>5
<1>9. /\ Keeps /\ call'.clean = call.clean
      /\ call'.got = IF read THEN Append(call.got, cell) ELSE call.got
      /\ verdict = "BUSY" /\ todo # <<>> => GoesOn(todo)
      /\ verdict = "SUCCESS" \/ (verdict = "BUSY" /\ todo = <<>>) => Succeeds
      /\ verdict \notin {"BUSY", "SUCCESS"} => Fails
  BY <1>1, <1>2, <1>6, <1>7, <1>8, AnswerGoes, Zenon
<1> QED BY <1>1, <1>5, <1>9 DEF GoesOn, Succeeds, Fails

(* A call that fails keeps the invariant.                                   *)
LEMMA T3FailsKeeps ==
  ASSUME Keeps, Fails, T3Tag', T3Top', T3Seen'
  PROVE  T3Inv'
BY NotEnded DEF T3Inv, Keeps, Fails, T3Doing, T3Known, CallOK, Busy

(* What is left of a plan after a command that is not the last one.         *)
LEMMA PlanGoesOn ==
  ASSUME CallOK, Busy, NEW plan, Follows(call.todo, plan), Left # 1
  PROVE  /\ Tail(call.todo) \in Seq(Commands) /\ Tail(call.todo) # <<>>
         /\ Len(Tail(call.todo)) = Left - 1 /\ Follows(Tail(call.todo), plan)
<1>1. call.todo \in Seq(Commands) /\ call.todo # <<>>
  BY Heading
<1>2. Follows(Tail(call.todo), plan)
  BY <1>1, FollowsTail
<1>3. /\ Tail(call.todo) \in Seq(Commands) /\ Tail(call.todo) # <<>>
      /\ Len(Tail(call.todo)) = Left - 1
  BY Heading
<1> QED BY <1>2, <1>3

(* An answer to a check keeps the invariant.                                *)
LEMMA T3AnswerCheck ==
  ASSUME T3Inv, T3Checking, T3!Answer
  PROVE  T3Inv' /\ WriteStep(T3!Writable)
<1>1. /\ Busy /\ tag' = T3!Execute(Head1) /\ top' = T3!Learnt(Head1) /\ Keeps /\ CallOK /\ T3Tag /\ T3Top
      /\ T3Tag' /\ T3Seen /\ call'.clean = call.clean /\ ~T3!Refuses(Head1)
      /\ call.op = "check" /\ call.msg = None /\ ~call.checked /\ ~top.presence
  BY T3Answered, T3Executed DEF T3Inv, T3Checking
<1>2. EndedWell(call, T3!Content, T3!Writable)' /\ WriteStep(T3!Writable)
  BY <1>1, NotEnded DEF Keeps, WriteStep
<1>3. \/ Left = 1 /\ Head1 = C("CheckAib", 0) /\ Follows(call.todo, T3PollPlan) /\ top.support
      \/ Left = 2 /\ Head1 = C("PollNdef", 0) /\ Follows(call.todo, T3PollPlan)
      \/ /\ Left = 1 /\ Head1 = C("CheckMc", 0) /\ Follows(call.todo, T3SystemPlan)
         /\ call.clean => ~tag.ndef
      \/ /\ Left = 2 /\ Head1 = C("CheckSystem", 0) /\ Follows(call.todo, T3SystemPlan)
         /\ call.clean => ~tag.ndef
  BY <1>1, T3PlanHead
<1>4. /\ tag' = tag
      /\ Left # 1 => GoesOn(Tail(call.todo))
      /\ Left = 1 => Succeeds
  <2>1. Head1.name \in {"CheckAib", "PollNdef", "CheckMc", "CheckSystem"}
    BY <1>3 DEF C
  <2>2. T3!Execute(Head1) = tag
    BY <2>1 DEF T3!Execute
  <2> QED BY <1>1, <2>1, <2>2, T3Answered, T3Rest
<1>5. CASE Left = 1 /\ Head1 = C("CheckAib", 0) /\ top.support
  <2>1. top' = [top EXCEPT !.max = Room, !.len = tag.len, !.presence = tag.len # 0,
                           !.state = IF tag.len = 0 THEN "INITIALIZED"
                                     ELSE IF tag.rwa = "RW" THEN "READWRITE" ELSE "READONLY"]
    BY <1>1, <1>5 DEF T3!Learnt, C
  <2>2. tag.ndef
    BY <1>1, <1>5 DEF T3Seen
  <2>3. T3Top' /\ top'.len = tag.len /\ top'.max = Room
    BY <1>1, <2>1 DEF T3Top, T3Tag, States
  <2>5. top'.support
    BY <1>1, <1>5, <2>1 DEF T3Top
  <2>4. T3Seen' /\ T3Doing' /\ T3Known'
    BY <1>4, <1>5, <2>2, <2>3, <2>5 DEF T3Seen, T3Doing, T3Known, Busy, Succeeds, T3!Readable
  <2> QED BY <1>1, <1>2, <2>3, <2>4 DEF T3Inv, Keeps
<1>6. CASE Left = 2 /\ Head1 = C("PollNdef", 0) /\ Follows(call.todo, T3PollPlan)
  <2>1. top' = [top EXCEPT !.support = TRUE, !.formatted = TRUE] /\ tag.ndef
    BY <1>1, <1>6 DEF T3!Learnt, T3!Refuses, C
  <2>2. T3Top' /\ top'.support
    BY <1>1, <2>1 DEF T3Top
  <2>3. ~top'.presence
    BY <1>1, <2>1 DEF T3Top
  <2>4. /\ Busy' /\ Left' = 1 /\ Follows(call'.todo, T3PollPlan) /\ ~call'.checked
    BY <1>1, <1>4, <1>6, Onwards DEF GoesOn
  <2>5. T3PollPlan' = T3PollPlan
    BY DEF T3PollPlan
  <2>6. T3Checking' /\ T3Seen'
    BY <1>1, <1>4, <2>1, <2>2, <2>3, <2>4, <2>5 DEF T3Checking, Keeps, T3Seen
  <2> QED BY <1>1, <1>2, <2>2, <2>4, <2>6 DEF T3Inv, T3Doing, T3Known, Keeps
<1>7. CASE Left = 1 /\ Head1 = C("CheckMc", 0) /\ (call.clean => ~tag.ndef)
  <2>1. top' = [top EXCEPT !.formatted = TRUE]
    BY <1>1, <1>7 DEF T3!Learnt, C
  <2>2. T3Top' /\ T3Seen'
    BY <1>1, <1>4, <2>1 DEF T3Top, T3Seen
  <2>3. ~top'.presence
    BY <1>1, <2>1 DEF T3Top
  <2>4. call'.checked => ~tag'.ndef
    BY <1>1, <1>4, <1>7 DEF Succeeds
  <2>5. T3Doing' /\ T3Known'
    BY <1>4, <1>7, <2>3, <2>4 DEF T3Doing, T3Known, Busy, Succeeds, T3!Readable
  <2> QED BY <1>1, <1>2, <2>2, <2>5 DEF T3Inv, Keeps
<1>8. CASE /\ Left = 2 /\ Head1 = C("CheckSystem", 0) /\ Follows(call.todo, T3SystemPlan)
           /\ call.clean => ~tag.ndef
  <2>1. top' = top
    BY <1>1, <1>8 DEF T3!Learnt, C
  <2>4. /\ Busy' /\ Left' = 1 /\ Follows(call'.todo, T3SystemPlan) /\ ~call'.checked
    BY <1>1, <1>4, <1>8, Onwards DEF GoesOn
  <2>5. T3SystemPlan' = T3SystemPlan
    BY DEF T3SystemPlan
  <2>6. T3Checking' /\ T3Seen' /\ T3Top'
    BY <1>1, <1>4, <1>8, <2>1, <2>4, <2>5 DEF T3Checking, Keeps, T3Seen, T3Top
  <2> QED BY <1>1, <1>2, <2>4, <2>6 DEF T3Inv, T3Doing, T3Known, Keeps
<1> QED BY <1>3, <1>5, <1>6, <1>7, <1>8

(* An answer to a format keeps the invariant.                               *)
LEMMA T3AnswerFormat ==
  ASSUME T3Inv, T3Formatting, T3!Answer
  PROVE  T3Inv' /\ WriteStep(T3!Writable)
<1>1. /\ Busy /\ tag' = T3!Execute(Head1) /\ top' = T3!Learnt(Head1) /\ Keeps /\ CallOK /\ T3Tag /\ T3Top
      /\ T3Tag' /\ T3Seen /\ (tag.ndef => tag'.ndef)
      /\ call.op = "format" /\ call.msg = None
  BY T3Answered, T3Executed DEF T3Inv, T3Formatting
<1>2. WriteStep(T3!Writable)
  BY <1>1 DEF Keeps, WriteStep
<1>3. \/ Left = 1 /\ Head1 = C("ReadMc", 0) /\ Follows(call.todo, T3McPlan)
      \/ Left = 2 /\ Head1 = C("PollSystem", 0) /\ Follows(call.todo, T3McPlan)
      \/ Left = 1 /\ Head1 = C("WriteAib", 0) /\ Follows(call.todo, T3AibPlan) /\ tag.ndef
      \/ Left = 2 /\ Head1 = C("WriteMc", 0) /\ Follows(call.todo, T3AibPlan)
  BY <1>1, T3PlanHead
<1>4. T3McPlan' = T3McPlan /\ T3AibPlan' = T3AibPlan
  BY DEF T3McPlan, T3AibPlan
\* What is left to show when the call goes on.
<1>5. ASSUME NEW todo \in Seq(Commands), todo # <<>>, GoesOn(todo), Len(todo) <= 2, top' = top,
             Follows(todo, T3McPlan) \/ (Follows(todo, T3AibPlan) /\ (Len(todo) = 1 => tag'.ndef))
      PROVE  T3Inv' /\ WriteStep(T3!Writable)
  <2>1. Busy' /\ call'.status = "BUSY" /\ call'.todo = todo /\ call'.op = "format" /\ call'.msg = None
    BY <1>1, <1>5 DEF GoesOn, Busy, Keeps
  <2>2. T3Formatting'
    BY <1>4, <1>5, <2>1 DEF T3Formatting, Left
  <2>3. T3Known'
    BY <2>1 DEF T3Known
  <2>4. T3Top' /\ T3Seen'
    BY <1>1, <1>5 DEF T3Top, T3Seen
  <2> QED BY <1>1, <1>2, <2>1, <2>2, <2>3, <2>4, NotEnded DEF T3Inv, T3Doing, Keeps
<1>6. CASE Left = 1 /\ Head1 = C("ReadMc", 0)
  <2>1. top' = top /\ Head1.name = "ReadMc" /\ tag' = tag
    BY <1>1, <1>6 DEF T3!Learnt, T3!Execute, C
  <2>2. PICK s : s = T3!Rest(Head1)
    OBVIOUS
  <2>3. /\ s \in Seq(Commands) /\ s # <<>> /\ Len(s) \in 1 .. 2 /\ Follows(s, T3AibPlan)
        /\ Len(s) = 1 => tag.ndef
    BY <1>1, <2>1, <2>2, T3Rest, T3AibRest
  <2>4. GoesOn(s)
    <3>1. T3!Rest(Head1) # <<>> /\ ~(Head1.name = "ReadAccess" /\ tag.rwa # "RW")
      BY <2>1, <2>2, <2>3
    <3>2. GoesOn(T3!Rest(Head1))
      BY <3>1, T3Answered
    <3> QED BY <2>2, <3>2
  <2>5. Len(s) <= 2
    <3>1. PICK l : l = Len(s)
      OBVIOUS
    <3>2. l \in 1 .. 2
      BY <2>3, <3>1
    <3>3. l <= 2
      BY <3>2
    <3> QED BY <3>1, <3>3
  <2> QED BY <1>5, <2>1, <2>3, <2>4, <2>5
<1>7. CASE Left = 2 /\ Head1 = C("PollSystem", 0) /\ Follows(call.todo, T3McPlan)
  <2>1. top' = top /\ Head1.name = "PollSystem"
    BY <1>1, <1>7 DEF T3!Learnt, C
  <2>5. /\ T3!Rest(Head1) = Tail(call.todo) /\ T3!Rest(Head1) # <<>>
        /\ ~(Head1.name = "ReadAccess" /\ tag.rwa # "RW")
    BY <1>1, <1>7, <2>1, T3Rest
  <2>2. GoesOn(Tail(call.todo))
    <3>1. GoesOn(T3!Rest(Head1))
      BY <2>5, T3Answered
    <3> QED BY <2>5, <3>1
  <2>6. /\ Follows(Tail(call.todo), T3McPlan) /\ Tail(call.todo) \in Seq(Commands)
        /\ Tail(call.todo) # <<>> /\ Len(Tail(call.todo)) = Left - 1
    <3>1. Left # 1 /\ Follows(call.todo, T3McPlan)
      BY <1>7
    <3> QED BY <1>1, <3>1, PlanGoesOn
  <2>3. /\ Follows(Tail(call.todo), T3McPlan) /\ Tail(call.todo) \in Seq(Commands)
        /\ Tail(call.todo) # <<>> /\ Len(Tail(call.todo)) <= 2
    <3>1. Left - 1 = 1 /\ 1 <= 2
      BY <1>7
    <3> QED BY <2>6, <3>1
  <2> QED BY <1>5, <2>1, <2>2, <2>3
<1>8. CASE Left = 2 /\ Head1 = C("WriteMc", 0) /\ Follows(call.todo, T3AibPlan)
  <2>1. top' = top /\ Head1.name = "WriteMc"
    BY <1>1, <1>8 DEF T3!Learnt, C
  <2>5. /\ T3!Rest(Head1) = Tail(call.todo) /\ T3!Rest(Head1) # <<>>
        /\ ~(Head1.name = "ReadAccess" /\ tag.rwa # "RW")
    BY <1>1, <1>8, <2>1, T3Rest
  <2>2. GoesOn(Tail(call.todo))
    <3>1. GoesOn(T3!Rest(Head1))
      BY <2>5, T3Answered
    <3> QED BY <2>5, <3>1
  <2>6. /\ Follows(Tail(call.todo), T3AibPlan) /\ Tail(call.todo) \in Seq(Commands)
        /\ Tail(call.todo) # <<>> /\ Len(Tail(call.todo)) = Left - 1
    <3>1. Left # 1 /\ Follows(call.todo, T3AibPlan)
      BY <1>8
    <3> QED BY <1>1, <3>1, PlanGoesOn
  <2>3. /\ Follows(Tail(call.todo), T3AibPlan) /\ Tail(call.todo) \in Seq(Commands)
        /\ Tail(call.todo) # <<>> /\ Len(Tail(call.todo)) <= 2
    <3>1. Left - 1 = 1 /\ 1 <= 2
      BY <1>8
    <3> QED BY <2>6, <3>1
  <2>4. tag'.ndef
    <3>1. tag' = [tag EXCEPT !.ndef = TRUE]
      BY <1>1, <2>1 DEF T3!Execute
    <3> QED BY <1>1, <3>1 DEF T3Tag
  <2> QED BY <1>5, <2>1, <2>2, <2>3, <2>4
<1>9. CASE Left = 1 /\ Head1 = C("WriteAib", 0) /\ tag.ndef
  <2>1. /\ Head1.name = "WriteAib" /\ tag' = [tag EXCEPT !.len = 0, !.rwa = "RW"]
        /\ top' = [top EXCEPT !.formatted = TRUE, !.presence = FALSE, !.len = 0,
                              !.state = "INITIALIZED", !.max = Room]
    BY <1>1, <1>9 DEF T3!Learnt, T3!Execute, C
  <2>2. Succeeds
    BY <1>1, <1>9, <2>1, T3Answered, T3Rest
  <2>3. T3Top' /\ top'.max = Room
    <3>1. 0 \in 0 .. Room /\ "INITIALIZED" \in States /\ Room \in {0, Room}
      BY RoomPositive DEF States
    <3> QED BY <1>1, <2>1, <3>1 DEF T3Top
  <2>4. ~top'.presence
    BY <1>1, <2>1 DEF T3Top
  <2>5. top'.formatted
    BY <1>1, <2>1 DEF T3Top
  <2>6. tag'.ndef /\ tag'.len = 0
    <3>1. tag'.ndef
      BY <1>1, <1>9
    <3>2. tag'.len = 0
      BY <1>1, <2>1 DEF T3Tag
    <3> QED BY <3>1, <3>2
  <2>7. T3Doing' /\ T3Known' /\ T3Seen'
    BY <2>2, <2>3, <2>4, <2>5, <2>6 DEF T3Doing, T3Known, T3Seen, Busy, Succeeds, T3!Readable
  <2>8. T3!Content' = None
    <3>1. T3!Content' = IF tag'.ndef THEN Stored(tag'.cells, tag'.len) ELSE None
      BY T3Session DEF T3!Content
    <3> QED BY <2>6, <3>1, StoredNothing
  <2>9. EndedWell(call, T3!Content, T3!Writable)'
    BY <1>1, <2>2, <2>8 DEF EndedWell, Ended, Keeps, Succeeds
  <2> QED BY <1>1, <1>2, <2>3, <2>7, <2>9 DEF T3Inv, Keeps
<1> QED BY <1>3, <1>6, <1>7, <1>8, <1>9

(* An answer to an erase keeps the invariant.                               *)
LEMMA T3AnswerErase ==
  ASSUME T3Inv, T3Erasing, T3!Answer
  PROVE  T3Inv' /\ WriteStep(T3!Writable)
<1>1. /\ Busy /\ tag' = T3!Execute(Head1) /\ top' = T3!Learnt(Head1) /\ Keeps /\ CallOK /\ T3Tag /\ T3Top
      /\ T3Tag' /\ T3Seen /\ call.op = "erase" /\ call.msg = None /\ T3Known
  BY T3Answered, T3Executed DEF T3Inv, T3Erasing
<1>2. WriteStep(T3!Writable)
  BY <1>1 DEF Keeps, WriteStep
<1>3. /\ Head1.name \in {"ReadLength", "SetFlag", "Zero", "ReadAib", "ResetFlag"}
      /\ Head1.name = "ResetFlag" => Head1.k = 0
      /\ Left = 1 => Head1.name \in {"ReadLength", "ResetFlag"}
  BY <1>1, T3PlanHead
<1>4. /\ tag'.ndef = tag.ndef
      /\ Head1.name # "ReadLength" => tag'.len = 0
  <2>1. CASE Head1.name \in {"ReadLength", "ReadAib"}
    <3>1. tag' = tag
      BY <1>1, <2>1 DEF T3!Execute
    <3> QED BY <2>1, <3>1 DEF T3Erasing
  <2>2. CASE Head1.name = "SetFlag"
    <3>1. tag' = [tag EXCEPT !.len = 0]
      BY <1>1, <2>2 DEF T3!Execute
    <3> QED BY <1>1, <3>1 DEF T3Tag
  <2>3. CASE Head1.name = "Zero"
    <3>1. tag' = [tag EXCEPT !.cells[Head1.k] = Blank] /\ tag.len = 0
      BY <1>1, <2>3 DEF T3!Execute, T3Erasing
    <3> QED BY <1>1, <3>1 DEF T3Tag
  <2>4. CASE Head1.name = "ResetFlag"
    <3>1. tag' = [tag EXCEPT !.len = 0]
      BY <1>1, <1>3, <2>4 DEF T3!Execute
    <3> QED BY <1>1, <3>1 DEF T3Tag
  <2> QED BY <1>3, <2>1, <2>2, <2>3, <2>4
<1>5. top' = top \/ (Head1.name = "ResetFlag" /\ top' = [top EXCEPT !.presence = FALSE])
  BY <1>1, <1>3 DEF T3!Learnt
<1>6. T3Top' /\ T3Seen' /\ top'.max = top.max
  BY <1>1, <1>4, <1>5 DEF T3Top, T3Seen
<1>7. top'.formatted = top.formatted /\ top'.support = top.support
  <2>1. top'.formatted = top.formatted
    BY <1>1, <1>5 DEF T3Top
  <2>2. top'.support = top.support
    BY <1>1, <1>5 DEF T3Top
  <2> QED BY <2>1, <2>2
<1>8. CASE Head1.name = "ReadLength"
  <2>1. PICK s : s = T3!Rest(Head1)
    OBVIOUS
  <2>0. tag.len \in Nat
    BY <1>1, RoomPositive DEF T3Tag
  <2>2. /\ s \in Seq(Commands) /\ s # <<>> /\ Head(s).name = "SetFlag" /\ s[Len(s)].name = "ResetFlag"
        /\ Named(s, {"ReadLength", "SetFlag", "Zero", "ReadAib", "ResetFlag"})
        /\ \A i \in 1 .. Len(s) : s[i].name = "ResetFlag" => s[i].k = 0
    BY <1>1, <1>8, <2>0, <2>1, T3Rest, T3EraseRest
  <2>3. GoesOn(s)
    BY <1>8, <2>1, <2>2, T3Answered
  <2>4. Busy' /\ call'.status = "BUSY" /\ call'.todo = s /\ call'.checked = call.checked
    BY <2>3 DEF GoesOn, Busy
  <2>5. T3Erasing'
    BY <1>1, <2>2, <2>4 DEF T3Erasing, Keeps, Left, Head1
  <2>6. T3Known'
    BY <1>1, <1>4, <1>6, <1>7, <2>4 DEF T3Known, Keeps
  <2> QED BY <1>1, <1>2, <1>6, <2>4, <2>5, <2>6, NotEnded DEF T3Inv, T3Doing, Keeps
<1>9. CASE Head1.name # "ReadLength" /\ Left # 1
  <2>1. GoesOn(Tail(call.todo))
    BY <1>1, <1>3, <1>9, T3Answered, T3Rest
  <2>2. /\ Busy' /\ Left' = Left - 1 /\ call'.status = "BUSY" /\ call'.todo = Tail(call.todo)
        /\ call'.checked = call.checked
        /\ Named(call'.todo, {"ReadLength", "SetFlag", "Zero", "ReadAib", "ResetFlag"})
    BY <1>1, <2>1, Onwards DEF GoesOn, T3Erasing
  <2>3. \A i \in 1 .. Left - 1 : i + 1 \in 1 .. Left /\ Tail(call.todo)[i] = call.todo[i + 1]
    BY <1>1, Heading, TodoTail DEF Left
  <2>4. /\ call'.todo[Left'].name \in {"ReadLength", "ResetFlag"}
        /\ \A i \in 1 .. Left' : call'.todo[i].name = "ResetFlag" => call'.todo[i].k = 0
    <3>1. Left \in Nat /\ Left > 0
      BY <1>1, Heading
    <3>2. Left - 1 \in 1 .. Left - 1 /\ Left - 1 + 1 = Left
      BY <1>9, <3>1
    <3>3. Tail(call.todo)[Left - 1] = call.todo[Left]
      BY <2>3, <3>2
    <3>4. ASSUME NEW i \in 1 .. Left - 1
          PROVE  Tail(call.todo)[i].name = "ResetFlag" => Tail(call.todo)[i].k = 0
      BY <2>3 DEF T3Erasing
    <3> QED BY <2>2, <3>3, <3>4 DEF T3Erasing
  <2>5. T3Erasing'
    BY <1>1, <1>4, <1>9, <2>2, <2>4 DEF T3Erasing, Keeps
  <2>6. T3Known'
    BY <1>1, <1>4, <1>6, <1>7, <2>2 DEF T3Known, Keeps
  <2> QED BY <1>1, <1>2, <1>6, <2>2, <2>5, <2>6, NotEnded DEF T3Inv, T3Doing, Keeps
<1>10. CASE Head1.name # "ReadLength" /\ Left = 1
  <2>1. Head1.name = "ResetFlag" /\ top' = [top EXCEPT !.presence = FALSE]
    BY <1>1, <1>3, <1>10 DEF T3!Learnt
  <2>2. Succeeds
    BY <1>1, <1>3, <1>10, T3Answered, T3Rest
  <2>3. ~top'.presence
    BY <1>1, <2>1 DEF T3Top
  <2>4. /\ call'.status = "SUCCESS" /\ call'.op = "erase" /\ (call'.checked => call.checked)
    BY <1>1, <2>2 DEF Succeeds, Keeps
  <2>5. T3Doing' /\ T3Known'
    BY <1>1, <1>4, <1>6, <1>7, <2>3, <2>4 DEF T3Doing, T3Known, Busy, T3!Readable
  <2>6. T3!Content' = None
    <3>1. T3!Content' = IF tag'.ndef THEN Stored(tag'.cells, tag'.len) ELSE None
      BY T3Session DEF T3!Content
    <3> QED BY <1>4, <1>10, <3>1, StoredNothing
  <2>7. EndedWell(call, T3!Content, T3!Writable)'
    BY <2>4, <2>6 DEF EndedWell, Ended
  <2> QED BY <1>1, <1>2, <1>6, <2>5, <2>7 DEF T3Inv, Keeps
<1> QED BY <1>8, <1>9, <1>10

(* What the parameters say of a checked tag while it is read or written.    *)
LEMMA T3SaysFormatted ==
  ASSUME T3Known, ~(Busy /\ call.op = "format"), call'.checked => call.checked,
         tag'.ndef => tag.ndef, top'.formatted = top.formatted, top'.support = top.support,
         top'.max = top.max
  PROVE  call'.checked /\ ~(Busy' /\ call'.op = "format") /\ tag'.ndef =>
           (top'.formatted \/ top'.support) /\ top'.max = Room
BY DEF T3Known

(* An answer to a write keeps the invariant.                                *)
LEMMA T3AnswerWrite ==
  ASSUME T3Inv, T3Writing, T3!Answer
  PROVE  T3Inv' /\ WriteStep(T3!Writable)
<1>1. /\ Busy /\ tag' = T3!Execute(Head1) /\ top' = T3!Learnt(Head1) /\ Keeps /\ CallOK /\ T3Tag /\ T3Top
      /\ T3Tag' /\ T3Seen /\ call.op = "write" /\ call.msg \in Fitting /\ T3Known
      /\ tag.ndef /\ tag'.ndef
  BY T3Answered, T3Executed DEF T3Inv, T3Writing
<1>2. PICK m, n, left : m = call.msg /\ n = Size[m] /\ left = Left
  OBVIOUS
<1>3. /\ m \in Messages /\ n \in 1 .. Room /\ left \in 1 .. n + 4 /\ Room \in Nat
      /\ \/ left = 1 /\ Head1 = C("ResetFlag", n)
         \/ left = 2 /\ Head1 = C("ReadAib", 0)
         \/ left \in 3 .. n + 2 /\ Head1 = C("Data", n + 3 - left)
         \/ left = n + 3 /\ Head1 = C("SetFlag", 0)
         \/ left = n + 4 /\ Head1 = C("ReadAccess", 0)
  BY <1>1, <1>2, T3WriteHead
<1>4. /\ left <= n + 2 => tag.len = 0
      /\ \A k \in 1 .. n : left <= n + 2 - k => tag.cells[k] = m
      /\ Follows(call.todo, T3WritePlan(m))
  BY <1>2 DEF T3Writing, T3Written
\* What is left to show when the write goes on.
<1>5. ASSUME left # 1, GoesOn(Tail(call.todo)), top' = top, T3Written(m, n, left - 1)'
      PROVE  T3Inv' /\ WriteStep(T3!Writable)
  <2>1. /\ Busy' /\ Left' = left - 1 /\ Follows(call'.todo, T3WritePlan(m))
        /\ call'.status = "BUSY" /\ call'.checked = call.checked /\ call'.op = "write" /\ call'.msg = m
    BY <1>1, <1>2, <1>4, <1>5, Onwards DEF GoesOn, Keeps
  <2>2. T3Writing'
    <3>1. left - 1 <= n + 4
      BY <1>3
    <3>2. T3WritePlan(m)' = T3WritePlan(m)
      BY DEF T3WritePlan
    <3> QED BY <1>1, <1>2, <1>5, <2>1, <3>1, <3>2 DEF T3Writing
  <2>3. T3Known'
    <3>1. call'.checked /\ ~(Busy' /\ call'.op = "format") /\ tag'.ndef =>
            (top'.formatted \/ top'.support) /\ top'.max = Room
      BY <1>1, <1>5, <2>1, T3SaysFormatted
    <3> QED BY <2>1, <3>1 DEF T3Known
  <2>4. T3Top' /\ T3Seen' /\ WriteStep(T3!Writable)
    BY <1>1, <1>5, <2>1 DEF T3Top, T3Seen, WriteStep
  <2> QED BY <1>1, <2>1, <2>2, <2>3, <2>4, NotEnded DEF T3Inv, T3Doing, Keeps
<1>6. CASE left = n + 4 /\ Head1 = C("ReadAccess", 0)
  <2>1. top' = top /\ tag' = tag /\ Head1.name = "ReadAccess"
    BY <1>1, <1>6 DEF T3!Learnt, T3!Execute, C
  <2>2. CASE tag.rwa = "RW"
    <3>1. GoesOn(Tail(call.todo)) /\ left # 1
      <4>1. /\ T3!Rest(Head1) = Tail(call.todo) /\ T3!Rest(Head1) # <<>> /\ left # 1
            /\ ~(Head1.name = "ReadAccess" /\ tag.rwa # "RW")
        BY <1>1, <1>2, <1>3, <1>6, <2>1, <2>2, T3Rest
      <4>2. GoesOn(T3!Rest(Head1))
        BY <4>1, T3Answered
      <4> QED BY <4>1, <4>2
    <3>2. T3Written(m, n, left - 1)'
      BY <1>3, <1>6 DEF T3Written
    <3> QED BY <1>5, <2>1, <3>1, <3>2
  <2>3. CASE tag.rwa # "RW"
    <3>1. Fails
      BY <2>1, <2>3, T3Answered
    <3>2. T3Top' /\ T3Seen'
      BY <1>1, <2>1 DEF T3Top, T3Seen
    <3>3. WriteStep(T3!Writable)
      BY <2>3 DEF WriteStep, T3!Writable
    <3> QED BY <1>1, <3>1, <3>2, <3>3, T3FailsKeeps
  <2> QED BY <2>2, <2>3
<1>7. CASE left = n + 3 /\ Head1 = C("SetFlag", 0)
  <2>1. top' = top /\ tag' = [tag EXCEPT !.len = 0] /\ Head1.name = "SetFlag"
    BY <1>1, <1>7 DEF T3!Learnt, T3!Execute, C
  <2>2. GoesOn(Tail(call.todo)) /\ left # 1
    <3>1. /\ T3!Rest(Head1) = Tail(call.todo) /\ T3!Rest(Head1) # <<>> /\ left # 1
          /\ ~(Head1.name = "ReadAccess" /\ tag.rwa # "RW")
      BY <1>1, <1>2, <1>3, <1>7, <2>1, T3Rest
    <3>2. GoesOn(T3!Rest(Head1))
      BY <3>1, T3Answered
    <3> QED BY <3>1, <3>2
  <2>3. tag'.len = 0
    BY <1>1, <2>1 DEF T3Tag
  <2>4. T3Written(m, n, left - 1)'
    BY <1>3, <1>7, <2>3 DEF T3Written
  <2> QED BY <1>5, <2>1, <2>2, <2>4
<1>8. CASE left \in 3 .. n + 2 /\ Head1 = C("Data", n + 3 - left)
  <2>1. top' = top /\ tag' = [tag EXCEPT !.cells[n + 3 - left] = m] /\ Head1.name = "Data"
    BY <1>1, <1>2, <1>8 DEF T3!Learnt, T3!Execute, C
  <2>2. GoesOn(Tail(call.todo)) /\ left # 1
    <3>1. /\ T3!Rest(Head1) = Tail(call.todo) /\ T3!Rest(Head1) # <<>> /\ left # 1
          /\ ~(Head1.name = "ReadAccess" /\ tag.rwa # "RW")
      BY <1>1, <1>2, <1>3, <1>8, <2>1, T3Rest
    <3>2. GoesOn(T3!Rest(Head1))
      BY <3>1, T3Answered
    <3> QED BY <3>1, <3>2
  <2>3. /\ tag'.len = 0
        /\ \A k \in 1 .. n : k = n + 3 - left \/ left <= n + 2 - k => tag'.cells[k] = m
    <3>1. PICK j \in 1 .. n : j = n + 3 - left /\ j \in Area
      BY <1>3, <1>8, RoomPositive
    <3>2. tag'.len = tag.len /\ \A k \in Area : tag'.cells[k] = IF k = j THEN m ELSE tag.cells[k]
      BY <1>1, <2>1, <3>1 DEF T3Tag
    <3>3. \A k \in 1 .. n : k \in Area
      BY <1>3, RoomPositive
    <3> QED BY <1>3, <1>4, <1>8, <3>1, <3>2, <3>3
  <2>4. T3Written(m, n, left - 1)'
    <3>1. \A k \in 1 .. n : left - 1 <= n + 2 - k => k = n + 3 - left \/ left <= n + 2 - k
      BY <1>3, <1>8
    <3> QED BY <1>3, <2>3, <3>1 DEF T3Written
  <2> QED BY <1>5, <2>1, <2>2, <2>4
<1>9. CASE left = 2 /\ Head1 = C("ReadAib", 0)
  <2>1. top' = top /\ tag' = tag /\ Head1.name = "ReadAib"
    BY <1>1, <1>9 DEF T3!Learnt, T3!Execute, C
  <2>2. GoesOn(Tail(call.todo)) /\ left # 1
    <3>1. /\ T3!Rest(Head1) = Tail(call.todo) /\ T3!Rest(Head1) # <<>> /\ left # 1
          /\ ~(Head1.name = "ReadAccess" /\ tag.rwa # "RW")
      BY <1>1, <1>2, <1>3, <1>9, <2>1, T3Rest
    <3>2. GoesOn(T3!Rest(Head1))
      BY <3>1, T3Answered
    <3> QED BY <3>1, <3>2
  <2>4. T3Written(m, n, left - 1)'
    BY <1>3, <1>4, <1>9, <2>1 DEF T3Written
  <2> QED BY <1>5, <2>1, <2>2, <2>4
<1>10. CASE left = 1 /\ Head1 = C("ResetFlag", n)
  <2>1. /\ top' = [top EXCEPT !.state = "READWRITE", !.len = n, !.presence = TRUE]
        /\ tag' = [tag EXCEPT !.len = n] /\ Head1.name = "ResetFlag"
    BY <1>1, <1>10 DEF T3!Learnt, T3!Execute, C
  <2>2. Succeeds
    <3>1. T3!Rest(Head1) = <<>> /\ ~(Head1.name = "ReadAccess" /\ tag.rwa # "RW")
      BY <1>1, <1>2, <1>10, <2>1, T3Rest
    <3> QED BY <3>1, T3Answered
  <2>3. tag'.len = n /\ tag'.cells = tag.cells
    BY <1>1, <2>1 DEF T3Tag
  <2>4. T3Top' /\ top'.len = n /\ top'.max = top.max
    <3>1. n \in 0 .. Room /\ "READWRITE" \in States
      BY <1>3 DEF States
    <3> QED BY <1>1, <2>1, <3>1 DEF T3Top
  <2>5. top'.formatted = top.formatted
    BY <1>1, <2>1 DEF T3Top
  <2>6. top'.support = top.support
    BY <1>1, <2>1 DEF T3Top
  <2>7. /\ call'.status = "SUCCESS" /\ call'.op = "write" /\ call'.msg = m
        /\ call'.checked => call.checked
    BY <1>1, <1>2, <2>2 DEF Succeeds, Keeps
  <2>8. T3Known' /\ T3Doing' /\ T3Seen'
    <3>1. call'.checked /\ ~(Busy' /\ call'.op = "format") /\ tag'.ndef =>
            (top'.formatted \/ top'.support) /\ top'.max = Room
      BY <1>1, <2>4, <2>5, <2>6, <2>7, T3SaysFormatted
    <3> QED BY <1>1, <2>3, <2>4, <2>7, <3>1 DEF T3Known, T3Doing, T3Seen, Busy
  <2>9. T3!Content' = m
    <3>1. Stored(tag'.cells, tag'.len) = m
      <4>1. \A k \in 1 .. n : tag'.cells[k] = m
        BY <1>3, <1>4, <1>10, <2>3
      <4> QED BY <1>2, <1>3, <2>3, <4>1, StoredWhole
    <3> QED BY <1>1, <3>1, T3Session DEF T3!Content
  <2>10. EndedWell(call, T3!Content, T3!Writable)' /\ WriteStep(T3!Writable)
    BY <2>7, <2>9 DEF EndedWell, Ended, WriteStep
  <2> QED BY <1>1, <2>4, <2>8, <2>10 DEF T3Inv, Keeps
<1> QED BY <1>3, <1>6, <1>7, <1>8, <1>9, <1>10

(* An answer to a read keeps the invariant.                                 *)
LEMMA T3AnswerRead ==
  ASSUME T3Inv, T3Reading, T3!Answer
  PROVE  T3Inv' /\ WriteStep(T3!Writable)
<1>1. /\ Busy /\ tag' = T3!Execute(Head1) /\ top' = T3!Learnt(Head1) /\ Keeps /\ CallOK /\ T3Tag /\ T3Top
      /\ T3Tag' /\ T3Seen /\ T3Known /\ call.op = "read" /\ call.msg = None
  BY T3Answered, T3Executed DEF T3Inv, T3Reading, ReadingCells
<1>2. WriteStep(T3!Writable)
  BY <1>1 DEF Keeps, WriteStep
<1>3. /\ Head1.name = "Read" /\ Head1.k = top.len + 1 - Left /\ Left \in 1 .. top.len
      /\ top.len \in Nat
  BY <1>1, T3PlanHead, Heading, RoomPositive DEF C, T3Top
<1>4. tag' = tag /\ top' = top
  BY <1>1, <1>3 DEF T3!Execute, T3!Learnt
<1>5. /\ Left # 1 => GoesOn(Tail(call.todo))
      /\ Left = 1 => Succeeds
      /\ call'.got = Append(call.got, tag.cells[Head1.k])
  BY <1>1, <1>3, T3Answered, T3Rest
<1>6. GotCells' /\ Len(call'.got) = top.len + 1 - Left
  <2>1. top.len + 1 - Left = Len(call.got) + 1 /\ GotCells
    BY <1>1, <1>3 DEF T3Reading, ReadingCells, CallOK, Calls
  <2>2. tag.cells[Head1.k] \in CellValues
    BY <1>1, <1>3, RoomPositive DEF T3Tag, T3Top
  <2> QED BY <1>1, <1>3, <1>4, <1>5, <2>1, <2>2, OneMoreCell
<1>7. CASE Left # 1
  <2>1. /\ Busy' /\ Left' = Left - 1 /\ Follows(call'.todo, ReadPlan) /\ call'.status = "BUSY"
        /\ call'.checked = call.checked
    BY <1>1, <1>5, <1>7, Onwards DEF GoesOn, T3Reading, ReadingCells
  <2>2. ReadPlan' = ReadPlan
    BY <1>4 DEF ReadPlan
  <2>3. T3Reading'
    BY <1>1, <1>3, <1>4, <1>6, <2>1, <2>2 DEF T3Reading, ReadingCells, Keeps, T3!Readable
  <2>4. T3Known'
    BY <1>1, <1>4, <2>1 DEF T3Known, Keeps, T3!Readable
  <2> QED BY <1>1, <1>2, <1>4, <2>1, <2>3, <2>4, NotEnded DEF T3Inv, T3Doing, T3Top, T3Seen, Keeps
<1>8. CASE Left = 1
  <2>1. call'.status = "SUCCESS" /\ call'.op = "read" /\ (call'.checked => call.checked)
    BY <1>1, <1>5, <1>8 DEF Succeeds, Keeps
  <2>2. T3Doing' /\ T3Known'
    BY <1>1, <1>4, <2>1 DEF T3Doing, T3Known, Busy, T3!Readable
  <2>3. call'.checked => Stored(call'.got, Len(call'.got)) = T3!Content'
    <3>1. SUFFICES ASSUME call.checked
                   PROVE  Stored(call'.got, Len(call'.got)) = T3!Content'
      BY <2>1
    <3>2. tag.ndef /\ top.len = tag.len
      BY <1>1, <3>1 DEF T3Known, T3Reading
    <3>3. Stored(call'.got, Len(call'.got)) = Stored(tag.cells, Len(call'.got))
      BY <1>4, <1>6, StoredSame DEF GotCells
    <3>4. Len(call'.got) = tag.len
      BY <1>3, <1>6, <1>8, <3>2
    <3>5. T3!Content' = Stored(tag.cells, tag.len)
      BY <1>4, <3>2, T3Session DEF T3!Content
    <3> QED BY <3>3, <3>4, <3>5
  <2>4. EndedWell(call, T3!Content, T3!Writable)'
    BY <2>1, <2>3 DEF EndedWell, Ended
  <2> QED BY <1>1, <1>2, <1>4, <2>2, <2>4 DEF T3Inv, T3Top, T3Seen, Keeps
<1> QED BY <1>7, <1>8

(* Every answer of a type 3 tag keeps the invariant.                        *)
LEMMA T3AnswerKeeps ==
  ASSUME T3Inv, T3!Answer
  PROVE  /\ T3Inv' /\ WriteStep(T3!Writable) /\ Busy /\ Keeps
         /\ Effect(call, T3!Content, None, T3!Content', None)
<1>1. Busy /\ Keeps /\ Effect(call, T3!Content, None, T3!Content', None)
  BY T3Answered, T3Executed
<1>2. T3Checking \/ T3Formatting \/ T3Writing \/ T3Erasing \/ T3Reading
  BY <1>1 DEF T3Inv, T3Doing
<1> QED BY <1>1, <1>2, T3AnswerCheck, T3AnswerFormat, T3AnswerWrite, T3AnswerErase, T3AnswerRead

-----------------------------------------------------------------------------
(* No answer, or a refusal.                                                 *)
LEMMA T3SystemStarts ==
  LET s == Cmd("CheckSystem") \o Cmd("CheckMc") IN
  s \in Seq(Commands) /\ Len(s) = 2 /\ Follows(s, T3SystemPlan) /\ s # <<>>
<1>1. PICK p : p = T3SystemPlan
  OBVIOUS
<1>2. "CheckSystem" \in Names /\ "CheckMc" \in Names
  BY DEF Names
<1>3. p[2] = C("CheckSystem", 0) /\ p[1] = C("CheckMc", 0)
  BY <1>1 DEF T3SystemPlan
<1> QED BY <1>1, <1>2, <1>3, TwoCommands

(* What a refusal or a lost frame makes of the call.                        *)
LEMMA T3Lost ==
  ASSUME T3Inv, T3!Refused \/ T3!NoAnswer
  PROVE  /\ Busy /\ Keeps /\ top' = top
         /\ tag' = tag \/ (~T3!Refuses(Head1) /\ tag' = T3!Execute(Head1))
         /\ call'.clean => T3!Refuses(Head1)
         /\ Head1.name = "PollNdef" =>
              /\ call'.status = "BUSY" /\ call'.todo = Cmd("CheckSystem") \o Cmd("CheckMc")
              /\ call'.checked = call.checked
         /\ Head1.name = "CheckSystem" => Succeeds /\ ~call'.clean
         /\ Head1.name \notin {"PollNdef", "CheckSystem"} => Fails
<1>1. /\ Busy /\ CallOK /\ call.gone \in BOOLEAN /\ call.clean \in BOOLEAN /\ T3Doing
      /\ Head1 \in Commands
  BY T3Session, Heading DEF T3!Refused, T3!NoAnswer, T3Inv, CallOK, Calls
<1>2. PICK lost \in BOOLEAN, gone \in BOOLEAN :
        /\ T3!Failed(IF lost THEN Lost(gone) ELSE call, Head1)
        /\ ~lost => T3!Refuses(Head1) /\ tag' = tag
        /\ lost => tag' = tag \/ (~T3!Refuses(Head1) /\ tag' = T3!Execute(Head1))
  <2>1. CASE T3!Refused
    <3>1. T3!Failed(call, Head1) /\ T3!Refuses(Head1) /\ tag' = tag
      BY <2>1, T3Session DEF T3!Refused
    <3> QED BY <3>1
  <2>2. CASE T3!NoAnswer
    <3>1. /\ tag' = tag \/ (~T3!Refuses(Head1) /\ tag' = T3!Execute(Head1))
          /\ \E g \in BOOLEAN : T3!Failed(Lost(call.gone \/ g), Head1)
      BY <2>2, T3Session DEF T3!NoAnswer, T3!Maybe, T3!Loss
    <3>2. PICK g \in BOOLEAN : T3!Failed(Lost(call.gone \/ g), Head1)
      BY <3>1
    <3>3. PICK gone \in BOOLEAN : gone = (call.gone \/ g)
      BY <1>1
    <3>4. T3!Failed(Lost(gone), Head1)
      BY <3>2, <3>3
    <3> QED BY <3>1, <3>4
  <2> QED BY <2>1, <2>2
<1>3. PICK c, s : /\ c = IF lost THEN Lost(gone) ELSE call
                  /\ s = Cmd("CheckSystem") \o Cmd("CheckMc")
  OBVIOUS
<1>13. s \in Seq(Commands) /\ s # <<>>
  BY <1>3, T3SystemStarts
<1>4. /\ call' = CASE Head1.name = "PollNdef" -> Go(c, s, "BUSY")
                   [] Head1.name = "CheckSystem" -> Go(c, <<>>, "SUCCESS")
                   [] OTHER -> Go(c, <<>>, IF c.clean THEN "REFUSED" ELSE "TIMEOUT")
      /\ top' = top
  <2>1. T3!Failed(c, Head1)
    BY <1>2, <1>3
  <2>2. T3!Cmd("CheckSystem") \o T3!Cmd("CheckMc") = s
    BY <1>3, Zenon DEF T3!Cmd, Cmd
  <2> QED BY <2>1, <2>2, T3Session, Zenon DEF T3!Failed
<1>5. PICK todo \in Seq(Commands), verdict \in Statuses :
        /\ call' = Go(c, todo, verdict)
        /\ Head1.name = "PollNdef" => verdict = "BUSY" /\ todo = s
        /\ Head1.name = "CheckSystem" => verdict = "SUCCESS"
        /\ Head1.name \notin {"PollNdef", "CheckSystem"} => verdict \notin {"BUSY", "SUCCESS"}
  <2>1. <<>> \in Seq(Commands) /\ s \in Seq(Commands)
    BY <1>13, EmptySeq
  <2>2. {"BUSY", "SUCCESS", "REFUSED", "TIMEOUT"} \subseteq Statuses
    BY DEF Statuses
  <2>3. CASE Head1.name = "PollNdef"
    <3>1. call' = Go(c, s, "BUSY")
      BY <1>4, <2>3
    <3> QED BY <2>1, <2>2, <2>3, <3>1
  <2>4. CASE Head1.name = "CheckSystem"
    <3>1. call' = Go(c, <<>>, "SUCCESS")
      BY <1>4, <2>4
    <3> QED BY <2>1, <2>2, <2>4, <3>1
  <2>5. CASE Head1.name \notin {"PollNdef", "CheckSystem"}
    <3>1. call' = Go(c, <<>>, "REFUSED") \/ call' = Go(c, <<>>, "TIMEOUT")
      BY <1>4, <2>5
    <3> QED BY <2>1, <2>2, <2>5, <3>1
  <2> QED BY <2>3, <2>4, <2>5
<1>6. call' = Go(IF lost THEN Lost(gone) ELSE call, todo, verdict)
  BY <1>3, <1>5
<1>7. /\ Keeps /\ call'.clean = (call.clean /\ ~lost)
      /\ verdict = "BUSY" /\ todo # <<>> =>
              call'.status = "BUSY" /\ call'.todo = todo /\ call'.checked = call.checked
      /\ verdict = "SUCCESS" \/ (verdict = "BUSY" /\ todo = <<>>) => Succeeds
      /\ verdict \notin {"BUSY", "SUCCESS"} => Fails
  BY <1>1, <1>6, LossGoes
<1>8. Head1.name = "CheckSystem" => lost
  BY <1>2 DEF T3!Refuses, T3!Writes
<1>9. call'.clean => T3!Refuses(Head1)
  BY <1>1, <1>2, <1>7
<1>10. tag' = tag \/ (~T3!Refuses(Head1) /\ tag' = T3!Execute(Head1))
  BY <1>2
<1>11. Head1.name = "PollNdef" =>
         call'.status = "BUSY" /\ call'.todo = s /\ call'.checked = call.checked
  BY <1>5, <1>7, <1>13
<1>12. /\ Head1.name = "CheckSystem" => Succeeds /\ ~call'.clean
       /\ Head1.name \notin {"PollNdef", "CheckSystem"} => Fails
  BY <1>5, <1>7, <1>8
<1> QED BY <1>1, <1>3, <1>4, <1>7, <1>9, <1>10, <1>11, <1>12, Zenon

(* So does a refusal, and a command or an answer that is lost.              *)
LEMMA T3LossKeeps ==
  ASSUME T3Inv, T3!Refused \/ T3!NoAnswer
  PROVE  /\ T3Inv' /\ WriteStep(T3!Writable) /\ Busy /\ Keeps
         /\ Effect(call, T3!Content, None, T3!Content', None)
<1>1. /\ Busy /\ Keeps /\ top' = top
      /\ tag' = tag \/ (~T3!Refuses(Head1) /\ tag' = T3!Execute(Head1))
      /\ call'.clean => T3!Refuses(Head1)
  BY T3Lost
<1>2. T3Tag' /\ (tag.ndef => tag'.ndef) /\ Effect(call, T3!Content, None, T3!Content', None)
  <2>1. CASE tag' = tag
    BY <2>1, T3Session DEF T3Inv, T3Tag, Effect, T3!Content
  <2> QED BY <1>1, <2>1, T3Executed
<1>3. WriteStep(T3!Writable)
  BY <1>1 DEF WriteStep, T3!Writable, T3!Refuses
<1>4. CallOK /\ T3Doing /\ T3Top' /\ T3Seen'
  BY <1>1, <1>2 DEF T3Inv, T3Top, T3Seen
<1>5. CASE Head1.name \notin {"PollNdef", "CheckSystem"}
  BY <1>1, <1>2, <1>3, <1>4, <1>5, T3Lost, T3FailsKeeps
<1>6. CASE Head1.name = "CheckSystem"
  <2>1. Succeeds /\ ~call'.clean /\ T3Checking
    BY <1>1, <1>4, <1>6, T3Lost, T3Sends
  <2>2. call'.status = "SUCCESS" /\ call'.op = "check" /\ ~call'.checked
    BY <1>1, <2>1 DEF Succeeds, Keeps, T3Checking
  <2>3. T3Doing' /\ T3Known'
    BY <2>2 DEF T3Doing, T3Known, Busy
  <2> QED BY <1>1, <1>2, <1>3, <1>4, <2>2, <2>3, NotEnded DEF T3Inv, Keeps
<1>7. CASE Head1.name = "PollNdef"
  <2>1. PICK s : /\ s = Cmd("CheckSystem") \o Cmd("CheckMc") /\ s \in Seq(Commands) /\ Len(s) = 2
                 /\ Follows(s, T3SystemPlan) /\ s # <<>>
    <3>1. PICK s : s = Cmd("CheckSystem") \o Cmd("CheckMc")
      OBVIOUS
    <3>2. s \in Seq(Commands) /\ Len(s) = 2 /\ Follows(s, T3SystemPlan) /\ s # <<>>
      BY <3>1, T3SystemStarts
    <3> QED BY <3>1, <3>2
  <2>2. T3Checking /\ call.op = "check" /\ call.msg = None /\ ~call.checked /\ ~top.presence
    BY <1>1, <1>4, <1>7, T3Sends DEF T3Checking
  <2>3. call'.status = "BUSY" /\ call'.todo = s /\ call'.checked = call.checked
    <3>1. /\ call'.status = "BUSY" /\ call'.todo = Cmd("CheckSystem") \o Cmd("CheckMc")
          /\ call'.checked = call.checked
      BY <1>7, T3Lost
    <3> QED BY <2>1, <3>1
  <2>4. call'.clean => ~tag'.ndef
    <3>1. tag' = tag
      <4>1. T3!Execute(Head1) = tag
        BY <1>7 DEF T3!Execute
      <4> QED BY <1>1, <4>1
    <3>2. call'.clean => ~tag.ndef
      BY <1>1, <1>7 DEF T3!Refuses, T3!Writes
    <3> QED BY <3>1, <3>2
  <2>5. T3Checking'
    <3>1. T3SystemPlan' = T3SystemPlan /\ Left' = 2
      BY <2>1, <2>3 DEF T3SystemPlan, Left
    <3> QED BY <1>1, <2>1, <2>2, <2>3, <2>4, <3>1 DEF T3Checking, Keeps
  <2>6. T3Known' /\ call'.op = "check" /\ ~call'.checked /\ Busy'
    BY <1>1, <2>2, <2>3 DEF T3Known, Keeps, Busy
  <2> QED BY <1>1, <1>2, <1>3, <1>4, <2>5, <2>6, NotEnded DEF T3Inv, T3Doing, Keeps
<1> QED BY <1>5, <1>6, <1>7

-----------------------------------------------------------------------------
(* An operation begins.                                                     *)
LEMMA T3WriteStarts ==
  ASSUME NEW m \in Messages
  PROVE  LET s == Cmd("ReadAccess") \o Cmd("SetFlag") \o Cells("Data", 1, Size[m])
                  \o Cmd("ReadAib") \o Cell("ResetFlag", Size[m])
         IN  s \in Seq(Commands) /\ Len(s) = Size[m] + 4 /\ Follows(s, T3WritePlan(m))
<1>a. PICK p : p = T3WritePlan(m)
  OBVIOUS
<1>0. PICK n \in Nat : n = Size[m] /\ n > 0 /\ p = T3WritePlan(m)
  BY <1>a, Sizes
<1>1. /\ p[n + 4] = C("ReadAccess", 0) /\ p[n + 3] = C("SetFlag", 0)
      /\ p[2] = C("ReadAib", 0) /\ p[1] = C("ResetFlag", n)
  <2>1. p[n + 4] = C("ReadAccess", 0)
    BY <1>0 DEF T3WritePlan
  <2>2. p[n + 3] = C("SetFlag", 0)
    BY <1>0 DEF T3WritePlan
  <2>3. p[2] = C("ReadAib", 0) /\ p[1] = C("ResetFlag", n)
    BY <1>0 DEF T3WritePlan
  <2> QED BY <2>1, <2>2, <2>3
<1>2. ASSUME NEW k \in 1 .. n, NEW r, r = n + 3 - k
      PROVE  p[r] = C("Data", k)
  <2>1. r \in 1 .. n + 4 /\ r \in 3 .. n + 2 /\ n + 3 - r = k
    BY <1>2
  <2> QED BY <1>0, <2>1 DEF T3WritePlan
<1> DEFINE s1 == Cell("ReadAccess", 0)
           s2 == s1 \o Cell("SetFlag", 0)
           s3 == s2 \o Cells("Data", 1, n)
           s4 == s3 \o Cell("ReadAib", 0)
           s5 == s4 \o Cell("ResetFlag", n)
<1>3. First(s1, 1, n + 4, p)
  BY <1>1, FirstNone DEF Names
<1>4. First(s2, 2, n + 4, p)
  BY <1>1, <1>3, FirstOne DEF Names
<1> HIDE DEF s2
<1>5. First(s3, n + 2, n + 4, p)
  <2>1. /\ \A k \in 1 .. n : p[n + 4 - 2 + 1 - k] = C("Data", k)
        /\ n + 2 = 2 + (n + 1 - 1) /\ 1 <= n + 1 /\ n + 4 \in Nat /\ "Data" \in Names
    BY <1>2 DEF Names
  <2> QED BY <1>4, <2>1, FirstMany
<1> HIDE DEF s3
<1>6. First(s4, n + 3, n + 4, p)
  BY <1>1, <1>5, FirstOne DEF Names
<1> HIDE DEF s4
<1>7. First(s5, n + 4, n + 4, p)
  BY <1>1, <1>6, FirstOne DEF Names
<1> HIDE DEF s5
<1>8. s5 \in Seq(Commands) /\ Len(s5) = n + 4 /\ Follows(s5, p)
  BY <1>7, FirstAll
<1>9. s5 = Cmd("ReadAccess") \o Cmd("SetFlag") \o Cells("Data", 1, Size[m])
           \o Cmd("ReadAib") \o Cell("ResetFlag", Size[m])
  BY <1>0, CmdIsCell DEF s2, s3, s4, s5
<1> QED BY <1>0, <1>8, <1>9

(* An operation that sends its first command keeps the invariant.           *)
LEMMA T3Begins ==
  ASSUME T3Inv, ~Busy, NEW op \in Operations, NEW m \in Messages \cup {None},
         NEW todo \in Seq(Commands), todo # <<>>, Start(op, m, todo), tag' = tag, T3Top', T3Seen',
         op # "check" => top' = top,
         T3Checking' \/ T3Formatting' \/ T3Writing' \/ T3Erasing' \/ T3Reading'
  PROVE  T3Inv' /\ WriteStep(T3!Writable)
<1>1. /\ CallOK' /\ call'.op = op /\ call'.status = "BUSY"
      /\ call'.checked => call.checked /\ op # "check"
  BY Started DEF T3Inv, CallOK
<1>2. T3Known'
  BY <1>1 DEF T3Inv, T3Known, Busy, T3!Readable
<1>3. EndedWell(call, T3!Content, T3!Writable)' /\ WriteStep(T3!Writable)
  BY <1>1, NotEnded DEF WriteStep
<1> QED BY <1>1, <1>2, <1>3 DEF T3Inv, T3Tag, T3Doing

(* So does one that is refused at once.                                     *)
LEMMA T3Refuses ==
  ASSUME T3Inv, ~Busy, NEW op \in Operations, NEW m \in Messages \cup {None},
         NEW status \in Statuses, status \notin {"BUSY", "SUCCESS"}, Refuse(op, m, status),
         tag' = tag, top' = top,
         op = "write" => ~(call.checked /\ T3!Writable /\ Size[m] <= Room)
  PROVE  T3Inv' /\ WriteStep(T3!Writable)
<1>1. /\ CallOK' /\ call'.op = op /\ call'.msg = m /\ call'.status = status
      /\ call'.checked = call.checked
  BY WasRefused DEF T3Inv, CallOK
<1>2. T3Top' /\ T3Seen' /\ T3Known' /\ T3Doing' /\ T3Tag'
  BY <1>1 DEF T3Inv, T3Top, T3Seen, T3Known, Busy, T3Doing, T3Tag, T3!Readable
<1>3. T3!Writable' = T3!Writable
  BY DEF T3!Writable
<1>4. EndedWell(call, T3!Content, T3!Writable)' /\ WriteStep(T3!Writable)
  BY <1>1, <1>3 DEF WriteStep, EndedWell, Ended
<1> QED BY <1>1, <1>2, <1>4 DEF T3Inv

(* What begins on a type 3 tag is an operation.                             *)
LEMMA T3Begun ==
  ASSUME T3!Operation
  PROVE  ~Busy /\ tag' = tag /\ Begun
<1> USE DEF Operations
<1>1. ~Busy
  BY T3Session DEF T3!Operation
<1>2. CASE T3!CheckNdef
  BY <1>1, <1>2, T3Calls, StartBegins DEF T3!CheckNdef
<1>3. CASE T3!FormatNdef
  BY <1>1, <1>3, T3Calls, StartBegins DEF T3!FormatNdef
<1>4. CASE T3!ReadNdef
  BY <1>1, <1>4, T3Calls, StartBegins DEF T3!ReadNdef
<1>5. CASE T3!EraseNdef
  BY <1>1, <1>5, T3Calls, StartBegins DEF T3!EraseNdef
<1>8. ASSUME NEW m \in Messages, T3!WriteNdef(m)
      PROVE  ~Busy /\ tag' = tag /\ Begun
  BY <1>1, <1>8, T3Calls, StartBegins DEF T3!WriteNdef
<1> QED BY <1>2, <1>3, <1>4, <1>5, <1>8 DEF T3!Operation

(* CheckNdef begins.                                                        *)
LEMMA T3CheckBegins ==
  ASSUME T3Inv, ~Busy, T3!CheckNdef
  PROVE  T3Inv' /\ WriteStep(T3!Writable)
<1>1. PICK s, p : s = Cmd("PollNdef") \o Cmd("CheckAib") /\ p = T3PollPlan
  OBVIOUS
<1>2. /\ Start("check", None, s) /\ tag' = tag
      /\ top' = [top EXCEPT !.support = FALSE, !.formatted = FALSE, !.presence = FALSE]
  <2>1. PICK x : /\ x = T3!Cmd("PollNdef") \o T3!Cmd("CheckAib") /\ T3!Start("check", None, x)
                 /\ tag' = tag
                 /\ top' = [top EXCEPT !.support = FALSE, !.formatted = FALSE, !.presence = FALSE]
    BY DEF T3!CheckNdef
  <2>2. x = s
    BY <1>1, <2>1, Zenon DEF T3!Cmd, Cmd
  <2> QED BY <2>1, <2>2, T3Calls
<1>3. s \in Seq(Commands) /\ Len(s) = 2 /\ Follows(s, p) /\ s # <<>>
  <2>1. "PollNdef" \in Names /\ "CheckAib" \in Names
    BY DEF Names
  <2>2. p[2] = C("PollNdef", 0) /\ p[1] = C("CheckAib", 0)
    BY <1>1 DEF T3PollPlan
  <2> QED BY <1>1, <2>1, <2>2, TwoCommands
<1>4. T3Top' /\ ~top'.presence /\ top'.max = top.max
  BY <1>2 DEF T3Inv, T3Top
<1>5. ~top'.support
  BY <1>2 DEF T3Inv, T3Top
<1>6. T3Seen'
  BY <1>2, <1>4, <1>5 DEF T3Inv, T3Seen
<1>7. call'.op = "check" /\ call'.msg = None /\ call'.todo = s /\ ~call'.checked
  BY <1>2, <1>3, Started DEF T3Inv, CallOK, Operations
<1>8. T3Checking'
  <2>1. T3PollPlan' = p /\ Left' = 2
    BY <1>1, <1>3, <1>7 DEF T3PollPlan, Left
  <2> QED BY <1>3, <1>4, <1>7, <2>1 DEF T3Checking
<1> QED BY <1>2, <1>3, <1>4, <1>6, <1>8, T3Begins DEF Operations

(* FormatNdef begins.                                                       *)
LEMMA T3FormatBegins ==
  ASSUME T3Inv, ~Busy, T3!FormatNdef
  PROVE  T3Inv' /\ WriteStep(T3!Writable)
<1>1. PICK s, t : s = Cmd("WriteAib") /\ t = Cmd("PollSystem") \o Cmd("ReadMc")
  OBVIOUS
<1>2. /\ tag' = tag /\ top' = top
      /\ (top.support /\ Start("format", None, s)) \/ Start("format", None, t)
  <2>1. PICK x, y : /\ x = T3!Cmd("WriteAib") /\ y = T3!Cmd("PollSystem") \o T3!Cmd("ReadMc")
                    /\ (top.support /\ T3!Start("format", None, x)) \/ T3!Start("format", None, y)
                    /\ tag' = tag /\ top' = top
    BY DEF T3!FormatNdef
  <2>2. x = s /\ y = t
    BY <1>1, <2>1, Zenon DEF T3!Cmd, Cmd
  <2> QED BY <2>1, <2>2, T3Calls
<1>3. s \in Seq(Commands) /\ Len(s) = 1 /\ Follows(s, T3AibPlan) /\ s # <<>>
  <2>1. "WriteAib" \in Names
    BY DEF Names
  <2>2. T3AibPlan[1] = C("WriteAib", 0)
    BY DEF T3AibPlan
  <2> QED BY <1>1, <2>1, <2>2, OneLast
<1>4. t \in Seq(Commands) /\ Len(t) = 2 /\ Follows(t, T3McPlan) /\ t # <<>>
  <2>1. "PollSystem" \in Names /\ "ReadMc" \in Names
    BY DEF Names
  <2>2. T3McPlan[2] = C("PollSystem", 0) /\ T3McPlan[1] = C("ReadMc", 0)
    BY DEF T3McPlan
  <2> QED BY <1>1, <2>1, <2>2, TwoCommands
<1>5. T3Top' /\ T3Seen' /\ T3AibPlan' = T3AibPlan /\ T3McPlan' = T3McPlan
  BY <1>2 DEF T3Inv, T3Top, T3Seen, T3AibPlan, T3McPlan
<1>6. ASSUME NEW x \in Seq(Commands), x # <<>>, Len(x) <= 2, Start("format", None, x),
             Follows(x, T3McPlan) \/ (Follows(x, T3AibPlan) /\ tag.ndef)
      PROVE  T3Inv' /\ WriteStep(T3!Writable)
  <2>1. call'.op = "format" /\ call'.msg = None /\ call'.todo = x
    BY <1>6, Started DEF T3Inv, CallOK, Operations
  <2>2. T3Formatting'
    BY <1>2, <1>5, <1>6, <2>1 DEF T3Formatting, Left
  <2> QED BY <1>2, <1>5, <1>6, <2>2, T3Begins DEF Operations
<1>7. top.support => tag.ndef
  BY DEF T3Inv, T3Seen
<1>8. Len(s) <= 2 /\ Len(t) <= 2
  BY <1>3, <1>4
<1> QED BY <1>2, <1>3, <1>4, <1>6, <1>7, <1>8

(* WriteNdef begins.                                                        *)
LEMMA T3WriteBegins ==
  ASSUME T3Inv, ~Busy, NEW m \in Messages, T3!WriteNdef(m)
  PROVE  T3Inv' /\ WriteStep(T3!Writable)
<1> DEFINE s == Cmd("ReadAccess") \o Cmd("SetFlag") \o Cells("Data", 1, Size[m])
                  \o Cmd("ReadAib") \o Cell("ResetFlag", Size[m])
<1>1. /\ tag' = tag /\ top' = top
      /\ \/ ~top.formatted /\ ~top.support /\ Refuse("write", m, "NOT_FORMATTED")
         \/ Size[m] > top.max /\ Refuse("write", m, "INVALID_PARAMETER")
         \/ ~(Size[m] > top.max) /\ Start("write", m, s)
  <2>1. PICK x : /\ x = T3!Cmd("ReadAccess") \o T3!Cmd("SetFlag") \o T3!Cells("Data", 1, Size[m])
                        \o T3!Cmd("ReadAib") \o T3!Cell("ResetFlag", Size[m])
                 /\ tag' = tag /\ top' = top
                 /\ \/ ~top.formatted /\ ~top.support /\ T3!Refuse("write", m, "NOT_FORMATTED")
                    \/ Size[m] > top.max /\ T3!Refuse("write", m, "INVALID_PARAMETER")
                    \/ ~(Size[m] > top.max) /\ T3!Start("write", m, x)
    BY DEF T3!WriteNdef
  <2>2. x = s
    BY <2>1, Zenon DEF T3!Cmd, Cmd, T3!Cell, Cell, T3!Cells, Cells
  <2> HIDE DEF s
  <2> QED BY <2>1, <2>2, T3Calls
<1>2. s \in Seq(Commands) /\ Len(s) = Size[m] + 4 /\ Follows(s, T3WritePlan(m))
  BY T3WriteStarts
<1> HIDE DEF s
<1>3. /\ T3Top' /\ T3Seen' /\ m \in Messages \cup {None} /\ Size[m] \in Nat /\ Size[m] > 0 /\ Room \in Nat
      /\ top.max \in {0, Room}
  BY <1>1, Sizes, RoomPositive DEF T3Inv, T3Top, T3Seen
<1>4. call.checked /\ T3!Writable => (top.formatted \/ top.support) /\ top.max = Room
  BY DEF T3Inv, T3Known, T3!Writable
<1>5. CASE ~top.formatted /\ ~top.support /\ Refuse("write", m, "NOT_FORMATTED")
  BY <1>1, <1>3, <1>4, <1>5, T3Refuses DEF Operations, Statuses
<1>6. CASE Size[m] > top.max /\ Refuse("write", m, "INVALID_PARAMETER")
  <2>1. ~(call.checked /\ T3!Writable /\ Size[m] <= Room)
    BY <1>3, <1>4, <1>6
  <2> QED BY <1>1, <1>3, <1>6, <2>1, T3Refuses DEF Operations, Statuses
<1>7. CASE ~(Size[m] > top.max) /\ Start("write", m, s)
  <2>1. call'.op = "write" /\ call'.msg = m /\ call'.todo = s
    BY <1>2, <1>3, <1>7, Started DEF T3Inv, CallOK, Operations
  <2>2. s # <<>>
    <3>1. Len(s) > 0
      BY <1>2, <1>3
    <3> QED BY <1>2, <3>1, NotEmpty
  <2>3. m \in Fitting /\ top.max # 0
    BY <1>3, <1>7 DEF Fitting
  <2>4. tag'.ndef
    BY <1>1, <2>3 DEF T3Inv, T3Seen
  <2>5. Left' = Size[m] + 4 /\ T3Written(m, Size[m], Size[m] + 4)'
    BY <1>2, <1>3, <2>1 DEF Left, T3Written
  <2>6. T3Writing'
    BY <1>2, <1>3, <2>1, <2>3, <2>4, <2>5 DEF T3Writing, T3WritePlan
  <2> QED BY <1>1, <1>2, <1>3, <1>7, <2>2, <2>6, T3Begins DEF Operations
<1> QED BY <1>1, <1>5, <1>6, <1>7

(* EraseNdef begins.                                                        *)
LEMMA T3EraseBegins ==
  ASSUME T3Inv, ~Busy, T3!EraseNdef
  PROVE  T3Inv' /\ WriteStep(T3!Writable)
<1>1. PICK s : s = Cmd("ReadLength")
  OBVIOUS
<1>2. tag' = tag /\ top' = top /\ Start("erase", None, s)
  <2>1. PICK x : x = T3!Cmd("ReadLength") /\ tag' = tag /\ top' = top /\ T3!Start("erase", None, x)
    BY DEF T3!EraseNdef
  <2>2. x = s
    BY <1>1, <2>1, Zenon DEF T3!Cmd, Cmd
  <2> QED BY <2>1, <2>2, T3Calls
<1>3. s \in Seq(Commands) /\ Len(s) = 1 /\ s[1] = C("ReadLength", 0)
  BY <1>1, OneCommand DEF Names
<1>4. s # <<>> /\ Head(s) = C("ReadLength", 0)
  <2>1. Len(s) > 0
    BY <1>3
  <2>2. s # <<>>
    BY <1>3, <2>1, NotEmpty
  <2> QED BY <1>3, <2>2, TodoTail
<1>5. call'.op = "erase" /\ call'.msg = None /\ call'.todo = s
  BY <1>2, <1>3, Started DEF T3Inv, CallOK, Operations
<1>6. T3Erasing'
  <2>1. C("ReadLength", 0).name = "ReadLength"
    BY DEF C
  <2>2. Left' = 1 /\ Head1'.name = "ReadLength" /\ call'.todo[Left'].name = "ReadLength"
    BY <1>3, <1>4, <1>5, <2>1 DEF Left, Head1
  <2>3. \A i \in 1 .. Len(s) : s[i].name = "ReadLength"
    BY <1>3, <2>1
  <2>4. Named(call'.todo, {"ReadLength", "SetFlag", "Zero", "ReadAib", "ResetFlag"})
    BY <1>5, <2>3 DEF Named
  <2>5. \A i \in 1 .. Left' : call'.todo[i].name = "ResetFlag" => call'.todo[i].k = 0
    BY <1>3, <1>5, <2>2, <2>3
  <2> QED BY <1>5, <2>2, <2>4, <2>5 DEF T3Erasing
<1>7. T3Top' /\ T3Seen'
  BY <1>2 DEF T3Inv, T3Top, T3Seen
<1> QED BY <1>2, <1>3, <1>4, <1>6, <1>7, T3Begins DEF Operations

(* ReadNdef begins.                                                         *)
LEMMA T3ReadBegins ==
  ASSUME T3Inv, ~Busy, T3!ReadNdef
  PROVE  T3Inv' /\ WriteStep(T3!Writable)
<1> DEFINE s == Cells("Read", 1, top.len)
<1>1. top.len \in Nat
  BY RoomPositive DEF T3Inv, T3Top
<1>2. s \in Seq(Commands) /\ Len(s) = top.len /\ Follows(s, ReadPlan)
  BY <1>1, ReadStarts
<1>3. /\ tag' = tag /\ top' = top
      /\ \/ T3!Readable /\ Start("read", None, s)
         \/ Refuse("read", None, "PROTOCOL_ERROR")
  <2>1. PICK x : /\ x = T3!Cells("Read", 1, top.len) /\ tag' = tag /\ top' = top
                 /\ \/ T3!Readable /\ T3!Start("read", None, x)
                    \/ T3!Refuse("read", None, "PROTOCOL_ERROR")
    BY DEF T3!ReadNdef
  <2>2. x = s
    BY <2>1, Zenon DEF T3!Cells, Cells
  <2> HIDE DEF s
  <2> QED BY <2>1, <2>2, T3Calls
<1> HIDE DEF s
<1>4. T3Top' /\ T3Seen' /\ None \in Messages \cup {None} /\ T3Tag'
  BY <1>3 DEF T3Inv, T3Top, T3Tag, T3Seen
<1>5. CASE Refuse("read", None, "PROTOCOL_ERROR")
  BY <1>3, <1>5, T3Refuses DEF Operations, Statuses
<1>6. CASE T3!Readable /\ Start("read", None, s)
  <2>1. /\ CallOK' /\ call'.op = "read" /\ call'.msg = None /\ call'.todo = s /\ call'.got = <<>>
        /\ call'.status = (IF s = <<>> THEN "SUCCESS" ELSE "BUSY")
        /\ call'.checked => call.checked
    BY <1>2, <1>6, Started DEF T3Inv, CallOK, Operations
  <2>2. CASE s # <<>>
    <3>1. T3Reading'
      BY <1>1, <1>2, <1>3, <1>6, <2>1 DEF T3Reading, ReadingCells, ReadPlan, GotCells, Left, T3!Readable
    <3> QED BY <1>2, <1>3, <1>4, <1>6, <2>2, <3>1, T3Begins DEF Operations
  <2>3. CASE s = <<>>
    <3>1. top.len = 0 /\ call'.status = "SUCCESS"
      BY <1>2, <2>1, <2>3
    <3>2. call.checked => tag.ndef /\ tag.len = 0
      BY <1>6, <3>1 DEF T3Inv, T3Known
    <3>3. Len(call'.got) = 0 /\ Stored(call'.got, 0) = None
      BY <2>1, StoredNothing
    <3>4. call'.checked => T3!Content' = None
      BY <1>3, <2>1, <3>2, StoredNothing, T3Session DEF T3!Content
    <3>5. EndedWell(call, T3!Content, T3!Writable)' /\ WriteStep(T3!Writable)
      BY <2>1, <3>1, <3>3, <3>4 DEF EndedWell, Ended, WriteStep
    <3>6. T3Known' /\ T3Doing'
      BY <1>3, <2>1, <3>1 DEF T3Inv, T3Known, T3Doing, Busy, T3!Readable
    <3> QED BY <1>4, <2>1, <3>5, <3>6 DEF T3Inv
  <2> QED BY <2>2, <2>3
<1> QED BY <1>3, <1>5, <1>6

(* Every step on a type 3 tag keeps its invariant.                          *)
LEMMA T3NextKeeps ==
  ASSUME T3Inv, T3!Next
  PROVE  /\ T3Inv' /\ WriteStep(T3!Writable)
         /\ \/ ~Busy /\ tag' = tag /\ Begun
            \/ Busy /\ Keeps /\ Effect(call, T3!Content, None, T3!Content', None)
<1>1. CASE T3!Answer
  BY <1>1, T3AnswerKeeps
<1>2. CASE T3!Refused \/ T3!NoAnswer
  BY <1>2, T3LossKeeps
<1>3. CASE T3!Operation
  BY <1>3, T3Begun, T3CheckBegins, T3FormatBegins, T3WriteBegins, T3ReadBegins, T3EraseBegins
     DEF T3!Operation
<1> QED BY <1>1, <1>2, <1>3 DEF T3!Next
=============================================================================
