----------------------------- MODULE TagSession -----------------------------
(***************************************************************************)
(* What the operations on the four types of NFC Forum tags have in common. *)
(* An operation of phalTop is a sequence of commands to the tag; control   *)
(* leaves it only there.  So a step is what the code does from the answer  *)
(* to one command (or its absence) up to the next command or its return.   *)
(* todo is the rest of the commands the code sends if it meets no error.   *)
(*                                                                         *)
(* A message occupies Size cells (blocks of the tag, or the pieces it is   *)
(* written in); a cell holds the message it is a part of.                  *)
(***************************************************************************)
EXTENDS Naturals, Sequences

CONSTANTS
  Messages,  \* the NDEF messages
  Size,      \* their sizes in cells
  Room,      \* the cells a tag has for a message
  Default,   \* the message FormatNdef of a type 2 tag writes
  None, Blank, Torn

ASSUME SizeAssumption == Room \in Nat \ {0} /\ Size \in [Messages -> Nat \ {0}]
ASSUME DefaultAssumption == Default \in Messages /\ Size[Default] <= Room
ASSUME ValueAssumption == {None, Blank, Torn} \cap Messages = {} /\ Blank # None /\ Torn # None

VARIABLES
  tag,   \* the tag
  top,   \* the parameters of its type in phalTop_Sw_DataParams_t
  call   \* the operation in progress, or the last one

session == <<tag, top, call>>

Operations == {"check", "read", "readonly", "format", "write", "erase"}
Access == {"RW", "RO"}

\* One cell more than a message can use: what lies after the data area.
Area == 1 .. Room + 1
Empty == [k \in Area |-> Blank]
Filled(m) == [k \in Area |-> IF k <= Size[m] THEN m ELSE Blank]
Fitting == {m \in Messages : Size[m] <= Room}

\* What a reader makes of n cells: no message, one, or parts of several.
Stored(cells, n) ==
  LET whole == {m \in Messages : Size[m] = n /\ \A k \in 1 .. n : cells[k] = m} IN
  IF n = 0 THEN None ELSE IF whole = {} THEN Torn ELSE CHOOSE m \in whole : TRUE

-----------------------------------------------------------------------------
(* Commands and calls. *)

Command == [name : STRING, k : Nat]
Cmd(name) == <<[name |-> name, k |-> 0]>>
Cell(name, k) == <<[name |-> name, k |-> k]>>
Cells(name, a, b) == [k \in 1 .. b + 1 - a |-> [name |-> name, k |-> a + k - 1]]

\* got: the cells read; gone: the tag has left the field until the call
\* returns; clean: (ghost) no frame of the call was lost; checked: (ghost)
\* no operation has failed on the way since a CheckNdef that met no loss, and
\* the tag was not made read-only.
Returned(status) ==
  [op |-> "none", msg |-> None, todo |-> <<>>, got |-> <<>>, status |-> status,
   gone |-> FALSE, clean |-> TRUE, checked |-> FALSE]

Busy == call.status = "BUSY"
Head1 == Head(call.todo)

\* With no command to send the call returns at once.
Start(op, m, todo) ==
  call' = [op |-> op, msg |-> m, todo |-> todo, got |-> <<>>,
           status |-> IF todo = <<>> THEN "SUCCESS" ELSE "BUSY",
           gone |-> FALSE, clean |-> TRUE, checked |-> call.checked /\ op # "check"]

Refuse(op, m, status) ==
  call' = [op |-> op, msg |-> m, todo |-> <<>>, got |-> <<>>, status |-> status,
           gone |-> FALSE, clean |-> TRUE, checked |-> call.checked]

\* The call goes on with todo, or returns when status is not BUSY.
Go(c, todo, status) ==
  LET s == IF status = "BUSY" /\ todo = <<>> THEN "SUCCESS" ELSE status IN
  [c EXCEPT !.todo = IF s = "BUSY" THEN todo ELSE <<>>, !.status = s,
            !.gone = @ /\ s = "BUSY",
            !.checked = CASE s = "BUSY" -> @
                          [] s = "SUCCESS" /\ c.op # "readonly" -> @ \/ (c.op = "check" /\ c.clean)
                          [] OTHER -> FALSE]

Reply(cell) == [call EXCEPT !.got = Append(@, cell)]

\* No answer: the command or its answer was lost, or the tag has left.
Lost(gone) == [call EXCEPT !.gone = gone, !.clean = FALSE]

\* The tag's state when no answer comes: the command may have been executed.
Maybe(executed, refuses) == IF call.gone \/ refuses THEN {tag} ELSE {tag, executed}

Done(op) == call.op = op /\ call.status = "SUCCESS"

=============================================================================
