---------------------------- MODULE TagOperations ----------------------------
(***************************************************************************)
(* phalTop_Sw.c: the operations on the tag of the type that is set, and    *)
(* what they promise their caller.                                         *)
(***************************************************************************)
EXTENDS TagSession

CONSTANT Types  \* the types of tags there are

ASSUME TypesAssumption == Types \subseteq {"T1T", "T2T", "T3T", "T4T"}

VARIABLE type   \* bTagType

vars == <<type, session>>

T1 == INSTANCE T1T
T2 == INSTANCE T2T
T3 == INSTANCE T3T
T4 == INSTANCE T4T

\* Of(type): what the module of the type says.
Content ==
  CASE type = "T1T" -> T1!Content [] type = "T2T" -> T2!Content
    [] type = "T3T" -> T3!Content [] type = "T4T" -> T4!Content
Hidden == IF type = "T2T" THEN T2!Hidden ELSE None
\* phalTop_ReadNdef would return a message.
Readable ==
  CASE type = "T1T" -> T1!Readable [] type = "T2T" -> T2!Readable
    [] type = "T3T" -> T3!Readable [] type = "T4T" -> T4!Readable
\* Nothing on the tag or in the configuration forbids writing a message.
Writable ==
  CASE type = "T1T" -> T1!Writable [] type = "T2T" -> T2!Writable
    [] type = "T3T" -> T3!Writable [] type = "T4T" -> T4!Writable

Init ==
  /\ call = Returned("SUCCESS")
  /\ \/ type = "T1T" /\ tag \in T1!Tags /\ top = T1!Reset
     \/ type = "T2T" /\ tag \in T2!Tags /\ top = T2!Reset
     \/ type = "T3T" /\ tag \in T3!Tags /\ top = T3!Reset
     \/ type = "T4T" /\ tag \in T4!Tags /\ top = T4!Reset
  /\ type \in Types

\* phalTop_Reset.
Reset ==
  /\ ~Busy /\ UNCHANGED <<type, tag>>
  /\ call' = Returned("SUCCESS")
  /\ top' = CASE type = "T1T" -> T1!ResetTop [] type = "T2T" -> T2!ResetTop
              [] type = "T3T" -> T3!ResetTop [] type = "T4T" -> T4!ResetTop

Operation ==
  /\ UNCHANGED type
  /\ \/ type = "T1T" /\ T1!Next
     \/ type = "T2T" /\ T2!Next
     \/ type = "T3T" /\ T3!Next
     \/ type = "T4T" /\ T4!Next

Next == Reset \/ Operation

Spec == Init /\ [][Next]_vars

-----------------------------------------------------------------------------
(* Properties. *)

\* An operation that returns PH_ERR_SUCCESS has done what it is for, whatever
\* was lost on the way: the message written is the one on the tag (if nothing
\* has failed since the tag was checked), and after an erase or a format the old
\* one is not.
SuccessMeansDone ==
  /\ Done("write") /\ call.checked => Content = call.msg
  /\ Done("erase") => Content = None
  /\ Done("format") => Content = call.msg

\* What phalTop_ReadNdef returns is the message on the tag, provided that no
\* operation has failed on the way since phalTop_CheckNdef succeeded: what the
\* operations note of the tag is not stale.
ReadIsCurrent ==
  Done("read") /\ call.checked => Stored(call.got, Len(call.got)) = Content

\* A message that fits, on a tag that can be written and that was checked, is
\* written unless frames are lost: no earlier operation, done or cut off,
\* leaves the tag or the parameters in a state that forbids it.
WriteSucceeds ==
  [][call'.op = "write" /\ ~Busy' /\ call'.clean /\ call.checked /\ Size[call'.msg] <= Room /\ Writable
       => call'.status = "SUCCESS"]_vars

\* What a reader finds on the tag, and the operation in progress.
Promise == INSTANCE NdefTag WITH
  content <- Content, hidden <- Hidden,
  job <- [op |-> IF Busy THEN call.op ELSE "none", msg |-> IF Busy THEN call.msg ELSE None]

\* At every moment the tag holds the old message, no message or the whole new
\* one, though a frame may be lost at every step; reading and checking never
\* change it.
ImplementsNdefTag == Promise!Spec
=============================================================================
