------------------------------- MODULE NdefTag -------------------------------
(***************************************************************************)
(* What the tag operations promise of the NDEF message on a tag, whatever  *)
(* frames are lost: another reader finds, at every moment, the message     *)
(* that was there, no message, or the whole of the message being written,  *)
(* and only an operation that may change the message does.                 *)
(***************************************************************************)
CONSTANTS Messages, None

VARIABLES
  content,  \* the message on the tag, or None
  hidden,   \* a message that only lacks the mark of the tag
  job       \* the operation in progress and its message

vars == <<content, hidden, job>>

Operations == {"check", "read", "readonly", "format", "write", "erase"}
Idle == [op |-> "none", msg |-> None]

Init == content \in Messages \cup {None} /\ hidden = None /\ job = Idle

\* An operation begins, or ends with or without success.
Begin(op, m) == job = Idle /\ job' = [op |-> op, msg |-> m] /\ UNCHANGED <<content, hidden>>
End == job' = Idle /\ UNCHANGED <<content, hidden>>

\* The message there is unmarked; an erase may leave it in the memory.
Unmark ==
  /\ job.op \in {"format", "write", "erase"}
  /\ content' = None
  /\ \/ hidden' = None
     \/ job.op = "erase" /\ hidden' = content
  /\ job' \in {job, Idle}

\* A message comes to be there as a whole, unseen if an erase cut off before
\* its answer has taken the mark away.
Store ==
  /\ job.op \in {"format", "write"}
  /\ \/ content' = job.msg /\ hidden' = None
     \/ content = None /\ hidden' = job.msg /\ UNCHANGED content
  /\ job' \in {job, Idle}

\* Marking the tag again brings back the message an erase left in the memory.
Reappear ==
  /\ job.op = "format" /\ content = None
  /\ content' = hidden /\ hidden' = None
  /\ job' \in {job, Idle}

Next ==
  \/ \E op \in Operations, m \in Messages \cup {None} : Begin(op, m)
  \/ End \/ Unmark \/ Store \/ Reappear

Spec == Init /\ [][Next]_vars
=============================================================================
