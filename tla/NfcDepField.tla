----------------------------- MODULE NfcDepField -----------------------------
(***************************************************************************)
(* The frames of the data exchange protocol of ISO/IEC 18092 (NFC-DEP) and *)
(* the field that carries one of them at a time.                           *)
(***************************************************************************)
EXTENDS Integers, Sequences

CONSTANTS
  MaxBlocks,   \* the largest message, in blocks
  PniModulus   \* the range of bPni, 256 in the code

ASSUME BlocksAssumption == MaxBlocks \in Nat \ {0}
ASSUME ModulusAssumption == PniModulus \in Nat /\ PniModulus > 4

VARIABLE air  \* the frame in the field

\* A packet number has two bits in a frame; bPni has eight.
INCREMENT_PNI(p) == IF p = 3 THEN 0 ELSE (p + 1) % PniModulus

DecrementPni(p) == (p - 1) % PniModulus

\* block: the block of a message that an information PDU carries, by message
\* and place; the messages of each end are numbered 0 and 1 in turn.  BAD: no
\* valid PDU.
Block == {0, 1} \X (0 .. MaxBlocks)
NoBlock == <<0, 0>>
NextMessage(m) == 1 - m
Kinds == {"NONE", "I", "ACK", "NACK", "ATN", "DSL", "BAD"}
Frame == [to : {"I", "T"}, kind : Kinds, pni : 0 .. 3, more : BOOLEAN, block : Block]
Supervisory(to, kind) == [to |-> to, kind |-> kind, pni |-> 0, more |-> FALSE, block |-> NoBlock]
NoFrame == Supervisory("T", "NONE")

\* WritePduHeader: the packet number is or-ed into the PFB, and one of more
\* than two bits spoils it.
Pdu(to, kind, pni, more, block) ==
  IF pni > 3 THEN Supervisory(to, "BAD")
  ELSE [to |-> to, kind |-> kind, pni |-> pni, more |-> more, block |-> block]
=============================================================================
