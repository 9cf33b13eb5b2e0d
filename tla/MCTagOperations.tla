--------------------------- MODULE MCTagOperations ---------------------------
(* Instances of TagOperations for TLC. *)
EXTENDS TagOperations

CONSTANTS d, m, n, l

MC_Messages == {d, m, n, l}
MC_Size == [x \in MC_Messages |-> CASE x = d -> 1 [] x = l -> Room + 1 [] OTHER -> 2]
=============================================================================
