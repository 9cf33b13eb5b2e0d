----------------------------- MODULE MCLlcpLink -----------------------------
(* Instances of LlcpLink: the stacks of the two ends, frames of others.    *)
EXTENDS LlcpLink

Stack(version, miu, lto) == [version |-> version, params |-> [miu |-> miu, lto |-> lto]]
StacksOf(ini, tgt) == [n \in Ends |-> IF n = "ini" THEN ini ELSE tgt]

(* Versions 1.1 on both sides with parameters that differ, and 1.1 with a  *)
(* peer of 2.1.                                                            *)
MCStacks ==
  {StacksOf(Stack(17, 400, 50), Stack(17, 128, 10)),
   StacksOf(Stack(17, 128, 10), Stack(33, 400, 50))}

MCForeign == {<<Packet("DISC", 0)>>, <<Packet("DATA", 0), Packet("DISC", 0), Packet("DATA", 0)>>}

=============================================================================
