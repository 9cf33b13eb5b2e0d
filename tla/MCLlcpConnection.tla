-------------------------- MODULE MCLlcpConnection --------------------------
(***************************************************************************)
(* Instances of LlcpConnection for TLC.  NB_SOCKET_MAX is 2 as in          *)
(* phlnLlcp.h; a window of 1 is PHLNLLCP_FRI_RW_DEFAULT.                   *)
(***************************************************************************)
EXTENDS LlcpConnection

Windows(i, t) == [d \in Peer |-> IF d = "initiator" THEN i ELSE t]
Sdus(i, t) == [d \in Peer |-> [s \in Sockets |-> IF d = "initiator" THEN i ELSE t]]

RW_1_1 == Windows(1, 1)
RW_1_2 == Windows(1, 2)
Sdu_2_2 == Sdus(2, 2)
Sdu_3_2 == Sdus(3, 2)
=============================================================================
