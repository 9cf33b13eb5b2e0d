------------------------------ MODULE MCRc523 ------------------------------
(***************************************************************************)
(* A small FIFO in front of frames that are longer: setups and bounds.     *)
(***************************************************************************)
EXTENDS Rc523

\* most: the calls that count, faults: disturbed frames, failing accesses
Base == [shared |-> FALSE, spi |-> FALSE, target |-> FALSE, precache |-> 3,
         rxMultiple |-> FALSE, rfReset |-> FALSE, collTimer |-> TRUE,
         calls |-> {"exchange", "start_pos"}, most |-> 2, faults |-> 1]

Target == [Base EXCEPT !.target = TRUE, !.most = 3]

MCSetups == {
    [Base EXCEPT !.rfReset = TRUE],
    [Base EXCEPT !.shared = TRUE, !.spi = TRUE],
    [Base EXCEPT !.shared = TRUE, !.calls = @ \union {"crc", "mem"}, !.faults = 0],
    [Base EXCEPT !.precache = 1, !.calls = {"exchange", "transmit", "receive", "fifo"}],
    [Base EXCEPT !.calls = {"exchange", "auth", "auth_key_no", "wait", "reset"}],
    [Base EXCEPT !.rxMultiple = TRUE, !.calls = {"exchange"}, !.most = 1],
    [Target EXCEPT !.calls = {"autocoll", "exchange", "receive"}],
    [Target EXCEPT !.shared = TRUE, !.spi = TRUE, !.collTimer = FALSE, !.rfReset = TRUE,
                   !.calls = {"autocoll", "cmd_autocoll", "exchange", "receive", "reset"}]}

ASSUME SetupsAssumption ==
    RequestsApart(MCSetups) /\ TransmitsDirectly(MCSetups) /\ ReceivesByTransceive(MCSetups)
=============================================================================
