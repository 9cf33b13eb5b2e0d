------------------------------- MODULE MCNfcDep -------------------------------
(* Instances of NfcDep for TLC. *)
EXTENDS NfcDep
=============================================================================
