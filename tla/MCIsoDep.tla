------------------------------ MODULE MCIsoDep ------------------------------
(* Instances of IsoDep for TLC. *)
EXTENDS IsoDep

MC_Wtxm == {1, 60}
=============================================================================
