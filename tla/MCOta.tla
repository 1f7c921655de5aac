-------------------------------- MODULE MCOta --------------------------------
(***************************************************************************)
(* Ota on small instances.  The requests differ in their name alone, and   *)
(* the runs without liveness take them up to symmetry.                     *)
(***************************************************************************)
EXTENDS Ota, TLC

Symmetry == Permutations(Requests)
=============================================================================
