------------------------------- MODULE MCDevice -------------------------------
(* Small instances of the device. *)
EXTENDS Device
=============================================================================
