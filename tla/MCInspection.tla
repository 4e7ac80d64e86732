---------------------------- MODULE MCInspection ----------------------------
(* Instances of Inspection for TLC: the bounds are in the .cfg files. *)
EXTENDS Inspection
=============================================================================
