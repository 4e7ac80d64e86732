---------------------------- MODULE MCSessions ----------------------------
(* Instances of Sessions for TLC: the bounds are in the .cfg files. *)
EXTENDS Sessions
=============================================================================
