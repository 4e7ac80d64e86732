------------------------------ MODULE MCMachines ----------------------------
(* The instance of Machines that TLC checks: labels that differ only in case. *)
EXTENDS Machines

MCLabels == {"Fan", "fan", "pump"}
MCLower == [l \in MCLabels |-> IF l = "Fan" THEN "fan" ELSE l]
=============================================================================
