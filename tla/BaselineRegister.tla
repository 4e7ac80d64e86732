-------------------------- MODULE BaselineRegister --------------------------
(***************************************************************************)
(* What calibration promises, with no transaction, lock or failure in it:  *)
(* every machine holds at most one current baseline, a new baseline takes  *)
(* its place in one indivisible step, and a baseline that lost its place   *)
(* is kept for ever, because a past z-score means nothing without the      *)
(* baseline that produced it (src/internal/usecase/baseline.go:69-72).     *)
(***************************************************************************)
EXTENDS FiniteSets

CONSTANTS Machines, Baselines

VARIABLES
  current,      \* current[m]: the machine's active baseline, as a set of at most one
  superseded    \* superseded[m]: the baselines that have been current before

vars == <<current, superseded>>

Init ==
  /\ current    = [m \in Machines |-> {}]
  /\ superseded = [m \in Machines |-> {}]

Fresh(b) == \A m \in Machines : b \notin current[m] \cup superseded[m]

Switch(m, b) ==
  /\ Fresh(b)
  /\ current'    = [current EXCEPT ![m] = {b}]
  /\ superseded' = [superseded EXCEPT ![m] = @ \cup current[m]]

Next == \E m \in Machines, b \in Baselines : Switch(m, b)

Spec == Init /\ [][Next]_vars
=============================================================================
