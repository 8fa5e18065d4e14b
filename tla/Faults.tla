------------------------------- MODULE Faults -------------------------------
(***************************************************************************)
(* What the other ends of the DSLWP proxy's connections do against it:     *)
(* refuse or close a connection, MaxFaults times in a behaviour.           *)
(***************************************************************************)
EXTENDS Naturals

CONSTANT MaxFaults

ASSUME MaxFaultsAssumption == MaxFaults \in Nat

VARIABLE faults

Fault == faults < MaxFaults /\ faults' = faults + 1
=============================================================================
