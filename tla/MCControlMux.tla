---------------------------- MODULE MCControlMux ----------------------------
(* Small instances of the control proxy for TLC.                           *)
EXTENDS ControlMuxRefinement, ControlMuxInv, TLC

ClientSymmetry == Permutations(Clients)
SlotSymmetry   == Permutations(Slots)
Symmetry       == ClientSymmetry \cup SlotSymmetry
=============================================================================
