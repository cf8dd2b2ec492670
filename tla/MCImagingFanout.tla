--------------------------- MODULE MCImagingFanout ---------------------------
(* Small instances of the imaging proxy for TLC.                           *)
EXTENDS ImagingFanout, TLC

SlotSymmetry == Permutations(Slots)
=============================================================================
