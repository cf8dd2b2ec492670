-------------------------- MODULE MCSessionRecording --------------------------
(* Small instances of the recorder for TLC.                                *)
EXTENDS SessionRecording

Symmetry == Permutations(Readers) \cup Permutations(Talkers)
=============================================================================
