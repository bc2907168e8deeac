--------------------------- MODULE MCVideoOutput ---------------------------
(* Two streams, and frames of a wide and of a high, odd size; in a box of  *)
(* 8x4 a third size fits by its area only.                                 *)
EXTENDS VideoOutput, TLC

CONSTANTS s1, s2

MCStreams == {s1, s2}
OneStream == {s1}
MCSizes == {[w |-> 8, h |-> 3], [w |-> 5, h |-> 4]}
AnySizes == MCSizes \cup {[w |-> 4, h |-> 7]}
StreamSymmetry == Permutations(MCStreams)
=============================================================================
