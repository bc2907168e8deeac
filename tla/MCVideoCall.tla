---------------------------- MODULE MCVideoCall ----------------------------
(* One publisher handle and two more, one feed, one window for two streams. *)
EXTENDS VideoCall, TLC

CONSTANTS b1, b2, b3, f1

MCBlocks == {b1, b2, b3}
TwoBlocks == {b1, b2}
MCFeeds == {f1}
BlockSymmetry == Permutations(MCBlocks)
=============================================================================
