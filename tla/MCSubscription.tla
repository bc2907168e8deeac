--------------------------- MODULE MCSubscription ---------------------------
(* Room for a publisher and a subscriber of two sessions, or two feeds.    *)
EXTENDS Subscription, TLC

CONSTANTS b1, b2, b3, b4, f1, f2

MCBlocks == {b1, b2, b3, b4}
MCFeeds == {f1, f2}
RoomSymmetry == Permutations(MCBlocks) \cup Permutations(MCFeeds)
=============================================================================
