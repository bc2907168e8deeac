---------------------------- MODULE MCRoomAdmin ----------------------------
(* Two rooms, and enough operations for one to overtake another.           *)
EXTENDS RoomAdmin, TLC

CONSTANTS r1, r2

MCRooms == {r1, r2}
AdminSymmetry == Permutations(MCRooms)
=============================================================================
