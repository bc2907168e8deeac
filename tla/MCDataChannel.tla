--------------------------- MODULE MCDataChannel ---------------------------
(* Two requests to join, of two rooms under two names.                     *)
EXTENDS DataChannel

CONSTANTS r1, r2, n1, n2

MCRooms == {r1, r2}
MCNames == {n1, n2}
=============================================================================
