-------------------------- MODULE MCJanusWebSocket --------------------------
(* JanusWebSocket with the code's ratio of the two intervals:              *)
(* 25000 ms : 60000 ms = 5 : 12.                                           *)
EXTENDS JanusWebSocket
=============================================================================
