------------------------------- MODULE MCWire -------------------------------
(* Instance of Wire for TLC. *)
EXTENDS Wire

\* MSG_LIST_GAMES, MSG_ERROR and MSG_JOIN_DECISION: payloads of no, one and two fields.
ThreeTypes == {5, 16, 11}
=============================================================================
