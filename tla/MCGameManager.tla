--------------------------- MODULE MCGameManager ---------------------------
(* Instance of GameManager for TLC: the program's own 3x3 board. *)
EXTENDS GameManager, TLC

CONSTANTS S1, S2, S3

SocketSymmetry == Permutations(Sockets)

\* Bound: while two games exist neither has a mark on its board.
OneMatchAtATime ==
  Cardinality(DOMAIN games) > 1 => \A id \in DOMAIN games : games[id].board = EmptyBoard
=============================================================================
