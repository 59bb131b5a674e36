----------------------------- MODULE MCRematch -----------------------------
(* Instance of Rematch for TLC: three cells, X can win with 1 and 3, and a  *)
(* full board without that line is a draw.                                  *)
EXTENDS Rematch, TLC

CONSTANTS S1, S2, S3

ThreeCells == 1..3
PairLine == <<{1, 3}>>
SocketSymmetry == Permutations(Sockets)
=============================================================================
