----------------------------- MODULE MCGameList -----------------------------
(* Instances of GameList for TLC. *)
EXTENDS GameList, TLC

CONSTANTS t1, t2, t3, n1, n2, n3

\* Threads and addresses are interchangeable.
Symmetry == Permutations(Threads) \cup Permutations(Nodes)
=============================================================================
