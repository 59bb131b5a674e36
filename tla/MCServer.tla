------------------------------ MODULE MCServer ------------------------------
(* Instances of Server for TLC. *)
EXTENDS Server, TLC

CONSTANTS ann, bob, cid

Fd == 4  \* the first descriptor accept() returns
TwoSockets == {Fd, Fd + 1}
Closed == -1

\* No line: every match is a draw once the cells are full, one after the first move.
OneCell == {1}
NoLines == <<>>

\* Two cells, X or O wins with cell 2.
TwoCells == 1..2
WinLine == <<{2}>>

UserSymmetry == Permutations(Users)
\* Where there are no lines, and cells are model values, cells are alike.
DrawSymmetry == UserSymmetry \cup Permutations(Cells)
=============================================================================
