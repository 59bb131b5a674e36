------------------------------ MODULE MCClient ------------------------------
(* Instance of Client for TLC. *)
EXTENDS Client

\* One cell, one game; the server sends waits and errors.
OneCell == {1}
OneGame == {0}
SomeMessages == {WaitingMsg(0), ErrorMsg}
AllElements == Commands \cup ServerMessages
=============================================================================
