----------------------------- MODULE MCShutdown -----------------------------
(* Instance of Shutdown for TLC. *)
EXTENDS Shutdown

TwoFds == {4, 5}
=============================================================================
