---------------------------- MODULE MCExitLadder ----------------------------
(* Instance for TLC: constants are given in the configuration files. *)
EXTENDS ExitLadder
=============================================================================
