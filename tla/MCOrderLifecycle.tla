---------------------------- MODULE MCOrderLifecycle ----------------------------
(* OrderLifecycle with the main loop and the position-sync thread as callers. *)
EXTENDS OrderLifecycle
=================================================================================
