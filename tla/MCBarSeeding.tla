---------------------------- MODULE MCBarSeeding ----------------------------
(* Two symbols, one of them in the pool, batches of one. *)
EXTENDS BarSeeding
CONSTANTS s1, s2
=============================================================================
