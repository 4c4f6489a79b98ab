---------------------------- MODULE MCMoverBoard ----------------------------
(* Two symbols, a hot watch and a pool of one, two kinds of mover: a runner  *)
(* and a name that is liquid enough for the pool and no more.                *)
EXTENDS MoverBoard
CONSTANTS s1, s2

MCKinds ==
  {[sym |-> s1, price |-> 6, change |-> 12, vol |-> 600, score |-> 60,
    surge |-> FALSE],
   [sym |-> s1, price |-> 3, change |-> 6, vol |-> 300, score |-> 40,
    surge |-> FALSE]}
MCFloatOf == [s \in Symbols |-> IF s = s1 THEN 5 ELSE Unknown]
=============================================================================
