---------------------------- MODULE OrderContract ----------------------------
(***************************************************************************)
(* What a caller of the broker adapter may rely on, whatever the adapter   *)
(* does to find out: an order is executed at most up to its size, its      *)
(* submission is answered at most once, the quantity answered was really   *)
(* executed, and an answer given with certainty is exact and final. What   *)
(* is answered without certainty may still grow behind the caller's back.  *)
(***************************************************************************)
EXTENDS Integers

CONSTANTS
  Ids,      \* order identities
  MaxSize   \* bound on the size of an order

VARIABLES
  size,      \* shares ordered
  executed,  \* shares executed
  told,      \* shares the caller was told
  stage      \* "new", "working", "sure" or "unsure"

vars == <<size, executed, told, stage>>

Init ==
  /\ size = [i \in Ids |-> 0]
  /\ executed = [i \in Ids |-> 0]
  /\ told = [i \in Ids |-> 0]
  /\ stage = [i \in Ids |-> "new"]

(* An order of n shares reaches the exchange; its acknowledgement may get   *)
(* lost, which leaves the caller unsure from the start.                     *)
Open(i, n, s) ==
  /\ stage[i] = "new"
  /\ n \in 1..MaxSize
  /\ s \in {"working", "unsure"}
  /\ size' = [size EXCEPT ![i] = n]
  /\ stage' = [stage EXCEPT ![i] = s]
  /\ UNCHANGED <<executed, told>>

Execute(i, n) ==
  /\ stage[i] \in {"working", "unsure"}
  /\ n \in 1..(size[i] - executed[i])
  /\ executed' = [executed EXCEPT ![i] = @ + n]
  /\ UNCHANGED <<size, told, stage>>

AnswerSure(i) ==
  /\ stage[i] = "working"
  /\ told' = [told EXCEPT ![i] = executed[i]]
  /\ stage' = [stage EXCEPT ![i] = "sure"]
  /\ UNCHANGED <<size, executed>>

AnswerUnsure(i, n) ==
  /\ stage[i] = "working"
  /\ n \in 0..executed[i]
  /\ told' = [told EXCEPT ![i] = n]
  /\ stage' = [stage EXCEPT ![i] = "unsure"]
  /\ UNCHANGED <<size, executed>>

Next ==
  \E i \in Ids :
    \/ \E n \in 1..MaxSize, s \in {"working", "unsure"} : Open(i, n, s)
    \/ \E n \in 1..MaxSize : Execute(i, n)
    \/ AnswerSure(i)
    \/ \E n \in 0..MaxSize : AnswerUnsure(i, n)

Spec == Init /\ [][Next]_vars

(* Nothing is answered that was not executed, nothing is executed that was  *)
(* not ordered, and a sure answer is the whole truth for good.              *)
Honest ==
  \A i \in Ids :
    /\ told[i] <= executed[i]
    /\ executed[i] <= size[i]
    /\ stage[i] = "sure" => told[i] = executed[i]

=============================================================================
