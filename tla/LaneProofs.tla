------------------------------ MODULE LaneProofs ------------------------------
(***************************************************************************)
(* The lanes of the Warrior playbook, for every tape, episode, account and  *)
(* sizing: whatever a lane plans can be traded as planned, the size of its  *)
(* order keeps the limits of account and playbook, and the bracket of a     *)
(* fill is sound. The measures of the tape come first, then one lemma per   *)
(* lane, then the executor, then the three invariants.                      *)
(***************************************************************************)
EXTENDS LanePlans, SequenceTheorems, NaturalsInduction, WellFoundedInduction, TLAPS

(* Numbers. *)
LEMMA Least ==
  ASSUME NEW T, T \subseteq Nat, T # {}
  PROVE  \E n \in T : \A m \in T : n <= m
<1>1. IsWellFoundedOn(OpToRel(<, Nat), Nat)
  BY NatLessThanWellFounded
<1>2. PICK n \in T : \A m \in T : ~(<<m, n>> \in OpToRel(<, Nat))
  BY <1>1, WFMin
<1>3. ASSUME NEW m \in T, m < n PROVE <<m, n>> \in OpToRel(<, Nat)
  BY <1>3 DEF OpToRel
<1>4. \A m \in T : ~(m < n)
  BY <1>2, <1>3, Zenon
<1> QED
  BY <1>4

LEMMA Climbs ==
  ASSUME NEW n \in Nat, NEW good,
         0 \in good, \A i \in 1..n : i - 1 \in good => i \in good
  PROVE  \A i \in 0..n : i \in good
<1> SUFFICES ASSUME NEW bad \in 0..n, bad \notin good PROVE FALSE
  OBVIOUS
<1> DEFINE T == {i \in 0..n : i \notin good}
<1>1. T \subseteq Nat /\ T # {}
  OBVIOUS
<1>2. PICK i \in T : \A j \in T : i <= j
  <2> HIDE DEF T
  <2> QED
    BY <1>1, Least
<1>3. i \in 1..n /\ i - 1 \in 0..n /\ ~(i <= i - 1)
  BY <1>2
<1>4. i - 1 \in good
  BY <1>2, <1>3
<1> QED
  BY <1>2, <1>3, <1>4

(* A definition by recursion on 0..n has a value. *)
LEMMA Recursion ==
  ASSUME NEW V, NEW z \in V, NEW n \in Nat, NEW step \in [1..n -> [V -> V]]
  PROVE  \E g \in [0..n -> V] : g[0] = z /\ \A i \in 1..n : g[i] = step[i][g[i - 1]]
<1> DEFINE good == {m \in 0..n : \E g \in [0..m -> V] :
                      g[0] = z /\ \A i \in 1..m : g[i] = step[i][g[i - 1]]}
<1>1. 0 \in good
  <2> DEFINE g == [i \in 0..0 |-> z]
  <2>1. g \in [0..0 -> V] /\ g[0] = z /\ \A i \in 1..0 : g[i] = step[i][g[i - 1]]
    OBVIOUS
  <2>2. 0 \in 0..n
    OBVIOUS
  <2> HIDE DEF g
  <2> QED
    BY <2>1, <2>2
<1>2. ASSUME NEW m \in 1..n, m - 1 \in good PROVE m \in good
  <2>1. PICK g \in [0..m - 1 -> V] :
          g[0] = z /\ \A i \in 1..m - 1 : g[i] = step[i][g[i - 1]]
    BY <1>2
  <2> DEFINE h == [i \in 0..m |-> IF i = m THEN step[m][g[m - 1]] ELSE g[i]]
  <2>2. step[m][g[m - 1]] \in V
    OBVIOUS
  <2>3. h \in [0..m -> V]
    BY <2>2
  <2>4. h[0] = z
    BY <2>1
  <2>5. ASSUME NEW i \in 1..m PROVE h[i] = step[i][h[i - 1]]
    BY <2>1
  <2>6. m \in 0..n
    OBVIOUS
  <2> HIDE DEF h
  <2> QED
    BY <2>3, <2>4, <2>5, <2>6
<1>3. n \in good
  <2>1. n \in 0..n
    OBVIOUS
  <2> HIDE DEF good
  <2> QED
    BY <1>1, <1>2, <2>1, Climbs
<1> QED
  BY <1>3

(* A function that takes such steps wherever it is a V stays in V. *)
LEMMA StaysIn ==
  ASSUME NEW V, NEW n \in Nat, NEW F, F[0] \in V,
         \A i \in 1..n : F[i - 1] \in V => F[i] \in V
  PROVE  F[n] \in V
<1> DEFINE good == {j \in 0..n : F[j] \in V}
<1>1. 0 \in good
  OBVIOUS
<1>2. ASSUME NEW i \in 1..n, i - 1 \in good PROVE i \in good
  BY <1>2
<1>3. n \in good
  <2>1. n \in 0..n
    OBVIOUS
  <2> HIDE DEF good
  <2> QED
    BY <1>1, <1>2, <2>1, Climbs
<1> QED
  BY <1>3

-----------------------------------------------------------------------------
(* Bars and tapes. *)

Printed == {b \in Bar : b.l <= b.c}
Tape == Seq(Printed)

LEMMA BarTyped ==
  ASSUME NEW b \in Printed
  PROVE  /\ b.o \in Nat /\ b.h \in Nat /\ b.l \in Nat /\ b.c \in Nat /\ b.v \in Nat
         /\ b.l <= b.c
BY DEF Printed, Bar

LEMMA InTape ==
  ASSUME NEW s \in Tape, NEW i \in 1..Len(s)
  PROVE  s[i] \in Printed
BY DEF Tape

LEMMA LengthOf ==
  ASSUME NEW s \in Tape
  PROVE  Len(s) \in Nat /\ (s # <<>> <=> Len(s) > 0)
BY DEF Tape

LEMMA TotalTyped ==
  ASSUME NEW s \in Tape
  PROVE  Total(s) \in Nat
<1> DEFINE n == Len(s)
           body(f) == [i \in 0..n |-> IF i = 0 THEN 0 ELSE f[i - 1] + s[i].v]
           F == CHOOSE f : f = body(f)
           V == Nat
           step == [i \in 1..n |-> [x \in V |-> x + s[i].v]]
<1>1. n \in Nat /\ 0 \in V /\ \A i \in 1..n : \A x \in V : x + s[i].v \in V
  <2>1. n \in Nat
    BY LengthOf
  <2>2. ASSUME NEW i \in 1..n, NEW x \in Nat PROVE x + s[i].v \in Nat
    BY InTape, BarTyped
  <2> QED
    BY <2>1, <2>2
<1>2. step \in [1..n -> [V -> V]]
  <2> HIDE DEF n, V
  <2> QED
    BY <1>1
<1>3. PICK g \in [0..n -> V] : g[0] = 0 /\ \A i \in 1..n : g[i] = step[i][g[i - 1]]
  <2>1. n \in Nat /\ 0 \in V /\ step \in [1..n -> [V -> V]]
    BY <1>1, <1>2
  <2> HIDE DEF step, n, V
  <2>2. \E g \in [0..n -> V] : g[0] = 0 /\ \A i \in 1..n : g[i] = step[i][g[i - 1]]
    BY <2>1, Recursion, SMTT(60)
  <2> QED
    BY <2>2
<1>4. g = body(g)
  <2>1. ASSUME NEW i \in 1..n PROVE g[i] = g[i - 1] + s[i].v
    <3>1. i - 1 \in 0..n
      BY <1>1
    <3>2. g[i - 1] \in V /\ g[i] = step[i][g[i - 1]]
      <4> HIDE DEF V
      <4> QED
        BY <1>3, <3>1
    <3>3. step[i] = [x \in V |-> x + s[i].v]
      OBVIOUS
    <3> HIDE DEF step, n, V
    <3> QED
      BY <3>2, <3>3
  <2>2. ASSUME NEW i \in 0..n
        PROVE  g[i] = IF i = 0 THEN 0 ELSE g[i - 1] + s[i].v
    <3>1. i = 0 \/ i \in 1..n
      BY <1>1
    <3> HIDE DEF n, step, V
    <3> QED
      BY <1>3, <2>1, <3>1
  <2>3. g = [i \in 0..n |-> g[i]]
    <3> HIDE DEF n, step, V
    <3> QED
      BY <1>3
  <2> HIDE DEF step, n, V
  <2> QED
    BY <2>2, <2>3
<1>5. F = body(F)
  <2> HIDE DEF body
  <2> QED
    BY <1>4
<1> HIDE DEF F
<1>6. F[n] \in V
  <2>0. 0 \in 0..n /\ \A i \in 1..n : i \in 0..n /\ i # 0
    BY <1>1
  <2>1. F[0] = 0 /\ \A i \in 1..n : F[i] = F[i - 1] + s[i].v
    <3> HIDE DEF n
    <3> QED
      BY <1>5, <2>0
  <2> HIDE DEF n, V, body
  <2>2. F[0] \in V /\ \A i \in 1..n : F[i - 1] \in V => F[i] \in V
    BY <1>1, <2>1
  <2> QED
    BY <1>1, <2>2, StaysIn
<1> QED
  BY <1>6 DEF Total, F

LEMMA TopTyped ==
  ASSUME NEW s \in Tape
  PROVE  Top(s) \in Nat
<1> DEFINE n == Len(s)
           body(f) == [i \in 0..n |-> IF i = 0 THEN 0 ELSE AtLeast(f[i - 1], s[i].h)]
           F == CHOOSE f : f = body(f)
           V == Nat
           step == [i \in 1..n |-> [x \in V |-> AtLeast(x, s[i].h)]]
<1>1. n \in Nat /\ 0 \in V /\ \A i \in 1..n : \A x \in V : AtLeast(x, s[i].h) \in V
  <2>1. n \in Nat
    BY LengthOf
  <2>2. ASSUME NEW i \in 1..n, NEW x \in Nat PROVE AtLeast(x, s[i].h) \in Nat
    BY InTape, BarTyped DEF AtLeast
  <2> QED
    BY <2>1, <2>2
<1>2. step \in [1..n -> [V -> V]]
  <2> HIDE DEF n, V
  <2> QED
    BY <1>1
<1>3. PICK g \in [0..n -> V] : g[0] = 0 /\ \A i \in 1..n : g[i] = step[i][g[i - 1]]
  <2>1. n \in Nat /\ 0 \in V /\ step \in [1..n -> [V -> V]]
    BY <1>1, <1>2
  <2> HIDE DEF step, n, V
  <2>2. \E g \in [0..n -> V] : g[0] = 0 /\ \A i \in 1..n : g[i] = step[i][g[i - 1]]
    BY <2>1, Recursion, SMTT(60)
  <2> QED
    BY <2>2
<1>4. g = body(g)
  <2>1. ASSUME NEW i \in 1..n PROVE g[i] = AtLeast(g[i - 1], s[i].h)
    <3>1. i - 1 \in 0..n
      BY <1>1
    <3>2. g[i - 1] \in V /\ g[i] = step[i][g[i - 1]]
      <4> HIDE DEF V
      <4> QED
        BY <1>3, <3>1
    <3>3. step[i] = [x \in V |-> AtLeast(x, s[i].h)]
      OBVIOUS
    <3> HIDE DEF step, n, V
    <3> QED
      BY <3>2, <3>3
  <2>2. ASSUME NEW i \in 0..n
        PROVE  g[i] = IF i = 0 THEN 0 ELSE AtLeast(g[i - 1], s[i].h)
    <3>1. i = 0 \/ i \in 1..n
      BY <1>1
    <3> HIDE DEF n, step, V
    <3> QED
      BY <1>3, <2>1, <3>1
  <2>3. g = [i \in 0..n |-> g[i]]
    <3> HIDE DEF n, step, V
    <3> QED
      BY <1>3
  <2> HIDE DEF step, n, V
  <2> QED
    BY <2>2, <2>3
<1>5. F = body(F)
  <2> HIDE DEF body
  <2> QED
    BY <1>4
<1> HIDE DEF F
<1>6. F[n] \in V
  <2>0. 0 \in 0..n /\ \A i \in 1..n : i \in 0..n /\ i # 0
    BY <1>1
  <2>1. F[0] = 0 /\ \A i \in 1..n : F[i] = AtLeast(F[i - 1], s[i].h)
    <3> HIDE DEF n
    <3> QED
      BY <1>5, <2>0
  <2> HIDE DEF n, V, body
  <2>2. F[0] \in V /\ \A i \in 1..n : F[i - 1] \in V => F[i] \in V
    BY <1>1, <2>1
  <2> QED
    BY <1>1, <2>2, StaysIn
<1> QED
  BY <1>6 DEF Top, F

LEMMA Weighed == \A h, l, c, v \in Nat : (h + l + c) * v \in Nat
OBVIOUS

LEMMA VwapTyped ==
  ASSUME NEW s \in Tape
  PROVE  Vwap(s) \in Nat
<1> DEFINE n == Len(s)
           body(f) == [i \in 0..n |-> IF i = 0 THEN 0 ELSE f[i - 1] + (s[i].h + s[i].l + s[i].c) * s[i].v]
           F == CHOOSE f : f = body(f)
           V == Nat
           step == [i \in 1..n |-> [x \in V |-> x + (s[i].h + s[i].l + s[i].c) * s[i].v]]
<1>1. n \in Nat /\ 0 \in V /\ \A i \in 1..n : \A x \in V : x + (s[i].h + s[i].l + s[i].c) * s[i].v \in V
  <2>1. n \in Nat
    BY LengthOf
  <2>2. ASSUME NEW i \in 1..n, NEW x \in Nat
        PROVE  x + (s[i].h + s[i].l + s[i].c) * s[i].v \in Nat
    <3> DEFINE turnover == (s[i].h + s[i].l + s[i].c) * s[i].v
    <3>1. s[i].h \in Nat /\ s[i].l \in Nat /\ s[i].c \in Nat /\ s[i].v \in Nat
      BY InTape, BarTyped
    <3>2. turnover \in Nat
      BY <3>1, Weighed
    <3> HIDE DEF turnover
    <3>3. x + turnover \in Nat
      BY <3>2
    <3> QED
      BY <3>3 DEF turnover
  <2> QED
    BY <2>1, <2>2
<1>2. step \in [1..n -> [V -> V]]
  <2> HIDE DEF n, V
  <2> QED
    BY <1>1
<1>3. PICK g \in [0..n -> V] : g[0] = 0 /\ \A i \in 1..n : g[i] = step[i][g[i - 1]]
  <2>1. n \in Nat /\ 0 \in V /\ step \in [1..n -> [V -> V]]
    BY <1>1, <1>2
  <2> HIDE DEF step, n, V
  <2>2. \E g \in [0..n -> V] : g[0] = 0 /\ \A i \in 1..n : g[i] = step[i][g[i - 1]]
    BY <2>1, Recursion, SMTT(60)
  <2> QED
    BY <2>2
<1>4. g = body(g)
  <2>1. ASSUME NEW i \in 1..n PROVE g[i] = g[i - 1] + (s[i].h + s[i].l + s[i].c) * s[i].v
    <3>1. i - 1 \in 0..n
      BY <1>1
    <3>2. g[i - 1] \in V /\ g[i] = step[i][g[i - 1]]
      <4> HIDE DEF V
      <4> QED
        BY <1>3, <3>1
    <3>3. step[i] = [x \in V |-> x + (s[i].h + s[i].l + s[i].c) * s[i].v]
      OBVIOUS
    <3> HIDE DEF step, n, V
    <3> QED
      BY <3>2, <3>3
  <2>2. ASSUME NEW i \in 0..n
        PROVE  g[i] = IF i = 0 THEN 0 ELSE g[i - 1] + (s[i].h + s[i].l + s[i].c) * s[i].v
    <3>1. i = 0 \/ i \in 1..n
      BY <1>1
    <3> HIDE DEF n, step, V
    <3> QED
      BY <1>3, <2>1, <3>1
  <2>3. g = [i \in 0..n |-> g[i]]
    <3> HIDE DEF n, step, V
    <3> QED
      BY <1>3
  <2> HIDE DEF step, n, V
  <2> QED
    BY <2>2, <2>3
<1>5. F = body(F)
  <2> HIDE DEF body
  <2> QED
    BY <1>4
<1> HIDE DEF F
<1>6. F[n] \in V
  <2>0. 0 \in 0..n /\ \A i \in 1..n : i \in 0..n /\ i # 0
    BY <1>1
  <2>1. F[0] = 0 /\ \A i \in 1..n : F[i] = F[i - 1] + (s[i].h + s[i].l + s[i].c) * s[i].v
    <3> HIDE DEF n
    <3> QED
      BY <1>5, <2>0
  <2> HIDE DEF n, V, body
  <2>2. F[0] \in V /\ \A i \in 1..n : F[i - 1] \in V => F[i] \in V
    BY <1>1, <2>1
  <2> QED
    BY <1>1, <2>2, StaysIn
<1> DEFINE total == Total(s)
           sum == F[n]
<1>7. total \in Nat /\ sum \in Nat
  BY <1>6, TotalTyped
<1> HIDE DEF total, sum
<1>8. total # 0 => sum \div (3 * total) \in Nat
  BY <1>7
<1> QED
  BY <1>8 DEF Vwap, F, total, sum

LEMMA MeanCloseTyped ==
  ASSUME NEW s \in Tape, Len(s) > 0
  PROVE  MeanClose(s) \in Nat
<1> DEFINE n == Len(s)
           body(f) == [i \in 0..n |-> IF i = 0 THEN 0 ELSE f[i - 1] + s[i].c]
           F == CHOOSE f : f = body(f)
           V == Nat
           step == [i \in 1..n |-> [x \in V |-> x + s[i].c]]
<1>1. n \in Nat /\ 0 \in V /\ \A i \in 1..n : \A x \in V : x + s[i].c \in V
  <2>1. n \in Nat
    BY LengthOf
  <2>2. ASSUME NEW i \in 1..n, NEW x \in Nat PROVE x + s[i].c \in Nat
    BY InTape, BarTyped
  <2> QED
    BY <2>1, <2>2
<1>2. step \in [1..n -> [V -> V]]
  <2> HIDE DEF n, V
  <2> QED
    BY <1>1
<1>3. PICK g \in [0..n -> V] : g[0] = 0 /\ \A i \in 1..n : g[i] = step[i][g[i - 1]]
  <2>1. n \in Nat /\ 0 \in V /\ step \in [1..n -> [V -> V]]
    BY <1>1, <1>2
  <2> HIDE DEF step, n, V
  <2>2. \E g \in [0..n -> V] : g[0] = 0 /\ \A i \in 1..n : g[i] = step[i][g[i - 1]]
    BY <2>1, Recursion, SMTT(60)
  <2> QED
    BY <2>2
<1>4. g = body(g)
  <2>1. ASSUME NEW i \in 1..n PROVE g[i] = g[i - 1] + s[i].c
    <3>1. i - 1 \in 0..n
      BY <1>1
    <3>2. g[i - 1] \in V /\ g[i] = step[i][g[i - 1]]
      <4> HIDE DEF V
      <4> QED
        BY <1>3, <3>1
    <3>3. step[i] = [x \in V |-> x + s[i].c]
      OBVIOUS
    <3> HIDE DEF step, n, V
    <3> QED
      BY <3>2, <3>3
  <2>2. ASSUME NEW i \in 0..n
        PROVE  g[i] = IF i = 0 THEN 0 ELSE g[i - 1] + s[i].c
    <3>1. i = 0 \/ i \in 1..n
      BY <1>1
    <3> HIDE DEF n, step, V
    <3> QED
      BY <1>3, <2>1, <3>1
  <2>3. g = [i \in 0..n |-> g[i]]
    <3> HIDE DEF n, step, V
    <3> QED
      BY <1>3
  <2> HIDE DEF step, n, V
  <2> QED
    BY <2>2, <2>3
<1>5. F = body(F)
  <2> HIDE DEF body
  <2> QED
    BY <1>4
<1> HIDE DEF F
<1>6. F[n] \in V
  <2>0. 0 \in 0..n /\ \A i \in 1..n : i \in 0..n /\ i # 0
    BY <1>1
  <2>1. F[0] = 0 /\ \A i \in 1..n : F[i] = F[i - 1] + s[i].c
    <3> HIDE DEF n
    <3> QED
      BY <1>5, <2>0
  <2> HIDE DEF n, V, body
  <2>2. F[0] \in V /\ \A i \in 1..n : F[i - 1] \in V => F[i] \in V
    BY <1>1, <2>1
  <2> QED
    BY <1>1, <2>2, StaysIn
<1>7. n > 0
  BY LengthOf
<1> DEFINE sum == F[n]
           len == n
<1>8. sum \in Nat /\ len \in Nat /\ len > 0
  BY <1>1, <1>6, <1>7
<1> HIDE DEF sum, len
<1>9. sum \div len \in Nat
  BY <1>8
<1> QED
  BY <1>9 DEF MeanClose, F, sum, len

LEMMA LowestTyped ==
  ASSUME NEW s \in Tape, Len(s) > 0
  PROVE  Bottom(s) \in Nat
<1> DEFINE n == Len(s)
           body(f) == [i \in 1..n |-> IF i = 1 THEN s[1].l ELSE AtMost(f[i - 1], s[i].l)]
           F == CHOOSE f : f = body(f)
           V == Nat
           step == [i \in 1..n - 1 |-> [x \in V |-> AtMost(x, s[i + 1].l)]]
<1>1. /\ n \in Nat /\ n > 0 /\ s[1].l \in V
      /\ \A i \in 1..n : \A x \in V : AtMost(x, s[i].l) \in V
  <2>1. n \in Nat /\ n > 0
    BY LengthOf
  <2>2. ASSUME NEW i \in 1..n, NEW x \in Nat PROVE AtMost(x, s[i].l) \in Nat
    BY InTape, BarTyped DEF AtMost
  <2>3. s[1].l \in Nat
    BY <2>1, InTape, BarTyped
  <2> QED
    BY <2>1, <2>2, <2>3
<1>2. step \in [1..n - 1 -> [V -> V]]
  <2>1. \A i \in 1..n - 1 : i + 1 \in 1..n
    BY <1>1
  <2> HIDE DEF n, V
  <2> QED
    BY <1>1, <2>1
<1>3. PICK g \in [0..n - 1 -> V] :
        g[0] = s[1].l /\ \A i \in 1..n - 1 : g[i] = step[i][g[i - 1]]
  <2> DEFINE k == n - 1
             z == s[1].l
  <2>1. k \in Nat /\ z \in V /\ step \in [1..k -> [V -> V]]
    <3> HIDE DEF step, V
    <3> QED
      BY <1>1, <1>2
  <2> HIDE DEF step, n, V, k, z
  <2>2. \E g \in [0..k -> V] : g[0] = z /\ \A i \in 1..k : g[i] = step[i][g[i - 1]]
    BY <2>1, Recursion, SMTT(60)
  <2> QED
    BY <2>2 DEF k, z
<1> DEFINE h == [i \in 1..n |-> g[i - 1]]
<1>4. h = body(h)
  <2>1. ASSUME NEW i \in 2..n PROVE h[i] = AtMost(h[i - 1], s[i].l)
    <3>1. /\ i - 1 \in 1..n - 1 /\ i - 2 \in 0..n - 1 /\ (i - 1) - 1 = i - 2
          /\ i \in 1..n /\ i - 1 \in 1..n /\ (i - 1) + 1 = i
      BY <1>1
    <3>2. h[i] = g[i - 1] /\ h[i - 1] = g[i - 2]
      <4> HIDE DEF n
      <4> QED
        BY <3>1
    <3>3. g[i - 2] \in V /\ g[i - 1] = step[i - 1][g[i - 2]]
      <4> HIDE DEF V, step, n
      <4> QED
        BY <1>3, <3>1
    <3>4. step[i - 1] = [x \in V |-> AtMost(x, s[(i - 1) + 1].l)]
      <4> HIDE DEF V, n
      <4> QED
        BY <3>1
    <3>5. step[i - 1][g[i - 2]] = AtMost(g[i - 2], s[i].l)
      <4> HIDE DEF step, V, n
      <4> QED
        BY <3>1, <3>3, <3>4
    <3> HIDE DEF step, n, V, h
    <3> QED
      BY <3>2, <3>3, <3>5
  <2>2. h[1] = s[1].l
    BY <1>1, <1>3
  <2>3. ASSUME NEW i \in 1..n
        PROVE  h[i] = IF i = 1 THEN s[1].l ELSE AtMost(h[i - 1], s[i].l)
    <3>1. i = 1 \/ i \in 2..n
      BY <1>1
    <3> HIDE DEF n, h
    <3> QED
      BY <2>1, <2>2, <3>1
  <2>4. h = [i \in 1..n |-> h[i]]
    OBVIOUS
  <2> HIDE DEF h, n
  <2> QED
    BY <2>3, <2>4
<1>5. F = body(F)
  <2> HIDE DEF body, h
  <2> QED
    BY <1>4
<1> HIDE DEF F
<1> DEFINE G == [i \in 0..n - 1 |-> F[i + 1]]
<1>6. G[n - 1] \in V
  <2>1. F[1] = s[1].l
    BY <1>1, <1>5
  <2>2. ASSUME NEW i \in 1..n - 1, F[i] \in V PROVE F[i + 1] \in V
    <3>1. i + 1 \in 1..n /\ i + 1 # 1 /\ (i + 1) - 1 = i
      BY <1>1
    <3>2. F[i + 1] = AtMost(F[i], s[i + 1].l)
      <4> HIDE DEF n
      <4> QED
        BY <1>5, <3>1
    <3> HIDE DEF n, V
    <3> QED
      BY <1>1, <2>2, <3>1, <3>2
  <2>3. G[0] = F[1] /\ n - 1 \in Nat
    BY <1>1
  <2>5. ASSUME NEW i \in 1..n - 1 PROVE G[i - 1] = F[i] /\ G[i] = F[i + 1]
    <3>1. i - 1 \in 0..n - 1 /\ i \in 0..n - 1 /\ (i - 1) + 1 = i
      BY <1>1
    <3> HIDE DEF n
    <3> QED
      BY <3>1
  <2> HIDE DEF n, V, G
  <2>4. G[0] \in V /\ \A i \in 1..n - 1 : G[i - 1] \in V => G[i] \in V
    BY <1>1, <2>1, <2>2, <2>3, <2>5
  <2> QED
    BY <2>3, <2>4, StaysIn
<1>7. F[n] \in V
  <2>1. G[n - 1] = F[n]
    BY <1>1
  <2> HIDE DEF G, V, n
  <2> QED
    BY <1>6, <2>1
<1> QED
  BY <1>7, LengthOf DEF Bottom, F

LEMMA BottomTyped ==
  ASSUME NEW s \in Tape
  PROVE  Bottom(s) \in Nat
<1>1. CASE s = <<>>
  BY <1>1 DEF Bottom
<1>2. CASE s # <<>>
  BY <1>2, LengthOf, LowestTyped
<1> QED
  BY <1>1, <1>2

LEMMA EmaTyped ==
  ASSUME NEW s \in Tape, Len(s) > 0
  PROVE  Ema(s) \in Nat
<1> DEFINE n == Len(s)
           body(f) == [i \in 1..n |-> IF i = 1 THEN s[1].c ELSE (2 * s[i].c + 8 * f[i - 1]) \div 10]
           F == CHOOSE f : f = body(f)
           V == Nat
           step == [i \in 1..n - 1 |-> [x \in V |-> (2 * s[i + 1].c + 8 * x) \div 10]]
<1>1. /\ n \in Nat /\ n > 0 /\ s[1].c \in V
      /\ \A i \in 1..n : \A x \in V : (2 * s[i].c + 8 * x) \div 10 \in V
  <2>1. n \in Nat /\ n > 0
    BY LengthOf
  <2>2. ASSUME NEW i \in 1..n, NEW x \in Nat PROVE (2 * s[i].c + 8 * x) \div 10 \in Nat
    BY InTape, BarTyped
  <2>3. s[1].c \in Nat
    BY <2>1, InTape, BarTyped
  <2> QED
    BY <2>1, <2>2, <2>3
<1>2. step \in [1..n - 1 -> [V -> V]]
  <2>1. \A i \in 1..n - 1 : i + 1 \in 1..n
    BY <1>1
  <2> HIDE DEF n, V
  <2> QED
    BY <1>1, <2>1
<1>3. PICK g \in [0..n - 1 -> V] :
        g[0] = s[1].c /\ \A i \in 1..n - 1 : g[i] = step[i][g[i - 1]]
  <2> DEFINE k == n - 1
             z == s[1].c
  <2>1. k \in Nat /\ z \in V /\ step \in [1..k -> [V -> V]]
    <3> HIDE DEF step, V
    <3> QED
      BY <1>1, <1>2
  <2> HIDE DEF step, n, V, k, z
  <2>2. \E g \in [0..k -> V] : g[0] = z /\ \A i \in 1..k : g[i] = step[i][g[i - 1]]
    BY <2>1, Recursion, SMTT(60)
  <2> QED
    BY <2>2 DEF k, z
<1> DEFINE h == [i \in 1..n |-> g[i - 1]]
<1>4. h = body(h)
  <2>1. ASSUME NEW i \in 2..n PROVE h[i] = (2 * s[i].c + 8 * h[i - 1]) \div 10
    <3>1. /\ i - 1 \in 1..n - 1 /\ i - 2 \in 0..n - 1 /\ (i - 1) - 1 = i - 2
          /\ i \in 1..n /\ i - 1 \in 1..n /\ (i - 1) + 1 = i
      BY <1>1
    <3>2. h[i] = g[i - 1] /\ h[i - 1] = g[i - 2]
      <4> HIDE DEF n
      <4> QED
        BY <3>1
    <3>3. g[i - 2] \in V /\ g[i - 1] = step[i - 1][g[i - 2]]
      <4> HIDE DEF V, step, n
      <4> QED
        BY <1>3, <3>1
    <3>4. step[i - 1] = [x \in V |-> (2 * s[(i - 1) + 1].c + 8 * x) \div 10]
      <4> HIDE DEF V, n
      <4> QED
        BY <3>1
    <3>5. step[i - 1][g[i - 2]] = (2 * s[i].c + 8 * g[i - 2]) \div 10
      <4> HIDE DEF step, V, n
      <4> QED
        BY <3>1, <3>3, <3>4
    <3> HIDE DEF step, n, V, h
    <3> QED
      BY <3>2, <3>3, <3>5
  <2>2. h[1] = s[1].c
    BY <1>1, <1>3
  <2>3. ASSUME NEW i \in 1..n
        PROVE  h[i] = IF i = 1 THEN s[1].c ELSE (2 * s[i].c + 8 * h[i - 1]) \div 10
    <3>1. i = 1 \/ i \in 2..n
      BY <1>1
    <3> HIDE DEF n, h
    <3> QED
      BY <2>1, <2>2, <3>1
  <2>4. h = [i \in 1..n |-> h[i]]
    OBVIOUS
  <2> HIDE DEF h, n
  <2> QED
    BY <2>3, <2>4
<1>5. F = body(F)
  <2> HIDE DEF body, h
  <2> QED
    BY <1>4
<1> HIDE DEF F
<1> DEFINE G == [i \in 0..n - 1 |-> F[i + 1]]
<1>6. G[n - 1] \in V
  <2>1. F[1] = s[1].c
    BY <1>1, <1>5
  <2>2. ASSUME NEW i \in 1..n - 1, F[i] \in V PROVE F[i + 1] \in V
    <3>1. i + 1 \in 1..n /\ i + 1 # 1 /\ (i + 1) - 1 = i
      BY <1>1
    <3>2. F[i + 1] = (2 * s[i + 1].c + 8 * F[i]) \div 10
      <4> HIDE DEF n
      <4> QED
        BY <1>5, <3>1
    <3> HIDE DEF n, V
    <3> QED
      BY <1>1, <2>2, <3>1, <3>2
  <2>3. G[0] = F[1] /\ n - 1 \in Nat
    BY <1>1
  <2>5. ASSUME NEW i \in 1..n - 1 PROVE G[i - 1] = F[i] /\ G[i] = F[i + 1]
    <3>1. i - 1 \in 0..n - 1 /\ i \in 0..n - 1 /\ (i - 1) + 1 = i
      BY <1>1
    <3> HIDE DEF n
    <3> QED
      BY <3>1
  <2> HIDE DEF n, V, G
  <2>4. G[0] \in V /\ \A i \in 1..n - 1 : G[i - 1] \in V => G[i] \in V
    BY <1>1, <2>1, <2>2, <2>3, <2>5
  <2> QED
    BY <2>3, <2>4, StaysIn
<1>7. F[n] \in V
  <2>1. G[n - 1] = F[n]
    BY <1>1
  <2> HIDE DEF G, V, n
  <2> QED
    BY <1>6, <2>1
<1> QED
  BY <1>7 DEF Ema, F

-----------------------------------------------------------------------------
(* Every part of a tape is a tape. *)
LEMMA Slice ==
  ASSUME NEW s \in Tape, NEW m \in Int, NEW n \in Int, m >= 1, n <= Len(s)
  PROVE  /\ SubSeq(s, m, n) \in Tape
         /\ Len(SubSeq(s, m, n)) = IF m <= n THEN n - m + 1 ELSE 0
         /\ \A i \in 1..n - m + 1 : SubSeq(s, m, n)[i] = s[m + i - 1]
<1>1. \A i \in m..n : s[i] \in Printed
  BY DEF Tape
<1> QED
  BY <1>1, SubSeqProperties DEF Tape

LEMMA NewestTyped ==
  ASSUME NEW s \in Tape, s # <<>>
  PROVE  Newest(s) \in Printed
BY LengthOf, InTape DEF Newest

(* The last bars of a tape end with its newest bar. *)
LEMMA FinalPart ==
  ASSUME NEW s \in Tape, NEW n \in Nat
  PROVE  /\ Final(s, n) \in Tape
         /\ n > 0 /\ s # <<>> => Final(s, n) # <<>> /\ Newest(Final(s, n)) = Newest(s)
<1> DEFINE m == AtLeast(1, Len(s) - n + 1)
           part == SubSeq(s, m, Len(s))
<1>1. Len(s) \in Nat /\ m \in Int /\ m >= 1 /\ (n > 0 /\ Len(s) > 0 => m <= Len(s))
  BY LengthOf DEF AtLeast
<1>2. Final(s, n) = part
  BY DEF Final
<1> HIDE DEF m
<1>3. /\ part \in Tape
      /\ Len(part) = IF m <= Len(s) THEN Len(s) - m + 1 ELSE 0
      /\ \A i \in 1..Len(s) - m + 1 : part[i] = s[m + i - 1]
  BY <1>1, Slice
<1> HIDE DEF part
<1>4. ASSUME n > 0, s # <<>> PROVE part # <<>> /\ Newest(part) = Newest(s)
  <2>1. Len(s) > 0 /\ m <= Len(s)
    BY <1>1, <1>4, LengthOf
  <2>2. Len(part) = Len(s) - m + 1
    BY <1>3, <2>1
  <2>3. /\ Len(part) > 0 /\ Len(part) \in 1..Len(s) - m + 1
        /\ m + Len(part) - 1 = Len(s)
    BY <1>1, <2>1, <2>2
  <2>4. part[Len(part)] = s[m + Len(part) - 1]
    BY <1>3, <2>3
  <2>5. part # <<>>
    BY <1>3, <2>3, LengthOf
  <2> QED
    BY <2>3, <2>4, <2>5 DEF Newest
<1> QED
  BY <1>2, <1>3, <1>4

LEMMA BeforePart ==
  ASSUME NEW s \in Tape
  PROVE  Before(s) \in Tape /\ (Len(s) > 0 => Len(Before(s)) = Len(s) - 1)
<1> DEFINE len == Len(s)
           part == SubSeq(s, 1, len - 1)
<1>1. len \in Nat
  BY LengthOf
<1> HIDE DEF len
<1>2. len - 1 \in Int /\ len - 1 <= len
  BY <1>1
<1>3. part \in Tape /\ Len(part) = IF 1 <= len - 1 THEN (len - 1) - 1 + 1 ELSE 0
  BY <1>2, Slice DEF len
<1> HIDE DEF part
<1>4. len > 0 => Len(part) = len - 1
  BY <1>1, <1>3
<1> QED
  BY <1>3, <1>4 DEF Before, part, len

LEMMA BasePart ==
  ASSUME NEW s \in Tape, NEW n \in Nat
  PROVE  Base(s, n) \in Tape
BY BeforePart, FinalPart DEF Base

(* A stretch of the tape from any bar on. *)
LEMMA FromPart ==
  ASSUME NEW s \in Tape, NEW m \in Nat
  PROVE  SubSeq(s, m + 1, Len(s)) \in Tape
<1> DEFINE k == m + 1
           len == Len(s)
<1>1. len \in Int /\ k \in Int /\ k >= 1 /\ len <= len
  BY LengthOf
<1> HIDE DEF k, len
<1>2. SubSeq(s, k, len) \in Tape
  BY <1>1, Slice DEF len
<1> QED
  BY <1>2 DEF k, len

-----------------------------------------------------------------------------
(* Shares of a price. *)
LEMMA TimesTyped ==
  ASSUME NEW x \in Nat, NEW bp \in Nat
  PROVE  Times(x, bp) \in Nat
<1> DEFINE y == x * bp
<1>1. y \in Nat
  OBVIOUS
<1> HIDE DEF y
<1>2. y \div 10000 \in Nat
  BY <1>1
<1> QED
  BY <1>2 DEF Times, y

LEMMA Products == \A x, a, b \in Nat : a <= b => x * a <= x * b
OBVIOUS

LEMMA TimesGrows ==
  \A x, a, b \in Nat : a <= b => Times(x, a) <= Times(x, b)
<1> SUFFICES ASSUME NEW x \in Nat, NEW a \in Nat, NEW b \in Nat, a <= b
             PROVE  Times(x, a) <= Times(x, b)
  OBVIOUS
<1> DEFINE y == x * a
           z == x * b
<1>1. y \in Nat /\ z \in Nat /\ y <= z
  BY Products
<1> HIDE DEF y, z
<1>2. y \div 10000 <= z \div 10000
  BY <1>1
<1> QED
  BY <1>2 DEF Times, y, z

(* A reward of at least the risk is one, a fifth of it still is above 40. *)
LEMMA Rewards ==
  \A risk, rr \in Nat :
    (risk >= 1 /\ rr >= 10000) \/ (risk >= 5 /\ rr >= 2000) => Times(risk, rr) > 0
<1> SUFFICES ASSUME NEW risk \in Nat, NEW rr \in Nat,
                    (risk >= 1 /\ rr >= 10000) \/ (risk >= 5 /\ rr >= 2000)
             PROVE  Times(risk, rr) > 0
  OBVIOUS
<1> DEFINE y == risk * rr
<1>1. y \in Nat /\ y >= 10000
  <2>1. risk * 10000 <= risk * rr \/ risk * 2000 <= risk * rr
    BY Products
  <2>2. CASE risk >= 1 /\ rr >= 10000
    <3>1. risk * 10000 <= risk * rr
      BY <2>2, Products
    <3> QED
      BY <2>2, <3>1
  <2>3. CASE risk >= 5 /\ rr >= 2000
    <3>1. risk * 2000 <= risk * rr
      BY <2>3, Products
    <3> QED
      BY <2>3, <3>1
  <2> QED
    BY <2>2, <2>3
<1> HIDE DEF y
<1>2. y \div 10000 > 0
  BY <1>1
<1> QED
  BY <1>2 DEF Times, y

-----------------------------------------------------------------------------
(* Plans. *)
IsPlan(p) == p.pay \in Int /\ p.entry \in Int /\ p.stop \in Int /\ p.target \in Int

(* What PlanTradeable says of the plan p that follows the bar n. *)
Follows(p, n) ==
  /\ Tradeable(p)
  /\ n.l <= p.entry /\ p.entry <= n.c
  /\ p.entry <= p.pay
  /\ p.entry - p.stop <= Times(p.entry, 1200)
Sound(p, n) == IsPlan(p) /\ (p # NoPlan /\ n.l >= 1500 => Follows(p, n))

LEMMA NothingPlanned == \A n : Sound(NoPlan, n)
<1>1. IsPlan(NoPlan)
  BY DEF IsPlan, NoPlan
<1> QED
  BY <1>1 DEF Sound

LEMMA TwelvePercent ==
  \A entry \in Nat : entry > 0 => Times(entry, 1200) \in Nat /\ Times(entry, 1200) < entry
BY DEF Times

LEMMA PlanFollows ==
  ASSUME NEW n \in Printed, NEW trig, NEW pay \in Int, NEW entry \in Int, NEW risk \in Int,
         NEW rr \in Nat, rr >= 10000, n.l <= entry, entry <= n.c, entry <= pay,
         n.l >= 1500 => 1 <= risk /\ risk <= Times(entry, 1200)
  PROVE  Sound(Plan(trig, pay, entry, risk, rr), n)
<1> DEFINE p == Plan(trig, pay, entry, risk, rr)
           reward == Times(risk, rr)
           most == Times(entry, 1200)
<1>1. /\ p.pay = pay /\ p.entry = entry /\ p.stop = entry - risk
      /\ p.target = entry + reward
  BY DEF Plan
<1>2. reward \in Int
  <2> DEFINE y == risk * rr
  <2>1. y \in Int
    OBVIOUS
  <2> HIDE DEF y
  <2>2. y \div 10000 \in Int
    BY <2>1
  <2> QED
    BY <2>2 DEF Times, y
<1>3. n.l \in Nat /\ n.c \in Nat
  BY BarTyped
<1>4. ASSUME n.l >= 1500 PROVE Follows(p, n)
  <2>1. 1 <= risk /\ risk <= most /\ entry \in Nat /\ risk \in Nat /\ entry > 0
    BY <1>3, <1>4
  <2>2. reward > 0
    BY <2>1, Rewards
  <2>3. most \in Nat /\ most < entry
    BY <2>1, TwelvePercent
  <2> HIDE DEF p, reward, most
  <2>4. Tradeable(p)
    BY <1>1, <1>2, <2>1, <2>2, <2>3 DEF Tradeable
  <2>5. p.entry - p.stop <= most
    BY <1>1, <2>1, <2>3
  <2> QED
    BY <1>1, <2>4, <2>5 DEF Follows, most
<1> HIDE DEF reward, most, p
<1>5. IsPlan(p)
  BY <1>1, <1>2 DEF IsPlan
<1> QED
  BY <1>4, <1>5 DEF Sound, p

-----------------------------------------------------------------------------
(* The twelve reclaims. What their rows have in common: a risk of at least so many
   tenths of a cent, bounded by a cap, or refused, before it is twelve percent. *)
IsRow(row) ==
  /\ row.window \in Nat /\ row.window > 0 /\ row.base \in Nat /\ row.pay \in Nat
  /\ row.ema \in Nat /\ row.anchor \in Nat
  /\ row.slack[1] \in Nat /\ row.slack[2] \in Nat
  /\ row.risk[1] \in Nat /\ row.risk[2] \in Nat /\ row.risk[2] > 0
  /\ row.refuse \in Nat /\ row.cap \in Nat /\ row.cap >= 550
  /\ row.cap <= 1200 \/ row.refuse <= 1200
  /\ row.rr \in Nat /\ row.rr >= 10000

LEMMA TrendPullbackRow == IsRow(TrendPullback)
BY SMT DEF IsRow, TrendPullback, Row, Usual

LEMMA FirstPullbackRow == IsRow(FirstPullback)
BY SMT DEF IsRow, FirstPullback, Row, Usual

LEMMA SecondLegVwapRow == IsRow(SecondLegVwap)
BY SMT DEF IsRow, SecondLegVwap, Row, Usual

LEMMA HighBaseRow == IsRow(HighBase)
BY SMT DEF IsRow, HighBase, Row, Usual

LEMMA StairStepRow == IsRow(StairStep)
BY SMT DEF IsRow, StairStep, Row, Usual

LEMMA Smooth10sRow == IsRow(Smooth10s)
BY SMT DEF IsRow, Smooth10s, Row, Usual

LEMMA ParabolicRow == IsRow(Parabolic)
BY SMT DEF IsRow, Parabolic, Row, Usual

LEMMA SmoothHodRow == IsRow(SmoothHod)
BY SMT DEF IsRow, SmoothHod, Row, Usual

LEMMA FailedSpikeVwapRow == IsRow(FailedSpikeVwap)
BY SMT DEF IsRow, FailedSpikeVwap, Row, Usual

LEMMA PriorRunnerRow == IsRow(PriorRunner)
BY SMT DEF IsRow, PriorRunner, Row, Usual

LEMMA PostTargetRow == IsRow(PostTarget)
BY SMT DEF IsRow, PostTarget, Row, Usual

LEMMA SecondLegRow == IsRow(SecondLeg)
BY SMT DEF IsRow, SecondLeg, Row, Usual

(* The whole or half dollar at or under a price. *)
LEMMA Steps ==
  \A p \in Nat : \A step \in {500, 1000} :
    /\ (p \div step) * step \in Nat
    /\ (p \div step) * step <= p
    /\ (p \div step + 1) * step \in Nat
    /\ (p \div step + 1) * step > p
<1> SUFFICES ASSUME NEW p \in Nat
             PROVE  \A step \in {500, 1000} :
                      /\ (p \div step) * step \in Nat
                      /\ (p \div step) * step <= p
                      /\ (p \div step + 1) * step \in Nat
                      /\ (p \div step + 1) * step > p
  OBVIOUS
<1>1. /\ (p \div 500) * 500 \in Nat /\ (p \div 500) * 500 <= p
      /\ (p \div 500 + 1) * 500 \in Nat /\ (p \div 500 + 1) * 500 > p
  OBVIOUS
<1>2. /\ (p \div 1000) * 1000 \in Nat /\ (p \div 1000) * 1000 <= p
      /\ (p \div 1000 + 1) * 1000 \in Nat /\ (p \div 1000 + 1) * 1000 > p
  OBVIOUS
<1> QED
  BY <1>1, <1>2

(* What a lane has read off the tape, as far as its plan depends on it. *)
IsReading(r, n) ==
  /\ r.n = n /\ r.bars \in Tape /\ r.bars # <<>>
  /\ r.baseHigh \in Nat /\ r.baseLow \in Nat /\ r.vwap \in Nat /\ r.ema \in Nat

LEMMA ReadingTyped ==
  ASSUME NEW t \in Tape, t # <<>>, NEW seen, NEW row, IsRow(row)
  PROVE  IsReading(Reading(row, t, seen), Newest(t))
<1> DEFINE bars == Final(t, row.window)
           base == Base(bars, row.base)
           r == Reading(row, t, seen)
<1>1. row.window \in Nat /\ row.window > 0 /\ row.base \in Nat
  BY DEF IsRow
<1>2. bars \in Tape /\ bars # <<>> /\ Newest(bars) = Newest(t)
  BY <1>1, FinalPart
<1>3. base \in Tape
  <2> HIDE DEF bars
  <2> QED
    BY <1>1, <1>2, BasePart
<1>4. /\ r.n = Newest(bars) /\ r.bars = bars /\ r.baseHigh = Top(base)
      /\ r.baseLow = Bottom(base) /\ r.vwap = Vwap(bars) /\ r.ema = Ema(bars)
  BY DEF Reading
<1> HIDE DEF bars, base, r
<1>5. Top(base) \in Nat /\ Bottom(base) \in Nat /\ Vwap(bars) \in Nat /\ Ema(bars) \in Nat
  BY <1>2, <1>3, TopTyped, BottomTyped, VwapTyped, EmaTyped, LengthOf
<1> QED
  BY <1>2, <1>4, <1>5 DEF IsReading, r

LEMMA LevelTyped ==
  ASSUME NEW n \in Printed, NEW r, IsReading(r, n), NEW row
  PROVE  Level(row, r) \in Nat
<1> DEFINE top == Top(Base(r.bars, 18))
           baseHigh == r.baseHigh
           c == r.n.c
           step == IF c < 10000 THEN 500 ELSE 1000
           under == (c \div step) * step
<1>1. top \in Nat /\ baseHigh \in Nat /\ c \in Nat
  BY BasePart, TopTyped, BarTyped DEF IsReading
<1> HIDE DEF top, baseHigh, c
<1>2. step \in {500, 1000}
  OBVIOUS
<1> HIDE DEF step
<1>3. under \in Nat
  BY <1>1, <1>2, Steps
<1> HIDE DEF under
<1>4. AtLeast(top, baseHigh) \in Nat /\ AtLeast(baseHigh, under) \in Nat
  BY <1>1, <1>3 DEF AtLeast
<1>5. \/ Level(row, r) = AtLeast(top, baseHigh)
      \/ Level(row, r) = AtLeast(baseHigh, under)
      \/ Level(row, r) = baseHigh
  <2>1. CASE row.trig = "smooth_hod"
    BY <2>1 DEF Level, top, baseHigh
  <2>2. CASE row.trig = "second_leg"
    BY <2>2 DEF Level, baseHigh, under, step, c
  <2>3. CASE row.trig # "smooth_hod" /\ row.trig # "second_leg"
    BY <2>3 DEF Level, baseHigh
  <2> QED
    BY <2>1, <2>2, <2>3
<1> QED
  BY <1>1, <1>4, <1>5

LEMMA AnchorTyped ==
  ASSUME NEW n \in Printed, NEW r, IsReading(r, n), NEW row, IsRow(row), NEW level \in Nat
  PROVE  Anchor(row, r, level) \in Nat
<1> DEFINE part == Final(r.bars, 6)
           close == MeanClose(part)
           ema == r.ema
           vwap == r.vwap
           bp == row.ema
           anchor == row.anchor
           low == r.baseLow
           meanClose == Times(close, 9550)
           meanEma == Times(ema, bp)
           heldLevel == Times(level, 9200)
           heldVwap == Times(vwap, anchor)
           mean == IF row.trig = "failed_spike_vwap" THEN meanClose ELSE meanEma
           held == IF row.trig = "second_leg" THEN heldLevel ELSE heldVwap
<1>1. close \in Nat
  <2>1. part \in Tape /\ part # <<>>
    BY FinalPart DEF IsReading
  <2> HIDE DEF part
  <2> QED
    BY <2>1, LengthOf, MeanCloseTyped
<1>2. ema \in Nat /\ vwap \in Nat /\ bp \in Nat /\ anchor \in Nat /\ low \in Nat
  BY DEF IsReading, IsRow
<1>3. Anchor(row, r, level) = AtLeast(low, AtLeast(held, mean))
  BY Zenon DEF Anchor
<1> HIDE DEF close, ema, vwap, bp, anchor, low
<1>4. meanClose \in Nat /\ meanEma \in Nat /\ heldLevel \in Nat /\ heldVwap \in Nat
  <2>1. meanClose \in Nat /\ heldLevel \in Nat
    BY <1>1 DEF Times
  <2>2. meanEma \in Nat /\ heldVwap \in Nat
    BY <1>2, TimesTyped
  <2> QED
    BY <2>1, <2>2
<1> HIDE DEF meanClose, meanEma, heldLevel, heldVwap
<1>5. mean \in Nat /\ held \in Nat
  BY <1>4
<1> HIDE DEF mean, held
<1>6. AtLeast(low, AtLeast(held, mean)) \in Nat
  BY <1>2, <1>5 DEF AtLeast
<1> QED
  BY <1>3, <1>6

LEMMA RiskTyped ==
  ASSUME NEW n \in Printed, NEW r, IsReading(r, n), NEW row, IsRow(row),
         NEW level \in Nat, NEW entry \in Nat
  PROVE  Risk(row, r, level, entry) \in Nat /\ Risk(row, r, level, entry) >= 1
<1> DEFINE anchor == Anchor(row, r, level)
           s1 == row.slack[1]
           s2 == row.slack[2]
           r1 == row.risk[1]
           r2 == row.risk[2]
           slack == Times(entry, s2)
           least == Times(entry, r1)
           risk == AtLeast(entry - anchor + AtLeast(s1, slack), AtLeast(least, r2))
<1>1. /\ anchor \in Nat /\ s1 \in Nat /\ s2 \in Nat /\ r1 \in Nat /\ r2 \in Nat /\ r2 > 0
  BY AnchorTyped DEF IsRow
<1>2. Risk(row, r, level, entry) = risk
  BY DEF Risk
<1> HIDE DEF anchor, s1, s2, r1, r2
<1>3. slack \in Nat /\ least \in Nat
  BY <1>1, TimesTyped
<1> HIDE DEF slack, least
<1>4. risk \in Nat /\ risk >= 1
  BY <1>1, <1>3 DEF AtLeast
<1> QED
  BY <1>2, <1>4

(* A reclaim whose risk is not refused is capped, and stays within twelve percent. *)
LEMMA ReclaimPlanSound ==
  ASSUME NEW n \in Printed, NEW r, IsReading(r, n), NEW row, IsRow(row)
  PROVE  Sound(ReclaimPlan(row, r), n)
<1> DEFINE level == Level(row, r)
           bp == row.pay
           pay == Times(level, bp)
           c == r.n.c
           l == r.n.l
           entry == AtMost(c, pay)
           risk == Risk(row, r, level, entry)
           refuse == row.refuse
           cap == row.cap
           rr == row.rr
           trig == row.trig
           refused == Times(entry, refuse)
           most == Times(entry, cap)
           taken == AtMost(risk, most)
           limit == Times(entry, 1200)
<1>1. /\ refuse \in Nat /\ cap \in Nat /\ cap >= 550 /\ rr \in Nat /\ rr >= 10000
      /\ cap <= 1200 \/ refuse <= 1200
      /\ bp \in Nat
  BY DEF IsRow
<1>2. c = n.c /\ l = n.l /\ n.c \in Nat /\ n.l \in Nat /\ n.l <= n.c
  BY BarTyped DEF IsReading
<1>3. level \in Nat
  BY LevelTyped
<1>4. ReclaimPlan(row, r) = IF l > pay \/ risk > refused THEN NoPlan
                            ELSE Plan(trig, pay, entry, taken, rr)
  BY DEF ReclaimPlan
<1> HIDE DEF level, bp
<1>5. pay \in Nat
  <2>1. level \in Nat /\ bp \in Nat
    BY <1>1, <1>3
  <2> QED
    BY <2>1, TimesTyped
<1> HIDE DEF pay, c, l
<1>6. entry \in Nat /\ entry <= n.c /\ entry <= pay /\ (l <= pay => n.l <= entry)
  BY <1>2, <1>5 DEF AtMost
<1> HIDE DEF entry
<1>7. risk \in Nat /\ risk >= 1
  BY <1>3, <1>6, RiskTyped
<1> HIDE DEF risk, refuse, cap, rr, trig
<1>8. refused \in Nat /\ most \in Nat /\ limit \in Nat
  <2>1. entry \in Nat /\ refuse \in Nat /\ cap \in Nat
    BY <1>1, <1>6
  <2>2. refused \in Nat
    BY <2>1, TimesTyped
  <2>3. most \in Nat
    BY <2>1, TimesTyped
  <2>4. limit \in Nat
    BY <1>6 DEF Times
  <2> QED
    BY <2>2, <2>3, <2>4
<1>9. \/ cap <= 1200 /\ most <= limit
      \/ refuse <= 1200 /\ refused <= limit
  BY <1>1, <1>6, TimesGrows
<1>10. entry >= 1500 => most >= 1
  <2>1. Times(entry, 550) <= most
    BY <1>1, <1>6, TimesGrows
  <2>2. entry >= 1500 => Times(entry, 550) >= 1 /\ Times(entry, 550) \in Nat
    BY <1>6 DEF Times
  <2> HIDE DEF most
  <2> QED
    BY <1>8, <2>1, <2>2
<1> HIDE DEF refused, most, limit
<1>11. taken \in Nat /\ (entry >= 1500 => 1 <= taken)
  BY <1>7, <1>8, <1>10 DEF AtMost
<1>12. risk <= refused => taken <= limit
  BY <1>7, <1>8, <1>9 DEF AtMost
<1> HIDE DEF taken
<1>13. CASE l > pay \/ risk > refused
  BY <1>4, <1>13, NothingPlanned
<1>14. CASE ~(l > pay \/ risk > refused)
  <2>1. l <= pay /\ risk <= refused
    BY <1>2, <1>5, <1>7, <1>8, <1>14
  <2>2. n.l >= 1500 => 1 <= taken /\ taken <= Times(entry, 1200)
    BY <1>2, <1>6, <1>11, <1>12, <2>1 DEF limit
  <2>3. n.l <= entry /\ entry \in Int /\ pay \in Int /\ taken \in Int
    BY <1>5, <1>6, <1>11, <2>1
  <2>4. Sound(Plan(trig, pay, entry, taken, rr), n)
    BY <1>1, <1>6, <2>2, <2>3, PlanFollows
  <2> QED
    BY <1>4, <1>14, <2>4
<1> QED
  BY <1>13, <1>14

(* Whatever else it asks, a reclaim plans nothing or the plan of its row. *)
LEMMA RowSound ==
  ASSUME NEW t \in Tape, t # <<>>, NEW seen, NEW row, IsRow(row), NEW p,
         p = ReclaimPlan(row, Reading(row, t, seen)) \/ p = NoPlan
  PROVE  Sound(p, Newest(t))
<1> DEFINE r == Reading(row, t, seen)
<1>1. IsReading(r, Newest(t)) /\ Newest(t) \in Printed
  BY ReadingTyped, NewestTyped
<1> HIDE DEF r
<1>2. Sound(ReclaimPlan(row, r), Newest(t))
  BY <1>1, ReclaimPlanSound
<1> QED
  BY <1>2, NothingPlanned DEF r

LEMMA TrendPullbackSound ==
  ASSUME NEW t \in Tape, t # <<>>, NEW seen
  PROVE  Sound(trend_pullback(t, seen), Newest(t))
<1>1. \/ trend_pullback(t, seen) = ReclaimPlan(TrendPullback, Reading(TrendPullback, t, seen))
      \/ trend_pullback(t, seen) = NoPlan
  BY DEF trend_pullback, Reclaim
<1> QED
  BY <1>1, RowSound, TrendPullbackRow

LEMMA FirstPullbackSound ==
  ASSUME NEW t \in Tape, t # <<>>, NEW seen
  PROVE  Sound(first_pullback(t, seen), Newest(t))
<1>1. \/ first_pullback(t, seen) = ReclaimPlan(FirstPullback, Reading(FirstPullback, t, seen))
      \/ first_pullback(t, seen) = NoPlan
  BY DEF first_pullback, Reclaim
<1> QED
  BY <1>1, RowSound, FirstPullbackRow

LEMMA SecondLegVwapSound ==
  ASSUME NEW t \in Tape, t # <<>>, NEW seen
  PROVE  Sound(second_leg_vwap(t, seen), Newest(t))
<1>1. \/ second_leg_vwap(t, seen) = ReclaimPlan(SecondLegVwap, Reading(SecondLegVwap, t, seen))
      \/ second_leg_vwap(t, seen) = NoPlan
  BY DEF second_leg_vwap, Reclaim
<1> QED
  BY <1>1, RowSound, SecondLegVwapRow

LEMMA HighBaseSound ==
  ASSUME NEW t \in Tape, t # <<>>, NEW seen
  PROVE  Sound(high_base(t, seen), Newest(t))
<1>1. \/ high_base(t, seen) = ReclaimPlan(HighBase, Reading(HighBase, t, seen))
      \/ high_base(t, seen) = NoPlan
  BY DEF high_base, Reclaim
<1> QED
  BY <1>1, RowSound, HighBaseRow

LEMMA StairStepSound ==
  ASSUME NEW t \in Tape, t # <<>>, NEW seen
  PROVE  Sound(stair_step(t, seen), Newest(t))
<1>1. \/ stair_step(t, seen) = ReclaimPlan(StairStep, Reading(StairStep, t, seen))
      \/ stair_step(t, seen) = NoPlan
  BY DEF stair_step, Reclaim
<1> QED
  BY <1>1, RowSound, StairStepRow

LEMMA Smooth10sSound ==
  ASSUME NEW t \in Tape, t # <<>>, NEW seen
  PROVE  Sound(smooth_10s(t, seen), Newest(t))
<1>1. \/ smooth_10s(t, seen) = ReclaimPlan(Smooth10s, Reading(Smooth10s, t, seen))
      \/ smooth_10s(t, seen) = NoPlan
  BY DEF smooth_10s, Reclaim
<1> QED
  BY <1>1, RowSound, Smooth10sRow

LEMMA ParabolicSound ==
  ASSUME NEW t \in Tape, t # <<>>, NEW seen
  PROVE  Sound(parabolic(t, seen), Newest(t))
<1>1. \/ parabolic(t, seen) = ReclaimPlan(Parabolic, Reading(Parabolic, t, seen))
      \/ parabolic(t, seen) = NoPlan
  BY DEF parabolic, Reclaim
<1> QED
  BY <1>1, RowSound, ParabolicRow

LEMMA SmoothHodSound ==
  ASSUME NEW t \in Tape, t # <<>>, NEW seen
  PROVE  Sound(smooth_hod(t, seen), Newest(t))
<1>1. \/ smooth_hod(t, seen) = ReclaimPlan(SmoothHod, Reading(SmoothHod, t, seen))
      \/ smooth_hod(t, seen) = NoPlan
  BY DEF smooth_hod, Reclaim
<1> QED
  BY <1>1, RowSound, SmoothHodRow

LEMMA FailedSpikeVwapSound ==
  ASSUME NEW t \in Tape, t # <<>>, NEW seen
  PROVE  Sound(failed_spike_vwap(t, seen), Newest(t))
<1>1. \/ failed_spike_vwap(t, seen) =
           ReclaimPlan(FailedSpikeVwap, Reading(FailedSpikeVwap, t, seen))
      \/ failed_spike_vwap(t, seen) = NoPlan
  BY DEF failed_spike_vwap, Reclaim
<1> QED
  BY <1>1, RowSound, FailedSpikeVwapRow

LEMMA PriorRunnerSound ==
  ASSUME NEW t \in Tape, t # <<>>, NEW seen
  PROVE  Sound(prior_runner(t, seen), Newest(t))
<1>1. \/ prior_runner(t, seen) = ReclaimPlan(PriorRunner, Reading(PriorRunner, t, seen))
      \/ prior_runner(t, seen) = NoPlan
  BY DEF prior_runner, Reclaim
<1> QED
  BY <1>1, RowSound, PriorRunnerRow

LEMMA PostTargetSound ==
  ASSUME NEW t \in Tape, t # <<>>, NEW seen
  PROVE  Sound(post_target(t, seen), Newest(t))
<1>1. \/ post_target(t, seen) = ReclaimPlan(PostTarget, Reading(PostTarget, t, seen))
      \/ post_target(t, seen) = NoPlan
  BY DEF post_target, Reclaim
<1> QED
  BY <1>1, RowSound, PostTargetRow

LEMMA SecondLegSound ==
  ASSUME NEW t \in Tape, t # <<>>, NEW seen
  PROVE  Sound(second_leg(t, seen), Newest(t))
<1>1. \/ second_leg(t, seen) = ReclaimPlan(SecondLeg, Reading(SecondLeg, t, seen))
      \/ second_leg(t, seen) = NoPlan
  BY DEF second_leg, Reclaim
<1> QED
  BY <1>1, RowSound, SecondLegRow

-----------------------------------------------------------------------------
(* The lanes of their own shape. A cap on the risk of a price that leaves a tradeable
   plan; a plan that pays up to a level within such a cap. *)
Caps(entry, most) ==
  most \in Nat /\ Times(entry, 550) <= most /\ most <= Times(entry, 1200)

LEMMA CappedSound ==
  \A n \in Printed : \A trig, entry, most, taken :
    \A pay \in Nat : \A risk \in Int : \A rr \in Nat :
      /\ n.l <= pay /\ entry = AtMost(n.c, pay)
      /\ risk >= 1 /\ Caps(entry, most) /\ taken = AtMost(risk, most) /\ rr >= 10000
      => Sound(Plan(trig, pay, entry, taken, rr), n)
<1> SUFFICES
      ASSUME NEW n \in Printed, NEW trig, NEW entry, NEW most, NEW taken,
             NEW pay \in Nat, NEW risk \in Int, NEW rr \in Nat,
             n.l <= pay, entry = AtMost(n.c, pay),
             risk >= 1, Caps(entry, most), taken = AtMost(risk, most), rr >= 10000
      PROVE  Sound(Plan(trig, pay, entry, taken, rr), n)
  OBVIOUS
<1> DEFINE limit == Times(entry, 1200)
           least == Times(entry, 550)
<1>1. n.l \in Nat /\ n.c \in Nat /\ n.l <= n.c
  BY BarTyped
<1>2. entry \in Nat /\ entry <= n.c /\ entry <= pay /\ n.l <= entry
  BY <1>1 DEF AtMost
<1>3. limit \in Nat /\ least \in Nat
  BY <1>2 DEF Times
<1>4. entry >= 1500 => least >= 1
  BY <1>2 DEF Times
<1>5. most \in Nat /\ least <= most /\ most <= limit
  BY DEF Caps
<1> HIDE DEF limit, least
<1>6. taken \in Int /\ (n.l >= 1500 => 1 <= taken /\ taken <= limit)
  BY <1>1, <1>2, <1>3, <1>4, <1>5 DEF AtMost
<1> QED
  BY <1>2, <1>6, PlanFollows DEF limit

(* The greatest of some bars, by their places. *)
LEMMA Greatest ==
  ASSUME NEW m \in Nat, NEW T, T \subseteq 1..m, T # {}
  PROVE  \E n \in T : \A k \in T : k <= n
<1> DEFINE U == {i \in 0..m : m - i \in T}
<1>1. U \subseteq Nat
  OBVIOUS
<1>2. U # {}
  <2>1. PICK k \in T : TRUE
    OBVIOUS
  <2>2. m - k \in 0..m /\ m - (m - k) = k
    BY <2>1
  <2> QED
    BY <2>1, <2>2
<1>3. PICK i \in U : \A j \in U : i <= j
  BY <1>1, <1>2, Least
<1>4. m - i \in T
  OBVIOUS
<1>5. ASSUME NEW k \in T PROVE k <= m - i
  <2>1. m - k \in 0..m /\ m - (m - k) = k
    OBVIOUS
  <2>2. m - k \in U
    BY <2>1
  <2>3. i <= m - k
    BY <2>2, <1>3
  <2> QED
    BY <2>3
<1> QED
  BY <1>4, <1>5

LEMMA Early10sSound ==
  ASSUME NEW t \in Tape, t # <<>>, NEW seen
  PROVE  Sound(early_10s(t, seen), Newest(t))
<1> DEFINE bars == Final(t, 18)
           prior == Before(bars)
           n == Newest(bars)
           pause == Newest(prior)
           h == pause.h
           l == pause.l
           vwap == Vwap(bars)
           pay == Times(h, 10400)
           entry == AtMost(n.c, pay)
           held == Times(vwap, 9300)
           slack == Times(entry, 60)
           least == Times(entry, 260)
           wanted == entry - AtLeast(l, held) + AtLeast(25, slack)
           risk == AtLeast(wanted, AtLeast(least, 80))
           most == Times(entry, 600)
           taken == AtMost(risk, most)
           planned == Plan("early_10s", pay, entry, taken, 13500)
<1>1. \/ early_10s(t, seen) = NoPlan
      \/ Len(bars) >= 5 /\ ~(n.l > pay) /\ early_10s(t, seen) = planned
  BY DEF early_10s, CapAndStop
<1>2. bars \in Tape /\ n = Newest(t) /\ n \in Printed
  BY FinalPart, NewestTyped
<1> HIDE DEF bars
<1>3. vwap \in Nat /\ Len(bars) \in Nat /\ prior \in Tape
      /\ (Len(bars) > 0 => Len(prior) = Len(bars) - 1)
  BY <1>2, VwapTyped, BeforePart, LengthOf
<1> HIDE DEF prior, n, vwap
<1>4. SUFFICES ASSUME Len(bars) >= 5, ~(n.l > pay) PROVE Sound(planned, n)
  BY <1>1, <1>2, NothingPlanned
<1>5. h \in Nat /\ l \in Nat /\ n.c \in Nat /\ n.l \in Nat
  <2>1. Len(prior) > 0
    BY <1>3, <1>4
  <2>2. pause \in Printed
    BY <2>1, <1>3, LengthOf, NewestTyped
  <2> QED
    BY <2>2, <1>2, BarTyped
<1> HIDE DEF h, l, pause
<1>6. pay \in Nat
  BY <1>5 DEF Times
<1> HIDE DEF pay
<1>7. entry \in Nat
  BY <1>5, <1>6 DEF AtMost
<1>8. risk \in Int /\ risk >= 1
  <2> HIDE DEF entry
  <2>1. held \in Nat /\ slack \in Nat /\ least \in Nat
    BY <1>3, <1>7 DEF Times
  <2> HIDE DEF held, slack, least
  <2>2. wanted \in Int
    BY <1>5, <1>7, <2>1 DEF AtLeast
  <2> HIDE DEF wanted
  <2> QED
    BY <2>1, <2>2 DEF AtLeast
<1> HIDE DEF risk
<1>9. n.l <= pay
  BY <1>4, <1>5, <1>6
<1>10. Caps(entry, most)
  BY <1>7 DEF Caps, Times
<1> HIDE DEF n, most, taken, entry
<1>11. Sound(planned, n)
  <2>1. entry = AtMost(n.c, pay) /\ taken = AtMost(risk, most)
    BY DEF entry, taken
  <2> QED
    BY <1>2, <1>6, <1>8, <1>9, <1>10, <2>1, CappedSound
<1> QED
  BY <1>11

LEMMA LowPriceProofSound ==
  ASSUME NEW t \in Tape, t # <<>>, NEW seen
  PROVE  Sound(low_price_proof(t, seen), Newest(t))
<1> DEFINE bars == Final(t, 18)
           prior == Before(bars)
           n == Newest(bars)
           burst == AtLeast(seen, Top(bars))
           floor == IF burst < 2000 THEN 1800 ELSE 2000
           top == Top(prior)
           level == AtLeast(top, floor)
           bottom == Bottom(Base(bars, 4))
           pay == Times(level, 10350)
           entry == AtMost(n.c, pay)
           held == Times(entry, 9350)
           slack == Times(entry, 60)
           least == Times(entry, 250)
           wanted == entry - AtLeast(bottom, held) + AtLeast(20, slack)
           risk == AtLeast(wanted, AtLeast(least, 60))
           most == Times(entry, 550)
           taken == AtMost(risk, most)
           planned == Plan("low_price_proof", pay, entry, taken, 13000)
<1>1. \/ low_price_proof(t, seen) = NoPlan
      \/ ~(n.l > pay) /\ low_price_proof(t, seen) = planned
  BY DEF low_price_proof, CapAndStop
<1>2. bars \in Tape /\ n = Newest(t) /\ n \in Printed
  BY FinalPart, NewestTyped
<1>3. floor \in Nat
  OBVIOUS
<1> HIDE DEF bars, floor
<1>4. top \in Nat /\ bottom \in Nat
  BY <1>2, BeforePart, BasePart, TopTyped, BottomTyped
<1> HIDE DEF prior, n, top, bottom
<1>5. SUFFICES ASSUME ~(n.l > pay) PROVE Sound(planned, n)
  BY <1>1, <1>2, NothingPlanned
<1>6. level \in Nat /\ n.c \in Nat /\ n.l \in Nat
  BY <1>2, <1>3, <1>4, BarTyped DEF AtLeast
<1> HIDE DEF level
<1>7. pay \in Nat
  BY <1>6 DEF Times
<1> HIDE DEF pay
<1>8. entry \in Nat
  BY <1>6, <1>7 DEF AtMost
<1>9. risk \in Int /\ risk >= 1
  <2> HIDE DEF entry
  <2>1. held \in Nat /\ slack \in Nat /\ least \in Nat
    BY <1>8 DEF Times
  <2> HIDE DEF held, slack, least
  <2>2. wanted \in Int
    BY <1>4, <1>8, <2>1 DEF AtLeast
  <2> HIDE DEF wanted
  <2> QED
    BY <2>1, <2>2 DEF AtLeast
<1> HIDE DEF risk
<1>10. n.l <= pay
  BY <1>5, <1>6, <1>7
<1>11. Caps(entry, most)
  BY <1>8 DEF Caps, Times
<1> HIDE DEF n, most, taken, entry
<1>12. Sound(planned, n)
  <2>1. entry = AtMost(n.c, pay) /\ taken = AtMost(risk, most)
    BY DEF entry, taken
  <2> QED
    BY <1>2, <1>7, <1>9, <1>10, <1>11, <2>1, CappedSound
<1> QED
  BY <1>12

(* The bar that dumped the failed spike is a bar of the tape. *)
LEMMA DumpedTyped ==
  ASSUME NEW s \in Tape, NEW low, DumpedAt(s, low) > 0
  PROVE  DumpedAt(s, low) \in 1..Len(s)
<1> DEFINE spike(b) == /\ b.h >= Times(low, 13000) /\ Width(b) >= 1200 /\ Loc(b) >= 6200
                       /\ Body(b) >= 550 \/ -Body(b) >= 550
                       /\ b.v >= 35
           dumps(i) == {j \in i + 1..AtMost(Len(s), i + 4) :
                          Dumps(s[j], 750, 1200, 3500, AtLeast(35, Times(s[i].v, 6500)))}
           failed == {i \in 1..Len(s) - 3 : spike(s[i]) /\ dumps(i) # {}}
           final == CHOOSE i \in failed : \A k \in failed : k <= i
           at == CHOOSE j \in dumps(final) : \A k \in dumps(final) : j <= k
<1>1. DumpedAt(s, low) = IF failed = {} THEN 0 ELSE at
  BY DEF DumpedAt
<1>2. Len(s) \in Nat
  BY LengthOf
<1>3. \A i \in 1..Len(s) - 3 : dumps(i) \subseteq 1..Len(s)
  BY <1>2 DEF AtMost
<1>4. failed \subseteq 1..Len(s) - 3 /\ \A i \in failed : dumps(i) # {}
  OBVIOUS
<1> HIDE DEF dumps, failed
<1>5. failed # {}
  BY <1>1
<1>6. final \in failed
  <2>1. failed \subseteq 1..Len(s)
    BY <1>2, <1>4
  <2>2. \E i \in failed : \A k \in failed : k <= i
    BY <1>2, <1>5, <2>1, Greatest
  <2> QED
    BY <2>2
<1> HIDE DEF final
<1>7. at \in dumps(final)
  <2>1. dumps(final) \subseteq Nat /\ dumps(final) # {}
    BY <1>3, <1>4, <1>6
  <2>2. \E j \in dumps(final) : \A k \in dumps(final) : j <= k
    BY <2>1, Least
  <2> QED
    BY <2>2
<1> QED
  BY <1>1, <1>3, <1>4, <1>5, <1>6, <1>7

LEMMA FailedSpikeScalpSound ==
  ASSUME NEW t \in Tape, t # <<>>, NEW seen
  PROVE  Sound(failed_spike_scalp(t, seen), Newest(t))
<1> DEFINE bars == Final(t, 24)
           n == Newest(bars)
           prior == Before(bars)
           low == Bottom(bars)
           at == DumpedAt(prior, low)
           dump == prior[at]
           h == dump.h
           after == SubSeq(prior, at + 1, Len(prior))
           shelf == Bottom(Final(after, 4))
           pay == Times(h, 10350)
           entry == AtMost(n.c, pay)
           under == Times(h, 8800)
           slack == Times(entry, 60)
           structure == AtLeast(10, AtLeast(shelf, under) - AtLeast(50, slack))
           least == Times(entry, 350)
           wanted == entry - structure
           risk == AtLeast(wanted, AtLeast(least, 160))
           most == Times(entry, 950)
           taken == AtMost(risk, most)
           planned == Plan("failed_spike_scalp", pay, entry, taken, 11500)
<1>1. \/ failed_spike_scalp(t, seen) = NoPlan
      \/ at > 0 /\ ~(n.l > pay) /\ failed_spike_scalp(t, seen) = planned
  BY DEF failed_spike_scalp, CapAndStop
<1>2. bars \in Tape /\ n = Newest(t) /\ n \in Printed
  BY FinalPart, NewestTyped
<1> HIDE DEF bars
<1>3. prior \in Tape
  BY <1>2, BeforePart
<1> HIDE DEF prior, n
<1>4. SUFFICES ASSUME at > 0, ~(n.l > pay) PROVE Sound(planned, n)
  BY <1>1, <1>2, NothingPlanned
<1>5. at \in 1..Len(prior)
  BY <1>3, <1>4, DumpedTyped
<1> HIDE DEF at, low
<1>6. h \in Nat /\ n.c \in Nat /\ n.l \in Nat
  BY <1>2, <1>3, <1>5, InTape, BarTyped
<1>7. shelf \in Nat
  <2>1. at \in Nat
    BY <1>3, <1>5, LengthOf
  <2>2. after \in Tape
    BY <1>3, <2>1, FromPart
  <2> HIDE DEF after
  <2> QED
    BY <2>2, FinalPart, BottomTyped
<1> HIDE DEF h, dump, shelf
<1>8. pay \in Nat
  BY <1>6 DEF Times
<1> HIDE DEF pay
<1>9. entry \in Nat
  BY <1>6, <1>8 DEF AtMost
<1>10. risk \in Int /\ risk >= 1
  <2> HIDE DEF entry
  <2>1. under \in Nat /\ slack \in Nat /\ least \in Nat
    BY <1>6, <1>9 DEF Times
  <2> HIDE DEF under, slack, least
  <2>2. wanted \in Int
    BY <1>7, <1>9, <2>1 DEF AtLeast
  <2> HIDE DEF wanted
  <2> QED
    BY <2>1, <2>2 DEF AtLeast
<1> HIDE DEF risk
<1>11. n.l <= pay
  BY <1>4, <1>6, <1>8
<1>12. Caps(entry, most)
  BY <1>9 DEF Caps, Times
<1> HIDE DEF n, most, taken, entry
<1>13. Sound(planned, n)
  <2>1. entry = AtMost(n.c, pay) /\ taken = AtMost(risk, most)
    BY DEF entry, taken
  <2> QED
    BY <1>2, <1>8, <1>10, <1>11, <1>12, <2>1, CappedSound
<1> QED
  BY <1>13

LEMMA FirstImpulseSound ==
  ASSUME NEW t \in Tape, t # <<>>, NEW seen
  PROVE  Sound(first_impulse(t, seen), Newest(t))
<1> DEFINE bars == Final(t, 16)
           n == Newest(bars)
           c == n.c
           pay == Times(c, 10300)
           risk == AtLeast(Times(c, 260), 120)
           planned == Plan("first_impulse", pay, c, risk, 10000)
<1>1. \/ first_impulse(t, seen) = NoPlan
      \/ risk <= Times(c, 400) /\ first_impulse(t, seen) = planned
  BY DEF first_impulse
<1>2. bars \in Tape /\ n = Newest(t) /\ n \in Printed
  BY FinalPart, NewestTyped
<1> HIDE DEF n
<1>3. SUFFICES ASSUME risk <= Times(c, 400) PROVE Sound(planned, n)
  BY <1>1, <1>2, NothingPlanned
<1>4. c \in Nat /\ n.l \in Nat /\ n.l <= c
  BY <1>2, BarTyped
<1> HIDE DEF c
<1>5. /\ pay \in Nat /\ c <= pay /\ risk \in Nat
      /\ 1 <= risk /\ risk <= Times(c, 1200)
  BY <1>3, <1>4 DEF Times, AtLeast
<1> HIDE DEF pay, risk
<1>6. Sound(planned, n)
  BY <1>2, <1>4, <1>5, PlanFollows DEF c
<1> QED
  BY <1>6

LEMMA FreshContinuationSound ==
  ASSUME NEW t \in Tape, t # <<>>, NEW seen
  PROVE  Sound(fresh_continuation(t, seen), Newest(t))
<1> DEFINE bars == Final(t, 18)
           n == Newest(bars)
           c == n.c
           bottom == Bottom(Final(bars, 6))
           pay == Times(c, 10180)
           wanted == c - AtLeast(bottom, Times(c, 9400)) + AtLeast(30, Times(c, 40))
           risk == AtLeast(wanted, AtLeast(Times(c, 180), 60))
           most == Times(c, 550)
           taken == AtMost(risk, most)
           planned == Plan("fresh_continuation", pay, c, taken, 13500)
<1>1. fresh_continuation(t, seen) = NoPlan \/ fresh_continuation(t, seen) = planned
  BY DEF fresh_continuation
<1>2. bars \in Tape /\ n = Newest(t) /\ n \in Printed
  BY FinalPart, NewestTyped
<1> HIDE DEF bars
<1>3. bottom \in Nat
  BY <1>2, FinalPart, BottomTyped
<1> HIDE DEF n, bottom
<1>4. c \in Nat /\ n.l \in Nat /\ n.l <= c
  BY <1>2, BarTyped
<1> HIDE DEF c
<1>5. wanted \in Int
  BY <1>3, <1>4 DEF Times, AtLeast
<1> HIDE DEF wanted
<1>6. risk \in Int /\ risk >= 1
  BY <1>4, <1>5 DEF Times, AtLeast
<1> HIDE DEF risk
<1>7. pay \in Nat /\ c <= pay /\ n.l <= pay
  BY <1>4 DEF Times
<1>8. c = AtMost(n.c, pay)
  BY <1>4, <1>7 DEF AtMost, c
<1>9. Caps(c, most)
  BY <1>4 DEF Caps, Times
<1> HIDE DEF pay, most, taken
<1>10. taken = AtMost(risk, most)
  BY DEF taken
<1>11. Sound(planned, n)
  BY <1>2, <1>6, <1>7, <1>8, <1>9, <1>10, CappedSound
<1> QED
  BY <1>1, <1>2, <1>11, NothingPlanned

-----------------------------------------------------------------------------
(* The lanes that continue an episode. *)
IsEpisode(w) ==
  w.count \in Nat /\ w.reject \in Nat /\ w.vol \in Nat /\ w.high \in Nat

LEMMA MinReclaimTyped == MinReclaim \in Nat /\ RewardRisk \in Nat /\ AddReward \in Nat
BY RetriesAssumption DEF RetriesAssumption

LEMMA LevelsTyped ==
  \A p, q \in Nat :
    /\ LevelUnder(p, StepOf(q)) \in Nat /\ LevelUnder(p, StepOf(q)) <= p
    /\ LevelOver(p, StepOf(q)) \in Nat /\ LevelOver(p, StepOf(q)) > p
<1> SUFFICES ASSUME NEW p \in Nat, NEW q \in Nat
             PROVE  /\ LevelUnder(p, StepOf(q)) \in Nat /\ LevelUnder(p, StepOf(q)) <= p
                    /\ LevelOver(p, StepOf(q)) \in Nat /\ LevelOver(p, StepOf(q)) > p
  OBVIOUS
<1> DEFINE step == StepOf(q)
<1>1. step \in {500, 1000}
  BY DEF StepOf
<1> HIDE DEF step
<1>2. /\ LevelUnder(p, step) \in Nat /\ LevelUnder(p, step) <= p
      /\ LevelOver(p, step) \in Nat /\ LevelOver(p, step) > p
  BY <1>1, Steps DEF LevelUnder, LevelOver
<1> QED
  BY <1>2 DEF step

LEMMA StructureTyped ==
  ASSUME NEW t \in Tape, t # <<>>
  PROVE  Structure(t) \in Nat
<1>1. Bottom(Base(t, 4)) \in Nat
  BY BasePart, BottomTyped
<1>2. Newest(t).l \in Nat
  BY NewestTyped, BarTyped
<1> QED
  BY <1>1, <1>2 DEF Structure

(* A starter under a cap on what is paid for the level. *)
LEMMA StarterSound ==
  ASSUME NEW t \in Tape, t # <<>>, NEW trig, NEW pay \in Nat, ~(Newest(t).l > pay)
  PROVE  LET entry == AtMost(Newest(t).c, pay)
         IN  Sound(Plan(trig, pay, entry, StarterRisk(t, entry), 13500), Newest(t))
<1> DEFINE n == Newest(t)
           entry == AtMost(n.c, pay)
           structure == Structure(t)
           risk == AtLeast(entry - structure, AtLeast(Times(entry, 180), 80))
           most == Times(entry, 550)
           taken == StarterRisk(t, entry)
<1>1. n \in Printed /\ structure \in Nat
  BY NewestTyped, StructureTyped
<1>2. taken = AtMost(risk, most)
  BY DEF StarterRisk
<1> HIDE DEF n, structure, taken
<1>3. n.c \in Nat /\ n.l \in Nat
  BY <1>1, BarTyped
<1>4. entry \in Nat
  BY <1>3 DEF AtMost
<1>5. n.l <= pay
  BY <1>3 DEF n
<1>6. entry = AtMost(n.c, pay)
  OBVIOUS
<1> HIDE DEF entry
<1>7. risk \in Int /\ risk >= 1
  BY <1>1, <1>4 DEF Times, AtLeast
<1>8. Caps(entry, most)
  BY <1>4 DEF Caps, Times
<1> HIDE DEF risk, most
<1>9. Sound(Plan(trig, pay, entry, taken, 13500), n)
  BY <1>1, <1>2, <1>5, <1>6, <1>7, <1>8, CappedSound
<1> QED
  BY <1>9 DEF n, entry, taken

LEMMA FailedRecoverySound ==
  ASSUME NEW t \in Tape, t # <<>>, NEW seen \in Nat, NEW failed \in Nat
  PROVE  Sound(failed_recovery(t, seen, failed), Newest(t))
<1> DEFINE n == Newest(t)
           level == AtLeast(Times(failed, 10350), Times(seen, 10020))
           pay == Times(level, 10350)
           entry == AtMost(n.c, pay)
           planned == Plan("failed_recovery", pay, entry, StarterRisk(t, entry), 13500)
<1>1. \/ failed_recovery(t, seen, failed) = NoPlan
      \/ n.l <= pay /\ failed_recovery(t, seen, failed) = planned
  BY DEF failed_recovery
<1>2. level \in Nat
  BY DEF Times, AtLeast
<1> HIDE DEF level
<1>3. pay \in Nat /\ n.l \in Nat
  BY <1>2, NewestTyped, BarTyped DEF Times
<1> HIDE DEF pay
<1>4. SUFFICES ASSUME n.l <= pay PROVE Sound(planned, n)
  BY <1>1, NothingPlanned
<1>5. ~(n.l > pay)
  BY <1>3, <1>4
<1> QED
  BY <1>3, <1>5, StarterSound

LEMMA LevelBreakSound ==
  ASSUME NEW t \in Tape, t # <<>>, NEW seen \in Nat
  PROVE  Sound(level_break(t, seen), Newest(t))
<1> DEFINE n == Newest(t)
           reclaim == MinReclaim > 0 /\ seen <= Times(MinReclaim, 10100) /\ n.h >= MinReclaim
           over == LevelOver(seen, StepOf(n.c))
           level == IF reclaim THEN MinReclaim ELSE AtLeast(over, MinReclaim)
           pay == Times(level, 10350)
           entry == AtMost(n.c, pay)
           planned == Plan("level_break", pay, entry, StarterRisk(t, entry), 13500)
<1>1. \/ level_break(t, seen) = NoPlan
      \/ n.l <= pay /\ level_break(t, seen) = planned
  BY DEF level_break
<1>2. n.c \in Nat /\ n.l \in Nat
  BY NewestTyped, BarTyped
<1>3. over \in Nat
  BY <1>2, LevelsTyped
<1> HIDE DEF over, reclaim
<1>4. level \in Nat
  BY <1>3, MinReclaimTyped DEF AtLeast
<1> HIDE DEF level
<1>5. pay \in Nat
  BY <1>4 DEF Times
<1> HIDE DEF pay
<1>6. SUFFICES ASSUME n.l <= pay PROVE Sound(planned, n)
  BY <1>1, NothingPlanned
<1>7. ~(n.l > pay)
  BY <1>2, <1>5, <1>6
<1> QED
  BY <1>5, <1>7, StarterSound

LEMMA HaltResumeSound ==
  ASSUME NEW t \in Tape, t # <<>>, NEW seen, NEW failed
  PROVE  Sound(halt_resume(t, seen, failed), Newest(t))
<1> DEFINE n == Newest(t)
           c == n.c
           risk == AtMost(AtLeast(Times(c, 180), 200), Times(c, 280))
           planned == Plan("halt_resume", c, c, risk, 13500)
<1>1. halt_resume(t, seen, failed) = NoPlan \/ halt_resume(t, seen, failed) = planned
  BY DEF halt_resume
<1>2. n \in Printed
  BY NewestTyped
<1> HIDE DEF n
<1>3. c \in Nat /\ n.l \in Nat /\ n.l <= c
  BY <1>2, BarTyped
<1> HIDE DEF c
<1>4. risk \in Nat /\ (n.l >= 1500 => 1 <= risk /\ risk <= Times(c, 1200))
  BY <1>3 DEF Times, AtLeast, AtMost
<1> HIDE DEF risk
<1>5. Sound(planned, n)
  BY <1>2, <1>3, <1>4, PlanFollows DEF c
<1> QED
  BY <1>1, <1>5, NothingPlanned DEF n

LEMMA EqualHighSound ==
  ASSUME NEW t \in Tape, t # <<>>, NEW seen, NEW w, IsEpisode(w)
  PROVE  Sound(equal_high(t, seen, w), Newest(t))
<1> DEFINE n == Newest(t)
           reject == w.reject
           level == AtLeast(Times(reject, 10300), MinReclaim)
           fast == TearsAway(n, level)
           bp == IF fast THEN 11500 ELSE 10450
           pay == Times(level, bp)
           entry == IF fast THEN n.c ELSE AtMost(n.c, pay)
           least == Times(entry, 250)
           most == Times(entry, 580)
           risk == AtMost(AtLeast(least, 80), most)
           planned == Plan("equal_high", pay, entry, risk, 24000)
<1>1. \/ equal_high(t, seen, w) = NoPlan
      \/ n.l <= pay /\ (fast => n.c <= pay) /\ equal_high(t, seen, w) = planned
  BY DEF equal_high
<1>2. n \in Printed /\ reject \in Nat /\ MinReclaim \in Nat
  BY NewestTyped, MinReclaimTyped DEF IsEpisode
<1> HIDE DEF n, reject
<1>3. level \in Nat
  BY <1>2 DEF Times, AtLeast
<1> HIDE DEF level, fast
<1>4. pay \in Nat
  <2>1. bp \in Nat
    OBVIOUS
  <2> HIDE DEF bp
  <2> QED
    BY <1>3, <2>1, TimesTyped
<1> HIDE DEF pay
<1>5. SUFFICES ASSUME n.l <= pay, fast => n.c <= pay PROVE Sound(planned, n)
  BY <1>1, NothingPlanned DEF n
<1>6. n.c \in Nat /\ n.l \in Nat /\ n.l <= n.c
  BY <1>2, BarTyped
<1>7. entry \in Nat /\ n.l <= entry /\ entry <= n.c /\ entry <= pay
  BY <1>4, <1>5, <1>6 DEF AtMost
<1> HIDE DEF entry
<1>8. risk \in Nat /\ (n.l >= 1500 => 1 <= risk /\ risk <= Times(entry, 1200))
  BY <1>6, <1>7 DEF Times, AtLeast, AtMost
<1> HIDE DEF risk
<1>9. Sound(planned, n)
  BY <1>2, <1>4, <1>7, <1>8, PlanFollows
<1> QED
  BY <1>9

LEMMA CurlSound ==
  ASSUME NEW t \in Tape, t # <<>>, NEW seen, NEW w
  PROVE  Sound(curl(t, seen, w), Newest(t))
<1> DEFINE n == Newest(t)
           c == n.c
           under == LevelUnder(c, StepOf(c))
           level == AtLeast(MinReclaim, under)
           pay == Times(level, 10500)
           entry == AtMost(c, pay)
           risk == AtLeast(entry - AtLeast(10, level - AtLeast(100, Times(level, 350))),
                           AtLeast(Times(entry, 150), 80))
           planned == Plan("curl", pay, entry, risk, 15000)
<1>1. \/ curl(t, seen, w) = NoPlan
      \/ n.l <= pay /\ c >= level /\ curl(t, seen, w) = planned
  BY DEF curl
<1>2. n \in Printed
  BY NewestTyped
<1>3. c \in Nat /\ n.l \in Nat /\ n.l <= c
  BY <1>2, BarTyped
<1> HIDE DEF n, c
<1>4. level \in Nat
  BY <1>3, LevelsTyped, MinReclaimTyped DEF AtLeast
<1> HIDE DEF level
<1>5. SUFFICES ASSUME n.l <= pay, c >= level PROVE Sound(planned, n)
  BY <1>1, NothingPlanned DEF n
<1>6. pay \in Nat /\ level <= pay /\ 10000 * pay <= 10500 * level
  BY <1>4 DEF Times
<1> HIDE DEF pay
<1>7. entry \in Nat /\ n.l <= entry /\ entry <= c /\ entry <= pay /\ level <= entry
  BY <1>3, <1>5, <1>6 DEF AtMost
<1> HIDE DEF entry
<1>8. risk \in Int /\ (n.l >= 1500 => 1 <= risk /\ risk <= Times(entry, 1200))
  BY <1>3, <1>4, <1>6, <1>7 DEF Times, AtLeast
<1> HIDE DEF risk
<1>9. pay \in Int /\ entry \in Int /\ entry <= n.c
  BY <1>6, <1>7 DEF c
<1>10. Sound(planned, n)
  BY <1>2, <1>7, <1>8, <1>9, PlanFollows
<1> QED
  BY <1>10

(* The level a pull-away reclaims, and its target. *)
LEMMA PullLevelTyped ==
  ASSUME NEW n \in Printed, NEW w, IsEpisode(w)
  PROVE  PullLevel(n, w) \in Nat
<1> DEFINE reject == w.reject
           c == n.c
           h == n.h
           first == AtLeast(Times(reject, 10300), MinReclaim)
           later == LevelUnder(c, StepOf(h))
           near == LevelUnder(c, StepOf(c))
<1>1. \/ PullLevel(n, w) = AtLeast(later, MinReclaim)
      \/ PullLevel(n, w) = AtLeast(first, near)
      \/ PullLevel(n, w) = first
  BY DEF PullLevel
<1>2. c \in Nat /\ h \in Nat /\ reject \in Nat /\ MinReclaim \in Nat
  BY BarTyped, MinReclaimTyped DEF IsEpisode
<1> HIDE DEF c, h, reject
<1>3. later \in Nat /\ near \in Nat
  BY <1>2, LevelsTyped
<1>4. first \in Nat
  BY <1>2 DEF Times, AtLeast
<1> HIDE DEF later, near, first
<1> QED
  BY <1>1, <1>2, <1>3, <1>4 DEF AtLeast

LEMMA PullTargetAbove ==
  ASSUME NEW entry \in Nat, NEW risk \in Nat, NEW w
  PROVE  /\ PullTarget(entry, risk, w) \in Int
         /\ risk >= 5 => PullTarget(entry, risk, w) > entry
<1> DEFINE rr1 == AtLeast(RewardRisk, 10000)
           rr2 == AtLeast(AddReward, 2000)
           reward1 == Times(risk, rr1)
           reward2 == Times(risk, rr2)
           level == LevelOver(entry, StepOf(entry))
           reward == entry + reward2
           target == AtMost(level, reward)
           room == Times(risk, 2500)
           least == AtLeast(40, room)
<1>1. \/ PullTarget(entry, risk, w) = entry + reward1
      \/ PullTarget(entry, risk, w) = reward
      \/ ~(target <= entry + least) /\ PullTarget(entry, risk, w) = target
  BY DEF PullTarget
<1>2. rr1 \in Nat /\ rr2 \in Nat /\ rr1 >= 10000 /\ rr2 >= 2000
  BY MinReclaimTyped DEF AtLeast
<1> HIDE DEF rr1, rr2
<1>3. reward1 \in Nat /\ reward2 \in Nat
  <2>1. rr1 \in Nat /\ rr2 \in Nat
    BY <1>2
  <2>2. reward1 \in Nat
    BY <2>1, TimesTyped
  <2>3. reward2 \in Nat
    BY <2>1, TimesTyped
  <2> QED
    BY <2>2, <2>3
<1>4. risk >= 5 => reward1 > 0 /\ reward2 > 0
  BY <1>2, Rewards
<1>5. level \in Nat /\ room \in Nat
  BY LevelsTyped DEF Times
<1> HIDE DEF reward1, reward2, level, room
<1>6. target \in Int /\ least \in Nat /\ least >= 40
  BY <1>3, <1>5 DEF AtMost, AtLeast
<1> HIDE DEF target, least
<1> QED
  BY <1>1, <1>3, <1>4, <1>6

LEMMA PullawaySound ==
  ASSUME NEW t \in Tape, t # <<>>, NEW w, IsEpisode(w)
  PROVE  Sound(pullaway(t, w), Newest(t))
<1> DEFINE n == Newest(t)
           c == n.c
           l == n.l
           level == PullLevel(n, w)
           clwt == ClwtPullaway(n, level, w)
           armed == w.trig \in Reclaimed
           bp == IF clwt THEN 11500 ELSE 10600
           pay == Times(level, bp)
           entry == AtMost(c, pay)
           loose == AtLeast(entry - AtLeast(10, level - AtLeast(80, Times(level, 300))),
                            AtLeast(Times(entry, 150), 60))
           bounded == IF clwt THEN AtMost(loose, Times(entry, 550)) ELSE loose
           risk == IF armed THEN AtMost(bounded, Times(entry, 580)) ELSE bounded
           trig == IF clwt THEN "clwt" ELSE "level_pullaway"
           target == PullTarget(entry, risk, w)
           planned == [Plan(trig, pay, entry, risk, 0) EXCEPT !.target = target]
<1>1. \/ pullaway(t, w) = NoPlan
      \/ l <= pay /\ c >= level /\ pullaway(t, w) = planned
  BY DEF pullaway
<1>2. n \in Printed
  BY NewestTyped
<1>3. c \in Nat /\ l \in Nat /\ l <= c
  BY <1>2, BarTyped
<1>4. level \in Nat
  BY <1>2, PullLevelTyped
<1> HIDE DEF n, c, l, level, clwt, armed
<1>5. SUFFICES ASSUME l <= pay, c >= level PROVE Sound(planned, n)
  BY <1>1, NothingPlanned DEF n
<1>6. pay \in Nat /\ level <= pay /\ (~clwt => 10000 * pay <= 10600 * level)
  BY <1>4 DEF Times
<1> HIDE DEF pay
<1>7. entry \in Nat /\ l <= entry /\ entry <= c /\ entry <= pay /\ level <= entry
  BY <1>3, <1>4, <1>5, <1>6 DEF AtMost
<1> HIDE DEF entry
<1>8. /\ loose \in Nat /\ loose >= 60
      /\ ~clwt /\ entry >= 1500 => loose <= Times(entry, 1200)
  BY <1>4, <1>6, <1>7 DEF Times, AtLeast
<1> HIDE DEF loose
<1>9. /\ bounded \in Nat
      /\ entry >= 1500 => bounded >= 5 /\ bounded <= Times(entry, 1200)
  BY <1>7, <1>8 DEF Times, AtMost
<1> HIDE DEF bounded
<1>10. /\ risk \in Nat
       /\ entry >= 1500 => risk >= 5 /\ risk <= Times(entry, 1200)
  BY <1>7, <1>9 DEF Times, AtMost
<1> HIDE DEF risk
<1>11. target \in Int /\ (entry >= 1500 => target > entry)
  BY <1>7, <1>10, PullTargetAbove
<1> HIDE DEF target, trig
<1>12. /\ planned.pay = pay /\ planned.entry = entry /\ planned.stop = entry - risk
       /\ planned.target = target
  BY DEF Plan
<1> HIDE DEF planned
<1>13. IsPlan(planned)
  BY <1>6, <1>7, <1>10, <1>11, <1>12 DEF IsPlan
<1>14. ASSUME n.l >= 1500 PROVE Follows(planned, n)
  <2>1. entry >= 1500 /\ n.l = l /\ n.c = c
    BY <1>3, <1>7, <1>14 DEF l, c
  <2>2. Times(entry, 1200) \in Nat /\ Times(entry, 1200) < entry
    BY <1>7, <2>1, TwelvePercent
  <2> DEFINE limit == Times(entry, 1200)
  <2>3. risk >= 5 /\ risk <= limit /\ limit \in Nat /\ limit < entry /\ target > entry
    BY <1>10, <1>11, <2>1, <2>2
  <2> HIDE DEF limit
  <2>4. Tradeable(planned)
    BY <1>7, <1>10, <1>11, <1>12, <2>3 DEF Tradeable
  <2>5. planned.entry - planned.stop <= limit
    BY <1>7, <1>10, <1>12, <2>3
  <2> QED
    BY <1>7, <1>12, <2>1, <2>4, <2>5 DEF Follows, limit
<1> QED
  BY <1>13, <1>14 DEF Sound

-----------------------------------------------------------------------------
(* The playbook asks lanes it has a detector for. *)
Detected ==
  {"high_base", "stair_step", "smooth_10s", "parabolic", "smooth_hod", "early_10s",
   "second_leg_vwap", "first_impulse", "low_price_proof", "first_pullback",
   "trend_pullback"}

LEMMA DetectorSound ==
  ASSUME NEW t \in Tape, t # <<>>, NEW seen, NEW lane \in Detected
  PROVE  Sound(Detector(lane, t, seen), Newest(t))
<1>1. CASE lane = "high_base"
  BY <1>1, HighBaseSound DEF Detector
<1>2. CASE lane = "stair_step"
  BY <1>2, StairStepSound DEF Detector
<1>3. CASE lane = "smooth_10s"
  BY <1>3, Smooth10sSound DEF Detector
<1>4. CASE lane = "parabolic"
  BY <1>4, ParabolicSound DEF Detector
<1>5. CASE lane = "smooth_hod"
  BY <1>5, SmoothHodSound DEF Detector
<1>6. CASE lane = "early_10s"
  BY <1>6, Early10sSound DEF Detector
<1>7. CASE lane = "second_leg_vwap"
  BY <1>7, SecondLegVwapSound DEF Detector
<1>8. CASE lane = "first_impulse"
  BY <1>8, FirstImpulseSound DEF Detector
<1>9. CASE lane = "low_price_proof"
  BY <1>9, LowPriceProofSound DEF Detector
<1>10. CASE lane = "first_pullback"
  BY <1>10, FirstPullbackSound DEF Detector
<1>11. CASE lane = "trend_pullback"
  BY <1>11, TrendPullbackSound DEF Detector
<1> QED
  BY <1>1, <1>2, <1>3, <1>4, <1>5, <1>6, <1>7, <1>8, <1>9, <1>10, <1>11 DEF Detected

LEMMA ClassifiedAs ==
  ASSUME NEW t, NEW seen
  PROVE  classify_warrior_trend_lane(t, seen) \in Detected \cup {"none"}
BY DEF classify_warrior_trend_lane, Detected

LEMMA FallbacksDetected ==
  ASSUME NEW lane \in Detected \cup {"none"}
  PROVE  /\ Len(Fallbacks(lane)) \in Nat
         /\ \A i \in 1..Len(Fallbacks(lane)) : Fallbacks(lane)[i] \in Detected
<1> DEFINE lanes == Fallbacks(lane)
<1>1. CASE lane \in {"early_10s", "second_leg_vwap", "none"}
  BY <1>1 DEF Fallbacks, Detected
<1>2. CASE lane = "first_impulse"
  BY <1>2 DEF Fallbacks, Detected
<1>3. CASE lane \in {"high_base", "stair_step", "smooth_10s"}
  BY <1>3 DEF Fallbacks, Detected
<1>4. CASE lane \in {"parabolic", "smooth_hod"}
  BY <1>4 DEF Fallbacks, Detected
<1>5. CASE lane \in {"low_price_proof", "first_pullback", "trend_pullback"}
  BY <1>5 DEF Fallbacks, Detected
<1> QED
  BY <1>1, <1>2, <1>3, <1>4, <1>5 DEF Detected

LEMMA PlaybookSound ==
  ASSUME NEW t \in Tape, t # <<>>, NEW seen
  PROVE  Sound(warrior_trend_playbook(t, seen), Newest(t))
<1> DEFINE bars == Final(t, 90)
           reclaim == failed_spike_vwap(bars, seen)
           scalp == failed_spike_scalp(bars, seen)
           lane == classify_warrior_trend_lane(bars, seen)
           lanes == Fallbacks(lane)
           found == {i \in 1..Len(lanes) : Detector(lanes[i], bars, seen) # NoPlan}
           at == CHOOSE i \in found : \A j \in found : i <= j
           p == warrior_trend_playbook(t, seen)
<1>1. \/ p = reclaim \/ p = scalp \/ p = NoPlan
      \/ found # {} /\ p = Detector(lanes[at], bars, seen)
  BY DEF warrior_trend_playbook
<1>2. bars \in Tape /\ bars # <<>> /\ Newest(bars) = Newest(t)
  BY FinalPart
<1> HIDE DEF bars, p
<1>3. Sound(reclaim, Newest(bars)) /\ Sound(scalp, Newest(bars))
  BY <1>2, FailedSpikeVwapSound, FailedSpikeScalpSound
<1>4. lane \in Detected \cup {"none"}
  BY ClassifiedAs
<1> HIDE DEF lane
<1>5. Len(lanes) \in Nat /\ \A i \in 1..Len(lanes) : lanes[i] \in Detected
  BY <1>4, FallbacksDetected
<1> HIDE DEF lanes
<1>6. ASSUME found # {} PROVE Sound(Detector(lanes[at], bars, seen), Newest(bars))
  <2>1. found \subseteq 1..Len(lanes) /\ found \subseteq Nat
    BY <1>5
  <2> HIDE DEF found
  <2>2. at \in found
    <3>1. \E i \in found : \A j \in found : i <= j
      BY <1>6, <2>1, Least
    <3> QED
      BY <3>1
  <2>3. lanes[at] \in Detected
    BY <1>5, <2>1, <2>2
  <2> HIDE DEF at
  <2> QED
    BY <1>2, <2>3, DetectorSound
<1> HIDE DEF found, at
<1> QED
  BY <1>1, <1>2, <1>3, <1>6, NothingPlanned DEF p

-----------------------------------------------------------------------------
(* The tape of a script is a tape. *)
LEMMA PartOf ==
  \A x, u \in Nat : u <= 10000 => Times(x, u) \in Nat /\ Times(x, u) <= x
<1> SUFFICES ASSUME NEW x \in Nat, NEW u \in Nat, u <= 10000
             PROVE  Times(x, u) \in Nat /\ Times(x, u) <= x
  OBVIOUS
<1> DEFINE y == x * u
<1>1. y \in Nat /\ y <= x * 10000
  BY Products
<1> HIDE DEF y
<1>2. y \div 10000 \in Nat /\ y \div 10000 <= x
  BY <1>1
<1> QED
  BY <1>2 DEF Times, y

IsLeg(l) == l \in Stretch /\ l.n > 0 /\ l.under <= 10000

LEMMA NextBarTyped ==
  ASSUME NEW t \in Tape, NEW start \in Nat, NEW l, IsLeg(l), NEW i
  PROVE  NextBar(t, start, l, i) \in Printed
<1> DEFINE move == l.move
           over == l.over
           under == l.under
           o == IF t = <<>> THEN start ELSE Newest(t).c
           c == Times(o, move)
           top == AtLeast(o, c)
           low == AtMost(o, c)
           h == Times(top, over)
           down == Times(low, under)
           bar == [o |-> o, c |-> c, h |-> h, l |-> down, v |-> l.v,
                   gap |-> l.gap /\ i = 1]
<1>1. /\ move \in Nat /\ over \in Nat /\ l.v \in Nat /\ l.gap \in BOOLEAN
      /\ under \in Nat /\ under <= 10000
  BY DEF Stretch, IsLeg
<1>2. o \in Nat
  BY NewestTyped, BarTyped
<1>3. NextBar(t, start, l, i) = bar
  BY DEF NextBar
<1> HIDE DEF o, move, over, under
<1>4. c \in Nat
  <2>1. move \in Nat
    BY <1>1
  <2> QED
    BY <1>2, <2>1, TimesTyped
<1> HIDE DEF c
<1>5. top \in Nat /\ low \in Nat /\ low <= c
  BY <1>2, <1>4 DEF AtLeast, AtMost
<1> HIDE DEF top, low
<1>6. h \in Nat
  <2>1. top \in Nat /\ over \in Nat
    BY <1>1, <1>5
  <2> QED
    BY <2>1, TimesTyped
<1>7. down \in Nat /\ down <= low
  BY <1>1, <1>5, PartOf
<1> HIDE DEF h, down
<1>8. bar \in Bar /\ bar.l <= bar.c
  BY <1>1, <1>2, <1>4, <1>5, <1>6, <1>7 DEF Bar
<1> QED
  BY <1>3, <1>8 DEF Printed

LEMMA PlayedTyped ==
  ASSUME NEW t \in Tape, NEW start \in Nat, NEW l, IsLeg(l)
  PROVE  Played(t, start, l) \in Tape /\ Played(t, start, l) # <<>>
<1> DEFINE n == l.n
           V == Tape
           body(f) == [i \in 0..n |-> IF i = 0 THEN t ELSE Append(f[i - 1], NextBar(f[i - 1], start, l, i))]
           F == CHOOSE f : f = body(f)
           step == [i \in 1..n |-> [x \in V |-> Append(x, NextBar(x, start, l, i))]]
<1>1. n \in Nat /\ n > 0 /\ t \in V /\ \A i \in 1..n : \A x \in V : Append(x, NextBar(x, start, l, i)) \in V
  <2>1. n \in Nat /\ n > 0
    BY DEF Stretch, IsLeg
  <2>2. ASSUME NEW i \in 1..n, NEW x \in Tape PROVE Append(x, NextBar(x, start, l, i)) \in Tape
    <3>1. NextBar(x, start, l, i) \in Printed
      BY NextBarTyped
    <3> QED
      BY <3>1 DEF Tape
  <2> QED
    BY <2>1, <2>2
<1>2. Played(t, start, l) = F[n]
  BY DEF Played
<1>3. step \in [1..n -> [V -> V]]
  <2> HIDE DEF n, V
  <2> QED
    BY <1>1
<1>4. PICK g \in [0..n -> V] : g[0] = t /\ \A i \in 1..n : g[i] = step[i][g[i - 1]]
  <2>1. n \in Nat /\ t \in V /\ step \in [1..n -> [V -> V]]
    BY <1>1, <1>3
  <2> HIDE DEF step, n, V
  <2>2. \A z \in V : \E g \in [0..n -> V] :
          g[0] = z /\ \A i \in 1..n : g[i] = step[i][g[i - 1]]
    BY <2>1, Recursion, SMTT(60)
  <2> QED
    BY <2>1, <2>2
<1>5. g = body(g)
  <2>1. ASSUME NEW i \in 1..n PROVE g[i] = Append(g[i - 1], NextBar(g[i - 1], start, l, i))
    <3>1. i - 1 \in 0..n
      BY <1>1
    <3>2. g[i - 1] \in V /\ g[i] = step[i][g[i - 1]]
      <4> HIDE DEF V
      <4> QED
        BY <1>4, <3>1
    <3>3. step[i] = [x \in V |-> Append(x, NextBar(x, start, l, i))]
      OBVIOUS
    <3> HIDE DEF step, n, V
    <3> QED
      BY <3>2, <3>3
  <2>2. ASSUME NEW i \in 0..n
        PROVE  g[i] = IF i = 0 THEN t ELSE Append(g[i - 1], NextBar(g[i - 1], start, l, i))
    <3>1. i = 0 \/ i \in 1..n
      BY <1>1
    <3> HIDE DEF n, step, V
    <3> QED
      BY <1>4, <2>1, <3>1
  <2>3. g = [i \in 0..n |-> g[i]]
    <3> HIDE DEF n, step, V
    <3> QED
      BY <1>4
  <2> HIDE DEF step, n, V
  <2> QED
    BY <2>2, <2>3
<1>6. F = body(F)
  <2> HIDE DEF body
  <2> QED
    BY <1>5
<1> HIDE DEF F
<1>7. /\ F[0] = t
      /\ \A i \in 1..n : F[i] = Append(F[i - 1], NextBar(F[i - 1], start, l, i))
  <2>1. 0 \in 0..n /\ \A i \in 1..n : i \in 0..n /\ i # 0
    BY <1>1
  <2> HIDE DEF n
  <2> QED
    BY <1>6, <2>1
<1>8. \A j \in 0..n : F[j] \in V
  <2> DEFINE good == {j \in 0..n : F[j] \in V}
  <2>1. 0 \in 0..n /\ \A i \in 1..n : i \in 0..n
    BY <1>1
  <2>2. 0 \in good
    BY <1>1, <1>7, <2>1
  <2>3. \A i \in 1..n : i - 1 \in good => i \in good
    <3> HIDE DEF V, n, body
    <3> QED
      BY <1>1, <1>7, <2>1
  <2>4. n \in Nat
    BY <1>1
  <2> HIDE DEF good, n
  <2>5. \A j \in 0..n : j \in good
    BY <2>2, <2>3, <2>4, Climbs
  <2> QED
    BY <2>5 DEF good
<1>9. F[n] # <<>>
  <2> DEFINE m == n - 1
             bar == NextBar(F[m], start, l, n)
  <2>1. n \in 1..n /\ m \in 0..n
    BY <1>1
  <2>2. F[n] = Append(F[m], bar)
    BY <1>7, <2>1
  <2>3. F[m] \in Tape
    BY <1>8, <2>1
  <2> HIDE DEF m, bar
  <2> QED
    BY <2>2, <2>3 DEF Tape
<1>10. F[n] \in V
  BY <1>1, <1>8
<1> QED
  BY <1>2, <1>9, <1>10

-----------------------------------------------------------------------------
(* Sizes. What a price divides out of a sum costs no more than the sum. *)
LEMMA Divided ==
  \A x, d \in Nat : d > 0 => x \div d \in Nat /\ d * (x \div d) <= x
OBVIOUS

LEMMA Within ==
  \A x, d, q \in Nat : d > 0 /\ q <= x \div d => q * d <= x
<1> SUFFICES ASSUME NEW x \in Nat, NEW d \in Nat, NEW q \in Nat, d > 0, q <= x \div d
             PROVE  q * d <= x
  OBVIOUS
<1> DEFINE b == x \div d
<1>1. b \in Nat /\ d * b <= x /\ q <= b
  BY Divided
<1> HIDE DEF b
<1>2. d * q <= d * b
  BY <1>1, Products
<1>3. d * q = q * d
  OBVIOUS
<1> DEFINE y == d * q
           z == d * b
<1>4. y \in Int /\ z \in Int
  BY <1>1
<1> QED
  BY <1>1, <1>2, <1>3, <1>4

LEMMA Fits ==
  \A x, d \in Nat : d > 0 /\ x >= d => x \div d > 0
<1> SUFFICES ASSUME NEW x \in Nat, NEW d \in Nat, d > 0, x >= d
             PROVE  x \div d > 0
  OBVIOUS
<1> QED
  OBVIOUS

LEMMA Percent ==
  \A x, p \in Nat : p <= 100 => (x * p) \div 100 \in Nat /\ (x * p) \div 100 <= x
<1> SUFFICES ASSUME NEW x \in Nat, NEW p \in Nat, p <= 100
             PROVE  (x * p) \div 100 \in Nat /\ (x * p) \div 100 <= x
  OBVIOUS
<1> DEFINE y == x * p
<1>1. y \in Nat /\ y <= x * 100
  BY Products
<1> HIDE DEF y
<1>2. y \div 100 \in Nat /\ y \div 100 <= x
  BY <1>1
<1> QED
  BY <1>2 DEF y

IsAccount(a) ==
  /\ a.equity \in Nat /\ a.riskPct \in Nat /\ a.minRisk \in Nat /\ a.maxRisk \in Nat
  /\ a.maxPosition \in Nat /\ a.warriorValue \in Nat /\ a.warriorRisk \in Nat

LEMMA ShareTyped ==
  \A x, pct \in Nat : Share(x, pct) \in Nat
<1> SUFFICES ASSUME NEW x \in Nat, NEW pct \in Nat PROVE Share(x, pct) \in Nat
  OBVIOUS
<1> DEFINE y == x \div 100
<1>1. y \in Nat
  OBVIOUS
<1> HIDE DEF y
<1>2. y * pct \in Nat
  BY <1>1
<1> QED
  BY <1>2 DEF Share, y

(* The size the account allows keeps its two limits. *)
LEMMA CapitalAwareBounded ==
  ASSUME NEW a, IsAccount(a), NEW price \in Nat, NEW stop \in Nat, stop < price
  PROVE  LET q == CapitalAware(a, price, stop)
             room == Share(a.equity, a.maxPosition)
         IN  /\ q \in Nat
             /\ a.maxRisk > 0 => q * (price - stop) <= a.maxRisk
             /\ room >= price => q * price <= room
<1> DEFINE equity == a.equity
           riskPct == a.riskPct
           minRisk == a.minRisk
           maxRisk == a.maxRisk
           maxPosition == a.maxPosition
           room == Share(equity, maxPosition)
           borne == Share(equity, riskPct)
           wanted == IF riskPct = 0 THEN 50000 ELSE AtLeast(minRisk, borne)
           risk == IF maxRisk > 0 THEN AtMost(wanted, maxRisk) ELSE wanted
           d == price - stop
           byRisk == risk \div d
           byCapital == room \div price
           q == CapitalAware(a, price, stop)
<1>1. /\ equity \in Nat /\ riskPct \in Nat /\ minRisk \in Nat /\ maxRisk \in Nat
      /\ maxPosition \in Nat
  BY DEF IsAccount
<1>2. q = IF byCapital > 0 THEN AtMost(byRisk, byCapital) ELSE byRisk
  <2>1. price > stop
    OBVIOUS
  <2> QED
    BY <2>1 DEF CapitalAware
<1> HIDE DEF equity, riskPct, minRisk, maxRisk, maxPosition
<1>3. room \in Nat /\ borne \in Nat
  BY <1>1, ShareTyped
<1> HIDE DEF room, borne
<1>4. wanted \in Nat
  BY <1>1, <1>3 DEF AtLeast
<1> HIDE DEF wanted
<1>5. risk \in Nat /\ (maxRisk > 0 => risk <= maxRisk)
  BY <1>1, <1>4 DEF AtMost
<1>6. d \in Nat /\ d > 0 /\ price > 0
  OBVIOUS
<1> HIDE DEF risk, d, q
<1>7. byRisk \in Nat /\ byCapital \in Nat
  BY <1>3, <1>5, <1>6, Divided
<1>8. room >= price => byCapital > 0
  BY <1>3, <1>6, Fits
<1> HIDE DEF byRisk, byCapital
<1>9. q \in Nat /\ q <= byRisk /\ (room >= price => q <= byCapital)
  BY <1>2, <1>7, <1>8 DEF AtMost
<1>10. q * d <= risk
  BY <1>5, <1>6, <1>9, Within DEF byRisk
<1>11. room >= price => q * price <= room
  BY <1>3, <1>6, <1>9, Within DEF byCapital
<1>12. maxRisk > 0 => q * d <= maxRisk
  <2> DEFINE y == q * d
  <2>1. y \in Nat /\ y <= risk
    BY <1>6, <1>9, <1>10
  <2> HIDE DEF y
  <2>2. maxRisk > 0 => y <= maxRisk
    BY <1>1, <1>5, <2>1
  <2> QED
    BY <2>2 DEF y
<1> QED
  BY <1>9, <1>11, <1>12 DEF q, d, room, equity, maxPosition, maxRisk

(* What scales an order never adds to it, and leaves a share. *)
LEMMA ScaledBounded ==
  \A q, pct \in Nat :
    Scaled(q, pct) \in Nat /\ Scaled(q, pct) <= q /\ (q >= 1 => Scaled(q, pct) >= 1)
<1> SUFFICES ASSUME NEW q \in Nat, NEW pct \in Nat
             PROVE  /\ Scaled(q, pct) \in Nat /\ Scaled(q, pct) <= q
                    /\ q >= 1 => Scaled(q, pct) >= 1
  OBVIOUS
<1> DEFINE part == (q * pct) \div 100
<1>1. pct <= 100 => part \in Nat /\ part <= q
  BY Percent
<1> HIDE DEF part
<1>2. AtLeast(1, part) = IF 1 < part THEN part ELSE 1
  BY DEF AtLeast
<1>3. Scaled(q, pct) = IF pct < 100 /\ q > 1 THEN AtLeast(1, part) ELSE q
  BY DEF Scaled, part
<1> QED
  BY <1>1, <1>2, <1>3

(* The playbook's caps, where they leave a share. *)
LEMMA PlaybookBounded ==
  ASSUME NEW a, IsAccount(a), NEW price \in Nat, price > 0, NEW risk \in Nat, risk > 0,
         NEW spread \in Nat, spread <= 100
  PROVE  /\ PlaybookShares(a, price, risk, spread) \in Nat
         /\ PlaybookShares(a, price, risk, spread) > 0 => a.warriorValue > 0
         /\ \A q \in Nat : q <= PlaybookShares(a, price, risk, spread) =>
              /\ q * price <= a.warriorValue
              /\ a.warriorRisk > 0 => q * risk <= a.warriorRisk
<1> DEFINE value == a.warriorValue
           most == a.warriorRisk
           byValue == value \div price
           byRisk == IF most > 0 THEN most \div risk ELSE byValue
           shares == AtMost(byValue, byRisk)
           cap == (shares * spread) \div 100
           playbook == PlaybookShares(a, price, risk, spread)
<1>1. value \in Nat /\ most \in Nat
  BY DEF IsAccount
<1>2. playbook = cap
  BY DEF PlaybookShares
<1> HIDE DEF value, most, playbook
<1>3. byValue \in Nat /\ most \div risk \in Nat
  BY <1>1, Divided
<1>4. byValue > 0 => value > 0
  <2>1. price * byValue <= value
    BY <1>1, Divided
  <2> HIDE DEF byValue
  <2>2. byValue > 0 => price * byValue >= price * 1
    BY <1>3, Products
  <2> DEFINE y == price * byValue
  <2>3. y \in Nat
    BY <1>3
  <2> HIDE DEF y
  <2> QED
    BY <1>1, <2>1, <2>2, <2>3 DEF y
<1> DEFINE lots == most \div risk
<1> HIDE DEF byValue, lots
<1>5. byRisk \in Nat /\ (most > 0 => byRisk = most \div risk)
  BY <1>3 DEF lots
<1> HIDE DEF byRisk
<1>6. shares \in Nat /\ shares <= byValue /\ shares <= byRisk
  BY <1>3, <1>5 DEF AtMost
<1> HIDE DEF shares
<1>7. cap \in Nat /\ cap <= shares
  BY <1>6, Percent
<1> HIDE DEF cap
<1>8. playbook > 0 => value > 0
  BY <1>1, <1>2, <1>3, <1>4, <1>6, <1>7
<1>9. ASSUME NEW q \in Nat, q <= playbook
      PROVE  q * price <= value /\ (most > 0 => q * risk <= most)
  <2>1. q <= byValue /\ q <= byRisk
    BY <1>2, <1>3, <1>5, <1>6, <1>7, <1>9
  <2>2. q * price <= value
    BY <1>1, <2>1, Within DEF byValue
  <2>3. most > 0 => q * risk <= most
    BY <1>1, <1>5, <2>1, Within
  <2> QED
    BY <2>2, <2>3
<1> QED
  BY <1>2, <1>7, <1>8, <1>9 DEF playbook, value, most

(* A size keeps every limit that leaves a share. *)
LEMMA QuantityBounded ==
  ASSUME NEW a, IsAccount(a), NEW p, IsPlan(p), Tradeable(p),
         NEW spread \in Nat, spread <= 100, NEW violent \in BOOLEAN, NEW factor \in Nat
  PROVE  LET q == Quantity(a, p, spread, violent, factor)
             risk == p.entry - p.stop
             room == Share(a.equity, a.maxPosition)
         IN  /\ q \in Nat
             /\ a.maxRisk > 0 => q * risk <= a.maxRisk
             /\ room >= p.entry => q * p.entry <= room
             /\ PlaybookShares(a, p.entry, risk, spread) > 0 =>
                  /\ q * p.entry <= a.warriorValue
                  /\ a.warriorRisk > 0 => q * risk <= a.warriorRisk
<1> DEFINE price == p.entry
           stop == p.stop
           risk == price - stop
           full == CapitalAware(a, price, stop)
           spreadSize == Scaled(full, spread)
           tapeSize == IF violent /\ factor = 0 THEN Scaled(spreadSize, 35) ELSE spreadSize
           sized == IF factor > 0 THEN Scaled(tapeSize, factor) ELSE tapeSize
           cap == PlaybookShares(a, price, risk, spread)
           value == a.warriorValue
           maxRisk == a.maxRisk
           room == Share(a.equity, a.maxPosition)
           capped == IF value > 0 /\ cap > 0 THEN AtLeast(1, AtMost(sized, cap)) ELSE sized
           q == Quantity(a, p, spread, violent, factor)
<1>1. q = IF full < 1 THEN 0 ELSE capped
  BY DEF Quantity, WarriorCap
<1>2. price \in Nat /\ stop \in Nat /\ stop < price
  BY DEF IsPlan, Tradeable
<1>3. value \in Nat /\ maxRisk \in Nat /\ room \in Nat
  BY ShareTyped DEF IsAccount
<1> HIDE DEF price, stop, value, q
<1>4. /\ full \in Nat
      /\ maxRisk > 0 => full * risk <= maxRisk
      /\ room >= price => full * price <= room
  BY <1>2, CapitalAwareBounded
<1>5. risk \in Nat /\ risk > 0 /\ price > 0
  BY <1>2
<1>6. cap \in Nat /\ (cap > 0 => value > 0)
  BY <1>2, <1>5, PlaybookBounded DEF value
<1> HIDE DEF full, risk, room, maxRisk
<1>7. spreadSize \in Nat /\ spreadSize <= full /\ (full >= 1 => spreadSize >= 1)
  BY <1>4, ScaledBounded
<1> HIDE DEF spreadSize
<1>8. tapeSize \in Nat /\ tapeSize <= full /\ (full >= 1 => tapeSize >= 1)
  BY <1>4, <1>7, ScaledBounded
<1> HIDE DEF tapeSize
<1>9. sized \in Nat /\ sized <= full /\ (full >= 1 => sized >= 1)
  BY <1>4, <1>8, ScaledBounded
<1> HIDE DEF sized, cap
<1>10. q \in Nat /\ q <= full /\ (cap > 0 => q <= cap)
  BY <1>1, <1>3, <1>4, <1>6, <1>9 DEF AtLeast, AtMost
<1>11. maxRisk > 0 => q * risk <= maxRisk
  <2> DEFINE y == q * risk
             z == full * risk
  <2>1. y \in Nat /\ z \in Nat /\ y <= z
    BY <1>4, <1>5, <1>10, Products
  <2>2. maxRisk > 0 => z <= maxRisk
    BY <1>4
  <2> HIDE DEF y, z
  <2>3. maxRisk > 0 => y <= maxRisk
    BY <1>3, <2>1, <2>2
  <2> QED
    BY <2>3 DEF y
<1>12. room >= price => q * price <= room
  <2> DEFINE y == q * price
             z == full * price
  <2>1. y \in Nat /\ z \in Nat /\ y <= z
    BY <1>2, <1>4, <1>10, Products
  <2>2. room >= price => z <= room
    BY <1>4
  <2> HIDE DEF y, z
  <2>3. room >= price => y <= room
    BY <1>2, <1>3, <2>1, <2>2
  <2> QED
    BY <2>3 DEF y
<1>13. cap > 0 => /\ q * price <= value
                  /\ a.warriorRisk > 0 => q * risk <= a.warriorRisk
  BY <1>2, <1>5, <1>10, PlaybookBounded DEF cap, value
<1> QED
  BY <1>10, <1>11, <1>12, <1>13 DEF q, price, stop, risk, room, maxRisk, value, cap

-----------------------------------------------------------------------------
(* Brackets. *)
LEMMA BracketHeld ==
  ASSUME NEW p, IsPlan(p), Tradeable(p), NEW price \in Nat
  PROVE  LET target == FilledTarget(p, price)
         IN  /\ target \in Int
             /\ target > price
             /\ target # p.target => target - price >= price - p.stop
             /\ price > p.stop =>
                  ReplayBracket(p, price) = [stop |-> p.stop, target |-> target]
<1> DEFINE entry == p.entry
           stop == p.stop
           planned == p.target
           part == Times(price, 100)
           least == AtLeast(part, 40)
           target == FilledTarget(p, price)
<1>1. entry \in Int /\ stop \in Int /\ planned \in Int /\ planned > entry
  BY DEF IsPlan, Tradeable
<1>2. target = IF planned > price THEN planned
               ELSE price + AtLeast(AtLeast(IF planned > entry THEN planned - entry ELSE 0,
                                            price - stop), least)
  BY DEF FilledTarget
<1>3. price > stop =>
        ReplayBracket(p, price) =
          [stop |-> stop,
           target |-> IF planned > price THEN planned
                      ELSE price + AtLeast(AtLeast(planned - entry, price - stop), least)]
  <2>1. price > stop => stop < price
    BY <1>1
  <2> QED
    BY <2>1 DEF ReplayBracket
<1>4. part \in Nat
  BY DEF Times
<1> HIDE DEF entry, stop, planned, part, target
<1>5. least \in Nat /\ least >= 40
  BY <1>4 DEF AtLeast
<1> HIDE DEF least
<1>6. target = IF planned > price THEN planned
               ELSE price + AtLeast(AtLeast(planned - entry, price - stop), least)
  BY <1>1, <1>2
<1>7. target \in Int /\ target > price /\ (target # planned => target - price >= price - stop)
  BY <1>1, <1>5, <1>6 DEF AtLeast
<1>8. price > stop => ReplayBracket(p, price) = [stop |-> stop, target |-> target]
  BY <1>3, <1>6
<1> QED
  BY <1>7, <1>8 DEF target, stop, planned

-----------------------------------------------------------------------------
(* What every state keeps: the tape is one a script printed, the plan is sound for
   the bar it follows, and an order is held by a plan that can be traded, within the
   limits and with its bracket. *)
LaneTyped ==
  /\ script \in Scripts /\ episode \in Episodes /\ acct \in Accounts
  /\ leg \in Nat /\ tape \in Tape /\ high \in Nat
  /\ leg > 0 => tape # <<>>
  /\ order \in [qty : Nat, fill : Nat, target : Int]
OrderHeld == order # NoOrder => plan # NoPlan /\ Tradeable(plan)
LaneInv ==
  /\ LaneTyped /\ Sound(plan, Newest(tape)) /\ OrderHeld
  /\ OrderBounded /\ BracketSound

LEMMA ConstantsTyped ==
  /\ \A w \in Episodes : IsEpisode(w)
  /\ \A a \in Accounts : IsAccount(a)
  /\ \A s \in Scripts : /\ s.start \in Nat /\ Len(s.legs) \in Nat
                        /\ \A i \in 1..Len(s.legs) : IsLeg(s.legs[i])
  /\ \A s \in Sizings : /\ s[1] \in Nat /\ s[1] <= 100
                        /\ s[2] \in BOOLEAN /\ s[3] \in Nat
  /\ Slips \subseteq Nat
<1>1. \A w \in Episodes : IsEpisode(w)
  BY PlansAssumption DEF PlansAssumption, IsEpisode
<1>2. \A a \in Accounts : IsAccount(a)
  BY PlansAssumption DEF PlansAssumption, IsAccount
<1>3. \A s \in Scripts : /\ s.start \in Nat /\ Len(s.legs) \in Nat
                         /\ \A i \in 1..Len(s.legs) : IsLeg(s.legs[i])
  BY PlansAssumption DEF PlansAssumption, IsLeg
<1>4. \A s \in Sizings : /\ s[1] \in Nat /\ s[1] <= 100
                         /\ s[2] \in BOOLEAN /\ s[3] \in Nat
  BY PlansAssumption DEF PlansAssumption
<1>5. Slips \subseteq Nat
  BY PlansAssumption DEF PlansAssumption
<1> QED
  BY <1>1, <1>2, <1>3, <1>4, <1>5

LEMMA LaneInitInv ==
  Init => LaneInv
<1> SUFFICES ASSUME Init PROVE LaneInv
  OBVIOUS
<1>1. tape \in Tape
  BY DEF Init, Tape
<1>2. LaneTyped
  BY <1>1 DEF Init, LaneTyped, NoOrder
<1>3. Sound(plan, Newest(tape))
  BY NothingPlanned DEF Init
<1>4. OrderHeld /\ OrderBounded /\ BracketSound
  BY DEF Init, OrderHeld, OrderBounded, BracketSound, NoOrder
<1> QED
  BY <1>2, <1>3, <1>4 DEF LaneInv

LEMMA LegEndsKeeps ==
  LaneInv /\ LegEnds => LaneInv'
<1> SUFFICES ASSUME LaneInv, LegEnds PROVE LaneInv'
  OBVIOUS
<1> DEFINE l == script.legs[leg + 1]
<1>1. /\ script \in Scripts /\ leg \in Nat /\ tape \in Tape /\ high \in Nat
      /\ order \in [qty : Nat, fill : Nat, target : Int]
      /\ plan = NoPlan /\ leg < Len(script.legs)
  BY DEF LaneInv, LaneTyped, LegEnds
<1>2. IsLeg(l) /\ script.start \in Nat
  <2>1. Len(script.legs) \in Nat /\ leg + 1 \in 1..Len(script.legs)
    BY <1>1, ConstantsTyped
  <2> QED
    BY <1>1, <2>1, ConstantsTyped
<1>3. tape' \in Tape /\ tape' # <<>>
  <2>1. tape' = Played(tape, script.start, l)
    BY DEF LegEnds
  <2> HIDE DEF l
  <2> QED
    BY <1>1, <1>2, <2>1, PlayedTyped
<1>4. high' \in Nat
  <2>1. Top(tape) \in Nat /\ Top(Before(tape')) \in Nat
    BY <1>1, <1>3, TopTyped, BeforePart
  <2> QED
    BY <2>1 DEF LegEnds
<1>5. LaneTyped'
  BY <1>1, <1>3, <1>4 DEF LaneInv, LaneTyped, LegEnds
<1>6. plan' = NoPlan /\ order' = order
  BY <1>1 DEF LegEnds
<1>7. Sound(plan, Newest(tape))'
  BY <1>6, NothingPlanned
<1>8. order = NoOrder
  BY <1>1 DEF LaneInv, OrderHeld
<1>9. (OrderHeld /\ OrderBounded /\ BracketSound)'
  BY <1>6, <1>8 DEF OrderHeld, OrderBounded, BracketSound, NoOrder
<1> QED
  BY <1>5, <1>7, <1>9 DEF LaneInv

(* Every lane plans soundly on a tape that has a bar. *)
LEMMA PlansSound ==
  ASSUME NEW t \in Tape, t # <<>>, NEW h \in Nat, NEW w, IsEpisode(w),
         NEW p \in PlansOf(t, h, w)
  PROVE  Sound(p, Newest(t))
<1>1. w.reject \in Nat
  BY DEF IsEpisode
<1>2. CASE p = warrior_trend_playbook(t, h)
  BY <1>2, PlaybookSound
<1>3. CASE p = prior_runner(t, h)
  BY <1>3, PriorRunnerSound
<1>4. CASE p = post_target(t, h)
  BY <1>4, PostTargetSound
<1>5. CASE p = second_leg(t, h)
  BY <1>5, SecondLegSound
<1>6. CASE p = fresh_continuation(t, h)
  BY <1>6, FreshContinuationSound
<1>7. CASE p = level_break(t, h)
  BY <1>7, LevelBreakSound
<1>8. CASE p = failed_recovery(t, h, w.reject)
  BY <1>1, <1>8, FailedRecoverySound
<1>9. CASE p = halt_resume(t, h, w.reject)
  BY <1>9, HaltResumeSound
<1>10. CASE p = pullaway(t, w)
  BY <1>10, PullawaySound
<1>11. CASE p = equal_high(t, h, w)
  BY <1>11, EqualHighSound
<1>12. CASE p = curl(t, h, w)
  BY <1>12, CurlSound
<1> QED
  BY <1>2, <1>3, <1>4, <1>5, <1>6, <1>7, <1>8, <1>9, <1>10, <1>11, <1>12 DEF PlansOf

LEMMA MakePlanKeeps ==
  LaneInv /\ MakePlan => LaneInv'
<1> SUFFICES ASSUME LaneInv, MakePlan PROVE LaneInv'
  OBVIOUS
<1>1. /\ leg > 0 /\ plan = NoPlan /\ plan' \in PlansOf(tape, high, episode)
      /\ script' = script /\ leg' = leg /\ tape' = tape /\ high' = high
      /\ episode' = episode /\ acct' = acct /\ order' = order
  BY DEF MakePlan
<1>2. LaneTyped /\ order = NoOrder
  BY <1>1 DEF LaneInv, OrderHeld
<1>3. LaneTyped'
  BY <1>1, <1>2 DEF LaneTyped
<1>4. Sound(plan', Newest(tape))
  <2>1. tape \in Tape /\ tape # <<>> /\ high \in Nat /\ IsEpisode(episode)
    BY <1>1, <1>2, ConstantsTyped DEF LaneTyped
  <2> QED
    BY <1>1, <2>1, PlansSound
<1>5. (OrderHeld /\ OrderBounded /\ BracketSound)'
  BY <1>1, <1>2 DEF OrderHeld, OrderBounded, BracketSound, NoOrder
<1> QED
  BY <1>1, <1>3, <1>4, <1>5 DEF LaneInv

LEMMA SubmitKeeps ==
  ASSUME NEW s \in Sizings
  PROVE  LaneInv /\ Submit(s[1], s[2], s[3]) => LaneInv'
<1> SUFFICES ASSUME LaneInv, Submit(s[1], s[2], s[3]) PROVE LaneInv'
  OBVIOUS
<1> DEFINE spread == s[1]
           violent == s[2]
           factor == s[3]
           qty == Quantity(acct, plan, spread, violent, factor)
           risk == plan.entry - plan.stop
           room == Share(acct.equity, acct.maxPosition)
           cap == PlaybookShares(acct, plan.entry, risk, spread)
<1>1. /\ plan # NoPlan /\ order = NoOrder /\ Tradeable(plan) /\ qty >= 1
      /\ order' = [order EXCEPT !.qty = qty]
      /\ script' = script /\ leg' = leg /\ tape' = tape /\ high' = high
      /\ episode' = episode /\ acct' = acct /\ plan' = plan
  BY DEF Submit
<1>2. LaneTyped /\ Sound(plan, Newest(tape))
  BY DEF LaneInv
<1>3. IsPlan(plan) /\ IsAccount(acct)
  BY <1>2, ConstantsTyped DEF LaneTyped, Sound
<1>4. spread \in Nat /\ spread <= 100 /\ violent \in BOOLEAN /\ factor \in Nat
  BY ConstantsTyped
<1> HIDE DEF spread, violent, factor
<1>5. /\ qty \in Nat
      /\ acct.maxRisk > 0 => qty * risk <= acct.maxRisk
      /\ room >= plan.entry => qty * plan.entry <= room
      /\ cap > 0 => /\ qty * plan.entry <= acct.warriorValue
                    /\ acct.warriorRisk > 0 => qty * risk <= acct.warriorRisk
  BY <1>1, <1>3, <1>4, QuantityBounded
<1> HIDE DEF qty
<1>6. order'.qty = qty /\ order'.fill = 0 /\ order' \in [qty : Nat, fill : Nat, target : Int]
  BY <1>1, <1>5 DEF NoOrder
<1>7. LaneTyped'
  BY <1>1, <1>2, <1>6 DEF LaneTyped
<1>8. (OrderHeld /\ BracketSound)'
  BY <1>1, <1>6 DEF OrderHeld, BracketSound, Tradeable
<1>9. OrderBounded'
  <2>1. (\A x \in Sizings : PlaybookShares(acct, plan.entry, risk, x[1]) > 0) => cap > 0
    BY DEF spread
  <2> HIDE DEF cap, room
  <2>2. /\ acct.maxRisk > 0 => order'.qty * risk <= acct.maxRisk
        /\ room >= plan.entry => order'.qty * plan.entry <= room
        /\ (\A x \in Sizings : PlaybookShares(acct, plan.entry, risk, x[1]) > 0) =>
             /\ order'.qty * plan.entry <= acct.warriorValue
             /\ acct.warriorRisk > 0 => order'.qty * risk <= acct.warriorRisk
    BY <1>5, <1>6, <2>1
  <2> QED
    BY <1>1, <2>2 DEF OrderBounded, room
<1>10. Sound(plan, Newest(tape))'
  BY <1>1, <1>2
<1> QED
  BY <1>7, <1>8, <1>9, <1>10 DEF LaneInv

LEMMA DropKeeps ==
  ASSUME NEW violent \in BOOLEAN
  PROVE  LaneInv /\ Drop(violent) => LaneInv'
<1> SUFFICES ASSUME LaneInv, Drop(violent) PROVE LaneInv'
  OBVIOUS
<1>1. /\ order = NoOrder /\ order' = order /\ plan' = NoPlan
      /\ script' = script /\ leg' = leg /\ tape' = tape /\ high' = high
      /\ episode' = episode /\ acct' = acct
  BY DEF Drop
<1>2. LaneTyped
  BY DEF LaneInv
<1>3. LaneTyped'
  BY <1>1, <1>2 DEF LaneTyped
<1>4. Sound(plan, Newest(tape))'
  BY <1>1, NothingPlanned
<1>5. (OrderHeld /\ OrderBounded /\ BracketSound)'
  BY <1>1 DEF OrderHeld, OrderBounded, BracketSound, NoOrder
<1> QED
  BY <1>3, <1>4, <1>5 DEF LaneInv

LEMMA FillKeeps ==
  ASSUME NEW slip \in Slips
  PROVE  LaneInv /\ Fill(slip) => LaneInv'
<1> SUFFICES ASSUME LaneInv, Fill(slip) PROVE LaneInv'
  OBVIOUS
<1> DEFINE entry == plan.entry
           price == Times(entry, slip)
           target == FilledTarget(plan, price)
<1>1. /\ order.qty > 0 /\ order' = [order EXCEPT !.fill = price, !.target = target]
      /\ script' = script /\ leg' = leg /\ tape' = tape /\ high' = high
      /\ episode' = episode /\ acct' = acct /\ plan' = plan
  BY DEF Fill
<1>2. LaneTyped /\ Sound(plan, Newest(tape)) /\ OrderHeld /\ OrderBounded
  BY DEF LaneInv
<1>3. order # NoOrder
  BY <1>1 DEF NoOrder
<1>4. plan # NoPlan /\ Tradeable(plan) /\ IsPlan(plan)
  BY <1>2, <1>3 DEF OrderHeld, Sound
<1>5. price \in Nat
  <2>1. entry \in Nat /\ slip \in Nat
    BY <1>4, ConstantsTyped DEF Tradeable, IsPlan
  <2> HIDE DEF entry
  <2> QED
    BY <2>1, TimesTyped
<1> HIDE DEF price
<1>6. /\ target \in Int /\ target > price
      /\ target # plan.target => target - price >= price - plan.stop
      /\ price > plan.stop =>
           ReplayBracket(plan, price) = [stop |-> plan.stop, target |-> target]
  BY <1>4, <1>5, BracketHeld
<1> HIDE DEF target
<1>7. order \in [qty : Nat, fill : Nat, target : Int]
  BY <1>2 DEF LaneTyped
<1>8. /\ order'.qty = order.qty /\ order'.fill = price /\ order'.target = target
      /\ order' \in [qty : Nat, fill : Nat, target : Int]
  BY <1>1, <1>5, <1>6, <1>7
<1>9. LaneTyped'
  BY <1>1, <1>2, <1>8 DEF LaneTyped
<1>10. BracketSound'
  BY <1>1, <1>6, <1>8 DEF BracketSound
<1>11. OrderBounded'
  BY <1>1, <1>2, <1>8 DEF OrderBounded
<1>12. (OrderHeld /\ Sound(plan, Newest(tape)))'
  BY <1>1, <1>2, <1>4 DEF OrderHeld
<1> QED
  BY <1>9, <1>10, <1>11, <1>12 DEF LaneInv

LEMMA LaneNextInv ==
  LaneInv /\ [Next]_vars => LaneInv'
<1> SUFFICES ASSUME LaneInv, [Next]_vars PROVE LaneInv'
  OBVIOUS
<1>1. CASE LegEnds
  BY <1>1, LegEndsKeeps
<1>2. CASE MakePlan
  BY <1>2, MakePlanKeeps
<1>3. ASSUME NEW s \in Sizings, Submit(s[1], s[2], s[3]) PROVE LaneInv'
  BY <1>3, SubmitKeeps
<1>4. ASSUME NEW violent \in BOOLEAN, Drop(violent) PROVE LaneInv'
  BY <1>4, DropKeeps
<1>5. ASSUME NEW slip \in Slips, Fill(slip) PROVE LaneInv'
  BY <1>5, FillKeeps
<1>6. CASE UNCHANGED vars
  BY <1>6 DEF vars, LaneInv, LaneTyped, OrderHeld, OrderBounded, BracketSound
<1> QED
  BY <1>1, <1>2, <1>3, <1>4, <1>5, <1>6 DEF Next

LEMMA LaneInvariant == Spec => []LaneInv
<1>1. Init => LaneInv
  BY LaneInitInv
<1>2. LaneInv /\ [Next]_vars => LaneInv'
  BY LaneNextInv
<1> QED
  BY <1>1, <1>2, PTL DEF Spec

(* Whatever the tape, the episode and the account, every plan of the twenty-three lanes
   can be traded as planned where the watch lists a symbol, at 1.50 dollars or above:
   the price was printed and within its cap, the stop below, the target above, and a
   share risks at most twelve percent (strategy/warrior_lanes.py). *)
THEOREM PlansTradeable ==
  Spec => [](Listed => PlanTradeable)
<1>1. LaneInv => (Listed => PlanTradeable)
  BY DEF LaneInv, Sound, Follows, Listed, PlanTradeable
<1> QED
  BY <1>1, LaneInvariant, PTL

(* Every order the executor sizes (runner.py, _execute_momentum_burst_scalp) keeps the
   limits of the account and of the playbook that leave it a share, whatever the
   spread, the tape and a size factor scaled it down by. *)
THEOREM OrdersBounded ==
  Spec => []OrderBounded
<1>1. LaneInv => OrderBounded
  BY DEF LaneInv
<1> QED
  BY <1>1, LaneInvariant, PTL

(* However far from its plan an order fills, its bracket stands: the target above the
   fill, a moved target worth the risk, and the replay's bracket the live one's
   (runner.py, _execute_momentum_burst_scalp and _mb_bracket_payload). *)
THEOREM BracketsSound ==
  Spec => []BracketSound
<1>1. LaneInv => BracketSound
  BY DEF LaneInv
<1> QED
  BY <1>1, LaneInvariant, PTL

=============================================================================
