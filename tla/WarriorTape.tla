----------------------------- MODULE WarriorTape -----------------------------
(***************************************************************************)
(* The measures that the Warrior lanes (strategy/warrior_lanes.py) take of  *)
(* the 10-second tape. Prices are in tenths of a cent, volumes in thousands *)
(* of shares, ratios in basis points; a ratio is rounded down, so a check   *)
(* is exact to one basis point. A bar knows whether the tape stood still    *)
(* for a minute before it.                                                  *)
(***************************************************************************)
EXTENDS Integers, Sequences, FiniteSets

Bar == [o : Nat, h : Nat, l : Nat, c : Nat, v : Nat, gap : BOOLEAN]

AtLeast(a, b) == IF a < b THEN b ELSE a
AtMost(a, b) == IF a < b THEN a ELSE b
Times(x, bp) == (x * bp) \div 10000

Newest(tape) == tape[Len(tape)]
Before(tape) == SubSeq(tape, 1, Len(tape) - 1)
Final(tape, n) == SubSeq(tape, AtLeast(1, Len(tape) - n + 1), Len(tape))
\* The n bars before the newest one.
Base(tape, n) == Final(Before(tape), n)

Total(s) == LET f[i \in 0..Len(s)] == IF i = 0 THEN 0 ELSE f[i - 1] + s[i].v IN f[Len(s)]
Average(s) == IF s = <<>> THEN 0 ELSE Total(s) \div Len(s)
Top(s) ==
  LET f[i \in 0..Len(s)] == IF i = 0 THEN 0 ELSE AtLeast(f[i - 1], s[i].h)
  IN  f[Len(s)]
Bottom(s) ==
  LET f[i \in 1..Len(s)] == IF i = 1 THEN s[1].l ELSE AtMost(f[i - 1], s[i].l)
  IN  IF s = <<>> THEN 0 ELSE f[Len(s)]
\* The earliest bar with the greatest high, the earliest with the least low.
TopAt(s) ==
  CHOOSE i \in 1..Len(s) : s[i].h = Top(s) /\ \A j \in 1..i - 1 : s[j].h < s[i].h
BottomAt(s) ==
  CHOOSE i \in 1..Len(s) : s[i].l = Bottom(s) /\ \A j \in 1..i - 1 : s[j].l > s[i].l

Vwap(s) ==
  LET f[i \in 0..Len(s)] ==
        IF i = 0 THEN 0 ELSE f[i - 1] + (s[i].h + s[i].l + s[i].c) * s[i].v
  IN  IF Total(s) = 0 THEN 0 ELSE f[Len(s)] \div (3 * Total(s))
Ema(s) ==
  LET f[i \in 1..Len(s)] == IF i = 1 THEN s[1].c ELSE (2 * s[i].c + 8 * f[i - 1]) \div 10
  IN  f[Len(s)]
MeanClose(s) ==
  LET f[i \in 0..Len(s)] == IF i = 0 THEN 0 ELSE f[i - 1] + s[i].c IN f[Len(s)] \div Len(s)
Green(b) == b.c > b.o
Red(b) == b.c < b.o
Width(b) == ((b.h - b.l) * 10000) \div b.c
Body(b) == ((b.o - b.c) * 10000) \div b.c
Loc(b) == IF b.h > b.l THEN ((b.c - b.l) * 10000) \div (b.h - b.l) ELSE 0

\* The upper median of the bars' ranges.
MedianWidth(s) ==
  LET rank(i) == Cardinality({j \in 1..Len(s) : Width(s[j]) < Width(s[i])
                                \/ (Width(s[j]) = Width(s[i]) /\ j < i)})
  IN  Width(s[CHOOSE i \in 1..Len(s) : rank(i) = Len(s) \div 2])
=============================================================================
