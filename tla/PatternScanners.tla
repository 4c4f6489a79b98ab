---------------------------- MODULE PatternScanners ----------------------------
(***************************************************************************)
(* The nine scanners of one-minute tapes that have a live verifier          *)
(* (scanner/scalping): what each one finds, with the levels, the score in   *)
(* hundredths and the entry tier that its hit carries. A percentage is in   *)
(* basis points, a ratio of volumes in hundredths.                          *)
(***************************************************************************)
EXTENDS EntryQuality

(* A hit's criteria; a level that the scanner does not give is 0. *)
NoHit == [pattern |-> "", score |-> 0, tier |-> "", stop |-> 0, pullLow |-> 0, baseLow |-> 0,
          baseHigh |-> 0, level |-> 0, anchor |-> 0, vwap |-> 0, rally |-> 0, hod |-> 0,
          surge |-> 0, retrace |-> 0, told |-> 0]

Pct(a, b) == ((a - b) * 10000) \div b
Drop(top, b) == ((top - b) * 10000) \div top
Surge(v, s) == IF Total(s) = 0 THEN 0 ELSE (v * 100 * Len(s)) \div Total(s)
Part(x, percent) == (x * percent) \div 100
RecentVolume(tape) == Total(Final(tape, 3))
LastTopAt(s) ==
  CHOOSE i \in 1..Len(s) : s[i].h = Top(s) /\ \A j \in i + 1..Len(s) : s[j].h < Top(s)
\* The bars between the high of the earlier tape and the newest bar.
SinceTop(prior) == SubSeq(prior, LastTopAt(prior) + 1, Len(prior))
\* The last n of the bars since the low that followed the high.
BaseSinceLow(after, n) == Final(SubSeq(after, BottomAt(after), Len(after)), n)

-----------------------------------------------------------------------------
vwap_pullback(tape) ==
  LET last == Newest(tape)
      prev == tape[Len(tape) - 1]
      vwap == Vwap(tape)
      top == Top(tape)
      low == AtMost(prev.l, last.l)
      rally == Pct(top, tape[1].o)
      depth == Drop(top, prev.l)
      touched == \/ prev.l * 1000 <= Vwap(Before(tape)) * 1000 + vwap * 5
                 \/ last.l * 1000 <= vwap * 1005
  IN  IF /\ Len(tape) >= 10 /\ vwap > 0 /\ Green(last) /\ last.c >= vwap
         /\ touched /\ rally >= 300 /\ depth >= 50
      THEN [NoHit EXCEPT !.pattern = "vwap_pullback", !.stop = low - 20, !.pullLow = low,
                         !.vwap = vwap, !.rally = rally, !.score = (rally * (1000 + depth)) \div 1000]
      ELSE NoHit

hod_reclaim(tape) ==
  LET last == Newest(tape)
      prior == Before(tape)
      hod == Top(prior)
      after == SinceTop(prior)
      low == Bottom(after)
      rally == Pct(hod, tape[1].o)
      pull == Drop(hod, low)
  IN  IF /\ Len(tape) >= 10 /\ Green(last) /\ rally >= 300
         /\ Len(after) >= 2 /\ pull >= 150
         /\ last.c * 1000 >= hod * 998 /\ last.h * 1000 >= hod * 999
      THEN [NoHit EXCEPT !.pattern = "hod_reclaim", !.stop = low - 20, !.pullLow = low,
                         !.rally = rally, !.hod = hod,
                         !.score = rally + pull + 5 * Pct(last.c, hod)]
      ELSE NoHit

is_second_chance_vwap_reclaim(tape) ==
  LET last == Newest(tape)
      base == Base(tape, 4)
  IN  /\ Green(last) /\ Vwap(tape) > 0 /\ last.c * 1000 >= Vwap(tape) * 1005
      /\ last.c * 1000 > Top(base) * 1002
      /\ (Top(base) - Bottom(base)) * 100 <= 9 * Bottom(base)
      /\ (last.c - last.o) * 100 >= 35 * (last.h - last.l)
      /\ Total(base) > 0 /\ last.v * 400 >= 105 * Total(base)
      /\ RecentVolume(tape) >= 75

(* Finding a base costs nothing; a deep one needs a fresh reclaim of VWAP. *)
pullback_base(tape) ==
  LET last == Newest(tape)
      prev == tape[Len(tape) - 1]
      top == Top(tape)
      move == Pct(top, tape[1].o)
      pull == Drop(top, last.c)
      base == Final(tape, 3)
      second == is_second_chance_vwap_reclaim(tape)
      maxRange == AtMost(500 + move \div 10, 1500)
      loose == \/ pull > 3000 \/ Pct(Top(base), Bottom(base)) > maxRange
               \/ 2 * last.c < top + tape[1].o
  IN  IF /\ Len(tape) >= 15 /\ last.c >= 1000 /\ move >= 1000 /\ pull >= 300
         /\ loose => second
         /\ Green(last) /\ last.l >= prev.l
      THEN [NoHit EXCEPT !.pattern = "pullback_base", !.stop = Bottom(base) - 20,
                         !.baseLow = Bottom(base), !.score = (move * (4000 - pull)) \div 1000,
                         !.tier = IF second THEN "second_chance_reclaim" ELSE ""]
      ELSE NoHit

(* The last b bars before the newest one, and the a bars before those. *)
BLeg(tape, b) == SubSeq(tape, Len(tape) - b, Len(tape) - 1)
ALeg(tape, b, a) == SubSeq(tape, Len(tape) - b - a, Len(tape) - b - 1)
Retraced(s, low) == ((Top(s) - low) * 10000) \div (Top(s) - Bottom(s))
\* The lengths of a B pullback that the newest bar breaks and of an A leg that fits it.
AbcLegs(tape) ==
  LET n == Len(tape)
      c == Newest(tape)
      Reds(s) == Cardinality({i \in 1..Len(s) : Red(s[i])})
      broken(s) == /\ c.c > Top(s) /\ c.h * 1000 > Top(s) * 1001
                   /\ c.v * Len(s) * 100 >= 110 * Total(s)
                   /\ Reds(s) >= AtLeast(1, Len(s) \div 2)
                   /\ (c.c - Top(s)) * 100 <= 5 * Top(s)
                   /\ (c.h - c.l) * 100 <= 12 * c.c
      fits(s, pull) == /\ Top(s) > Bottom(s) /\ Pct(Top(s), Bottom(s)) >= 500
                       /\ Greens(s) * 100 >= 60 * Len(s)
                       /\ Retraced(s, Bottom(pull)) \in 2000..6000
                       /\ Average(pull) * 100 <= 115 * Average(s)
  IN  {p \in (2..8) \X (3..12) :
         /\ n - 1 - p[1] >= 3 /\ n - p[1] - p[2] >= 1
         /\ broken(BLeg(tape, p[1])) /\ fits(ALeg(tape, p[1], p[2]), BLeg(tape, p[1]))}

(* The shortest B pullback that C breaks, after the shortest A leg that fits. *)
abc_continuation(tape) ==
  LET c == Newest(tape)
      best == CHOOSE p \in AbcLegs(tape) : \A q \in AbcLegs(tape) :
                p[1] < q[1] \/ (p[1] = q[1] /\ p[2] <= q[2])
      pull == BLeg(tape, best[1])
      leg == ALeg(tape, best[1], best[2])
      retrace == Retraced(leg, Bottom(pull))
  IN  IF Len(tape) >= 10 /\ Green(c) /\ AbcLegs(tape) # {}
      THEN [NoHit EXCEPT !.pattern = "abc_continuation", !.pullLow = Bottom(pull),
                         !.surge = Surge(c.v, pull), !.retrace = retrace,
                         !.score = Times(Pct(Top(leg), Bottom(leg)), 10000 - retrace)
                                   + 2 * Pct(c.c, Top(pull))]
      ELSE NoHit

first_pullback_reclaim(tape) ==
  LET last == Newest(tape)
      prior == Before(tape)
      impulse == Pct(Top(prior), tape[1].o)
      after == SinceTop(prior)
      low == Bottom(after)
      pull == Drop(Top(prior), low)
      base == BaseSinceLow(after, 5)
      high == Top(base)
      vwap == Vwap(tape)
  IN  IF /\ Len(tape) >= 12 /\ Green(last) /\ impulse >= 500
         /\ Len(after) >= 2 /\ pull >= 120 /\ pull <= 1200
         /\ Len(base) >= 2 /\ Pct(high, Bottom(base)) <= 600
         /\ last.c * 1000 > high * 1001
         /\ vwap > 0 => last.c >= vwap /\ low * 1000 >= vwap * 985
         /\ last.v * Len(base) * 10 >= 8 * Total(base)
         /\ (last.c - Bottom(base)) * 100 <= 8 * last.c
      THEN [NoHit EXCEPT !.pattern = "first_pullback_reclaim", !.stop = Bottom(base) - 20,
                         !.pullLow = low, !.baseHigh = high, !.baseLow = Bottom(base),
                         !.vwap = vwap,
                         !.score = Part(impulse, 80) + 2 * pull + 5 * Pct(last.c, high)]
      ELSE NoHit

(* The score of a base that the newest bar breaks, and the widths of those it breaks cleanly. *)
BreakoutScore(tape, base) ==
  LET last == Newest(tape)
  IN  Part(Pct(last.c, tape[1].o), 70) + 6 * Pct(last.c, Top(base))
      + 8 * AtMost(Surge(last.v, base), 400) - Part(Pct(Top(base), Bottom(base)), 150)
      - Part(((last.h - last.c) * 10000) \div (last.h - last.l), 20)
CleanWidths(tape) ==
  LET last == Newest(tape)
      clean(base) ==
        /\ Pct(Top(base), Bottom(base)) <= 800
        /\ last.c * 1000 > Top(base) * 1006 /\ last.c * 1000 <= Top(base) * 1025
        /\ Total(base) > 0 /\ last.v * Len(base) * 100 >= 115 * Total(base)
        /\ (last.c - Bottom(base)) * 100 <= 12 * last.c
  IN  {w \in 4..8 : w < Len(tape) /\ clean(Base(tape, w))}

(* Of the bases of four to eight bars that the newest bar breaks, the best score. *)
level_breakout_reclaim(tape) ==
  LET last == Newest(tape)
      vwap == Vwap(tape)
      scored(w) == BreakoutScore(tape, Base(tape, w))
      best == CHOOSE w \in CleanWidths(tape) : \A u \in CleanWidths(tape) :
                scored(w) > scored(u) \/ (scored(w) = scored(u) /\ w <= u)
      base == Base(tape, best)
  IN  IF /\ Len(tape) >= 8 /\ Green(last) /\ Pct(last.c, tape[1].o) >= 500 /\ last.v >= 100
         /\ vwap > 0 => last.c * 1000 >= vwap * 1002
         /\ (last.h - last.c) * 100 <= 45 * (last.h - last.l) /\ CleanWidths(tape) # {}
      THEN [NoHit EXCEPT !.pattern = "level_breakout_reclaim", !.stop = Bottom(base) - 20,
                         !.baseHigh = Top(base), !.level = Top(base),
                         !.baseLow = Bottom(base), !.vwap = vwap, !.score = scored(best)]
      ELSE NoHit

runner_reclaim_continuation(tape) ==
  LET last == Newest(tape)
      prior == Before(tape)
      impulse == Pct(Top(prior), tape[1].o)
      after == SinceTop(prior)
      low == Bottom(after)
      pull == Drop(Top(prior), low)
      base == BaseSinceLow(after, 6)
      high == Top(base)
      range == Pct(high, Bottom(base))
      reclaim == Pct(last.c, high)
      vwap == Vwap(tape)
  IN  IF /\ Len(tape) >= 10 /\ Green(last) /\ impulse >= 1200
         /\ Len(after) >= 2 /\ pull >= 300 /\ pull <= 3500
         /\ Len(base) >= 2 /\ range <= 1800 /\ reclaim >= 40 /\ reclaim <= 800
         /\ vwap > 0 => last.c >= vwap /\ low * 100 >= vwap * 94
         /\ last.v * Len(base) * 100 >= 75 * Total(base)
         /\ (last.c - Bottom(base)) * 100 <= 18 * last.c
      THEN [NoHit EXCEPT !.pattern = "runner_reclaim_continuation", !.stop = Bottom(base) - 20,
                         !.pullLow = low, !.baseHigh = high, !.baseLow = Bottom(base),
                         !.vwap = vwap,
                         !.score = Part(impulse, 70) + Part(pull, 150) + 4 * reclaim
                                   - AtLeast(0, range - 1000)]
      ELSE NoHit

shallow_stair_continuation(tape) ==
  LET last == Newest(tape)
      top == Top(tape)
      move == Pct(top, tape[1].o)
      recent == RecentVolume(tape)
      elite == move >= 5000 /\ recent >= 250 /\ last.c >= 2000
      off == Drop(top, last.c)
      B(w) == Base(tape, w)
      tight == {w \in 3..5 : Pct(Top(B(w)), Bottom(B(w))) <= IF elite THEN 1300 ELSE 700}
      base == B(CHOOSE w \in tight : \A u \in tight : w <= u)
      surge == Surge(last.v, base)
      body(p) == last.h > last.l /\ (last.c - last.o) * 100 >= p * (last.h - last.l)
      stop == AtLeast(Bottom(base) - 20, Part(last.c, 94))
  IN  IF /\ Len(tape) >= 12 /\ Green(last) /\ move >= 2000
         /\ off <= IF elite THEN 1200 ELSE 400
         /\ Vwap(tape) > 0 /\ Above(last.c, Vwap(tape), 1)
         /\ tight # {} /\ last.c * 1000 > Top(base) * 1002 /\ last.l * 1000 >= Bottom(base) * 985
         /\ recent >= (IF elite THEN 250 ELSE 150) /\ surge >= (IF elite THEN 65 ELSE 85)
         /\ body(25) /\ (elite \/ surge >= 125 \/ (body(80) /\ recent >= 250))
         /\ (last.c - stop) * 1000 >= 5 * last.c
      THEN [NoHit EXCEPT !.pattern = "shallow_stair_continuation", !.tier = "stair_scout",
                         !.stop = stop, !.baseHigh = Top(base), !.baseLow = Bottom(base),
                         !.vwap = Vwap(tape),
                         !.score = Part(move, 75) + 10 * AtMost(surge, 400) + 4 * AtMost(recent, 600)
                                   + 6 * Pct(last.c, Top(base))
                                   - Part(Pct(Top(base), Bottom(base)), 50) - Part(off, 80)]
      ELSE NoHit

\* Four bars that trade, at least two of them, and not for one big bar.
Lively(live) ==
  LET loudest == CHOOSE v \in {live[i].v : i \in 1..4} : \A i \in 1..4 : live[i].v <= v
  IN  /\ Total(live) >= 90 /\ loudest * 100 <= 70 * Total(live)
      /\ Cardinality({i \in 1..4 : live[i].v >= 20}) >= 2

(* The bars after the top, at most nine, that the newest bar closes; and from their low on,
   the newest one with them. *)
Washout(tape) ==
  SubSeq(tape, AtLeast(LastTopAt(tape) + 1, Len(tape) - 9), Len(tape) - 1)
Holding(tape) ==
  LET window == Washout(tape)
  IN  Append(SubSeq(window, BottomAt(window) + 1, Len(window)), Newest(tape))

early_vwap_reclaim_scout(tape) ==
  LET n == Len(tape)
      last == Newest(tape)
      prev == tape[n - 1]
      range == last.h - last.l
      top == Top(tape)
      move == Pct(top, tape[1].o)
      vwap == Vwap(tape)
      was == Vwap(Before(tape))
      window == Washout(tape)
      low == Bottom(window)
      hold == Holding(tape)
      washed == Drop(was, low)
      above == Pct(last.c, vwap)
      risk == Drop(last.c, Bottom(hold))
      off == Drop(top, last.c)
  IN  IF /\ n >= 12 /\ Green(last) /\ (last.c - last.l) * 100 >= 55 * range
         /\ (last.h - last.c) * 100 <= 45 * range
         /\ last.v >= 25 /\ Lively(Final(tape, 4))
         /\ move >= 800 /\ vwap > 0 /\ was > 0 /\ Len(window) >= 4
         /\ washed >= 100 /\ above >= 30 /\ above <= 550
         /\ ~(prev.c > was /\ prev.l * 1000 > was * 1015)
         /\ last.l * 1000 >= vwap * 985
         /\ last.l * 1000 >= Bottom(Base(tape, 3)) * 995
         /\ Len(hold) >= 2 /\ risk <= 900 /\ off <= 1200
      THEN [NoHit EXCEPT !.pattern = "early_vwap_reclaim_scout", !.vwap = vwap,
                         !.stop = AtLeast(Bottom(hold) - 20, Part(vwap, 97)),
                         !.score = Part(move, 45) + 4 * washed + 6 * above
                                   + 6 * AtMost(Surge(last.v, Base(tape, 5)), 400)
                                   - Part(off, 40) - Part(risk, 80)]
      ELSE NoHit

(* The hits of one look at the tape, at most one of a scanner, for a price it scans. *)
HitsOf(tape) ==
  IF Newest(tape).c < 1000 THEN {}
  ELSE {vwap_pullback(tape), hod_reclaim(tape), pullback_base(tape), abc_continuation(tape),
        first_pullback_reclaim(tape), level_breakout_reclaim(tape),
        runner_reclaim_continuation(tape), shallow_stair_continuation(tape),
        early_vwap_reclaim_scout(tape)} \ {NoHit}
=============================================================================
