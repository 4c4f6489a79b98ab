----------------------------- MODULE EntryQuality -----------------------------
(***************************************************************************)
(* The shared entry guard (strategy/entry_guard.py): the hard rejects, the *)
(* rule score, the spread exceptions and the model's veto that a long entry *)
(* passes twice, once in the pattern verifier and once more just before the *)
(* order. The tape holds the one-minute bars of today.                      *)
(***************************************************************************)
EXTENDS WarriorTape

CONSTANTS
  ScoreThreshold,  \* ENTRY_SCORE_THRESHOLD
  MaxFloat,        \* ENTRY_MAX_FLOAT_SHARES, in millions
  WideSpreads      \* ELITE_WIDE_SPREAD_ENABLED

ASSUME QualityAssumption ==
  ScoreThreshold \in 0..100 /\ MaxFloat \in Nat /\ WideSpreads \in BOOLEAN

(* What the guard is told beside the tape: the float in millions and the average daily
   volume in thousands (0 when unknown), the age of the newest bar in seconds, up to
   five quotes of one spread and depth, the order flow imbalance in percent (0 with too
   few ticks), the recent five-minute bars, and whether the model vetoes. *)
Look == [float : Nat, daily : Nat, age : Nat, quotes : 0..5, spread : Nat, depth : Nat,
         flow : -100..100, five : Seq([o : Nat, c : Nat]), veto : BOOLEAN]
(* What it is told of the setup: pattern and tier, and the score the caller passes. *)
Setup == [pattern : STRING, tier : STRING, score : Nat]

FirstOf(checks) ==
  LET hits == {i \in DOMAIN checks : checks[i][2]}
  IN  IF hits = {} THEN "" ELSE checks[CHOOSE i \in hits : \A j \in hits : i <= j][1]
Graded(x, rows, least) ==
  LET met == {r \in rows : r[1] <= x}
  IN  IF met = {} THEN least ELSE (CHOOSE r \in met : \A q \in met : q[1] <= r[1])[2]
Distance(a, b) == IF a < b THEN b - a ELSE a - b
Greens(s) == Cardinality({i \in 1..Len(s) : Green(s[i])})
Earlier(tape, n) == SubSeq(tape, 1, AtLeast(0, Len(tape) - n))
\* a is at least p percent above b.
Above(a, b, p) == a * 100 >= b * (100 + p)
WithinTop(price, top, bp) == (top - price) * 10000 <= bp * top

\* Relative volumes are in thousandths.
Rvol(tape) ==
  LET recent == Final(tape, 5)
      rest == Earlier(tape, 5)
  IN  IF Total(rest) = 0 THEN 0
      ELSE (Total(recent) * Len(rest) * 1000) \div (Len(recent) * Total(rest))
DailyRvol(tape, daily) == IF daily = 0 THEN 0 ELSE (Total(tape) * 1000) \div daily

MinTick == 10
tick_aware_spread_ok(spread, price, bp) == spread * 10000 <= AtLeast(price * bp, MinTick * 10000)

-----------------------------------------------------------------------------
LiquidityScore(tape, look) ==
  LET price == Newest(tape).c
      recent == Average(Final(tape, 5))
      rvol == AtLeast(Rvol(tape), DailyRvol(tape, look.daily))
      within(bp) == tick_aware_spread_ok(look.spread, price, bp)
      quoted == (IF within(15) THEN 15 ELSE IF within(30) THEN 10 ELSE IF within(50) THEN 5 ELSE 0)
                + Graded(look.depth, {<<2000, 10>>, <<500, 7>>, <<100, 4>>}, 1)
      score == Graded(Total(tape), {<<2000, 30>>, <<1000, 25>>, <<500, 20>>, <<200, 12>>, <<100, 8>>}, 0)
               + Graded(recent, {<<75, 25>>, <<50, 20>>, <<25, 14>>, <<10, 8>>}, 0)
               + (IF rvol > 0
                  THEN Graded(rvol, {<<3000, 20>>, <<2000, 18>>, <<1500, 15>>, <<1000, 10>>}, 4)
                  ELSE IF recent >= 50 THEN 10 ELSE 5)
               + (IF look.quotes > 0 /\ look.spread > 0 THEN quoted ELSE 16)
  IN  AtMost(100, score)

RunnerPatterns ==
  {"abc_continuation", "vwap_pullback", "pullback_base", "hod_reclaim",
   "level_breakout_reclaim", "runner_reclaim_continuation", "shallow_stair_continuation",
   "early_vwap_reclaim_scout", "first_pullback_reclaim"}
ReclaimPatterns == RunnerPatterns \ {"abc_continuation", "first_pullback_reclaim"}
EliteTiers ==
  {"a_plus_reclaim_scout", "a_plus_retry_watch", "deep_runner_scout", "level_scout",
   "pullback_scout", "stair_scout", "second_chance_reclaim", "abc_scout",
   "vwap_reclaim_scout"}
\* The engine's tier: every pattern that has a live verifier is an "A+ setup".
setup_tier_a_plus(pattern) == pattern \in RunnerPatterns

NoException == [ok |-> TRUE, exception |-> FALSE, factor |-> 100]
TooWide == [NoException EXCEPT !.ok = FALSE]

\* The spread is more than bp basis points of the price.
SpreadOver(tape, look, bp) == look.spread * 10000 > bp * Newest(tape).c
SpreadCeiling(setup) ==
  90 + (IF setup.tier \in {"level_scout", "a_plus_reclaim_scout", "deep_runner_scout"} THEN 20 ELSE 0)
     + (IF setup.pattern = "shallow_stair_continuation" THEN 10 ELSE 0)
\* A spread above the ceiling, which only the best of setups may pass.
MassiveRunner(tape, look, setup) ==
  /\ WideSpreads /\ setup.score >= 150 /\ ~SpreadOver(tape, look, 110)
  /\ Total(tape) >= 5000 /\ Average(Final(tape, 5)) >= 75 /\ Newest(tape).v >= 30
  /\ look.depth >= 750 /\ WithinTop(Newest(tape).c, Top(tape), 800)
ActiveBook(tape, look) ==
  LET tickLike == look.spread <= (IF Newest(tape).c < 5000 THEN 20 ELSE 10)
      trades(day, recent, last, depth) ==
        /\ Total(tape) >= day /\ Average(Final(tape, 5)) >= recent /\ Newest(tape).v >= last
        /\ look.depth = 0 \/ look.depth >= depth
  IN  IF tickLike THEN trades(1000, 25, 10, 100) ELSE trades(2000, 50, 20, 500)
EliteRunner(tape, look, setup) ==
  /\ setup.pattern \in RunnerPatterns
  /\ setup_tier_a_plus(setup.pattern) \/ setup.tier \in EliteTiers
  /\ Newest(tape).c \in 1000..20000 /\ look.float <= 20
  /\ WithinTop(Newest(tape).c, Top(tape), IF Newest(tape).c < 5000 THEN 1500 ELSE 1000)

(* The spread, when it is wider than the normal gate, is an exception only an elite
   runner may use, with a smaller size. *)
assess_opportunity_scaled_spread(tape, look, setup) ==
  LET wide == SpreadOver(tape, look, SpreadCeiling(setup))
      factor == IF wide THEN 25 ELSE IF SpreadOver(tape, look, 80) THEN 35 ELSE 45
  IN  IF look.spread = 0 \/ tick_aware_spread_ok(look.spread, Newest(tape).c, 50) THEN NoException
      ELSE IF /\ EliteRunner(tape, look, setup)
              /\ IF wide THEN MassiveRunner(tape, look, setup) ELSE ActiveBook(tape, look)
      THEN [ok |-> TRUE, exception |-> TRUE, factor |-> factor]
      ELSE TooWide

-----------------------------------------------------------------------------
(* A silent tape is likely halted when the last bar was loud or the run was strong. *)
likely_halt(tape) ==
  LET recent == Final(tape, IF Len(tape) >= 5 THEN 5 ELSE 3)
      last == Newest(tape)
  IN  \/ /\ 2 * last.v * Len(tape) > 3 * Total(tape)
         /\ Distance(last.c, last.o) * 100 > 2 * last.o
      \/ /\ Greens(recent) >= 2
         /\ (last.c - recent[1].o) * 100 > 5 * recent[1].o
Stale(tape, look) == look.age > 300 /\ (~likely_halt(tape) \/ look.age > 900)

elite_reclaim_context(tape, setup) ==
  /\ \/ setup_tier_a_plus(setup.pattern)
     \/ setup.tier \in {"a_plus_reclaim_scout", "a_plus_retry_watch", "deep_runner_scout", "level_scout"}
  /\ setup.pattern \in ReclaimPatterns
  /\ Newest(tape).c \in 1000..20000
  /\ Total(tape) >= 2000 /\ Average(Final(tape, 5)) >= 50 /\ Newest(tape).v >= 20

\* The newest bar holds above the VWAP of the last five bars and reclaims.
recent_reclaim_ok(tape) ==
  LET recent == Final(tape, 5)
      last == Newest(tape)
      near == Vwap(recent)
  IN  /\ near > 0 /\ last.c * 1000 >= near * 1003
      /\ \/ Green(last)
         \/ last.c * 1000 >= recent[Len(recent) - 1].c * 1006
         \/ last.c * 1000 >= Top(Before(recent)) * 995

\* The elite exception to the session VWAP and to the dead cat bounce.
deep_reclaim_ok(tape, setup) ==
  /\ elite_reclaim_context(tape, setup) /\ recent_reclaim_ok(tape)
  /\ WithinTop(Newest(tape).c, Top(tape), 5500)
below_vwap(tape) ==
  LET vwap == Vwap(tape) IN vwap > 0 /\ Newest(tape).c * 1000 < vwap * 995
dead_cat(tape) == Len(tape) >= 5 /\ ~WithinTop(Newest(tape).c, Top(tape), 2000)

hot_low_float_runner(tape, look) ==
  /\ Above(Newest(tape).c, tape[1].o, 3) /\ Newest(tape).c < 10000
  /\ Total(tape) >= 2000 /\ Average(Final(tape, 5)) >= 75
  /\ AtLeast(Rvol(tape), DailyRvol(tape, look.daily)) >= 3000
  /\ look.float <= 10
too_quiet(tape, look, minChange) ==
  ~Above(Newest(tape).c, tape[1].o, minChange) /\ ~hot_low_float_runner(tape, look)

sub5_momentum(tape, look) ==
  /\ Newest(tape).c < 5000 /\ Total(tape) >= 200 /\ Average(Final(tape, 5)) >= 20
  /\ AtLeast(Rvol(tape), DailyRvol(tape, look.daily)) >= 1800
low_day_volume(tape) ==
  LET price == Newest(tape).c
      day == Total(tape)
  IN  (price >= 20000 /\ day < 1000) \/ (price \in 10000..19999 /\ day < 500)
thin_sub5(tape, look) ==
  Newest(tape).c < 5000 /\ Total(tape) < 500 /\ ~sub5_momentum(tape, look)
weak_active_tape(tape) ==
  Newest(tape).c >= 5000 /\ Newest(tape).v < 20 /\ Average(Final(tape, 5)) < 25

thin_score(tape, look) ==
  LET score == LiquidityScore(tape, look)
  IN  Newest(tape).c < 5000 /\ score < 65 /\ ~(sub5_momentum(tape, look) /\ score >= 55)

(* Sellers hit the bid, but a cheap elite runner holds near its high above VWAP. *)
selling(look) == look.flow <= -30
elite_sub2_reclaim(tape, look, setup) ==
  /\ selling(look) /\ look.flow > -60
  /\ Newest(tape).c \in 1500..1999
  /\ setup.pattern \in {"abc_continuation", "vwap_pullback", "pullback_base", "hod_reclaim"}
  /\ Total(tape) >= 2000 /\ Average(Final(tape, 5)) >= 50 /\ Newest(tape).v >= 25
  /\ Vwap(tape) > 0 /\ Above(Newest(tape).c, Vwap(tape), 2)
  /\ WithinTop(Newest(tape).c, Top(tape), 1200)
  /\ look.float <= 10

-----------------------------------------------------------------------------
MomentumQuality(tape) ==
  LET recent == Final(tape, 5)
      n == Len(recent)
      mid == n \div 2
      rising == {i \in 2..n : \A j \in i..n : recent[j].c > recent[j - 1].c}
      streak == Cardinality(rising)
      start == (Greens(recent) * 30) \div n + AtMost(25, streak * 8)
      base == IF streak < 2 THEN AtMost(start, 35) ELSE start
      late == recent[n].c - recent[mid + 1].c
      faster == late * recent[1].c > (recent[mid].c - recent[1].c) * recent[mid + 1].c
      last == recent[n]
  IN  IF n < 3 THEN 0
      ELSE base + (IF late <= 0 THEN 0 ELSE IF faster THEN 25 ELSE 12)
                + (IF last.h > last.l THEN ((last.c - last.l) * 20) \div (last.h - last.l) ELSE 0)

VolumeExhaustion(tape) ==
  LET recent == Final(tape, 5)
      n == Len(recent)
      fading == {i \in 2..n : \A j \in i..n : Green(recent[j]) /\ recent[j].v < recent[j - 1].v}
  IN  Graded(Cardinality(fading), {<<0, 0>>, <<2, -10>>, <<3, -20>>, <<4, -30>>}, 0)

SurgeScore(tape) ==
  LET n == Len(tape)
      recent == Average(Final(tape, IF n >= 5 THEN 5 ELSE 3))
  IN  IF n >= 10
      THEN AtLeast(Graded(Rvol(tape), {<<2000, 15>>, <<1500, 10>>, <<1000, 5>>}, 0),
                   Graded(recent, {<<50, 15>>, <<30, 10>>, <<10, 5>>}, 0))
      ELSE IF n >= 5 THEN Graded(recent, {<<30, 15>>, <<10, 10>>}, 5)
      ELSE Graded(recent, {<<10, 10>>}, 3)

FadeScore(tape) ==
  LET off(bp) == WithinTop(Newest(tape).c, Top(Final(tape, 10)), bp)
  IN  IF Len(tape) < 5 THEN 5
      ELSE IF off(200) THEN 15 ELSE IF off(500) THEN 10 ELSE IF off(800) THEN 5 ELSE 0

CandleScore(b) ==
  LET body == Distance(b.c, b.o) * 100
      range == b.h - b.l
  IN  IF range = 0 THEN 3
      ELSE IF b.c >= b.o /\ body >= 50 * range THEN 10
      ELSE IF b.c >= b.o /\ body >= 30 * range THEN 7
      ELSE IF body >= 15 * range THEN 4 ELSE 0

TrendScore(five) ==
  LET recent == SubSeq(five, Len(five) - 2, Len(five))
      greens == Cardinality({i \in 1..3 : recent[i].c >= recent[i].o})
  IN  IF five = <<>> THEN 5
      ELSE IF Len(five) < 3 THEN (IF five[Len(five)].c >= five[Len(five)].o THEN 6 ELSE 2)
      ELSE IF recent[3].c > recent[1].c /\ greens >= 2 THEN 10
      ELSE IF recent[3].c >= recent[1].c \/ greens >= 2 THEN 6
      ELSE IF greens >= 1 THEN 3 ELSE 0

RvolPenalty(tape) ==
  LET rvol == Rvol(tape)
  IN  IF Len(tape) < 10 \/ rvol = 0 THEN 0
      ELSE Graded(rvol, {<<0, -25>>, <<500, -20>>, <<1000, -5>>, <<2000, 0>>}, 0)

DayScore(tape) ==
  LET up == ((Newest(tape).c - tape[1].o) * 1000) \div tape[1].o
  IN  Graded(up, {<<100, 20>>, <<50, 15>>, <<30, 10>>, <<15, 5>>}, 0)

RuleScore(tape, look) ==
  DayScore(tape)
  + Graded(Total(tape), {<<500, 15>>, <<200, 10>>, <<100, 5>>}, 0)
  + SurgeScore(tape)
  + Graded(MomentumQuality(tape), {<<70, 15>>, <<50, 10>>, <<30, 5>>}, 0)
  + FadeScore(tape) + CandleScore(Newest(tape)) + TrendScore(look.five)
  + VolumeExhaustion(tape) + RvolPenalty(tape)

\* A reduced-size scout may pass five points below the threshold.
vwap_reclaim_scout_score_ok(tape, setup, score) ==
  /\ setup.tier = "vwap_reclaim_scout" /\ setup.pattern = "vwap_pullback"
  /\ score >= 75 /\ Len(tape) >= 10 /\ Rvol(tape) >= 750
  /\ Newest(tape).v >= 40 /\ Average(Final(tape, 5)) >= 50

ScoreOk(tape, look, setup) ==
  LET score == RuleScore(tape, look)
  IN  \/ score >= ScoreThreshold
      \/ elite_sub2_reclaim(tape, look, setup) /\ score >= 50
      \/ vwap_reclaim_scout_score_ok(tape, setup, score)

outside_range(tape) == Newest(tape).c \notin 1500..20000
\* The reasons to refuse, in the guard's order.
QualityChecks(tape, look, setup, minChange) ==
  <<<<"outside range", outside_range(tape)>>,
    <<"float too large", MaxFloat > 0 /\ look.float > MaxFloat>>,
    <<"stale data", Stale(tape, look)>>,
    <<"below vwap", below_vwap(tape) /\ ~deep_reclaim_ok(tape, setup)>>,
    <<"dead cat bounce", dead_cat(tape) /\ ~deep_reclaim_ok(tape, setup)>>,
    <<"not enough movement", too_quiet(tape, look, minChange)>>,
    <<"low day volume", Total(tape) < 100>>,
    <<"thin sub-$5 liquidity", thin_sub5(tape, look)>>,
    <<"low day volume", low_day_volume(tape)>>,
    <<"weak active tape", weak_active_tape(tape)>>,
    <<"spread too wide", look.quotes >= 3 /\ ~assess_opportunity_scaled_spread(tape, look, setup).ok>>,
    <<"thin liquidity score", thin_score(tape, look)>>,
    <<"watch-only liquidity score", LiquidityScore(tape, look) < 50>>,
    <<"selling pressure", selling(look) /\ ~elite_sub2_reclaim(tape, look, setup)>>,
    <<"ml low confidence", look.veto>>,
    <<"entry score too low", ~ScoreOk(tape, look, setup)>> >>
(* The first of them; no reason is a pass. *)
check_entry_quality(tape, look, setup, minChange) ==
  IF Len(tape) < 3 THEN "insufficient bars"
  ELSE FirstOf(QualityChecks(tape, look, setup, minChange))
=============================================================================
