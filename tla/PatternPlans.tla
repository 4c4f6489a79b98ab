----------------------------- MODULE PatternPlans -----------------------------
(***************************************************************************)
(* The verifier of the one-minute patterns (strategy/scalping/              *)
(* momentum_pattern.py): the second look at a late pullback, the tape, the  *)
(* entry guard, the stop, the target and the size. On its way the verifier  *)
(* rewrites the hit's criteria: the tier that a later check or the sizing   *)
(* then reads.                                                              *)
(***************************************************************************)
EXTENDS PatternScanners, TLC

CONSTANTS
  MaxHod, MaxHodOther,  \* late_pullback_max_hod_pct, ..._other_pct, in basis points
  FreshScouts,          \* fresh_vwap_reclaim_scout_enabled
  ReclaimScouts,        \* vwap_reclaim_scout_enabled
  DollarRisk            \* pattern_max_dollar_risk

ASSUME PlansAssumption ==
  /\ MaxHod \in Nat /\ MaxHodOther \in Nat /\ DollarRisk \in Nat \ {0}
  /\ FreshScouts \in BOOLEAN /\ ReclaimScouts \in BOOLEAN

\* The verifier's answer: why it refuses, and the hit as it leaves it.
Passes(hit) == [why |-> "", hit |-> hit]
Refuses(why, hit) == [why |-> why, hit |-> hit]

DayMove(tape) == Pct(Top(tape), tape[1].o)
OffTop(tape) == Drop(Top(tape), Newest(tape).c)
BodyOf(b) == IF b.h > b.l THEN ((b.c - b.o) * 100) \div (b.h - b.l) ELSE 0
Progress(price, base) ==
  IF Top(base) > Bottom(base) THEN ((price - Bottom(base)) * 100) \div (Top(base) - Bottom(base))
  ELSE 100
TopClose(s) == CHOOSE c \in {s[i].c : i \in 1..Len(s)} : \A i \in 1..Len(s) : s[i].c <= c
Above1000(a, b, m) == a * 1000 >= b * m

-----------------------------------------------------------------------------
(* A scout while an elite runner is still reclaiming its base. *)
is_a_plus_reclaim_in_progress(tape, hit) ==
  LET last == Newest(tape)
      base == Base(tape, 3)
      room == IF hit.pattern = "pullback_base" THEN 1800 ELSE IF last.v >= 500 THEN 4000 ELSE 2000
  IN  /\ Green(last) /\ hit.score >= 8000 /\ DayMove(tape) >= 8000
      /\ OffTop(tape) \in 1200..3200
      /\ Total(tape) >= 1000 /\ RecentVolume(tape) >= 120
      /\ last.v >= (IF last.c >= 5000 THEN 7 ELSE 40)
      /\ Vwap(tape) > 0 /\ Above1000(last.c, Vwap(tape), 1005)
      /\ Pct(Top(base), Bottom(base)) <= room
      /\ Above1000(last.l, Bottom(base), 985)
      /\ Progress(last.c, base) >= (IF hit.pattern = "pullback_base" THEN 30 ELSE 55)
      /\ \/ Above1000(last.c, TopClose(base), 995)
         \/ last.c * 1000 > Newest(Before(tape)).c * 1006

is_a_plus_deep_runner_reclaim(tape, hit) ==
  LET last == Newest(tape)
      base == Base(tape, 3)
  IN  /\ Green(last) /\ hit.score >= 8000 /\ DayMove(tape) >= 10000
      /\ OffTop(tape) \in 2201..4500
      /\ Total(tape) >= 1000 /\ RecentVolume(tape) >= 100 /\ last.v >= 15
      /\ Vwap(tape) > 0 /\ Above1000(last.c, Vwap(tape), 1015)
      /\ Pct(Top(base), Bottom(base)) <= 2200
      /\ last.c * 1000 > TopClose(base) * 1008 /\ Above1000(last.l, Bottom(base), 985)
      /\ Progress(last.c, base) >= 55

(* The tier a late pullback earns by a fresh reclaim, if any. *)
is_fresh_late_reclaim(tape, hit) ==
  LET last == Newest(tape)
      move == DayMove(tape)
      recent == RecentVolume(tape)
      elite == hit.pattern = "vwap_pullback" /\ hit.score >= 8000 /\ move >= 8000 /\ recent >= 250
      reach == IF elite THEN 2200 ELSE IF hit.pattern = "pullback_base" THEN 1800 ELSE 1600
      base == Base(tape, IF elite THEN 3 ELSE 4)
      room == IF elite THEN 1200 ELSE AtMost(800, 400 + move \div 20)
      vwap == Vwap(tape)
      near == Base(tape, 3)
      alive == /\ Green(last) /\ BodyOf(last) >= 40 /\ recent >= 75
               /\ last.v * Len(base) * 100 >= 110 * Total(base)
               /\ vwap > 0 /\ Above(last.c, vwap, 1)
      broke == /\ Pct(Top(base), Bottom(base)) <= room
               /\ last.c * 1000 > Top(base) * 1002 /\ last.l >= Bottom(base)
      massive == /\ hit.pattern = "pullback_base" /\ move >= 8000 /\ OffTop(tape) <= 1250
                 /\ Above1000(Bottom(Final(tape, 3)), vwap, 985)
                 /\ last.c * 1000 > Newest(Before(tape)).c * 1008 /\ last.l >= Newest(Before(tape)).l
                 /\ Pct(Top(near), Bottom(near)) <= 1100 /\ recent >= 150
  IN  IF move < 2500 THEN "none"
      ELSE IF OffTop(tape) > reach
      THEN IF is_a_plus_deep_runner_reclaim(tape, hit) THEN "deep_runner_scout"
           ELSE IF is_a_plus_reclaim_in_progress(tape, hit) THEN "a_plus_reclaim_scout" ELSE "none"
      ELSE IF ~alive THEN "none"
      ELSE IF broke THEN "a_plus_retry_watch"
      ELSE IF is_a_plus_reclaim_in_progress(tape, hit) THEN "a_plus_reclaim_scout"
      ELSE IF massive THEN "a_plus_retry_watch" ELSE "none"

is_hot_gapper_pullback(tape, float) ==
  LET price == Newest(tape).c
  IN  /\ DayMove(tape) >= 1200 /\ float <= 10 /\ price \in 1500..20000
      /\ OffTop(tape) \in 300..800
      /\ Total(tape) >= 2000 /\ Average(Final(tape, 5)) >= 75 /\ Rvol(tape) >= 1500
scoutable_mid_move(tape, hit) ==
  DayMove(tape) >= 1500 /\ OffTop(tape) <= 800 /\ hit.score >= 6000 /\ Newest(tape).v > 0

-----------------------------------------------------------------------------
(* The red bars of a pullback against the impulse before them: the ratio of their
   volumes in hundredths, the heaviest one's body and range. *)
Pullback(tape) == Base(tape, 4)
Impulse(tape) ==
  LET from == Len(tape) - 4
      red == CHOOSE i \in from..Len(tape) - 1 :
               Red(tape[i]) /\ \A j \in from..i - 1 : ~Red(tape[j])
      run == SubSeq(tape, AtLeast(1, red - 5), red - 1)
      greens == SelectSeq(run, Green)
      louder(a, b) == a.v > b.v
      loud == SortSeq(IF greens = <<>> THEN run ELSE greens, louder)
  IN  SubSeq(loud, 1, AtMost(2, Len(loud)))
RedRatio(reds, impulse) ==
  (Total(reds) * Len(impulse) * 100) \div (Len(reds) * Total(impulse))
Heaviest(reds) ==
  reds[CHOOSE i \in 1..Len(reds) :
         /\ \A j \in 1..Len(reds) : reds[j].v <= reds[i].v
         /\ \A j \in 1..i - 1 : reds[j].v < reds[i].v]
RedBody(b) == Drop(b.o, b.c)
RedRange(b) == ((b.h - b.l) * 10000) \div b.o

allows_elite_runner_mild_red_pullback(tape, hit, ratio, red) ==
  LET last == Newest(tape)
  IN  /\ ratio \in 110..135 /\ RedBody(red) < 350 /\ RedRange(red) < 800
      /\ DayMove(tape) >= 8000 /\ OffTop(tape) <= 800
      /\ Total(tape) >= 2000 /\ RecentVolume(tape) >= 150 /\ hit.score >= 8000
      /\ Vwap(tape) > 0 /\ Above(last.c, Vwap(tape), 1)
      /\ Above1000(last.l, Bottom(Pullback(tape)), 985)

allows_elite_runner_aggressive_reclaim(tape, hit, ratio, red) ==
  LET last == Newest(tape)
      base == Base(tape, 3)
  IN  /\ ratio \in 136..225 /\ RedBody(red) < 350 /\ RedRange(red) < 800
      /\ DayMove(tape) >= 10000 /\ OffTop(tape) <= 400
      /\ Total(tape) >= 5000 /\ RecentVolume(tape) >= 500 /\ hit.score >= 10000
      /\ Vwap(tape) > 0 /\ Above(last.c, Vwap(tape), 3)
      /\ Pct(Top(base), Bottom(base)) <= 1200
      /\ last.c * 1000 > Top(base) * 1002 /\ Above1000(last.l, Bottom(base), 985)

allows_a_plus_dump_reclaim_scout(tape, hit, red) ==
  LET last == Newest(tape)
      base == Base(tape, 3)
  IN  /\ hit.tier = "a_plus_reclaim_scout" /\ RedBody(red) <= 800 /\ RedRange(red) <= 1400
      /\ DayMove(tape) >= 10000 /\ OffTop(tape) <= 3200
      /\ Total(tape) >= 2000 /\ RecentVolume(tape) >= 250 /\ last.v >= 75
      /\ Vwap(tape) > 0 /\ Above(last.c, Vwap(tape), 1)
      /\ Top(base) > Bottom(base) /\ Progress(last.c, base) >= 70
      /\ Above1000(last.l, Bottom(base), 985)

allows_fresh_vwap_reclaim_scout(tape, float, red) ==
  LET last == Newest(tape)
      base == Base(tape, 3)
      vwap == Vwap(tape)
      before == Total(SubSeq(tape, Len(tape) - 5, Len(tape) - 3))
  IN  /\ float <= 20 /\ RedBody(red) <= 800 /\ RedRange(red) <= 1400
      /\ vwap > 0 /\ last.c >= vwap
      /\ Top(base) > Bottom(base) /\ Above1000(Bottom(base), vwap, 990)
      /\ Progress(last.c, base) >= 70 /\ Above1000(last.l, Bottom(base), 990)
      /\ RecentVolume(tape) >= 250 /\ last.v >= 75 /\ RecentVolume(tape) >= before

StrongDespite(tape, hit) ==
  /\ hit.tier = "a_plus_reclaim_scout" /\ DayMove(tape) >= 10000
  /\ Total(tape) >= 1000 /\ RecentVolume(tape) >= 100

(* Heavy selling in the pullback, unless an elite exception or a scout takes it. *)
pullback_structure_reject(tape, was, float) ==
  LET last == Newest(tape)
      reds == SelectSeq(Pullback(tape), Red)
      impulse == Impulse(tape)
      ratio == RedRatio(reds, impulse)
      red == Heaviest(reds)
      mild == allows_elite_runner_mild_red_pullback(tape, was, ratio, red)
      fierce == allows_elite_runner_aggressive_reclaim(tape, was, ratio, red)
      hit == IF fierce /\ was.tier = "" THEN [was EXCEPT !.tier = "a_plus_retry_watch"] ELSE was
      base == Base(tape, 3)
      dump == /\ RedBody(red) >= 350 \/ RedRange(red) >= 600
              /\ red.v * Len(impulse) * 100 >= 75 * Total(impulse)
      scout == [hit EXCEPT !.tier = "fresh_vwap_reclaim_scout", !.baseLow = Bottom(base),
                           !.stop = Bottom(base) - 20]
  IN  IF ~Green(last) THEN Refuses("reclaim candle not green", hit)
      ELSE IF reds = <<>> \/ Total(impulse) = 0 THEN Passes(was)
      ELSE IF ratio >= 110 /\ ~mild /\ ~fierce THEN Refuses("red volume too heavy", hit)
      ELSE IF dump
      THEN IF allows_a_plus_dump_reclaim_scout(tape, hit, red) THEN Passes(hit)
           ELSE IF FreshScouts /\ allows_fresh_vwap_reclaim_scout(tape, float, red) THEN Passes(scout)
           ELSE Refuses("dump candle", hit)
      ELSE IF last.v * Len(reds) * 100 < 80 * Total(reds) /\ ~StrongDespite(tape, hit)
      THEN Refuses("reclaim volume weak", hit)
      ELSE Passes(hit)

late_pullback_reject(tape, hit, float) ==
  LET last == Newest(tape)
      late == OffTop(tape) > IF hit.pattern = "vwap_pullback" THEN MaxHod ELSE MaxHodOther
      fresh == is_fresh_late_reclaim(tape, [hit EXCEPT !.tier = ""])
      small == hit.pattern = "pullback_base" /\ DayMove(tape) < 2000
      mid == scoutable_mid_move(tape, hit)
      hot == is_hot_gapper_pullback(tape, float)
      named == IF small THEN (IF mid THEN "pullback_scout" ELSE "") ELSE IF late THEN fresh ELSE ""
      answer == pullback_structure_reject(tape, [hit EXCEPT !.tier = named], float)
      rest == Earlier(tape, 3)
      vwap == Vwap(tape)
  IN  IF late /\ fresh = "none" THEN Refuses("too far from HOD", [hit EXCEPT !.tier = ""])
      ELSE IF small /\ ~mid /\ ~hot
      THEN Refuses("pullback base move too small", [hit EXCEPT !.tier = IF late THEN fresh ELSE ""])
      ELSE IF answer.why # "" THEN answer
      ELSE IF vwap > 0 /\ ~Above(last.c, vwap, 1) THEN Refuses("not strong above VWAP", answer.hit)
      ELSE IF RecentVolume(tape) < 75 THEN Refuses("tape too slow", answer.hit)
      ELSE IF RecentVolume(tape) * Len(rest) * 10 < 18 * Total(rest) /\ ~late
      THEN Refuses("volume faded", answer.hit)
      ELSE answer

-----------------------------------------------------------------------------
(* The tape each pattern needs. *)
pattern_active_tape_reject(tape, hit) ==
  LET last == Newest(tape)
      recent == RecentVolume(tape)
      quiet(sum, one) == recent < sum /\ last.v < one
      base == IF DayMove(tape) >= 8000 THEN Base(tape, 3) ELSE Base(tape, 5)
      weak == last.v * Len(base) * 100 < 70 * Total(base)
      excused == hit.pattern = "pullback_base" /\ weak /\ StrongDespite(tape, hit)
  IN  FirstOf(<<
        <<"breakout already extended", hit.pattern = "level_breakout_reclaim" /\ last.c * 1000 > hit.level * 1025>>,
        <<"breakout volume too light", hit.pattern = "level_breakout_reclaim" /\ last.v < 100>>,
        <<"tape too slow", hit.pattern = "shallow_stair_continuation" /\ recent < 150>>,
        <<"lost mini-level", hit.pattern = "shallow_stair_continuation" /\ last.c * 1000 <= hit.baseHigh * 1002>>,
        <<"tape too slow", hit.pattern = "early_vwap_reclaim_scout" /\ quiet(60, 25)>>,
        <<"not holding above VWAP", hit.pattern = "early_vwap_reclaim_scout" /\ last.c * 1000 < hit.vwap * 1003>>,
        <<"tape too slow", hit.pattern \in {"abc_continuation", "first_pullback_reclaim"} /\ quiet(60, 25)>>,
        <<"tape too light", hit.pattern = "hod_reclaim" /\ quiet(100, 50)>>,
        <<"reclaim volume weak", hit.pattern = "pullback_base" /\ weak /\ ~StrongDespite(tape, hit)>>,
        <<"active tape too thin", ~excused /\ last.c >= 5000 /\ recent < 60 /\ last.v < 20>> >>)

(* A score just too low: with the flag, a VWAP reclaim is scored again as a scout. *)
allows_near_miss_vwap_reclaim_scout(tape) ==
  LET last == Newest(tape)
      base == Base(tape, 3)
  IN  /\ Len(tape) >= 10 /\ Green(last) /\ Vwap(tape) > 0 /\ Above1000(last.c, Vwap(tape), 1003)
      /\ DayMove(tape) >= 1000 /\ OffTop(tape) <= 800
      /\ Total(tape) >= 500 /\ RecentVolume(tape) >= 150 /\ last.v >= 40
      /\ Top(base) > Bottom(base) /\ last.c * 100 <= Top(base) * 103
NearMiss(tape, look, hit) ==
  LET base == Base(tape, 3)
  IN  [hit EXCEPT !.tier = "vwap_reclaim_scout", !.baseHigh = Top(base), !.baseLow = Bottom(base),
                  !.anchor = Top(base), !.vwap = Vwap(tape),
                  !.told = AtLeast(0, RuleScore(tape, look))]

SetupOf(hit, score) == [pattern |-> hit.pattern, tier |-> hit.tier, score |-> score]
Rescored(tape, look, again) ==
  Refuses(check_entry_quality(tape, look, SetupOf(again, 0), 5), again)
WhenScored(tape, look, hit, why) ==
  IF /\ why = "entry score too low" /\ ReclaimScouts /\ hit.pattern = "vwap_pullback"
     /\ allows_near_miss_vwap_reclaim_scout(tape)
  THEN Rescored(tape, look, NearMiss(tape, look, hit))
  ELSE Refuses(why, hit)
Guarded(tape, look, hit) ==
  WhenScored(tape, look, hit, check_entry_quality(tape, look, SetupOf(hit, 0), 5))

-----------------------------------------------------------------------------
(* The stop: where the pattern is invalidated, a tactical one when that is too wide. *)
PatternStop(hit) ==
  IF hit.pattern = "pullback_base" THEN hit.baseLow - 20
  ELSE IF hit.pattern = "abc_continuation" THEN hit.pullLow - 20
  ELSE hit.stop

is_hot_hod_reclaim(tape, hit) ==
  /\ hit.pattern = "hod_reclaim" /\ Drop(hit.hod, Newest(tape).c) <= 200
  /\ hit.rally >= 2000 /\ Newest(tape).v >= 100 /\ hit.score >= 5000
Risks(price, stop, least, most) ==
  (price - stop) * 10000 > least * price /\ (price - stop) * 10000 <= most * price
hot_hod_reclaim_stop(tape) ==
  LET price == Newest(tape).c
      stop == Bottom(Final(tape, 2)) - 20
  IN  IF Risks(price, stop, 50, 800) THEN stop ELSE Part(price, 94)

\* The stop of an exceptional ABC continuation, 0 when it is not one.
abc_scout_tactical_stop(tape, hit) ==
  LET last == Newest(tape)
      price == last.c
      sub2 == /\ price \in 1500..1999 /\ last.v >= 1000 /\ hit.surge >= 150
              /\ DayMove(tape) >= 8000 /\ OffTop(tape) <= 1200
      stop == AtLeast(AtMost(last.l, Part(price, 96)) - 20, Part(price, 94))
      noise == AtMost((last.h - last.l) * 60, 8 * price)
  IN  IF /\ hit.pattern = "abc_continuation" /\ last.v >= 500 /\ hit.surge >= 125
         /\ hit.retrace >= 2000 /\ hit.retrace <= (IF sub2 THEN 5500 ELSE 4500)
         /\ Green(last) /\ (last.h - last.l) * 100 <= 12 * price
         /\ BodyOf(last) >= (IF sub2 THEN 15 ELSE 30)
         /\ (price - stop) * 100 >= noise /\ Risks(price, stop, 50, 800)
      THEN stop ELSE 0

Stopped(tape, hit) ==
  LET price == Newest(tape).c
      stop == PatternStop(hit)
      most == IF (price - tape[1].o) * 100 > 30 * tape[1].o THEN 1500 ELSE 1000
      tight == Bottom(Final(tape, 3)) - 20
      hot == hot_hod_reclaim_stop(tape)
      abc == abc_scout_tactical_stop(tape, hit)
      placed(s) == [why |-> IF (price - s) * 1000 < 5 * price THEN "risk too tight" ELSE "",
                    hit |-> hit, stop |-> s]
      loose == [why |-> "risk too wide", hit |-> hit, stop |-> 0]
  IN  IF stop >= price THEN [loose EXCEPT !.why = "stop above entry"]
      ELSE IF Risks(price, stop, 0, most) THEN placed(stop)
      ELSE IF is_hot_hod_reclaim(tape, hit)
      THEN IF Risks(price, hot, 50, 800) THEN placed(hot) ELSE loose
      ELSE IF Risks(price, tight, 50, most) THEN placed(tight)
      ELSE IF abc > 0
      THEN [placed(abc) EXCEPT !.hit = [hit EXCEPT !.tier = "abc_scout", !.stop = abc]]
      ELSE loose

-----------------------------------------------------------------------------
(* The size: what the tier or the volume is worth, less for a spread exception. *)
ScoutFactors ==
  [t \in {"abc_scout", "pullback_scout", "a_plus_reclaim_scout", "deep_runner_scout",
          "fresh_vwap_reclaim_scout", "level_scout", "vwap_reclaim_scout", "stair_scout"} |->
     IF t = "vwap_reclaim_scout" THEN 30 ELSE IF t = "stair_scout" THEN 45 ELSE 35]
setup_quality_factor(tape, hit) ==
  LET recent == RecentVolume(tape)
      full == \/ /\ hit.pattern = "level_breakout_reclaim" /\ hit.score >= 2500
                 /\ Newest(tape).v >= 200
              \/ /\ hit.pattern \in {"vwap_pullback", "first_pullback_reclaim", "abc_continuation"}
                 /\ recent >= 150
              \/ hit.pattern \in {"hod_reclaim", "pullback_base"} /\ recent >= 200
  IN  IF hit.tier \in DOMAIN ScoutFactors THEN ScoutFactors[hit.tier]
      ELSE IF hit.pattern = "early_vwap_reclaim_scout" THEN 45
      ELSE IF full THEN 100 ELSE 70

SpreadOf(tape, look, hit) ==
  IF look.quotes > 0
  THEN assess_opportunity_scaled_spread(tape, look, SetupOf(hit, AtLeast(0, hit.score) \div 100))
  ELSE NoException
(* Fault: the spread exception does not reach the size. *)
SizedInFull(tape, look, hit, stop) ==
  LET factor == setup_quality_factor(tape, hit)
      price == Newest(tape).c
      risk == price - stop
  IN  [entry |-> price, stop |-> stop, target |-> price + 2 * risk, factor |-> factor,
       exception |-> SpreadOf(tape, look, hit).exception,
       qty |-> AtLeast(1, AtMost((DollarRisk * 10 * factor) \div risk, 2000))]
Sized(tape, look, hit, stop) ==
  LET spread == SpreadOf(tape, look, hit)
      quality == setup_quality_factor(tape, hit)
      factor == IF spread.exception THEN AtMost(quality, spread.factor) ELSE quality
      price == Newest(tape).c
      risk == price - stop
  IN  [entry |-> price, stop |-> stop, target |-> price + 2 * risk, factor |-> factor,
       exception |-> spread.exception,
       qty |-> AtLeast(1, AtMost((DollarRisk * 10 * factor) \div risk, 2000))]

NoSignal == [entry |-> 0, stop |-> 0, target |-> 0, factor |-> 0, exception |-> FALSE, qty |-> 0]

(* The verifier: a refusal, or the hit as rewritten and its signal. *)
Unsigned(answer) == [why |-> answer.why, hit |-> answer.hit, signal |-> NoSignal]
Signed(tape, look, stopped) ==
  IF stopped.why # "" THEN Unsigned(stopped)
  ELSE [why |-> "", hit |-> stopped.hit,
        signal |-> Sized(tape, look, stopped.hit, stopped.stop)]
WhenGuarded(tape, look, guarded) ==
  IF guarded.why # "" THEN Unsigned(guarded)
  ELSE Signed(tape, look, Stopped(tape, guarded.hit))
WhenActive(tape, look, hit, quiet) ==
  IF quiet # "" THEN Unsigned(Refuses(quiet, hit))
  ELSE WhenGuarded(tape, look, Guarded(tape, look, hit))
WhenEarly(tape, look, late) ==
  IF late.why # "" THEN Unsigned(late)
  ELSE WhenActive(tape, look, late.hit, pattern_active_tape_reject(tape, late.hit))
verify(tape, look, hit) ==
  WhenEarly(tape, look, IF hit.pattern \in {"vwap_pullback", "pullback_base"}
                        THEN late_pullback_reject(tape, hit, look.float) ELSE Passes(hit))
=============================================================================
