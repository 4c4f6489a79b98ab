---------------------------- MODULE WarriorLanes ----------------------------
(***************************************************************************)
(* The lanes of the Warrior playbook (strategy/warrior_lanes.py): what each *)
(* asks of the tape and the plan it makes, entry, stop and target. Twelve   *)
(* lanes are variations of one reclaim, told apart by the row of numbers    *)
(* each one gives to Reclaim and by what else it asks; eleven have a shape  *)
(* of their own. Playbook is the order in which the trend lanes are asked.  *)
(***************************************************************************)
EXTENDS WarriorTape

Triggers ==
  {"failed_spike_vwap", "failed_spike_scalp", "first_impulse", "stair_step",
   "low_price_proof", "early_10s", "second_leg_vwap", "first_pullback",
   "parabolic", "high_base", "smooth_10s", "smooth_hod", "trend_pullback",
   "prior_runner", "post_target", "fresh_continuation", "second_leg",
   "failed_recovery", "halt_resume", "level_break", "clwt", "level_pullaway",
   "equal_high", "curl"}
NoPlan == [trig |-> "none", pay |-> 0, entry |-> 0, stop |-> 0, target |-> 0]
Plan(trig, pay, entry, risk, rr) ==
  [trig |-> trig, pay |-> pay, entry |-> entry, stop |-> entry - risk,
   target |-> entry + Times(risk, rr)]

(* A red bar that counts as distribution: body and range at least so wide, close
   at most so high in the range, volume at least a share of the reference. *)
Dumps(b, body, width, loc, volume) ==
  Red(b) /\ Body(b) >= body /\ Width(b) >= width /\ Loc(b) <= loc /\ b.v >= volume
AnyDump(s, body, width, loc, volume) ==
  \E i \in 1..Len(s) : Dumps(s[i], body, width, loc, volume)

\* recent_wide_red_fakeout
WideRedFakeout(tape) ==
  LET prior == Before(tape)
  IN  /\ Len(tape) >= 4
      /\ \E i \in AtLeast(1, Len(prior) - 3)..Len(prior) :
           Dumps(prior[i], 451, 1201, 3499,
                 AtLeast(1, Times(Average(SubSeq(prior, AtLeast(1, i - 3), i - 1)), 12000)))

\* warrior_recent_rejection_high
RejectionHigh(tape) ==
  LET bars == Final(tape, 6)
      n == Newest(tape)
      dump(b) == Dumps(b, 750, 950, 1800, 20)
      f[i \in 0..Len(bars) - 1] ==
        IF i = 0 THEN 0
        ELSE LET b == bars[i]
             IN  IF dump(b) \/ (/\ f[i - 1] > 0 /\ Loc(b) <= 1800 /\ Width(b) >= 550
                                /\ b.h >= Times(f[i - 1], 10400) /\ b.v >= 30)
                 THEN AtLeast(f[i - 1], b.h) ELSE f[i - 1]
      high == f[Len(bars) - 1]
  IN  IF Len(bars) < 3 THEN 0
      ELSE IF /\ n.h >= Times(high, 10020) /\ n.c >= Times(high, 9950)
              /\ Loc(n) >= 5500
           THEN 0 ELSE high

-----------------------------------------------------------------------------
(* The twelve reclaims. A row names the tape's window and least length, the
   price range, the runner the pullback is measured from, the length of the
   base, the bounds on pullback and base, what the newest bar must reclaim, the
   volumes, the red bars it will not follow and how the plan is made. *)
Usual ==
  [window |-> 30, least |-> 12, lo |-> 0, hi |-> 1000000, runner |-> "prior",
   base |-> 9, pull |-> <<0, 10000>>, wide |-> 100000, up |-> 10000, hold |-> 9950,
   span |-> 100000, cushion |-> 9950, body |-> 650, width |-> 0, redLoc |-> 10000,
   redFloor |-> 0, back |-> 4, spare |-> 0, pay |-> 10250, ema |-> 0,
   refuse |-> 100000, cap |-> 100000]

\* A lane gives its own numbers, the others are the usual ones.
Row(own) ==
  [f \in DOMAIN Usual \cup DOMAIN own |-> IF f \in DOMAIN own THEN own[f] ELSE Usual[f]]

TrendPullback == Row(
  [trig |-> "trend_pullback", least |-> 10, base |-> 6, pull |-> <<250, 2200>>,
   wide |-> 1600, loc |-> 5600, vwap |-> 9800, under |-> 8800, vol |-> <<75, 8000>>,
   recent |-> <<180, 13500>>, body |-> 551, redVol |-> 13000, anchor |-> 9600,
   ema |-> 9400, slack |-> <<40, 40>>, risk |-> <<150, 80>>, refuse |-> 950,
   rr |-> 17000])
FirstPullback == Row(
  [trig |-> "first_pullback", window |-> 24, least |-> 10, lo |-> 2500, hi |-> 3500,
   runner |-> "high", base |-> 6, pull |-> <<450, 3200>>, wide |-> 2200, loc |-> 5800,
   span |-> 1600, vwap |-> 9900, under |-> 8800, vol |-> <<55, 7500>>,
   recent |-> <<150, 12500>>, body |-> 651, redVol |-> 12500, back |-> 5,
   anchor |-> 9400, ema |-> 9400, slack |-> <<25, 60>>, risk |-> <<220, 70>>,
   cap |-> 580, rr |-> 13500])
SecondLegVwap == Row(
  [trig |-> "second_leg_vwap", window |-> 90, least |-> 24, lo |-> 2500, hi |-> 4250,
   runner |-> "high", pull |-> <<1000, 3400>>, wide |-> 1600, loc |-> 5400,
   span |-> 1100, vwap |-> 9850, under |-> 9000, vol |-> <<60, 8500>>,
   recent |-> <<180, 12500>>, body |-> 601, width |-> 801, redVol |-> 12000,
   back |-> 5, anchor |-> 9400, ema |-> 9400, slack |-> <<30, 50>>,
   risk |-> <<200, 80>>, cap |-> 580, rr |-> 14500])
HighBase == Row(
  [trig |-> "high_base", runner |-> "high", pull |-> <<600, 2400>>, wide |-> 2300,
   hold |-> 9850, loc |-> 7200, vwap |-> 9900, under |-> 8600, vol |-> <<140, 25000>>,
   recent |-> <<300, 16500>>, body |-> 651, redLoc |-> 4499, redVol |-> 11500,
   back |-> 5, spare |-> 1, pay |-> 10450, anchor |-> 9550, slack |-> <<50, 50>>,
   risk |-> <<200, 120>>, cap |-> 590, rr |-> 10000])
StairStep == Row(
  [trig |-> "stair_step", base |-> 7, pull |-> <<250, 1600>>, wide |-> 1050,
   loc |-> 5400, vwap |-> 10150, under |-> 9400, vol |-> <<30, 6500>>,
   recent |-> <<100, 11500>>, body |-> 651, redVol |-> 13500, pay |-> 10350,
   anchor |-> 9650, slack |-> <<30, 35>>, risk |-> <<180, 100>>, cap |-> 590,
   rr |-> 18000])
Smooth10s == Row(
  [trig |-> "smooth_10s", window |-> 32, lo |-> 3500, hi |-> 12500,
   pull |-> <<800, 3400>>, wide |-> 1800, hold |-> 9850, loc |-> 5800, span |-> 1050,
   vwap |-> 10100, under |-> 9000, vol |-> <<22, 7000>>, recent |-> <<75, 10500>>,
   body |-> 700, width |-> 950, redLoc |-> 3800, redVol |-> 11500, back |-> 5,
   spare |-> 1, pay |-> 10320, anchor |-> 9400, slack |-> <<40, 40>>,
   risk |-> <<180, 100>>, cap |-> 580, rr |-> 14500])
Parabolic == Row(
  [trig |-> "parabolic", window |-> 36, least |-> 14, lo |-> 5000, hi |-> 24000,
   runner |-> "local", base |-> 5, pull |-> <<250, 2200>>, wide |-> 1600,
   hold |-> 9850, loc |-> 5000, span |-> 1400, vwap |-> 10150, under |-> 9200,
   vol |-> <<25, 5000>>, recent |-> <<90, 9000>>, body |-> 800, width |-> 1050,
   redLoc |-> 3400, redFloor |-> 35, redVol |-> 10500, back |-> 6, spare |-> 1,
   pay |-> 10300, anchor |-> 9550, slack |-> <<50, 45>>, risk |-> <<180, 120>>,
   cap |-> 550, rr |-> 12500])
SmoothHod == Row(
  [trig |-> "smooth_hod", least |-> 14, lo |-> 3000, hi |-> 7250, runner |-> "hod",
   base |-> 8, wide |-> 1150, up |-> 0, loc |-> 5800, span |-> 850, vwap |-> 10100,
   under |-> 9600, vol |-> <<45, 7000>>, recent |-> <<150, 13500>>, body |-> 451,
   width |-> 551, redVol |-> 12500, anchor |-> 9750, slack |-> <<25, 30>>,
   risk |-> <<160, 80>>, cap |-> 580, rr |-> 13500])
FailedSpikeVwap == Row(
  [trig |-> "failed_spike_vwap", window |-> 42, least |-> 16, lo |-> 4000,
   hi |-> 18000, runner |-> "high", wide |-> 1450, up |-> 10020, loc |-> 6200,
   span |-> 1150, vwap |-> 10050, under |-> 9000, vol |-> <<35, 11000>>,
   recent |-> <<120, 22500>>, width |-> 900, redLoc |-> 3500, redVol |-> 11500,
   pay |-> 10350, anchor |-> 9400, slack |-> <<50, 50>>, risk |-> <<200, 120>>,
   cap |-> 600, rr |-> 15500])
PriorRunner == Row(
  [trig |-> "prior_runner", window |-> 36, base |-> 6, pull |-> <<600, 2800>>,
   wide |-> 1400, loc |-> 5800, vwap |-> 9800, under |-> 8800, vol |-> <<100, 8500>>,
   recent |-> <<250, 17500>>, body |-> 701, redVol |-> 12000, back |-> 3,
   anchor |-> 0, slack |-> <<40, 40>>, risk |-> <<150, 80>>, refuse |-> 900,
   cap |-> 590, rr |-> 15000])
PostTarget == Row(
  [trig |-> "post_target", window |-> 28, least |-> 14, lo |-> 3500, hi |-> 12500,
   base |-> 7, pull |-> <<600, 3600>>, wide |-> 1150, up |-> 9950, hold |-> 0,
   loc |-> 5500, span |-> 800, vwap |-> 9800, under |-> 9000, vol |-> <<35, 7500>>,
   recent |-> <<140, 10500>>, body |-> 651, redVol |-> 12500, anchor |-> 9400,
   slack |-> <<35, 40>>, risk |-> <<180, 80>>, cap |-> 550, rr |-> 12500])
SecondLeg == Row(
  [trig |-> "second_leg", window |-> 100, least |-> 18, pull |-> <<2500, 6000>>,
   wide |-> 2200, loc |-> 5800, vwap |-> 0, under |-> 0, vol |-> <<75, 8000>>,
   recent |-> <<180, 17500>>, body |-> 701, redVol |-> 12500, back |-> 3,
   pay |-> 10400, anchor |-> 0, slack |-> <<40, 40>>, risk |-> <<180, 100>>,
   refuse |-> 1050, rr |-> 18000])

(* What the lanes read off the tape: the newest bar, the base under it, the high
   of the runner. *)
Reading(row, tape, high) ==
  LET bars == Final(tape, row.window)
      prior == Before(bars)
      base == Base(bars, row.base)
      n == Newest(bars)
      top == AtLeast(high, Top(prior))
  IN  [bars |-> bars, prior |-> prior, n |-> n, base |-> base,
       baseHigh |-> Top(base), baseLow |-> Bottom(base), low |-> Bottom(bars),
       vwap |-> Vwap(bars), ema |-> Ema(bars), baseVol |-> Average(base),
       runner |-> CASE row.runner = "prior" -> top
                    [] row.runner = "high" -> AtLeast(top, n.h)
                    [] row.runner = "local" -> Top(Base(bars, 16))
                    [] row.runner = "hod" -> AtLeast(high, Top(Base(bars, 18)))]

\* The part of the reclaim that all twelve ask for in their own numbers.
Between(x, y, bounds) == x * 10000 >= bounds[1] * y /\ x * 10000 <= bounds[2] * y
Reclaims(row, r) ==
  /\ Green(r.n) /\ r.n.c >= row.lo /\ r.n.c <= row.hi
  /\ Between(r.runner - r.baseLow, r.runner, row.pull) \/ row.pull = Usual.pull
  /\ (r.baseHigh - r.baseLow) * 10000 <= row.wide * r.n.c
  /\ r.n.h >= Times(r.baseHigh, row.up) /\ r.n.c >= Times(r.baseHigh, row.hold)
  /\ Loc(r.n) >= row.loc /\ Width(r.n) <= row.span
Supported(row, r) ==
  /\ r.n.c >= Times(r.vwap, row.vwap) /\ r.baseLow >= Times(r.vwap, row.under)
  /\ r.n.v >= AtLeast(row.vol[1], Times(r.baseVol, row.vol[2]))
  /\ Total(Final(r.bars, 3)) >= AtLeast(row.recent[1], Times(r.baseVol, row.recent[2]))
  /\ LET red == Base(r.bars, row.back)
     IN  Cardinality({i \in 1..Len(red) :
            Dumps(red[i], row.body, row.width, row.redLoc,
                  AtLeast(row.redFloor, Times(r.baseVol, row.redVol)))}) <= row.spare

\* Bars between the high of the earlier tape and the newest bar.
Since(s) == Len(s) - TopAt(s)

(* Cap and risk: pay no more than the level allows, stop under the support,
   within the risk the lane accepts. *)
Level(row, r) ==
  CASE row.trig = "smooth_hod" -> AtLeast(Top(Base(r.bars, 18)), r.baseHigh)
    [] row.trig = "second_leg" ->
         AtLeast(r.baseHigh, LET step == IF r.n.c < 10000 THEN 500 ELSE 1000
                             IN  (r.n.c \div step) * step)
    [] OTHER -> r.baseHigh
Anchor(row, r, level) ==
  LET mean == IF row.trig = "failed_spike_vwap"
              THEN Times(MeanClose(Final(r.bars, 6)), 9550) ELSE Times(r.ema, row.ema)
      held == IF row.trig = "second_leg" THEN Times(level, 9200)
              ELSE Times(r.vwap, row.anchor)
  IN  AtLeast(r.baseLow, AtLeast(held, mean))
Risk(row, r, level, entry) ==
  AtLeast(entry - Anchor(row, r, level) + AtLeast(row.slack[1], Times(entry, row.slack[2])),
          AtLeast(Times(entry, row.risk[1]), row.risk[2]))
(* Fault: the price is the close, whatever the cap. *)
ReclaimPlanUncapped(row, r) ==
  LET level == Level(row, r)
      risk == Risk(row, r, level, r.n.c)
  IN  IF r.n.l > Times(level, row.pay) \/ risk > Times(r.n.c, row.refuse) THEN NoPlan
      ELSE Plan(row.trig, Times(level, row.pay), r.n.c,
                AtMost(risk, Times(r.n.c, row.cap)), row.rr)
ReclaimPlan(row, r) ==
  LET level == Level(row, r)
      pay == Times(level, row.pay)
      entry == AtMost(r.n.c, pay)
      risk == Risk(row, r, level, entry)
  IN  IF r.n.l > pay \/ risk > Times(entry, row.refuse) THEN NoPlan
      ELSE Plan(row.trig, pay, entry, AtMost(risk, Times(entry, row.cap)), row.rr)

Reclaim(row, tape, high, Extra(_)) ==
  LET r == Reading(row, tape, high)
  IN  IF /\ Len(r.bars) >= row.least
         /\ Reclaims(row, r) /\ Supported(row, r) /\ Extra(r)
      THEN ReclaimPlan(row, r) ELSE NoPlan

-----------------------------------------------------------------------------
(* What each reclaim asks besides. *)
trend_pullback(tape, high) ==
  LET extra(r) == /\ r.runner >= AtLeast(4000, Times(r.n.c, 10250))
                  /\ \/ r.baseLow <= Times(AtLeast(r.vwap, r.ema), 10600)
                     \/ r.n.c <= Times(r.runner, 9650)
  IN  Reclaim(TrendPullback, tape, high, extra)

\* The base falls before it is reclaimed, and holds the moving average.
first_pullback(tape, high) ==
  LET extra(r) == /\ r.runner >= Times(r.low, 13500)
                  /\ BottomAt(r.base) > TopAt(r.base)
                  /\ r.n.c >= AtLeast(Times(r.vwap, 9900), Times(r.ema, 9850))
                  /\ ~AnyDump(Base(r.bars, 4), 351, 651, 10000, Times(r.baseVol, 9000))
  IN  Reclaim(FirstPullback, tape, high, extra)

second_leg_vwap(tape, high) ==
  LET extra(r) == /\ r.runner >= Times(r.low, 13000)
                  /\ Since(r.prior) >= 12
                  /\ r.n.c >= Times(r.ema, 9750)
  IN  Reclaim(SecondLegVwap, tape, high, extra)

high_base(tape, high) ==
  LET extra(r) ==
        LET last == Newest(r.prior)
        IN  /\ r.runner >= AtLeast(7000, Times(r.n.c, 9400))
            /\ Since(r.prior) >= 18
            /\ r.runner >= Times(Bottom(Before(r.prior)), 11800)
            /\ (r.baseHigh - r.baseLow) * 10000 >= 350 * r.n.c
            /\ r.baseLow >= Times(r.runner, 7200)
            /\ -Body(last) <= 600
  IN  Reclaim(HighBase, tape, high, extra)

stair_step(tape, high) ==
  LET extra(r) == /\ r.runner >= AtLeast(8000, Times(r.n.c, 9600))
                  /\ r.runner >= Times(Bottom(Before(r.prior)), 10800)
  IN  Reclaim(StairStep, tape, high, extra)

smooth_10s(tape, high) ==
  LET extra(r) == /\ r.runner >= Times(r.low, 14500)
                  /\ Since(r.prior) >= 4
                  /\ r.baseLow >= Times(r.low, 13500)
  IN  Reclaim(Smooth10s, tape, high, extra)

\* Volume returns on the reclaim, or the bar before it already ignited.
parabolic(tape, high) ==
  LET extra(r) ==
        LET last == Newest(r.prior)
            recent == Base(r.bars, 16)
        IN  /\ r.runner >= Times(Bottom(Final(tape, 60)), 16500)
            /\ Since(recent) \in 1..8
            /\ r.baseLow >= Times(r.runner, 7200)
            /\ \/ r.n.v >= Times(r.baseVol, 13500)
               \/ Green(last) /\ Loc(last) >= 8500 /\ last.v >= r.baseVol
  IN  Reclaim(Parabolic, tape, high, extra)

\* Three tries at the high of the day ask for more volume than any of them had.
smooth_hod(tape, high) ==
  LET extra(r) ==
        LET near == Base(r.bars, 8)
            tries == {i \in 1..Len(near) : /\ near[i].h >= Times(r.runner, 9600)
                                           /\ near[i].c < Times(r.runner, 9850)}
        IN  /\ r.runner >= Times(r.low, 11200)
            /\ r.baseLow >= Times(r.runner, 8600)
            /\ r.n.h >= Times(Top(Base(r.bars, 18)), 9980)
            /\ r.n.h < Times(r.runner, 9980) \/ r.n.c >= Times(r.runner, 9950)
            /\ Cardinality(tries) >= 3 =>
                 r.n.v >= 90 /\ \A i \in tries : r.n.v >= Times(near[i].v, 10500)
  IN  Reclaim(SmoothHod, tape, high, extra)

(* A spike that failed: wide, on volume, red or with a large body, and dumped
   within four bars. The highest one counts, the later of two. *)
FailedSpikes(r) ==
  {i \in 1..Len(r.prior) - 4 :
     LET b == r.prior[i]
     IN  /\ b.h >= Times(r.low, 13500) /\ Width(b) >= 650 /\ b.v >= 25
         /\ (Red(b) /\ Loc(b) <= 4500) \/ Body(b) >= 600 \/ -Body(b) >= 600
         /\ AnyDump(SubSeq(r.prior, i + 1, AtMost(Len(r.prior), i + 4)), 450, 700,
                    10000, AtLeast(20, Times(b.v, 5500)))}
failed_spike_vwap(tape, high) ==
  LET extra(r) ==
        /\ r.runner >= Times(r.low, 14500)
        /\ \E i \in FailedSpikes(r) :
             /\ \A j \in FailedSpikes(r) :
                  \/ r.prior[j].h < r.prior[i].h
                  \/ r.prior[j].h = r.prior[i].h /\ j <= i
             /\ Len(r.bars) - i >= 8
        /\ r.n.c >= Times(MeanClose(Final(r.bars, 6)), 9950)
        /\ Width(r.n) >= 900 => Loc(r.n) >= 8000
  IN  Reclaim(FailedSpikeVwap, tape, high, extra)

prior_runner(tape, high) ==
  LET extra(r) == r.runner >= AtLeast(7000, Times(r.n.c, 10800))
  IN  Reclaim(PriorRunner, tape, high, extra)

post_target(tape, high) ==
  LET extra(r) == r.runner >= Times(r.low, 12000)
  IN  Reclaim(PostTarget, tape, high, extra)

second_leg(tape, high) ==
  LET extra(r) == /\ r.runner >= AtLeast(10000, Times(r.n.c, 12000))
                  /\ r.n.c <= Times(r.runner, 9200)
  IN  Reclaim(SecondLeg, tape, high, extra)

-----------------------------------------------------------------------------
(* The lanes with a shape of their own. *)
CapAndStop(trig, level, pay, b, risk(_), cap, rr) ==
  LET entry == AtMost(b.c, Times(level, pay))
  IN  IF b.l > Times(level, pay) THEN NoPlan
      ELSE Plan(trig, Times(level, pay), entry,
                AtMost(risk(entry), Times(entry, cap)), rr)

(* The first burst: a spike of twelve percent through the recent high, or a
   second push after a long way up; no dump before it. *)
ImpulseOf(tape, n) ==
  LET near == Base(tape, 8)
      Gain(x, y) == ((x - y) * 10000) \div y
      up == Gain(n.h, Top(near))
      thrust == Gain(n.c, Newest(near).c)
      move == Gain(n.c, Bottom(near))
  IN  IF up >= 1200 /\ thrust >= 1000 /\ move >= 3500 THEN "spike"
      ELSE IF up >= 500 /\ thrust >= 200 /\ move >= 6500 THEN "push"
      ELSE "none"
first_impulse(tape, high) ==
  LET bars == Final(tape, 16)
      n == Newest(bars)
      kind == ImpulseOf(bars, n)
      vol == Average(Base(bars, 6))
      risk == AtLeast(Times(n.c, 260), 120)
  IN  IF /\ Len(bars) >= 6 /\ Green(n) /\ n.c >= 3250 /\ n.h >= 4000
         /\ high > 0 => n.h > Times(high, 10030)
         /\ kind # "none" /\ Width(n) <= 3200
         /\ Loc(n) >= (IF kind = "spike" THEN 6200 ELSE 4200)
         /\ n.v >= AtLeast(85, Times(vol, IF kind = "spike" THEN 22000 ELSE 11000))
         /\ Total(Final(bars, 3)) >= AtLeast(175, 3 * vol)
         /\ ~AnyDump(Base(bars, 6), 551, 0, 4499, AtLeast(20, Times(vol, 4500)))
         /\ ~AnyDump(Base(bars, 6), 451, 1201, 3499, Times(vol, 12000))
         /\ risk <= Times(n.c, 400)
      THEN Plan("first_impulse", Times(n.c, 10300), n.c, risk, 10000)
      ELSE NoPlan

(* One pause bar between the impulse and the reclaim is the base. *)
early_10s(tape, high) ==
  LET bars == Final(tape, 18)
      n == Newest(bars)
      prior == Before(bars)
      pause == Newest(prior)
      low == Bottom(bars)
      vol == Average(Final(prior, 5))
      vwap == Vwap(bars)
      risk(entry) ==
        AtLeast(entry - AtLeast(pause.l, Times(vwap, 9300))
                  + AtLeast(25, Times(entry, 60)),
                AtLeast(Times(entry, 260), 80))
  IN  IF /\ Len(bars) >= 5 /\ Green(n) /\ n.c >= 2450 /\ n.c <= 5250
         /\ AtLeast(high, Top(bars)) >= Times(low, 12200)
         /\ pause.h > pause.l /\ Loc(pause) <= 5800 /\ Width(pause) <= 1600
         /\ pause.l >= Times(low, 10400)
         /\ Red(pause) => pause.v <= Times(n.v, 13500)
         /\ n.h >= Times(pause.h, 10150) /\ n.c >= Times(pause.h, 10050)
         /\ Loc(n) >= 7600 /\ Width(n) <= 2600
         /\ n.c >= Times(vwap, 10100) /\ pause.l >= Times(vwap, 9000)
         /\ n.v >= AtLeast(25, Times(vol, 7000))
         /\ Total(Final(bars, 3)) >= AtLeast(65, Times(vol, 17500))
         /\ n.c <= Times(pause.h, 11800)
         /\ ~AnyDump(Base(bars, 4), 751, 0, 10000, AtLeast(50, Times(vol, 12000)))
      THEN CapAndStop("early_10s", pause.h, 10400, n, risk, 600, 13500)
      ELSE NoPlan

(* A cheap runner: a heavy bar proves the level, the tape pulls back and holds a
   controlled base, the reclaim graduates above the proof. *)
ProofBase(post, proof) ==
  LET dip(b) == b.c <= Times(proof, 9850) \/ b.l <= Times(proof, 9650)
      held(b) == /\ Width(b) <= 750 /\ b.l >= Times(proof, 9000)
                 /\ b.c >= Times(proof, 9200) /\ Loc(b) >= 2500
      f[i \in 0..Len(post)] ==
        IF i = 0 THEN <<>>
        ELSE LET b == post[i]
             IN  CASE \A j \in 1..i : ~dip(post[j]) -> f[i - 1]
                   [] (\E j \in 1..i : dip(post[j])) /\ held(b) -> Append(f[i - 1], b)
                   [] OTHER -> IF Width(b) > 1050 \/ b.c < Times(proof, 8800)
                               THEN <<>> ELSE f[i - 1]
  IN  f[Len(post)]
LowPriceReclaims(tape, high, level) ==
  LET bars == Final(tape, 18)
      n == Newest(bars)
      prior == Before(bars)
      burst == AtLeast(high, Top(bars))
      proofs == {i \in 1..Len(prior) : prior[i].h >= level /\ prior[i].v >= 100}
      at == CHOOSE i \in proofs : \A j \in proofs : i <= j
      post == SubSeq(prior, at + 1, Len(prior))
      proof == AtLeast(prior[at].h, level)
      base == ProofBase(post, proof)
      strong == n.v >= 500 /\ Total(Final(bars, 3)) >= 900
      vol == Average(Final(prior, 6))
  IN  /\ Len(bars) >= 8 /\ Green(n) /\ n.c >= 1750 /\ n.c < 2500
      /\ burst >= level /\ proofs # {}
      /\ \E i \in 1..Len(post) : post[i].c <= Times(proof, 9800)
                                 \/ post[i].l <= Times(proof, 9650)
      /\ Len(base) >= (IF strong THEN 1 ELSE 2)
      /\ strong \/ \A i \in Len(prior) - 1..Len(prior) : Width(prior[i]) <= 750
      /\ n.h >= Times(Top(Final(base, 3)), 10020)
      /\ n.c >= Times(Top(Final(base, 3)), 9950)
      /\ ~AnyDump(post, 751, 1001, 10000, 250)
      /\ n.h >= Times(proof, 10750) /\ n.c >= Times(proof, 10350)
      /\ burst >= Times(Bottom(Final(tape, 90)), 14200)
      /\ n.h >= Times(Top(prior), 10050) /\ n.c >= Times(Top(prior), 9900)
      /\ Loc(n) >= 6200 /\ Width(n) <= 1800
      /\ Total(bars) >= 1000 /\ Total(Final(bars, 3)) >= 300
      /\ n.v >= AtLeast(70, Times(vol, 8500))
      /\ ~AnyDump(Base(bars, 4), 901, 0, 10000, AtLeast(120, Times(vol, 11000)))
      /\ ~WideRedFakeout(Final(bars, 8))
low_price_proof(tape, high) ==
  LET bars == Final(tape, 18)
      level == IF AtLeast(high, Top(bars)) < 2000 THEN 1800 ELSE 2000
      risk(entry) ==
        AtLeast(entry - AtLeast(Bottom(Base(bars, 4)), Times(entry, 9350))
                  + AtLeast(20, Times(entry, 60)),
                AtLeast(Times(entry, 250), 60))
  IN  IF LowPriceReclaims(tape, high, level)
      THEN CapAndStop("low_price_proof", AtLeast(Top(Before(bars)), level), 10350,
                      Newest(bars), risk, 550, 13000)
      ELSE NoPlan

(* The reclaim of the bar that dumped a failed spike, without a rebuilt base; of
   several spikes the last one counts, and the first bar that dumped it. *)
DumpedAt(prior, low) ==
  LET spike(b) == /\ b.h >= Times(low, 13000) /\ Width(b) >= 1200 /\ Loc(b) >= 6200
                  /\ Body(b) >= 550 \/ -Body(b) >= 550
                  /\ b.v >= 35
      dumps(i) == {j \in i + 1..AtMost(Len(prior), i + 4) :
                     Dumps(prior[j], 750, 1200, 3500, AtLeast(35, Times(prior[i].v, 6500)))}
      failed == {i \in 1..Len(prior) - 3 : spike(prior[i]) /\ dumps(i) # {}}
      final == CHOOSE i \in failed : \A k \in failed : k <= i
  IN  IF failed = {} THEN 0
      ELSE CHOOSE j \in dumps(final) : \A k \in dumps(final) : j <= k
\* The bars since the dump hold a shelf, and the newest one is back above its high.
DumpReclaims(bars, high, dump, after) ==
  LET n == Newest(bars)
      low == Bottom(bars)
      vol == Average(Final(after, 5))
  IN  /\ Len(bars) >= 10 /\ Green(n) /\ n.c >= 3250 /\ n.c <= 7500
      /\ AtLeast(high, n.h) >= Times(low, 14500)
      /\ Len(after) \in 3..12
      /\ n.h >= Times(dump.h, 10020) /\ n.c >= Times(dump.h, 9970)
      /\ Loc(n) >= 7800 /\ Width(n) <= 1500
      /\ Bottom(Final(after, 4)) >= Times(dump.l, 9600)
      /\ n.v >= AtLeast(35, Times(vol, 11500))
      /\ Total(Final(bars, 3)) >= AtLeast(90, Times(vol, 17500))
failed_spike_scalp(tape, high) ==
  LET bars == Final(tape, 24)
      prior == Before(bars)
      at == DumpedAt(prior, Bottom(bars))
      dump == prior[at]
      after == SubSeq(prior, at + 1, Len(prior))
      risk(entry) ==
        LET structure == AtLeast(10, AtLeast(Bottom(Final(after, 4)), Times(dump.h, 8800))
                                       - AtLeast(50, Times(entry, 60)))
        IN  AtLeast(entry - structure, AtLeast(Times(entry, 350), 160))
  IN  IF at > 0 /\ DumpReclaims(bars, high, dump, after)
      THEN CapAndStop("failed_spike_scalp", dump.h, 10350, Newest(bars), risk, 950, 11500)
      ELSE NoPlan

(* A fresh high after a banked target: no pullback is asked for. *)
fresh_continuation(tape, high) ==
  LET bars == Final(tape, 18)
      n == Newest(bars)
      vol == Average(Base(bars, 6))
      risk == AtLeast(n.c - AtLeast(Bottom(Final(bars, 6)), Times(n.c, 9400))
                        + AtLeast(30, Times(n.c, 40)),
                      AtLeast(Times(n.c, 180), 60))
  IN  IF /\ Len(bars) >= 8 /\ Green(n) /\ n.c >= 3500 /\ n.c <= 15000
         /\ high > 0 /\ n.h >= Times(high, 10010)
         /\ Loc(n) >= 5800 /\ Width(n) <= 1000
         /\ n.c >= Times(Top(Base(bars, 5)), 9950)
         /\ n.v >= AtLeast(35, Times(vol, 7500))
         /\ Total(Final(bars, 3)) >= AtLeast(120, Times(vol, 10500))
         /\ ~AnyDump(Base(bars, 4), 551, 0, 10000, Times(vol, 12000))
         /\ ~WideRedFakeout(Final(bars, 8))
      THEN Plan("fresh_continuation", Times(n.c, 10180), n.c,
                AtMost(risk, Times(n.c, 550)), 13500)
      ELSE NoPlan

-----------------------------------------------------------------------------
(* The coarse choice of one lane, and the lanes each may fall back to. *)
classify_warrior_trend_lane(tape, high) ==
  LET bars == Final(tape, 90)
      n == Newest(bars)
      runner == AtLeast(high, Top(bars))
      Moved(bp) == runner >= Times(Bottom(bars), 10000 + bp)
      Near(bp) == n.c >= Times(runner, bp)
      In(lo, hi) == n.c >= lo /\ n.c <= hi
  IN  CASE Len(bars) < 6 \/ ~Green(n) -> "none"
        [] n.c >= 3250 /\ n.h >= 4000 /\ Moved(4500) /\ Near(9400) -> "first_impulse"
        [] n.c >= 8000 /\ Moved(800) /\ Near(9400) -> "stair_step"
        [] In(1750, 2499) /\ runner >= 1800 /\ Moved(4200) /\ Near(9400) -> "low_price_proof"
        [] In(2500, 5250) /\ Moved(1800) /\ Near(8600) -> "early_10s"
        [] In(2500, 4250) /\ Moved(3000) /\ Near(8600) -> "second_leg_vwap"
        [] In(1500, 3500) /\ Moved(2500) /\ Near(8600) -> "first_pullback"
        [] In(6750, 24000) /\ Moved(5500) /\ Near(7200) -> "parabolic"
        [] n.c >= 7000 /\ Near(9400) -> "high_base"
        [] In(3500, 12500) /\ Moved(4500) /\ Near(8600) -> "smooth_10s"
        [] In(3000, 7250) /\ Near(8600) -> "smooth_hod"
        [] n.c >= 4000 -> "trend_pullback"
        [] OTHER -> "none"

Fallbacks(lane) ==
  CASE lane = "early_10s" -> <<"early_10s", "first_pullback">>
    [] lane = "second_leg_vwap" -> <<"second_leg_vwap", "early_10s", "first_pullback">>
    [] lane = "first_impulse" ->
         <<"first_impulse", "parabolic", "smooth_hod", "stair_step", "high_base",
           "trend_pullback">>
    [] lane = "high_base" -> <<"high_base", "parabolic", "stair_step", "trend_pullback">>
    [] lane = "stair_step" -> <<"stair_step", "smooth_10s", "high_base", "trend_pullback">>
    [] lane = "smooth_10s" -> <<"smooth_10s", "parabolic", "smooth_hod", "trend_pullback">>
    [] lane = "parabolic" -> <<"parabolic", "stair_step", "trend_pullback">>
    [] lane = "smooth_hod" -> <<"smooth_hod", "smooth_10s", "trend_pullback">>
    [] lane = "none" -> <<>>
    [] OTHER -> <<lane>>
Detector(lane, tape, high) ==
  CASE lane = "high_base" -> high_base(tape, high)
    [] lane = "stair_step" -> stair_step(tape, high)
    [] lane = "smooth_10s" -> smooth_10s(tape, high)
    [] lane = "parabolic" -> parabolic(tape, high)
    [] lane = "smooth_hod" -> smooth_hod(tape, high)
    [] lane = "early_10s" -> early_10s(tape, high)
    [] lane = "second_leg_vwap" -> second_leg_vwap(tape, high)
    [] lane = "first_impulse" -> first_impulse(tape, high)
    [] lane = "low_price_proof" -> low_price_proof(tape, high)
    [] lane = "first_pullback" -> first_pullback(tape, high)
    [] lane = "trend_pullback" -> trend_pullback(tape, high)

(* The failed spikes go first, and are the only lanes after a rejection; then the
   lane the tape looks like and its fallbacks, in order. *)
warrior_trend_playbook(tape, high) ==
  LET bars == Final(tape, 90)
      reclaim == failed_spike_vwap(bars, high)
      scalp == failed_spike_scalp(bars, high)
      lanes == Fallbacks(classify_warrior_trend_lane(bars, high))
      found == {i \in 1..Len(lanes) : Detector(lanes[i], bars, high) # NoPlan}
  IN  CASE reclaim # NoPlan -> reclaim
        [] reclaim = NoPlan /\ scalp # NoPlan -> scalp
        [] reclaim = NoPlan /\ scalp = NoPlan /\ RejectionHigh(bars) = 0 /\ found # {} ->
             Detector(lanes[CHOOSE i \in found : \A j \in found : i <= j], bars, high)
        [] OTHER -> NoPlan
=============================================================================
