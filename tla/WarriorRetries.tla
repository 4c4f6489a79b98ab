--------------------------- MODULE WarriorRetries ---------------------------
(***************************************************************************)
(* The lanes of strategy/warrior_lanes.py that continue an episode of the   *)
(* watch: the retry after a failed burst, the halt that resumes, the break  *)
(* of a level, and the three pull-aways from the high that was rejected.    *)
(* An episode w knows the rejected high and why it was rejected, how often  *)
(* it has bought, and the breakout that armed the watch.                    *)
(***************************************************************************)
EXTENDS WarriorLanes

CONSTANTS
  MinReclaim,  \* lowest price a pull-away may reclaim
  RewardRisk,  \* target of a first pull-away, in basis points of its risk
  AddReward    \* target of a later one

ASSUME RetriesAssumption ==
  /\ MinReclaim \in Nat /\ RewardRisk \in Nat /\ AddReward \in Nat

BadReasons == {"shooting_star", "explosive_spike", "bad_tape", "weak_reclaim"}
SpikeReasons == {"shooting_star", "explosive_spike"}
PendingTriggers == {"a_plus_reclaim", "psych_level_break", "momentum_burst"}
Reclaimed == {"a_plus_reclaim", "psych_level_break"}

\* The whole or half dollar at or under a price, and the next one above it.
StepOf(price) == IF price < 10000 THEN 500 ELSE 1000
LevelUnder(price, step) == (price \div step) * step
LevelOver(price, step) == (price \div step + 1) * step

\* momentum_burst_level_context
BrokenLevel(previous, high) ==
  LET level == LevelOver(previous, StepOf(high))
  IN  IF high > previous /\ level <= high /\ level >= 1000 THEN level ELSE 0

\* first_starter_has_proof_hold
ProofHold(tape, proof) ==
  LET recent == Final(tape, 6)
      near == Final(recent, 3)
  IN  /\ Len(recent) >= 3
      /\ \A i \in 1..Len(recent) : Width(recent[i]) <= 2000
      /\ Cardinality({i \in 1..3 : near[i].c >= proof /\ near[i].l >= Times(proof, 9900)}) >= 2

Structure(tape) ==
  IF Len(tape) > 1 THEN Bottom(Base(tape, 4)) ELSE Newest(tape).l
StarterRisk(tape, entry) ==
  AtMost(AtLeast(entry - Structure(tape), AtLeast(Times(entry, 180), 80)),
         Times(entry, 550))

failed_recovery(tape, high, failed) ==
  LET n == Newest(tape)
      level == AtLeast(Times(failed, 10350), Times(high, 10020))
      pay == Times(level, 10350)
      entry == AtMost(n.c, pay)
  IN  IF /\ failed > 0 /\ Green(n) /\ Loc(n) >= 6400
         /\ n.h >= level /\ n.c >= Times(failed, 10100)
         /\ Len(tape) >= 6
         /\ MedianWidth(Final(tape, 6)) <= 450
         /\ ~WideRedFakeout(Final(tape, 6))
         /\ n.v >= AtLeast(90, Times(Average(Base(tape, 6)), 8500))
         /\ n.l <= pay
      THEN Plan("failed_recovery", pay, entry, StarterRisk(tape, entry), 13500)
      ELSE NoPlan

\* The bars since the tape last stood still for a minute, within the last ten.
SinceHalt(tape) ==
  LET gaps == {i \in AtLeast(2, Len(tape) - 9)..Len(tape) : tape[i].gap}
      at == CHOOSE i \in gaps : \A j \in gaps : j <= i
  IN  IF gaps = {} THEN <<>> ELSE SubSeq(tape, at, Len(tape))
(* The tape came back with two strong bars and no dump. *)
halt_resume(tape, high, failed) ==
  LET resumed == SinceHalt(tape)
      n == Newest(tape)
      reference == AtLeast(failed, high)
      risk == AtMost(AtLeast(Times(n.c, 180), 200), Times(n.c, 280))
  IN  IF /\ Len(tape) >= 5 /\ Len(resumed) >= 3
         /\ reference > 0 /\ Green(n) /\ Loc(n) >= 7800
         /\ n.h >= Times(reference, 10250) /\ n.c >= Times(reference, 10150)
         /\ n.v >= 120
         /\ \A i \in Len(tape) - 1..Len(tape) :
              Green(tape[i]) /\ Loc(tape[i]) >= 7500 /\ tape[i].v >= 100
         /\ ~AnyDump(SubSeq(resumed, 2, Len(resumed) - 1), 550, 1, 2500, 0)
      THEN Plan("halt_resume", n.c, n.c, risk, 13500)
      ELSE NoPlan

\* warrior_failed_burst_watch_reason
GiantSpike(b) ==
  Green(b) /\ b.c >= 4000 /\ Width(b) >= 1800 /\ Loc(b) >= 6500 /\ b.v >= 100

level_break(tape, high) ==
  LET n == Newest(tape)
      reclaim == MinReclaim > 0 /\ high <= Times(MinReclaim, 10100) /\ n.h >= MinReclaim
      level == IF reclaim THEN MinReclaim
               ELSE AtLeast(LevelOver(high, StepOf(n.c)), MinReclaim)
      pay == Times(level, 10350)
      entry == AtMost(n.c, pay)
  IN  IF /\ Green(n) /\ Loc(n) >= 6400
         /\ n.c >= 10000 => Width(n) <= 850
         /\ reclaim \/ high < level
         /\ n.h >= level /\ n.c >= Times(level, 9950)
         /\ Len(tape) >= 6 /\ ~WideRedFakeout(Final(tape, 6))
         /\ n.v >= AtLeast(100, Times(Average(Base(tape, 6)), 7500))
         /\ n.c > Times(Bottom(tape), 17500) => n.v >= 300
         /\ n.l <= pay
      THEN Plan("level_break", pay, entry, StarterRisk(tape, entry), 13500)
      ELSE NoPlan

(* The pull-away from the rejected high. A first one asks for proof that the level
   holds, unless a cheap runner tears away from it (the CLWT case) or the watch
   was armed by a reclaim. A later one takes the level under the price. *)
PullLevel(n, w) ==
  LET first == AtLeast(Times(w.reject, 10300), MinReclaim)
  IN  IF w.count > 0
      THEN AtLeast(LevelUnder(n.c, StepOf(n.h)), MinReclaim)
      ELSE IF w.trig \in Reclaimed /\ n.l > Times(first, 10600)
           THEN AtLeast(first, LevelUnder(n.c, StepOf(n.c)))
           ELSE first
TearsAway(n, level) ==
  n.h >= Times(level, 11400) /\ n.c >= Times(level, 10800) /\ Loc(n) >= 6200
ClwtPullaway(n, level, w) ==
  /\ w.count = 0 /\ w.reject <= 3250 /\ level <= 4250
  /\ w.reason \in SpikeReasons /\ TearsAway(n, level)
PullTarget(entry, risk, w) ==
  LET level == LevelOver(entry, StepOf(entry))
      reward == entry + Times(risk, AtLeast(AddReward, 2000))
      target == AtMost(level, reward)
  IN  IF w.count = 0 THEN entry + Times(risk, AtLeast(RewardRisk, 10000))
      ELSE IF target <= entry + AtLeast(40, Times(risk, 2500)) THEN reward ELSE target
pullaway(tape, w) ==
  LET n == Newest(tape)
      level == PullLevel(n, w)
      clwt == ClwtPullaway(n, level, w)
      armed == w.trig \in Reclaimed
      first == w.count = 0
      top == Top(Before(tape))
      pay == Times(level, IF clwt THEN 11500 ELSE 10600)
      entry == AtMost(n.c, pay)
      loose == AtLeast(entry - AtLeast(10, level - AtLeast(80, Times(level, 300))),
                       AtLeast(Times(entry, 150), 60))
      bounded == IF clwt THEN AtMost(loose, Times(entry, 550)) ELSE loose
      risk == IF armed THEN AtMost(bounded, Times(entry, 580)) ELSE bounded
  IN  IF /\ w.reject > 0 /\ level > 0
         /\ n.h >= level /\ n.c >= level /\ Green(n)
         /\ RejectionHigh(tape) = 0
         /\ ~(/\ first /\ w.reason \in SpikeReasons /\ top > Times(level, 10800)
              /\ n.h >= Times(top, 9980) /\ n.c < Times(top, 9950))
         /\ ~(clwt /\ w.reason = "explosive_spike" /\ WideRedFakeout(tape))
         /\ level >= 5000 /\ Width(n) < 1500 => Loc(n) >= 7200
         /\ Loc(n) >= (IF armed THEN 3000 ELSE 5500)
         /\ first /\ level < 5000 /\ ~clwt => ProofHold(tape, level)
         /\ first /\ w.reason \in BadReasons => clwt \/ armed \/ w.micro
         /\ n.v >= AtLeast(IF armed THEN 75 ELSE 150,
                           Times(w.vol, IF armed THEN 2000 ELSE 7500))
         /\ n.l <= pay
         /\ entry >= Times(pay, 9950) /\ ~clwt /\ ~armed /\ ~w.micro =>
              Loc(n) >= 7200 /\ n.v >= AtLeast(200, w.vol)
         /\ ~(first /\ level >= 5000 /\ ~clwt /\ w.reason \in SpikeReasons)
      THEN [Plan(IF clwt THEN "clwt" ELSE "level_pullaway", pay, entry, risk, 0)
              EXCEPT !.target = PullTarget(entry, risk, w)]
      ELSE NoPlan

equal_high(tape, high, w) ==
  LET n == Newest(tape)
      level == AtLeast(Times(w.reject, 10300), MinReclaim)
      fast == TearsAway(n, level)
      top == Top(Before(tape))
      near == Final(tape, 4)
      pay == Times(level, IF fast THEN 11500 ELSE 10450)
      entry == IF fast THEN n.c ELSE AtMost(n.c, pay)
      risk == AtMost(AtLeast(Times(entry, 250), 80), Times(entry, 580))
  IN  IF /\ w.count = 0 /\ w.reject > 0 /\ w.reason \in SpikeReasons
         /\ level < 5000 /\ Green(n)
         /\ n.c >= Times(level, 9950) /\ n.h >= level
         /\ high > 0 => n.h >= Times(high, 9850)
         /\ Loc(n) >= 6600 \/ fast
         /\ Width(n) <= 2200
         /\ fast \/ top < Times(level, 11800) \/ n.h >= Times(top, 9400)
         /\ Len(tape) >= 3
         /\ \/ fast
            \/ \E i \in 1..Len(near) : /\ near[i].c >= Times(level, 9850)
                                       /\ near[i].l >= Times(level, 9200)
         /\ n.v >= AtLeast(100, AtLeast(Times(Average(Base(tape, 5)), 7000),
                                        Times(w.vol, 3500)))
         /\ ~(n.h > n.c /\ (n.h - n.c) * 10000 > 350 * n.c /\ Loc(n) < 7200)
         /\ n.l <= pay /\ (fast => n.c <= pay)
      THEN Plan("equal_high", pay, entry, risk, 24000)
      ELSE NoPlan

curl(tape, high, w) ==
  LET n == Newest(tape)
      level == AtLeast(MinReclaim, LevelUnder(n.c, StepOf(n.c)))
      top == AtLeast(high, w.high)
      pay == Times(level, 10500)
      entry == AtMost(n.c, pay)
      risk == AtLeast(entry - AtLeast(10, level - AtLeast(100, Times(level, 350))),
                      AtLeast(Times(entry, 150), 80))
  IN  IF /\ Green(n) /\ n.c >= level /\ Loc(n) >= 5800
         /\ w.count = 0 => level < 7500
         /\ level >= 5000 => Width(n) < 1800 /\ (Width(n) < 1500 => Loc(n) >= 7200)
         /\ w.count = 0 /\ level < 5000 => ProofHold(tape, level)
         /\ top > 0 => n.c >= Times(top, 9000)
         /\ n.v >= AtLeast(100, Times(w.vol, 3000))
         /\ n.l <= pay
      THEN Plan("curl", pay, entry, risk, 15000)
      ELSE NoPlan
=============================================================================
