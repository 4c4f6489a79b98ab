------------------------------ MODULE OrderGates ------------------------------
(***************************************************************************)
(* One symbol's entry cycle (pipeline/engine.py, run_cycle): a minute of    *)
(* the tape prints, the scanners hit, each hit is verified once or is       *)
(* hidden by its cooldown, and a verified signal passes the news, the level *)
(* cap, the final guard, the chase guard, the reward and size limits and    *)
(* the trade guards, or is dropped and remembered. The first order ends it. *)
(***************************************************************************)
EXTENDS TradeGuards

CONSTANTS
  Scripts,    \* [start, legs]: a starting price and the legs of a tape
  Looks,      \* what is known of the symbol beside its tape
  Configs,    \* [timed, capped, replay]: the timer, the level cap, whose clock
  News,       \* sentiment of the headlines, in percent
  Markets,    \* "calm", or why the guards stand in the way
  MaxShares,  \* max_order_shares
  MaxHeld     \* max_position_shares

\* A leg of a tape: n bars of one move, with wicks beyond open and close, in basis points.
Stretch ==
  {l \in [n : Nat, move : Nat, over : Nat, under : Nat, v : Nat] : l.under <= 10000}

ASSUME GatesAssumption ==
  /\ MaxShares \in Nat \ {0} /\ MaxHeld \in Nat /\ Markets \subseteq {"calm", "panic", "halted"}
  /\ Configs \subseteq [timed : BOOLEAN, capped : BOOLEAN, replay : BOOLEAN]
  /\ Looks \subseteq Look
  /\ Scripts \subseteq [start : Nat \ {0}, legs : Seq(Stretch)]

VARIABLES script, leg, tape, look, config, found, signals, cooldowns, blocked, bought
cycleVars == <<script, leg, tape, look, config, found, signals, cooldowns, blocked, bought>>

NothingBought == [hit |-> NoHit, signal |-> NoSignal, news |-> 0]
NoCooldown == [at |-> 0, ttl |-> 0, price |-> 0, v |-> 0]

-----------------------------------------------------------------------------
\* How long a refusal is believed, in seconds.
reject_ttl_seconds(why) ==
  IF why = "stale data" THEN 0
  ELSE IF why = "spread too wide" THEN 5
  ELSE IF why = "thin sub-$5 liquidity" THEN 180
  ELSE IF why \in {"tape too slow", "not enough movement"} THEN 120
  ELSE IF why \in {"below vwap", "not strong above VWAP"} THEN 45
  ELSE IF why = "outside range" THEN 300 ELSE 60

Cooling(hit) ==
  LET c == cooldowns[hit.pattern]
      last == Newest(tape)
  IN  /\ 60 * (Len(tape) - c.at) < c.ttl
      /\ Distance(last.c, c.price) * 100 < c.price
      /\ last.v * 100 < c.v * 125
Cooled(why) ==
  IF reject_ttl_seconds(why) = 0 THEN NoCooldown
  ELSE [at |-> Len(tape), ttl |-> reject_ttl_seconds(why),
        price |-> Newest(tape).c, v |-> Newest(tape).v]

FirstAbove0(a, b) == IF a > 0 THEN a ELSE b
LevelOf(hit) == FirstAbove0(FirstAbove0(hit.level, hit.baseHigh), hit.vwap)

-----------------------------------------------------------------------------
(* A scout that broke its level is entered at most one percent above it, when the
   bar traded there. *)
CapApplies(s, base, cap) ==
  /\ config.capped /\ base > 0
  /\ \/ s.hit.pattern \in {"shallow_stair_continuation", "level_breakout_reclaim"}
     \/ s.hit.tier = "stair_scout"
  /\ s.signal.entry > cap /\ Newest(tape).l <= cap /\ cap <= Newest(tape).h
  /\ s.signal.stop > 0 /\ s.signal.stop < cap
maybe_apply_level_capped_entry(s) ==
  LET base == FirstAbove0(s.hit.level, s.hit.baseHigh)
      cap == Times(base, 10100)
      was == s.signal
      risk == cap - was.stop
      target == IF was.target > cap THEN was.target
                ELSE cap + AtLeast((risk * 18) \div 10, (cap * 15) \div 1000)
  IN  IF CapApplies(s, base, cap) THEN [was EXCEPT !.entry = cap, !.target = target] ELSE was

(* Fault: the last guard is told of the ticks. *)
BlindToAverages(l) == [l EXCEPT !.float = 0, !.daily = 0, !.five = <<>>]
\* The last guard is not told of the float, the averages, the ticks and the 5m bars.
Blind(l) == [l EXCEPT !.float = 0, !.daily = 0, !.flow = 0, !.five = <<>>]
(* Fault: the last guard lets any stop through. *)
AnyStop(s, signal) ==
  check_entry_quality(tape, Blind(look),
    SetupOf(s.hit, FirstAbove0(s.hit.told, AtLeast(0, s.hit.score) \div 100)), 0)
final_entry_quality_reject(s, signal) ==
  LET score == FirstAbove0(s.hit.told, AtLeast(0, s.hit.score) \div 100)
  IN  IF (signal.entry - signal.stop) * 100 > 6 * signal.entry THEN "stop too wide"
      ELSE check_entry_quality(tape, Blind(look), SetupOf(s.hit, score), 0)

\* Without the timer, an entry far above its own base or an earlier block is late.
normal_entry_chase_reject(s, signal) ==
  LET anchor == FirstAbove0(FirstAbove0(s.hit.anchor, s.hit.level), s.hit.baseHigh)
      most == IF anchor >= 10000 THEN 1025 ELSE 1050
  IN  /\ ~config.timed
      /\ \/ late_chase(tape, blocked, signal.entry, config.replay)
         \/ anchor > 0 /\ signal.entry * 1000 > anchor * most

MinReward(news) == IF news >= 50 THEN 14 ELSE 18
RiskOf(signal) == signal.entry - signal.stop
OverRisk(signal) == RiskOf(signal) * signal.qty > DollarRisk * 1000
SafeShares(signal) == (DollarRisk * 1000) \div RiskOf(signal)
\* The shares that the dollar limit and the order limit leave.
Capped(signal) ==
  [signal EXCEPT !.qty = AtMost(IF OverRisk(signal) THEN SafeShares(signal) ELSE @, MaxShares)]

\* Why a verified signal is dropped; no reason is an order.
Says(why) == <<why, why # "">>
GateReject(s, signal, capped, news, market) ==
  FirstOf(<<
    <<"negative news", news <= -30>>,
    Says(final_entry_quality_reject(s, signal)),
    <<"late chase", normal_entry_chase_reject(s, signal)>>,
    <<"reward too small", (signal.target - signal.entry) * 10 < MinReward(news) * RiskOf(signal)>>,
    <<"risk cap", OverRisk(signal) /\ SafeShares(signal) < 10>>,
    <<"position_risk_limit", capped.qty > MaxHeld>>,
    Says(check_entry(tape, look, s.hit, market)) >>)

-----------------------------------------------------------------------------
\* The next bar of a leg: a move from the last close with its wicks. No price is nothing.
NextBar(before, start, l) ==
  LET o == IF before = <<>> THEN start ELSE Newest(before).c
      c == AtLeast(1, Times(o, l.move))
      top == AtLeast(o, c)
  IN  [o |-> o, c |-> c, h |-> AtLeast(top, Times(top, l.over)),
       l |-> AtLeast(1, Times(AtMost(o, c), l.under)), v |-> l.v]
Played(t, start, l) ==
  LET f[i \in 0..l.n] == IF i = 0 THEN t ELSE Append(f[i - 1], NextBar(f[i - 1], start, l))
  IN  f[l.n]

CycleInit ==
  /\ script \in Scripts /\ look \in Looks /\ config \in Configs
  /\ leg = 0 /\ tape = <<>> /\ found = {} /\ signals = {} /\ blocked = {} /\ bought = NothingBought
  /\ cooldowns = [p \in RunnerPatterns |-> NoCooldown]

\* The next leg prints, and the scanners look at its last bar.
Scan ==
  /\ found = {} /\ signals = {} /\ bought = NothingBought /\ leg < Len(script.legs)
  /\ leg' = leg + 1
  /\ tape' = Played(tape, script.start, script.legs[leg + 1])
  /\ found' = HitsOf(tape')
  /\ look' \in Looks
  /\ UNCHANGED <<script, config, signals, cooldowns, blocked, bought>>

\* A hit whose refusal is still believed is not looked at.
Hide(hit) ==
  /\ Cooling(hit) /\ found' = found \ {hit}
  /\ UNCHANGED <<script, leg, tape, look, config, signals, cooldowns, blocked, bought>>

Verify(hit) ==
  /\ ~Cooling(hit) /\ found' = found \ {hit}
  /\ \E answer \in {verify(tape, look, hit)} :
       \/ /\ answer.why # ""
          /\ cooldowns' = [cooldowns EXCEPT ![hit.pattern] = Cooled(answer.why)]
          /\ blocked' = record_blocked(blocked, tape, look, answer.why, LevelOf(answer.hit))
          /\ UNCHANGED signals
       \/ /\ answer.why = ""
          /\ cooldowns' = [cooldowns EXCEPT ![hit.pattern] = NoCooldown]
          /\ signals' = signals \union {[hit |-> answer.hit, signal |-> answer.signal]}
          /\ UNCHANGED blocked
  /\ UNCHANGED <<script, leg, tape, look, config, bought>>

\* A signal that a gate drops is remembered without the levels of its hit.
Gate(s, news, market) ==
  /\ found = {} /\ bought = NothingBought /\ signals' = signals \ {s}
  /\ \E signal \in {maybe_apply_level_capped_entry(s)} :
     \E why \in {GateReject(s, signal, Capped(signal), news, market)} :
       \/ /\ why # ""
          /\ blocked' = record_blocked(blocked, tape, look, why, 0)
          /\ UNCHANGED bought
       \/ /\ why = ""
          /\ bought' = [hit |-> s.hit, news |-> news, signal |-> Capped(signal)]
          /\ UNCHANGED blocked
  /\ UNCHANGED <<script, leg, tape, look, config, found, cooldowns>>

CycleNext ==
  \/ Scan
  \/ \E hit \in found : Hide(hit) \/ Verify(hit)
  \/ \E s \in signals, news \in News, market \in Markets : Gate(s, news, market)

CycleSpec == CycleInit /\ [][CycleNext]_cycleVars

-----------------------------------------------------------------------------
(* What reaches the broker is a bracket around its entry: the stop below, at most six
   percent away, the target worth the risk, within the dollar limit of its size factor and
   the share limit. The stop comes from four places in the verifier and the entry is
   replaced after the shares were counted (momentum_pattern.py 1477-1756, engine.py
   1465-1815 and 2022-2100). *)
OrderBounded ==
  bought # NothingBought =>
    LET s == bought.signal
    IN  /\ s.stop < s.entry /\ s.entry < s.target
        /\ RiskOf(s) * 100 <= 6 * s.entry
        /\ (s.target - s.entry) * 10 >= MinReward(bought.news) * RiskOf(s)
        /\ s.qty \in 1..MaxShares
        /\ s.qty = 1 \/ s.qty * RiskOf(s) <= DollarRisk * 10 * s.factor

(* What passes for less than a clean setup is bought small: a scout, whichever step of the
   verifier made it one, and an entry through a spread wider than the guard normally
   takes, risk less than half of the dollars of a full position (entry_guard.py 342-502,
   momentum_pattern.py 1190-1223 and 1692-1756). *)
ScoutsStaySmall ==
  bought # NothingBought =>
    LET s == bought.signal
        strained == look.quotes >= 3 /\ look.spread > 0
                    /\ ~tick_aware_spread_ok(look.spread, Newest(tape).c, 50)
    IN  strained \/ bought.hit.tier \in DOMAIN ScoutFactors =>
          s.qty = 1 \/ s.qty * RiskOf(s) * 100 <= DollarRisk * 1000 * 45

(* Nothing is bought below the rule score but a VWAP reclaim scout, which may miss it by
   five points. The score exception of a stock below two dollars passes the verifier and
   never the last guard, which has no ticks to see the selling the exception is for
   (entry_guard.py 864-910 and 1112-1214, engine.py 1872-1944). *)
ScoredOrScout ==
  bought # NothingBought =>
    LET score == RuleScore(tape, Blind(look))
    IN  score >= ScoreThreshold \/ (bought.hit.tier = "vwap_reclaim_scout" /\ score >= 75)
=============================================================================
