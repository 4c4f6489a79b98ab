---------------------------- MODULE WarriorOrders ----------------------------
(***************************************************************************)
(* What stands between a plan of the Warrior lanes and the position it      *)
(* opens (runner.py, _execute_momentum_burst_scalp): the last looks at the  *)
(* tape, the size the account and the playbook allow, and the bracket that  *)
(* a fill away from the plan leaves. Money is in tenths of a cent, an       *)
(* account is a record of its equity and its limits.                        *)
(***************************************************************************)
EXTENDS WarriorRetries

\* warrior_late_reentry_reject: a later stair step asks for a tape without sellers.
LateReject(plan, tape, high, wins, count) ==
  LET recent == Final(tape, 8)
      prior == Final(Before(recent), 5)
      n == Newest(tape)
      top == AtLeast(high, Top(Before(tape)))
  IN  /\ wins >= 1 \/ count >= 2
      /\ plan.trig = "stair_step" /\ Len(recent) >= 4
      /\ \/ count >= 2 /\ MedianWidth(Final(recent, 6)) > 380
         \/ AnyDump(prior, 300, 400, 4500, AtLeast(30, Times(Average(prior), 7000)))
         \/ wins >= 1 /\ n.h < Times(top, 9850) /\ n.c < Times(top, 9650)

\* warrior_violent_liquid_reject: the first shot on a violent tape.
ViolentReject(plan, tape, wins) ==
  LET recent == Final(tape, 8)
      prior == Final(Before(recent), 5)
      n == Newest(tape)
  IN  /\ wins = 0 /\ plan.trig \in {"trend_pullback", "stair_step"}
      /\ \/ Len(recent) < 5 \/ ~Green(n) \/ Loc(n) < 7200
         \/ MedianWidth(Final(recent, 6)) > 300
         \/ AnyDump(prior, 250, 350, 10000, AtLeast(30, Times(Average(prior), 7500)))
         \/ n.h < Times(Top(prior), 10020) /\ n.c < Top(prior)

\* A plan that the executor can hold: a bracket around its price.
Tradeable(plan) ==
  plan.entry > 0 /\ plan.stop > 0 /\ plan.stop < plan.entry /\ plan.entry < plan.target

Share(x, pct) == (x \div 100) * pct
\* _capital_aware_quantity: the risk the equity bears, within what it can buy.
CapitalAware(acct, price, stop) ==
  LET wanted == IF acct.riskPct = 0 THEN 50000
                ELSE AtLeast(acct.minRisk, Share(acct.equity, acct.riskPct))
      risk == IF acct.maxRisk > 0 THEN AtMost(wanted, acct.maxRisk) ELSE wanted
      byRisk == IF price > stop THEN risk \div (price - stop) ELSE 0
      byCapital == Share(acct.equity, acct.maxPosition) \div price
  IN  IF byCapital > 0 THEN AtMost(byRisk, byCapital) ELSE byRisk

Scaled(qty, pct) == IF pct < 100 /\ qty > 1 THEN AtLeast(1, (qty * pct) \div 100) ELSE qty
\* Fault: the value of the position is no cap once a risk cap is set.
WarriorCapByRisk(acct, qty, price, risk, spread) ==
  LET cap == ((acct.warriorRisk \div risk) * spread) \div 100
  IN  IF cap > 0 THEN AtLeast(1, AtMost(qty, cap)) ELSE qty
\* The shares that the playbook's own caps leave.
PlaybookShares(acct, price, risk, spread) ==
  LET byValue == acct.warriorValue \div price
      byRisk == IF acct.warriorRisk > 0 THEN acct.warriorRisk \div risk ELSE byValue
  IN  (AtMost(byValue, byRisk) * spread) \div 100
\* The caps are skipped when they leave no share.
WarriorCap(acct, qty, price, risk, spread) ==
  LET cap == PlaybookShares(acct, price, risk, spread)
  IN  IF acct.warriorValue > 0 /\ cap > 0 THEN AtLeast(1, AtMost(qty, cap)) ELSE qty
\* A size factor of 0 is none: then a violent tape takes about a third.
Quantity(acct, plan, spread, violent, factor) ==
  LET full == CapitalAware(acct, plan.entry, plan.stop)
      spreadSize == Scaled(full, spread)
      tapeSize == IF violent /\ factor = 0 THEN Scaled(spreadSize, 35) ELSE spreadSize
      sized == IF factor > 0 THEN Scaled(tapeSize, factor) ELSE tapeSize
  IN  IF full < 1 THEN 0
      ELSE WarriorCap(acct, sized, plan.entry, plan.entry - plan.stop, spread)

\* Fault: the planned reward is added to the plan's price again.
FilledTargetPlanned(plan, price) == plan.entry + AtLeast(plan.target - plan.entry, 40)
\* A fill at or above the target moves the target as far above the fill.
FilledTarget(plan, price) ==
  LET planned == IF plan.target > plan.entry THEN plan.target - plan.entry ELSE 0
  IN  IF plan.target > price THEN plan.target
      ELSE price + AtLeast(AtLeast(planned, price - plan.stop), AtLeast(Times(price, 100), 40))

\* _mb_bracket_payload: the replay's bracket; a stop the fill went through is moved.
ReplayBracket(plan, price) ==
  LET planned == plan.entry - plan.stop
      stop == IF plan.stop < price THEN plan.stop
              ELSE price - AtLeast(planned, AtLeast(Times(price, 200), 60))
  IN  [stop |-> stop,
       target |-> IF plan.target > price THEN plan.target
                  ELSE price + AtLeast(AtLeast(plan.target - plan.entry, price - stop),
                                       AtLeast(Times(price, 100), 40))]
=============================================================================
