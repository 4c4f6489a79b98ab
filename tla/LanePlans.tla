------------------------------ MODULE LanePlans ------------------------------
(***************************************************************************)
(* From the tape to a bracketed position: the 10-second tape of a symbol is *)
(* printed leg by leg as one of the Scripts tells, a lane plans, the        *)
(* executor judges and sizes the order, and the broker fills it near its    *)
(* price. What the lanes may plan is in WarriorLanes and WarriorRetries,    *)
(* what becomes of a plan in WarriorOrders.                                 *)
(***************************************************************************)
EXTENDS WarriorOrders

CONSTANTS
  Scripts,   \* [start, legs]: a starting price and the legs of a tape
  Episodes,  \* what the watch may know of the symbol
  Accounts,  \* equity and limits of the account
  Sizings,   \* <<spread, violent, factor>>: what scales an order down, in percent
             \* (a spread factor of 0 counts as none: 100)
  Slips      \* where a fill may lie, in basis points of the planned price

\* n bars, each a move of the price with its wicks, the first after a halt or not.
Stretch == [n : Nat, move : Nat, over : Nat, under : Nat, v : Nat, gap : BOOLEAN]

ASSUME PlansAssumption ==
  /\ \A s \in Scripts :
       /\ s.start \in Nat \ {0} /\ s.legs \in Seq(Stretch)
       /\ \A i \in 1..Len(s.legs) : s.legs[i].n > 0 /\ s.legs[i].under <= 10000
  /\ \A w \in Episodes :
       /\ w.count \in Nat /\ w.reject \in Nat /\ w.vol \in Nat /\ w.high \in Nat
       /\ w.wins \in Nat /\ w.micro \in BOOLEAN
  /\ \A a \in Accounts :
       /\ a.equity \in Nat /\ a.riskPct \in Nat /\ a.minRisk \in Nat
       /\ a.maxRisk \in Nat /\ a.maxPosition \in Nat
       /\ a.warriorValue \in Nat /\ a.warriorRisk \in Nat
  /\ \A s \in Sizings :
       s[1] \in Nat \ {0} /\ s[1] <= 100 /\ s[2] \in BOOLEAN /\ s[3] \in Nat
  /\ Slips \subseteq Nat

VARIABLES script, leg, tape, high, episode, acct, plan, order
vars == <<script, leg, tape, high, episode, acct, plan, order>>

NoOrder == [qty |-> 0, fill |-> 0, target |-> 0]

\* Bar i of a leg: a move from the last close, and the wicks around it.
NextBar(t, start, l, i) ==
  LET o == IF t = <<>> THEN start ELSE Newest(t).c
      c == Times(o, l.move)
  IN  [o |-> o, c |-> c, h |-> Times(AtLeast(o, c), l.over),
       l |-> Times(AtMost(o, c), l.under), v |-> l.v, gap |-> l.gap /\ i = 1]
\* A leg prints n of them.
Played(t, start, l) ==
  LET f[i \in 0..l.n] ==
        IF i = 0 THEN t
        ELSE LET before == f[i - 1] IN Append(before, NextBar(before, start, l, i))
  IN  f[l.n]

Init ==
  /\ script \in Scripts /\ episode \in Episodes /\ acct \in Accounts
  /\ leg = 0 /\ tape = <<>> /\ high = 0 /\ plan = NoPlan /\ order = NoOrder

(* The next leg prints. The watch knows the high of its window: all the tape before
   the newest bar, only the leg before, or none when the window has just opened. *)
LegEnds ==
  /\ plan = NoPlan /\ leg < Len(script.legs)
  /\ leg' = leg + 1
  /\ tape' = Played(tape, script.start, script.legs[leg + 1])
  /\ high' \in {0, Top(tape), Top(Before(tape'))}
  /\ UNCHANGED <<script, episode, acct, plan, order>>

PlansOf(t, h, w) ==
  {warrior_trend_playbook(t, h), prior_runner(t, h), post_target(t, h),
   second_leg(t, h), fresh_continuation(t, h), level_break(t, h),
   failed_recovery(t, h, w.reject), halt_resume(t, h, w.reject),
   pullaway(t, w), equal_high(t, h, w), curl(t, h, w)} \ {NoPlan}

MakePlan ==
  /\ plan = NoPlan /\ leg > 0
  /\ plan' \in PlansOf(tape, high, episode)
  /\ UNCHANGED <<script, leg, tape, high, episode, acct, order>>

(* The executor: a rejected, untradeable or unaffordable plan is dropped. *)
Submit(spread, violent, factor) ==
  LET qty == Quantity(acct, plan, spread, violent, factor)
  IN  /\ plan # NoPlan /\ order = NoOrder
      /\ ~(violent /\ ViolentReject(plan, tape, episode.wins))
      /\ ~LateReject(plan, tape, high, episode.wins, episode.count)
      /\ Tradeable(plan) /\ qty >= 1
      /\ order' = [order EXCEPT !.qty = qty]
      /\ UNCHANGED <<script, leg, tape, high, episode, acct, plan>>

Drop(violent) ==
  /\ plan # NoPlan /\ order = NoOrder
  /\ \/ violent /\ ViolentReject(plan, tape, episode.wins)
     \/ LateReject(plan, tape, high, episode.wins, episode.count)
     \/ ~Tradeable(plan) \/ CapitalAware(acct, plan.entry, plan.stop) < 1
  /\ plan' = NoPlan
  /\ UNCHANGED <<script, leg, tape, high, episode, acct, order>>

Fill(slip) ==
  /\ order.qty > 0 /\ order.fill = 0
  /\ LET price == Times(plan.entry, slip)
     IN  order' = [order EXCEPT !.fill = price, !.target = FilledTarget(plan, price)]
  /\ UNCHANGED <<script, leg, tape, high, episode, acct, plan>>

Next ==
  \/ LegEnds
  \/ MakePlan
  \/ \E s \in Sizings : Submit(s[1], s[2], s[3])
  \/ \E violent \in BOOLEAN : Drop(violent)
  \/ \E slip \in Slips : Fill(slip)

Spec == Init /\ [][Next]_vars

-----------------------------------------------------------------------------
(* The lowest price of the band in which the watch takes a symbol, 1.50 dollars
   (runner.py, the alerts of the board). *)
Listed == plan # NoPlan => Newest(tape).l >= 1500

(* Whatever the tape, a lane's plan can be traded as planned: its price was printed
   by the bar it follows and is within its cap, the stop lies below the price and
   the target above, and a share never risks more than twelve percent. Every lane of
   warrior_lanes.py builds these four prices by hand. *)
PlanTradeable ==
  plan # NoPlan =>
    /\ Tradeable(plan)
    /\ Newest(tape).l <= plan.entry /\ plan.entry <= Newest(tape).c
    /\ plan.entry <= plan.pay
    /\ plan.entry - plan.stop <= Times(plan.entry, 1200)

(* The size of an order keeps every limit of the account and of the playbook, the
   dollars at risk between price and stop and the value of the position, whatever
   scaled it down. The code drops a limit that leaves not one share: the share of the
   equity that a position may take, and the playbook's caps after the spread has
   narrowed them. *)
OrderBounded ==
  order.qty > 0 =>
    LET risk == plan.entry - plan.stop
        value == order.qty * plan.entry
        room == Share(acct.equity, acct.maxPosition)
    IN  /\ acct.maxRisk > 0 => order.qty * risk <= acct.maxRisk
        /\ room >= plan.entry => value <= room
        /\ (\A s \in Sizings : PlaybookShares(acct, plan.entry, risk, s[1]) > 0) =>
             /\ value <= acct.warriorValue
             /\ acct.warriorRisk > 0 => order.qty * risk <= acct.warriorRisk

(* However far from its plan an order fills, the position is opened with a target
   above the fill; a target that had to move rewards at least the risk left to the
   stop; and the replay brackets the fill as the live lane does, unless the fill
   went through the stop, which only the replay then moves. *)
BracketSound ==
  order.fill > 0 =>
    /\ order.target > order.fill
    /\ order.target # plan.target => order.target - order.fill >= order.fill - plan.stop
    /\ order.fill > plan.stop =>
         ReplayBracket(plan, order.fill) = [stop |-> plan.stop, target |-> order.target]
=============================================================================
