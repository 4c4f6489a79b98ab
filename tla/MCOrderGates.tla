----------------------------- MODULE MCOrderGates -----------------------------
(***************************************************************************)
(* Tapes that bring every scanner to a hit, every tier to a signal and the  *)
(* gates to their refusals: a run, one or two pullbacks, a reclaim or two.  *)
(* Legs as <<bars, move, upper wick, lower wick, thousands of shares>>,     *)
(* moves in basis points of the last close.                                 *)
(***************************************************************************)
EXTENDS OrderGates

Leg(n, move, over, under, v) == [n |-> n, move |-> move, over |-> over, under |-> under, v |-> v]
Script(start, legs) == [start |-> start, legs |-> legs]

McScripts ==
  {Script(9000, <<Leg(3, 11500, 10010, 9980, 100), Leg(6, 9950, 10050, 9980, 120),
           Leg(3, 9950, 10050, 9950, 50), Leg(1, 10100, 10010, 9990, 250),
           Leg(2, 10200, 10200, 9950, 500), Leg(2, 10200, 10010, 9950, 500)>>),
   Script(1500, <<Leg(5, 11200, 10050, 9980, 100), Leg(3, 10000, 10050, 9950, 80),
           Leg(6, 9900, 10020, 9980, 80), Leg(1, 10020, 10200, 9990, 500),
           Leg(1, 10500, 10010, 9990, 500), Leg(1, 10100, 10050, 9950, 50)>>),
   Script(15000, <<Leg(3, 10800, 10050, 9980, 200), Leg(4, 9900, 10050, 9950, 120),
           Leg(2, 10020, 10200, 9950, 80), Leg(2, 10200, 10010, 9990, 500),
           Leg(2, 10500, 10200, 9990, 250)>>),
   Script(2600, <<Leg(3, 11200, 10010, 9980, 100), Leg(4, 9950, 10050, 9980, 80),
           Leg(6, 9800, 10020, 9980, 15), Leg(1, 10500, 10200, 9950, 250),
           Leg(2, 10020, 10050, 9950, 250), Leg(1, 10300, 10010, 9990, 120)>>),
   Script(9000, <<Leg(3, 10800, 10010, 9980, 400), Leg(4, 10020, 10050, 9950, 50),
           Leg(4, 9900, 10050, 9980, 120), Leg(1, 10100, 10010, 9950, 30),
           Leg(2, 10300, 10050, 9990, 120), Leg(1, 10100, 10010, 9950, 30)>>),
   Script(15000, <<Leg(2, 11500, 10010, 9980, 200), Leg(3, 9800, 10020, 9980, 120),
           Leg(6, 9950, 10050, 9950, 50), Leg(1, 10300, 10050, 9990, 500),
           Leg(1, 10200, 10010, 9990, 120)>>),
   Script(2600, <<Leg(4, 11500, 10050, 9980, 100), Leg(6, 9900, 10050, 9980, 30),
           Leg(3, 9600, 10050, 9950, 80), Leg(1, 10100, 10200, 9990, 80),
           Leg(2, 10100, 10010, 9990, 30), Leg(2, 10100, 10050, 9950, 120)>>),
   Script(15000, <<Leg(5, 10500, 10050, 9980, 100), Leg(6, 9800, 10050, 9950, 120),
           Leg(4, 9900, 10020, 9980, 120), Leg(2, 10500, 10050, 9950, 250),
           Leg(1, 10300, 10010, 9990, 500), Leg(1, 9900, 10050, 9990, 120)>>),
   Script(4000, <<Leg(5, 10500, 10050, 9980, 400), Leg(3, 10000, 10050, 9950, 30),
           Leg(3, 9800, 10050, 9980, 30), Leg(1, 10020, 10010, 9950, 250),
           Leg(1, 10200, 10050, 9990, 250), Leg(2, 10300, 10010, 9990, 250)>>),
   Script(9000, <<Leg(5, 11500, 10010, 9980, 100), Leg(6, 9600, 10020, 9980, 30),
           Leg(2, 10020, 10050, 9950, 80), Leg(1, 10300, 10050, 9950, 500),
           Leg(1, 10020, 10010, 9950, 120), Leg(2, 10300, 10050, 9990, 500)>>),
   Script(15000, <<Leg(3, 10500, 10050, 9980, 100), Leg(3, 10000, 10050, 9950, 120),
           Leg(2, 9900, 10050, 9950, 15), Leg(2, 10020, 10200, 9950, 120),
           Leg(1, 10300, 10050, 9950, 500)>>),
   Script(9000, <<Leg(5, 11200, 10010, 9980, 400), Leg(4, 9800, 10050, 9950, 15),
           Leg(6, 10020, 10050, 9980, 30), Leg(1, 10300, 10050, 9990, 500),
           Leg(1, 10200, 10050, 9990, 500)>>),
   Script(4000, <<Leg(4, 10800, 10010, 9980, 100), Leg(2, 10020, 10050, 9950, 80),
           Leg(3, 9900, 10050, 9980, 30), Leg(2, 10020, 10010, 9990, 50),
           Leg(1, 10300, 10200, 9950, 120)>>),
   Script(15000, <<Leg(2, 10800, 10010, 9980, 200), Leg(6, 10000, 10050, 9980, 15),
           Leg(6, 9950, 10050, 9980, 120), Leg(1, 10300, 10200, 9990, 500),
           Leg(1, 10020, 10200, 9950, 120), Leg(1, 10020, 10010, 9990, 500)>>),
   Script(9000, <<Leg(3, 11500, 10050, 9980, 200), Leg(6, 9800, 10050, 9980, 30),
           Leg(2, 10500, 10050, 9950, 250), Leg(2, 10020, 10050, 9950, 500),
           Leg(1, 10100, 10200, 9990, 500)>>),
   Script(1500, <<Leg(2, 10800, 10010, 9980, 800), Leg(2, 10020, 10050, 9950, 30),
           Leg(4, 9900, 10020, 9980, 50), Leg(2, 10500, 10010, 9950, 500)>>),
   Script(9000, <<Leg(4, 10500, 10050, 9980, 100), Leg(2, 10000, 10020, 9980, 15),
           Leg(6, 9900, 10020, 9950, 50), Leg(1, 10200, 10010, 9950, 80),
           Leg(2, 10020, 10050, 9950, 250), Leg(2, 10500, 10050, 9950, 250)>>),
   Script(1300, <<Leg(3, 10800, 10050, 9980, 100), Leg(4, 9800, 10020, 9980, 30),
           Leg(4, 9900, 10050, 9980, 50), Leg(2, 10500, 10050, 9950, 120),
           Leg(1, 10100, 10050, 9950, 500), Leg(1, 10300, 10050, 9990, 500)>>),
   Script(1300, <<Leg(3, 10800, 10010, 9980, 100), Leg(4, 9600, 10020, 9980, 80),
           Leg(4, 9950, 10020, 9980, 15), Leg(2, 10500, 10200, 9950, 50),
           Leg(1, 10300, 10010, 9990, 80), Leg(2, 10020, 10200, 9990, 120)>>),
   Script(4000, <<Leg(4, 10500, 10050, 9980, 400), Leg(2, 9900, 10020, 9950, 30),
           Leg(3, 9600, 10050, 9980, 30), Leg(2, 10100, 10200, 9990, 250),
           Leg(1, 9900, 10200, 9990, 250), Leg(2, 10300, 10200, 9990, 120)>>),
   Script(1100, <<Leg(3, 11500, 10050, 9980, 100), Leg(4, 9800, 10020, 9950, 15),
           Leg(6, 10000, 10050, 9950, 120), Leg(1, 9900, 10010, 9950, 80),
           Leg(2, 10200, 10050, 9990, 80)>>),
   Script(9000, <<Leg(4, 11500, 10010, 9980, 800), Leg(2, 10020, 10020, 9950, 50),
           Leg(2, 9900, 10200, 9990, 250), Leg(1, 10500, 10200, 9950, 250)>>),
   Script(2600, <<Leg(2, 11500, 10050, 9980, 200), Leg(3, 10020, 10050, 9980, 80),
           Leg(2, 10500, 10200, 9990, 250), Leg(2, 10020, 10050, 9990, 120),
           Leg(1, 10300, 10010, 9950, 30)>>),
   Script(6500, <<Leg(2, 10800, 10010, 9980, 400), Leg(3, 9800, 10020, 9980, 120),
           Leg(2, 9900, 10010, 9990, 80), Leg(1, 10100, 10050, 9950, 250),
           Leg(2, 10500, 10200, 9990, 250)>>),
   Script(6500, <<Leg(4, 10500, 10050, 9980, 100), Leg(4, 9600, 10050, 9980, 120),
           Leg(2, 10020, 10010, 9950, 500), Leg(1, 10200, 10050, 9950, 500),
           Leg(2, 10200, 10010, 9990, 250)>>),
   Script(6500, <<Leg(4, 10800, 10050, 9980, 100), Leg(3, 9950, 10050, 9950, 50),
           Leg(3, 10020, 10020, 9950, 30), Leg(1, 10300, 10050, 9990, 120),
           Leg(1, 10200, 10010, 9950, 30)>>),
   Script(2600, <<Leg(5, 11200, 10050, 9980, 400), Leg(2, 10020, 10050, 9950, 15),
           Leg(2, 10100, 10050, 9950, 30), Leg(1, 9900, 10200, 9950, 50),
           Leg(2, 10200, 10010, 9990, 500)>>),
   Script(4000, <<Leg(4, 10800, 10050, 9980, 200), Leg(2, 9900, 10020, 9950, 50),
           Leg(6, 10020, 10020, 9980, 80), Leg(1, 10020, 10050, 9950, 80),
           Leg(1, 10020, 10010, 9950, 500), Leg(1, 10500, 10010, 9990, 500)>>),
   Script(9000, <<Leg(2, 11500, 10010, 9980, 100), Leg(4, 10020, 10020, 9980, 120),
           Leg(3, 9800, 10020, 9980, 120), Leg(1, 10300, 10010, 9990, 250),
           Leg(2, 10300, 10050, 9990, 500), Leg(2, 10300, 10050, 9950, 50)>>),
   Script(2600, <<Leg(3, 11500, 10010, 9980, 100), Leg(6, 9900, 10050, 9980, 50),
           Leg(3, 10020, 10020, 9950, 30), Leg(2, 10300, 10010, 9950, 80),
           Leg(1, 10020, 10010, 9990, 30), Leg(1, 10100, 10010, 9950, 80)>>),
   Script(2600, <<Leg(4, 11200, 10010, 9980, 200), Leg(4, 9950, 10020, 9980, 30),
           Leg(3, 9800, 10020, 9950, 80), Leg(2, 10020, 10010, 9990, 30),
           Leg(1, 9900, 10050, 9950, 80), Leg(2, 10100, 10050, 9950, 500)>>),
   Script(2600, <<Leg(5, 11500, 10010, 9980, 200), Leg(3, 9900, 10050, 9980, 120),
           Leg(6, 9800, 10020, 9980, 30), Leg(1, 10200, 10010, 9950, 80),
           Leg(1, 10200, 10200, 9990, 50), Leg(1, 10300, 10010, 9990, 500)>>),
   Script(1100, <<Leg(5, 10800, 10050, 9980, 100), Leg(6, 9950, 10020, 9980, 30),
           Leg(6, 9800, 10020, 9950, 120), Leg(2, 10020, 10050, 9990, 250),
           Leg(2, 10200, 10050, 9950, 120), Leg(2, 10500, 10010, 9990, 500)>>),
   Script(1500, <<Leg(5, 11200, 10050, 9980, 200), Leg(6, 9800, 10050, 9980, 120),
           Leg(6, 9900, 10050, 9950, 15), Leg(1, 9900, 10050, 9990, 250),
           Leg(1, 10500, 10010, 9990, 80), Leg(1, 10200, 10010, 9990, 500)>>),
   Script(1500, <<Leg(2, 10800, 10050, 9980, 200), Leg(4, 10000, 10020, 9980, 50),
           Leg(2, 10300, 10050, 9950, 120), Leg(1, 10500, 10010, 9950, 80),
           Leg(1, 10300, 10200, 9950, 50)>>),
   Script(15000, <<Leg(2, 11500, 10010, 9980, 200), Leg(6, 9900, 10050, 9950, 120),
           Leg(1, 10200, 10010, 9990, 30), Leg(2, 10100, 10050, 9950, 250),
           Leg(1, 10300, 10010, 9950, 30)>>),
   Script(4000, <<Leg(2, 10500, 10050, 9980, 200), Leg(6, 9950, 10020, 9950, 80),
           Leg(6, 9800, 10020, 9950, 30), Leg(2, 10020, 10200, 9950, 250),
           Leg(2, 10500, 10200, 9950, 30), Leg(1, 10200, 10050, 9950, 120)>>),
   Script(15000, <<Leg(4, 10500, 10010, 9980, 100), Leg(2, 9900, 10050, 9950, 50),
           Leg(3, 10000, 10050, 9950, 15), Leg(1, 10020, 10200, 9950, 50),
           Leg(1, 10500, 10010, 9990, 30), Leg(1, 10300, 10200, 9950, 250)>>),
   Script(15000, <<Leg(3, 10500, 10050, 9980, 100), Leg(3, 9600, 10050, 9980, 80),
           Leg(2, 9900, 10050, 9980, 15), Leg(2, 10500, 10050, 9950, 120),
           Leg(2, 10500, 10200, 9990, 500), Leg(2, 9900, 10050, 9990, 80)>>),
   Script(2600, <<Leg(5, 11200, 10010, 9980, 100), Leg(6, 10020, 10050, 9980, 50),
           Leg(4, 9800, 10020, 9980, 50), Leg(2, 10100, 10010, 9990, 500),
           Leg(1, 9900, 10010, 9950, 250), Leg(2, 10100, 10200, 9990, 120)>>),
   Script(1300, <<Leg(5, 10500, 10050, 9980, 800), Leg(3, 9950, 10020, 9950, 200),
           Leg(4, 10000, 10020, 9980, 80), Leg(2, 10100, 10050, 9980, 250)>>),
   Script(1200, <<Leg(4, 10800, 10050, 9980, 400), Leg(2, 9950, 10020, 9980, 50),
           Leg(4, 10000, 10020, 9950, 50), Leg(1, 10100, 10050, 9990, 250),
           Leg(1, 10100, 10010, 9990, 500)>>),
   Script(1400, <<Leg(3, 10800, 10050, 9980, 800), Leg(3, 10020, 10020, 9950, 120),
           Leg(3, 9800, 10020, 9980, 200), Leg(1, 10200, 10010, 9990, 500),
           Leg(1, 10200, 10050, 9990, 500)>>),
   Script(1200, <<Leg(4, 11200, 10010, 9980, 200), Leg(3, 9950, 10050, 9980, 200),
           Leg(6, 10000, 10020, 9980, 80), Leg(1, 10100, 10010, 9980, 80),
           Leg(1, 10200, 10050, 9990, 250)>>),
   Script(1500, <<Leg(4, 10300, 10050, 9980, 800), Leg(3, 9900, 10050, 9950, 120),
           Leg(1, 10100, 10050, 9990, 80), Leg(2, 10100, 10010, 9990, 120)>>)}

Known(float, daily, age, quotes, spread, depth, flow, five) ==
  [float |-> float, daily |-> daily, age |-> age, quotes |-> quotes, spread |-> spread,
   depth |-> depth, flow |-> flow, five |-> five, veto |-> FALSE]
Five(o, c) == [o |-> o, c |-> c]
McLooks ==
  {Known(5, 0, 10, 0, 0, 0, 0, <<>>),
   Known(15, 400, 10, 3, 20, 600, -40, <<Five(1000, 1100)>>),
   Known(8, 0, 400, 2, 40, 800, 20, <<Five(1000, 1100), Five(1100, 1200), Five(1200, 1300)>>),
   Known(8, 0, 10, 5, 40, 1000, 0, <<Five(1000, 1100), Five(1100, 1050), Five(1050, 1030)>>),
   Known(8, 0, 10, 3, 110, 3000, 40, <<Five(1000, 1100)>>),
   Known(5, 0, 10, 0, 0, 0, -40, <<Five(1000, 1100)>>)}
McConfigs ==
  {[timed |-> TRUE, capped |-> TRUE, replay |-> FALSE],
   [timed |-> FALSE, capped |-> TRUE, replay |-> FALSE],
   [timed |-> FALSE, capped |-> FALSE, replay |-> TRUE]}
McNews == {-30, 0, 50}
McMarkets == {"calm", "panic", "halted"}
=============================================================================
