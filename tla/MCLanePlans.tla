----------------------------- MODULE MCLanePlans -----------------------------
(***************************************************************************)
(* Tapes that bring every lane to a plan: runs, spikes, dumps, bases, halts *)
(* and reclaims from several prices, each leg as <<bars, move, upper wick,  *)
(* lower wick, thousands of shares, halt before it>>, moves in basis points *)
(* of the last close.                                                       *)
(***************************************************************************)
EXTENDS LanePlans

Leg(n, move, over, under, v, gap) ==
  [n |-> n, move |-> move, over |-> over, under |-> under, v |-> v, gap |-> gap]
Script(start, legs) == [start |-> start, legs |-> legs]

McScripts ==
  {Script(2600, <<Leg(4, 11200, 10100, 9950, 300, FALSE), Leg(1, 8800, 10020, 9950,
           300, FALSE), Leg(12, 10040, 10020, 9920, 20, FALSE), Leg(1, 11300, 10150,
           9980, 180, FALSE)>>),
   Script(4000, <<Leg(3, 10800, 10050, 9990, 40, FALSE), Leg(1, 11200, 10600, 9900,
           100, FALSE), Leg(1, 8800, 10100, 9900, 200, FALSE), Leg(8, 10040, 10020,
           9920, 20, FALSE), Leg(1, 11300, 10150, 10000, 300, FALSE)>>),
   Script(9000, <<Leg(2, 10500, 10100, 9990, 150, FALSE), Leg(1, 11200, 10020, 9900,
           600, FALSE), Leg(1, 8800, 10100, 9950, 60, FALSE), Leg(4, 9600, 10050, 9980,
           40, FALSE), Leg(12, 9980, 10040, 9980, 80, TRUE), Leg(1, 10200, 10020, 9980,
           100, FALSE), Leg(1, 10600, 10020, 9980, 300, FALSE)>>),
   Script(9000, <<Leg(4, 10500, 10100, 9950, 40, FALSE), Leg(1, 11200, 10200, 9980,
           100, FALSE), Leg(1, 8800, 10020, 9950, 200, FALSE), Leg(4, 9600, 10050,
           9980, 60, FALSE), Leg(20, 10000, 10040, 9920, 50, FALSE), Leg(1, 10100,
           10050, 9980, 100, FALSE)>>),
   Script(1500, <<Leg(4, 10800, 10100, 9990, 150, FALSE), Leg(2, 9900, 10050, 9950, 40,
           FALSE), Leg(2, 10020, 10080, 9960, 50, FALSE), Leg(2, 10200, 10020, 9980,
           100, FALSE), Leg(1, 11300, 10050, 9950, 100, FALSE)>>),
   Script(1400, <<Leg(4, 11200, 10020, 9990, 150, FALSE), Leg(4, 9800, 10050, 9950, 40,
           FALSE), Leg(2, 10200, 10020, 9980, 150, TRUE), Leg(1, 11300, 10050, 9950,
           100, FALSE)>>),
   Script(4000, <<Leg(6, 10800, 10020, 9950, 150, FALSE), Leg(4, 9700, 10020, 9980, 20,
           FALSE), Leg(8, 10020, 10080, 9980, 30, FALSE), Leg(1, 10400, 10150, 10000,
           180, FALSE)>>),
   Script(4000, <<Leg(4, 10800, 10020, 9990, 150, FALSE), Leg(1, 10800, 10600, 9900,
           300, FALSE), Leg(1, 9200, 10020, 9990, 60, FALSE), Leg(16, 10040, 10020,
           9920, 30, FALSE), Leg(1, 10100, 10020, 10000, 600, FALSE)>>),
   Script(4000, <<Leg(2, 10200, 10050, 9950, 300, FALSE), Leg(1, 11500, 10600, 9900,
           600, FALSE), Leg(3, 9800, 10020, 9980, 60, FALSE), Leg(3, 10040, 10040,
           9980, 30, TRUE), Leg(2, 10200, 10020, 9980, 100, FALSE), Leg(1, 11300,
           10020, 9980, 180, FALSE)>>),
   Script(1500, <<Leg(6, 10800, 10050, 9990, 150, FALSE), Leg(3, 9900, 10050, 9980, 40,
           FALSE), Leg(20, 10020, 10040, 9960, 30, FALSE), Leg(2, 10300, 10020, 9980,
           100, TRUE), Leg(1, 10300, 10020, 10000, 600, FALSE)>>),
   Script(6500, <<Leg(6, 10800, 10020, 9990, 300, FALSE), Leg(1, 11200, 10600, 9980,
           600, FALSE), Leg(1, 9200, 10100, 9900, 60, FALSE), Leg(4, 9800, 10050, 9950,
           60, FALSE), Leg(8, 10020, 10040, 9980, 20, FALSE), Leg(1, 10600, 10150,
           9980, 300, FALSE)>>),
   Script(5500, <<Leg(3, 10200, 10020, 9990, 40, FALSE), Leg(1, 11500, 10200, 9900,
           600, FALSE), Leg(1, 9700, 10050, 9980, 60, FALSE), Leg(16, 10010, 10020,
           9920, 80, FALSE), Leg(1, 10100, 10020, 9950, 300, FALSE)>>),
   Script(6500, <<Leg(4, 10800, 10020, 9950, 150, FALSE), Leg(1, 9900, 10020, 9950, 60,
           FALSE), Leg(2, 10020, 10040, 9960, 30, FALSE), Leg(1, 10600, 10050, 9950,
           300, FALSE)>>),
   Script(9000, <<Leg(6, 10200, 10100, 9990, 40, FALSE), Leg(1, 10800, 10020, 9980,
           600, FALSE), Leg(1, 9500, 10020, 9900, 300, FALSE), Leg(20, 9980, 10040,
           9960, 20, FALSE), Leg(1, 10900, 10150, 10000, 180, FALSE)>>),
   Script(9000, <<Leg(6, 10200, 10100, 9990, 40, FALSE), Leg(1, 10800, 10020, 9980,
           600, FALSE), Leg(1, 9500, 10020, 9900, 300, FALSE), Leg(20, 9980, 10040,
           9960, 20, FALSE), Leg(1, 10900, 10150, 10000, 180, FALSE)>>),
   Script(6500, <<Leg(6, 10800, 10100, 9950, 300, FALSE), Leg(1, 9500, 10100, 9950, 60,
           FALSE), Leg(3, 9600, 10020, 9980, 60, FALSE), Leg(20, 10010, 10020, 9920,
           30, FALSE), Leg(2, 10200, 10020, 9980, 100, TRUE), Leg(1, 11300, 10000,
           9980, 180, FALSE)>>),
   Script(4000, <<Leg(6, 11200, 10050, 9990, 40, FALSE), Leg(1, 9300, 10020, 9980, 600,
           FALSE), Leg(4, 9600, 10050, 9950, 60, FALSE), Leg(16, 10040, 10020, 9980,
           30, TRUE), Leg(2, 10200, 10020, 9980, 150, TRUE), Leg(1, 10400, 10050, 9980,
           180, FALSE)>>),
   Script(3300, <<Leg(4, 10200, 10020, 9990, 150, FALSE), Leg(16, 10000, 10040, 9920,
           30, FALSE), Leg(2, 10300, 10020, 9980, 100, FALSE), Leg(1, 10200, 10000,
           9950, 180, FALSE)>>),
   Script(2600, <<Leg(4, 10800, 10050, 9990, 80, FALSE), Leg(1, 9800, 10050, 9950, 20,
           FALSE), Leg(20, 10020, 10040, 9980, 80, FALSE), Leg(1, 10900, 10020, 10000,
           300, FALSE)>>),
   Script(4000, <<Leg(3, 10800, 10050, 9950, 150, FALSE), Leg(20, 10020, 10080, 9980,
           50, FALSE), Leg(1, 10600, 10050, 9980, 180, FALSE)>>),
   Script(2600, <<Leg(4, 10800, 10020, 9990, 80, FALSE), Leg(1, 9500, 10020, 9900, 300,
           FALSE), Leg(1, 9600, 10050, 9950, 60, FALSE), Leg(4, 10010, 10080, 9920, 50,
           FALSE), Leg(1, 11300, 10020, 9950, 60, FALSE)>>),
   Script(3000, <<Leg(6, 10800, 10050, 9990, 300, FALSE), Leg(1, 8800, 10100, 9950,
           200, FALSE), Leg(5, 10010, 10040, 9960, 30, FALSE), Leg(1, 10600, 10150,
           9950, 100, FALSE)>>),
   Script(3000, <<Leg(4, 10800, 10100, 9990, 150, FALSE), Leg(2, 9700, 10020, 9950, 20,
           FALSE), Leg(12, 9980, 10040, 9980, 50, FALSE), Leg(2, 10200, 10020, 9980,
           150, FALSE), Leg(1, 11300, 10150, 9950, 600, FALSE)>>),
   Script(3000, <<Leg(2, 11200, 10100, 9950, 80, FALSE), Leg(20, 9980, 10080, 9980, 50,
           FALSE), Leg(1, 10300, 10020, 9980, 100, TRUE), Leg(1, 10900, 10050, 9980,
           180, FALSE)>>),
   Script(2200, <<Leg(4, 11200, 10020, 9990, 150, FALSE), Leg(1, 11500, 10600, 9980,
           600, FALSE), Leg(1, 8800, 10020, 9990, 200, FALSE), Leg(4, 9900, 10050,
           9980, 60, FALSE), Leg(20, 10040, 10020, 9960, 50, FALSE), Leg(1, 10300,
           10020, 9980, 100, FALSE), Leg(1, 10400, 10150, 10000, 60, FALSE)>>),
   Script(3000, <<Leg(6, 10800, 10100, 9950, 150, FALSE), Leg(1, 10800, 10600, 9980,
           600, FALSE), Leg(4, 9900, 10050, 9950, 60, FALSE), Leg(2, 9980, 10040, 9960,
           20, FALSE), Leg(1, 10400, 10150, 10000, 100, FALSE)>>),
   Script(4000, <<Leg(6, 11200, 10050, 9990, 300, FALSE), Leg(1, 9300, 10020, 9980,
           600, FALSE), Leg(1, 9500, 10020, 9900, 200, FALSE), Leg(3, 9900, 10020,
           9950, 20, FALSE), Leg(2, 10200, 10020, 9980, 100, FALSE), Leg(1, 10600,
           10150, 9980, 300, FALSE)>>),
   Script(5500, <<Leg(6, 10800, 10020, 9990, 300, FALSE), Leg(1, 11500, 10200, 9980,
           300, FALSE), Leg(3, 9600, 10050, 9980, 20, FALSE), Leg(3, 10020, 10020,
           9920, 80, FALSE), Leg(1, 10300, 10020, 9980, 150, TRUE), Leg(1, 10900,
           10050, 10000, 300, FALSE)>>),
   Script(9000, <<Leg(6, 11200, 10020, 9990, 150, FALSE), Leg(1, 11200, 10200, 9900,
           300, FALSE), Leg(4, 10010, 10040, 9980, 80, FALSE), Leg(1, 10200, 10020,
           9980, 150, TRUE), Leg(1, 11300, 10150, 9950, 600, FALSE)>>),
   Script(1900, <<Leg(3, 11200, 10050, 9950, 300, FALSE), Leg(1, 10800, 10600, 9980,
           100, FALSE), Leg(4, 9700, 10020, 9980, 40, FALSE), Leg(3, 10000, 10020,
           9980, 20, FALSE), Leg(1, 11300, 10050, 9980, 180, FALSE)>>),
   Script(1500, <<Leg(6, 10800, 10100, 9990, 80, FALSE), Leg(1, 9800, 10050, 9980, 20,
           FALSE), Leg(4, 9980, 10040, 9980, 30, FALSE), Leg(1, 10300, 10020, 9980,
           100, FALSE), Leg(1, 10900, 10000, 10000, 60, FALSE)>>),
   Script(2600, <<Leg(6, 11200, 10020, 9990, 300, FALSE), Leg(1, 11200, 10200, 9980,
           100, FALSE), Leg(1, 8800, 10100, 9990, 300, FALSE), Leg(1, 9700, 10050,
           9980, 20, FALSE), Leg(16, 9980, 10040, 9980, 50, FALSE), Leg(1, 10900,
           10150, 9950, 300, FALSE)>>),
   Script(6500, <<Leg(4, 10500, 10100, 9950, 40, FALSE), Leg(1, 8800, 10100, 9900, 60,
           FALSE), Leg(1, 9900, 10050, 9980, 60, FALSE), Leg(16, 10040, 10040, 9960,
           80, TRUE), Leg(1, 10600, 10020, 9980, 600, FALSE)>>),
   Script(2600, <<Leg(6, 10500, 10020, 9950, 80, FALSE), Leg(1, 9200, 10100, 9900, 300,
           FALSE), Leg(2, 9800, 10020, 9950, 60, FALSE), Leg(4, 10010, 10020, 9920, 20,
           FALSE), Leg(1, 10600, 10150, 9950, 600, FALSE)>>)}

Episode(count, reject, reason, trig, vol, micro, top, wins) ==
  [count |-> count, reject |-> reject, reason |-> reason, trig |-> trig, vol |-> vol,
   micro |-> micro, high |-> top, wins |-> wins]
McEpisodes ==
  {Episode(0, 3000, "explosive_spike", "momentum_burst", 100, FALSE, 3000, 0),
   Episode(0, 3600, "shooting_star", "a_plus_reclaim", 100, FALSE, 3600, 0),
   Episode(1, 4000, "other", "momentum_burst", 50, FALSE, 0, 1),
   Episode(2, 4000, "other", "momentum_burst", 120, TRUE, 4000, 1),
   Episode(0, 6000, "bad_tape", "psych_level_break", 60, TRUE, 5000, 0)}

Account(equity, riskPct, maxRisk, maxPosition) ==
  [equity |-> equity, riskPct |-> riskPct, minRisk |-> 5000, maxRisk |-> maxRisk,
   maxPosition |-> maxPosition, warriorValue |-> 2000000, warriorRisk |-> 150000]
McAccounts ==
  {Account(25000000, 1, 50000, 100), Account(500000, 2, 50000, 50), Account(4000, 1, 50000, 100)}
McSizings == {<<100, FALSE, 0>>, <<60, TRUE, 0>>, <<100, TRUE, 25>>}
=============================================================================
