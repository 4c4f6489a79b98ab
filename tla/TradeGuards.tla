------------------------------ MODULE TradeGuards ------------------------------
(***************************************************************************)
(* The last checks of the tape and the book before an order                 *)
(* (risk/guards.py), and the memory of blocked setups that a late entry     *)
(* must not chase (analytics/missed_a_plus.py). Time is counted in bars of  *)
(* a minute.                                                                *)
(***************************************************************************)
EXTENDS PatternPlans

UpperWick(b) == b.h - AtLeast(b.o, b.c)
\* The newest bar's volume is below p percent of the average of the five before it.
Fading(tape, p) == Newest(tape).v * 500 < p * Total(Base(tape, 5))
\* The newest bar closes below p percent of its range.
ClosesBelow(tape, p) ==
  LET b == Newest(tape) IN (b.c - b.l) * 100 < p * (b.h - b.l)

\* A breakout that the volume does not confirm.
false_breakout(tape) ==
  LET last == Newest(tape)
      held == /\ Total(tape) >= 500 /\ Vwap(tape) > 0 /\ Above(last.c, Vwap(tape), 1)
              /\ last.c * 100 >= Top(Before(tape)) * 97
              /\ \/ Green(last) /\ ~ClosesBelow(tape, 55)
                 \/ last.c > tape[Len(tape) - 2].c
  IN  /\ Len(tape) >= 6 /\ Total(Base(tape, 5)) > 0
      /\ IF Fading(tape, 80) THEN ~held
         ELSE /\ last.h > last.l /\ Green(last)
              /\ \/ UpperWick(last) * 2 > last.h - last.l /\ Fading(tape, 120)
                 \/ ClosesBelow(tape, 30)

\* A thin book: a wide quote on little volume.
wide_book(look, price, bp) == look.quotes > 0 /\ look.spread * 10000 > bp * price
spread_trap(tape, look) ==
  Newest(tape).h > Newest(tape).l /\ wide_book(look, Newest(tape).c, 50) /\ Fading(tape, 120)
spike_trap(tape) ==
  LET last == Newest(tape)
      prev == tape[Len(tape) - 1]
  IN  \/ Green(last) /\ UpperWick(last) > 2 * (last.c - last.o)
      \/ last.o > prev.h /\ last.c < last.o

\* A VWAP reclaim scout may pass the thin book while its tape is active.
allow_vwap_reclaim_scout_trade_guard_exception(tape, look, hit) ==
  LET last == Newest(tape)
  IN  /\ hit.tier = "vwap_reclaim_scout" /\ Green(last) /\ ~wide_book(look, last.c, 100)
      /\ Total(tape) >= 500 /\ RecentVolume(tape) >= 150 /\ last.v >= 40
      /\ ~Fading(tape, 75) /\ UpperWick(last) <= 2 * (last.c - last.o)
      /\ hit.vwap > 0 => Above1000(last.c, hit.vwap, 1003)

PullbackPatterns == {"vwap_pullback", "pullback_base", "hod_reclaim", "first_pullback_reclaim"}
(* TradeGuard.check_entry; market is what the panic detector and the halt tracker say. *)
check_entry(tape, look, hit, market) ==
  FirstOf(<<
    <<"market panic", market = "panic">>,
    <<"halted", market = "halted">>,
    <<"guard spread too wide", wide_book(look, Newest(tape).c, 100)>>,
    <<"false breakout", hit.pattern \notin PullbackPatterns /\ false_breakout(tape)>>,
    <<"liquidity trap", /\ Len(tape) >= 6 /\ spread_trap(tape, look)
                        /\ ~allow_vwap_reclaim_scout_trade_guard_exception(tape, look, hit)>>,
    <<"liquidity trap", Len(tape) >= 6 /\ ~spread_trap(tape, look) /\ spike_trap(tape)>> >>)

-----------------------------------------------------------------------------
(* What a blocked setup is worth remembering for, out of a hundred. *)
a_plus_score(tape, look, level) ==
  LET last == Newest(tape)
      recent == Average(Final(tape, 5))
      day == Total(tape)
      points(n, holds) == IF holds THEN n ELSE 0
  IN  25
      + (IF day >= 2000 \/ recent >= 150 THEN 25 ELSE points(18, day >= 500 /\ recent >= 50))
      + points(10, Rvol(tape) >= 1500)
      + points(15, Vwap(tape) > 0 /\ Above1000(last.c, Vwap(tape), 995))
      + points(15, level > 0 /\ Above1000(last.c, level, 995))
      + points(10, WithinTop(last.c, Top(Final(tape, 20)), 800))
      + points(10, look.quotes > 0 /\ ~wide_book(look, last.c, IF last.c < 5000 THEN 90 ELSE 60))
      - points(25, wide_book(look, last.c, IF last.c < 5000 THEN 90 ELSE 60))
      - points(30, Red(last) /\ ClosesBelow(tape, 35))
      + points(5, last.h > last.l /\ ~ClosesBelow(tape, 45))

\* A refusal that only says to wait for a better tape is no missed price.
NonActionable == {"too far from HOD", "dump candle", "risk too wide"}
(* The memory with one more blocked setup, if it is one that later entries heed. *)
record_blocked(blocked, tape, look, why, level) ==
  IF why \in NonActionable \/ a_plus_score(tape, look, level) < 80 THEN blocked
  ELSE blocked \union {[at |-> Len(tape), price |-> Newest(tape).c]}

(* Three minutes on, a block is held correct when the price has fallen since. *)
correct_reject(tape, r) ==
  LET after == SubSeq(tape, r.at, Len(tape))
      up == Pct(AtLeast(r.price, Top(after)), r.price)
      down == Drop(r.price, AtMost(r.price, Bottom(after)))
      hard == down >= 600 \/ (down >= 300 /\ down * 4 >= up * 5)
  IN  /\ Len(tape) - r.at >= 3
      /\ \/ hard /\ up < 800
         \/ up < 300 /\ (down >= 300 \/ Newest(tape).c * 1000 <= r.price * 985)

(* An entry above the cheapest block of the last half hour comes late. In a replay the
   blocks carry the time of the wall clock: they neither age nor turn out right. *)
late_chase(tape, blocked, price, replay) ==
  LET heeded == {r \in blocked : replay \/ (Len(tape) - r.at <= 30 /\ ~correct_reject(tape, r))}
      cheapest == CHOOSE p \in {r.price : r \in heeded} : \A r \in heeded : p <= r.price
  IN  heeded # {} /\ price * 1000 > cheapest * (IF cheapest < 5000 THEN 1035 ELSE 1025)
=============================================================================
