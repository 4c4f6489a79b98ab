------------------------------ MODULE HotWatch ------------------------------
(***************************************************************************)
(* How a mover of the fast scan is graded, and what the hot watch keeps of  *)
(* it. A mover is what the snapshot says of a symbol: the price in dollars, *)
(* the change in percent, the volume in thousands, the score in hundredths, *)
(* and whether its volume just surged. Floats are in millions of shares.    *)
(*                                                                         *)
(* An entry of the hot watch has an age and a time to live, in units of the *)
(* base time to live (eight minutes; strong and runner entries live about   *)
(* two and three of them).                                                  *)
(***************************************************************************)
EXTENDS Integers, Sequences, FiniteSets, SequencesExt, Selections

CONSTANTS
  Symbols,
  FloatOf,      \* the float in the cache, or Unknown
  Unknown,      \* a float nobody has looked up
  HotMax        \* hot_watch_max_symbols

ASSUME HotWatchAssumption ==
  /\ IsFiniteSet(Symbols)
  /\ HotMax \in Nat \ {0}
  /\ Unknown \notin Int
  /\ FloatOf \in [Symbols -> Nat \cup {Unknown}]

Movers == [sym : Symbols, price : Nat, change : Nat, vol : Nat, score : Nat,
           surge : BOOLEAN]

HodMin == 2
HodMax == 20
Sub2Min == 1
MaxFloat == 20
Sub2MaxFloat == 10

IsStrong(m) == m.change >= 10 /\ m.vol >= 200

(* The place in the candidate queue: the watchlist first, then by strength. *)
Priority(m, watched) ==
  CASE m.sym \in watched                 -> 0
    [] m.change >= 20 /\ m.vol >= 500    -> 1
    [] m.change >= 10 /\ m.vol >= 200    -> 2
    [] OTHER                             -> 3

(* A liquid name early in its move, worth bars before it is up 5 percent. *)
Scout(m) ==
  /\ m.price \in Sub2Min..HodMax
  /\ m.change >= 3
  /\ m.vol >= (IF m.price >= 5 THEN 5000 ELSE 2000)
  /\ m.score >= 40

HotVolume(m, premarket) ==
  IF premarket THEN (IF m.price < 5 THEN 50 ELSE 40)
               ELSE (IF m.price < 5 THEN 500 ELSE 200)

(* _hot_watch_reject_reason gives no reason to reject the mover. *)
HotEligible(m, flt, premarket) ==
  /\ m.price \in Sub2Min..HodMax
  /\ m.change >= 5 \/ Scout(m) \/ m.surge
  /\ m.vol >= HotVolume(m, premarket) \/ Scout(m)
  /\ m.score >= 30 \/ Scout(m)
  /\ flt # Unknown => flt <= MaxFloat

TTL(m) ==
  CASE m.change >= 25 /\ m.vol >= 1000 /\ m.score >= 35 -> 3
    [] /\ m.change >= 10
       /\ m.vol >= (IF m.price < 5 THEN 1000 ELSE 500)
       /\ m.score >= 30                                 -> 2
    [] OTHER                                            -> 1
LongestTTL == 3

Expired(e) == e.age >= e.ttl

(* The entries that were added first; the service drops one of them. *)
Oldest(hot) ==
  {s \in DOMAIN hot : \A t \in DOMAIN hot : hot[s].age >= hot[t].age}

Drop(hot, s) == [t \in DOMAIN hot \ {s} |-> hot[t]]
Put(hot, s, e) == [t \in DOMAIN hot \cup {s} |-> IF t = s THEN e ELSE hot[t]]

(* _promote_hot_watch: a mover already on the watch keeps its age unless the
   new grade lives longer, or is a strong one that lives as long. *)
Promoted(hot, m) ==
  LET new == [age |-> 0, ttl |-> TTL(m)]
      old == hot[m.sym]
  IN IF m.sym \notin DOMAIN hot THEN new
     ELSE IF new.ttl > old.ttl \/ (new.ttl > 1 /\ new.ttl >= old.ttl) THEN new
     ELSE old

Ageing(hot) ==
  [s \in DOMAIN hot |->
    [hot[s] EXCEPT !.age = IF @ < LongestTTL THEN @ + 1 ELSE @]]

-----------------------------------------------------------------------------
(* The bar pool: which rows of a snapshot enter it. *)

InPriceBand(p) == p \in HodMin..HodMax \/ (p >= Sub2Min /\ p < HodMin)

Sub2Row(m) == /\ m.price >= Sub2Min /\ m.price < HodMin
              /\ m.change >= 10 /\ m.vol >= 1000
PoolEligible(m) == m.price \in HodMin..HodMax \/ Sub2Row(m)
FloatLimit(m) == IF Sub2Row(m) THEN Sub2MaxFloat ELSE MaxFloat

(* build_float_filtered_hod_pool: the rows in the price band, those up by 30
   percent in front, kept when their float is small. Floats in the cache are
   judged first; for the others "looked" holds the answers of the lookups. A
   cached float that implies ten billion dollars is a stale one: dropped at a
   billion shares, else looked up again. *)
FloatPool(rows, looked, poolMax) ==
  LET eligible == Where(rows, PoolEligible)
      leading(m) == m.change >= 30 /\ m.vol >= 100
      trailing(m) == ~leading(m)
      ranked == Where(eligible, leading) \o Where(eligible, trailing)
      cached(m) == FloatOf[m.sym] # Unknown
      absurd(m) == cached(m) /\ FloatOf[m.sym] * m.price > 10000
      known(m) == cached(m) /\ ~absurd(m) /\ FloatOf[m.sym] <= FloatLimit(m)
      asked(m) == ~cached(m) \/ (absurd(m) /\ FloatOf[m.sym] < 1000)
      small(m) == looked[m.sym] # Unknown /\ looked[m.sym] <= FloatLimit(m)
      passing(m) == asked(m) /\ small(m)
      pass1 == Where(ranked, known)
      pass2 == Where(ranked, passing)
      all == pass1 \o pass2
  IN [i \in 1..(IF Len(all) > poolMax THEN poolMax ELSE Len(all)) |->
        all[i].sym]

(* _prune_hod_bar_pool_by_price *)
InBandOnly(pool, inBand) == Where(pool, LAMBDA s : s \in inBand)

(* _merge_hod_bar_pool: the ranked symbols first, then the old ones that are
   still in the price band, each once, up to the maximum. *)
Merged(pool, ranked, inBand, poolMax) ==
  LET all == ranked \o InBandOnly(pool, inBand)
      firsts == {i \in DOMAIN all : \A j \in 1..(i - 1) : all[j] # all[i]}
      once == AtIndices(all, firsts)
  IN SubSeq(once, 1, IF Len(once) > poolMax THEN poolMax ELSE Len(once))

(* _is_tradeable_hod_watchlist_alert: the volumes of an alert, the relative
   ones in tenths, that put its symbol on the trading watchlist. *)
TradeableAlert(price, vol, rel, bar) ==
  /\ price \in HodMin..HodMax \/ (2 * price >= 3 /\ price < HodMin)
  /\ vol >= 1000 \/ (vol >= 500 /\ (rel >= 10 \/ bar >= 12))
=============================================================================
