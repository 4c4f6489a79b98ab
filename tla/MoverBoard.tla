----------------------------- MODULE MoverBoard -----------------------------
(***************************************************************************)
(* How movers reach the bar pool and the hot watch. Four threads share the  *)
(* lists: the pool refresh worker, the fast scan worker, the candidate      *)
(* hydration worker and the main loop, which alone drains the event queue.  *)
(* The workers read a list, compute, and store: between two steps of one    *)
(* the others run.                                                         *)
(*                                                                         *)
(* Left out: what the candidate worker fetches for the symbols it loads     *)
(* (BarSeeding is about the fetches), the tick tracker, the dashboard, and  *)
(* that a float a lookup has found stays in the cache.                      *)
(***************************************************************************)
EXTENDS HotWatch

CONSTANTS
  Kinds,         \* what a snapshot may say of a symbol, without the symbol
  PoolMax,       \* hod_momentum_bar_pool_max
  ProcessMax,    \* fast_scan_process_max
  BatchMax,      \* candidate_hydrate_batch_max
  QueueMax,      \* candidate_hydrate_queue_max
  EventMax,      \* bound of the event queue
  DeferMax,      \* movers kept while a timed entry is pending
  MaxScans,      \* bound: fast scans that find a mover
  MaxRefreshes,  \* bound: pool refreshes
  MaxTicks       \* bound: passing of the base time to live

ASSUME BoardAssumption ==
  /\ \A k \in Kinds : \A s \in Symbols : [k EXCEPT !.sym = s] \in Movers
  /\ {PoolMax, ProcessMax, BatchMax, QueueMax, EventMax, DeferMax}
       \subseteq Nat \ {0}
  /\ {MaxScans, MaxRefreshes, MaxTicks} \subseteq Nat

VARIABLES
  pool,      \* _hod_bar_pool
  known,     \* _fast_scan_known
  hot,       \* the hot watch: its entries by symbol
  queue,     \* the candidate queue, in the order it is served
  deferred,  \* _deferred_fast_scan_movers
  events,    \* the event queue: pool refreshes and fast scans
  watch,     \* the symbols on the trading watchlist
  entering,  \* whether a timed entry is pending
  refresh,   \* the pool worker: where it is and the list it carries
  cand,      \* the candidate worker
  pruning,   \* for each thread that prunes: the entries it read as expired
  races,     \* how often a prune put back a dropped entry, and how often a
             \* symbol was appended to a pool that had filled up meanwhile
  spent      \* scans, refreshes and ticks so far

vars == <<pool, known, hot, queue, deferred, events, watch, entering, refresh,
          cand, pruning, races, spent>>

MoverOf(k, s) == [k EXCEPT !.sym = s]
Syms(ms) == {ms[i].sym : i \in DOMAIN ms}
Cut(ms, n) == SubSeq(ms, 1, IF Len(ms) > n THEN n ELSE Len(ms))
NoEntries == [s \in {} |-> 0]
Threads == {"main", "cand"}

Idle == [pc |-> "idle", batch |-> <<>>, seen |-> {}, load |-> {},
         room |-> FALSE]

Init ==
  /\ pool = <<>> /\ known = {} /\ hot = NoEntries /\ queue = <<>>
  /\ deferred = <<>> /\ events = <<>> /\ watch = {} /\ entering = FALSE
  /\ refresh = [pc |-> "idle", list |-> <<>>]
  /\ cand = Idle
  /\ pruning = [t \in Threads |-> NoEntries]
  /\ races = [revived |-> 0, appended |-> 0]
  /\ spent = [scans |-> 0, refreshes |-> 0, ticks |-> 0]

(* An event that finds the queue full is dropped. *)
Post(e) == events' = IF Len(events) < EventMax THEN Append(events, e)
                     ELSE events

-----------------------------------------------------------------------------
(* The pool refresh worker: rank a snapshot, merge it into the pool it read,
   store the merged list, drop what left the price band, post the list. *)

(* A lookup over the network fails, or finds a float that is small for any
   row, or one that is too large for a row below two dollars. *)
Lookups == [Symbols -> {Unknown, Sub2MaxFloat, MaxFloat}]

RefreshMerge ==
  /\ refresh.pc = "idle" /\ spent.refreshes < MaxRefreshes
  /\ \E S \in SUBSET Symbols, k \in Kinds, inBand \in {Symbols, {}} :
       \E rows \in SetToSeqs({MoverOf(k, s) : s \in S}) :
         \E looked \in Lookups :
           refresh' = [pc |-> "merged",
                       list |-> Merged(pool, FloatPool(rows, looked, PoolMax),
                                       inBand, PoolMax)]
  /\ spent' = [spent EXCEPT !.refreshes = @ + 1]
  /\ UNCHANGED <<pool, known, hot, queue, deferred, events, watch, entering,
                 cand, pruning, races>>

RefreshStore ==
  /\ refresh.pc = "merged"
  /\ \E inBand \in {Symbols} \cup {Symbols \ {s} : s \in ToSet(refresh.list)} :
       pool' = InBandOnly(refresh.list, inBand)
  /\ refresh' = [pc |-> "stored", list |-> <<>>]
  /\ UNCHANGED <<known, hot, queue, deferred, events, watch, entering, cand,
                 pruning, races, spent>>

RefreshPost ==
  /\ refresh.pc = "stored"
  /\ Post([kind |-> "pool", list |-> pool])
  /\ refresh' = [refresh EXCEPT !.pc = "idle"]
  /\ UNCHANGED <<pool, known, hot, queue, deferred, watch, entering, cand,
                 pruning, races, spent>>

-----------------------------------------------------------------------------
(* The fast scan worker. *)

HotCandidate(m, premarket) ==
  m.sym \notin DOMAIN hot /\ HotEligible(m, Unknown, premarket)

(* The scan reports a mover: a surge outside the pool, a pool symbol that
   should be hot or is strong with stale bars, or a symbol outside the pool it
   does not know yet, strong and hot ones again and again. *)
Reported(m, premarket, stale) ==
  \/ m.surge /\ m.sym \notin ToSet(pool)
  \/ /\ m.sym \in ToSet(pool)
     /\ HotCandidate(m, premarket) \/ (IsStrong(m) /\ m.sym \in stale)
  \/ /\ m.sym \notin ToSet(pool)
     /\ \/ IsStrong(m) \/ HotCandidate(m, premarket)
        \/ ~premarket /\ m.sym \notin known

FastScan ==
  /\ spent.scans < MaxScans
  /\ \E S \in (SUBSET Symbols) \ {{}}, premarket \in BOOLEAN,
        stale \in {{}, Symbols} :
       \E kind \in [S -> Kinds] :
         \E rows \in SetToSeqs({MoverOf(kind[s], s) : s \in S}) :
           LET movers == SelectSeq(rows,
                                   LAMBDA m : Reported(m, premarket, stale))
           IN /\ movers # <<>>
              /\ known' = known \cup Syms(movers)
              /\ Post([kind |-> "scan", list |-> Cut(movers, ProcessMax)])
  /\ spent' = [spent EXCEPT !.scans = @ + 1]
  /\ UNCHANGED <<pool, hot, queue, deferred, watch, entering, refresh, cand,
                 pruning, races>>

-----------------------------------------------------------------------------
(* Prunes of the hot watch, by the main loop and by the candidate worker: read
   the entries that have expired, then drop each, or put it back with a new
   age when its bars hold near the high. *)

ExpiredNow == {s \in DOMAIN hot : Expired(hot[s])}

PruneOne(t) ==
  \E s \in DOMAIN pruning[t] :
    /\ pruning' = [pruning EXCEPT ![t] = Drop(@, s)]
    /\ \/ /\ hot' = Drop(hot, s)
          /\ UNCHANGED races
       \/ /\ hot' = Put(hot, s, [pruning[t][s] EXCEPT !.age = 0])
          /\ races' = IF s \in DOMAIN hot THEN races
                      ELSE [races EXCEPT !.revived = @ + 1]
    /\ UNCHANGED <<pool, known, queue, deferred, events, watch, entering,
                   refresh, cand, spent>>

MainPrunes ==
  /\ pruning["main"] = NoEntries /\ ExpiredNow # {}
  /\ pruning' = [pruning EXCEPT !["main"] = [s \in ExpiredNow |-> hot[s]]]
  /\ UNCHANGED <<pool, known, hot, queue, deferred, events, watch, entering,
                 refresh, cand, races, spent>>

-----------------------------------------------------------------------------
(* The candidate worker: _handle_fast_scan_movers over a batch. *)

CandPull ==
  /\ cand.pc = "idle" /\ queue # <<>>
  /\ ~entering /\ refresh.pc = "idle"
  /\ LET n == IF Len(queue) > BatchMax THEN BatchMax ELSE Len(queue)
     IN /\ cand' = [pc |-> "grade", batch |-> SubSeq(queue, 1, n),
                    seen |-> ToSet(pool), load |-> {}, room |-> FALSE]
        /\ queue' = SubSeq(queue, n + 1, Len(queue))
  /\ UNCHANGED <<pool, known, hot, deferred, events, watch, entering, refresh,
                 pruning, races, spent>>

Mover == Head(cand.batch)

CandGrade ==
  /\ cand.pc = "grade"
  /\ \E premarket \in BOOLEAN :
       IF HotEligible(Mover, FloatOf[Mover.sym], premarket)
       THEN /\ cand' = [cand EXCEPT !.pc = "prune"]
            /\ pruning' = [pruning EXCEPT
                             !["cand"] = [s \in ExpiredNow |-> hot[s]]]
       ELSE /\ cand' = [cand EXCEPT !.pc = "check"]
            /\ UNCHANGED pruning
  /\ UNCHANGED <<pool, known, hot, queue, deferred, events, watch, entering,
                 refresh, races, spent>>

(* Fault: a full watch is one that is over its maximum already. *)
CandEvictLate ==
  /\ cand.pc = "prune" /\ pruning["cand"] = NoEntries
  /\ IF Mover.sym \notin DOMAIN hot /\ Cardinality(DOMAIN hot) > HotMax
     THEN \E s \in Oldest(hot) : hot' = Drop(hot, s)
     ELSE UNCHANGED hot
  /\ cand' = [cand EXCEPT !.pc = "add"]
  /\ UNCHANGED <<pool, known, queue, deferred, events, watch, entering,
                 refresh, pruning, races, spent>>

(* Room for a new symbol: the oldest entry is dropped when the watch is full. *)
CandEvict ==
  /\ cand.pc = "prune" /\ pruning["cand"] = NoEntries
  /\ IF Mover.sym \notin DOMAIN hot /\ Cardinality(DOMAIN hot) >= HotMax
     THEN \E s \in Oldest(hot) : hot' = Drop(hot, s)
     ELSE UNCHANGED hot
  /\ cand' = [cand EXCEPT !.pc = "add"]
  /\ UNCHANGED <<pool, known, queue, deferred, events, watch, entering,
                 refresh, pruning, races, spent>>

CandPromote ==
  /\ cand.pc = "add"
  /\ hot' = Put(hot, Mover.sym, Promoted(hot, Mover))
  /\ cand' = [cand EXCEPT !.pc = "check"]
  /\ UNCHANGED <<pool, known, queue, deferred, events, watch, entering,
                 refresh, pruning, races, spent>>

NextMover(c) ==
  [c EXCEPT !.batch = Tail(@), !.room = FALSE,
            !.pc = IF Len(c.batch) > 1 THEN "grade" ELSE "post"]

(* Fault: a pool at its maximum still has room. *)
HasRoomAtMax == Len(pool) <= PoolMax

HasRoom == Len(pool) < PoolMax

(* A mover in the pool it read is loaded when it is strong and its bars are
   old. A full pool ends the batch: the movers behind are not looked at. *)
CandCheck ==
  /\ cand.pc = "check"
  /\ \/ /\ Mover.sym \in cand.seen
        /\ \E stale \in BOOLEAN :
             cand' = NextMover([cand EXCEPT
                       !.load = IF IsStrong(Mover) /\ stale
                                THEN @ \cup {Mover.sym} ELSE @])
     \/ /\ Mover.sym \notin cand.seen /\ ~HasRoom
        /\ cand' = [cand EXCEPT !.pc = "post", !.batch = <<>>]
     \/ /\ Mover.sym \notin cand.seen /\ HasRoom
        /\ LET flt == FloatOf[Mover.sym]
           IN cand' = IF \/ flt # Unknown /\ flt > MaxFloat
                         \/ flt = Unknown /\ ~IsStrong(Mover)
                      THEN NextMover(cand)
                      ELSE [cand EXCEPT !.pc = "append",
                                        !.room = Len(pool) < PoolMax]
  /\ UNCHANGED <<pool, known, hot, queue, deferred, events, watch, entering,
                 refresh, pruning, races, spent>>

CandAppend ==
  /\ cand.pc = "append"
  /\ pool' = Append(pool, Mover.sym)
  /\ races' = IF cand.room /\ Len(pool) >= PoolMax
              THEN [races EXCEPT !.appended = @ + 1] ELSE races
  /\ cand' = NextMover([cand EXCEPT !.seen = @ \cup {Mover.sym},
                                    !.load = @ \cup {Mover.sym}])
  /\ UNCHANGED <<known, hot, queue, deferred, events, watch, entering,
                 refresh, pruning, spent>>

(* The batch is loaded (its bars go to the main loop) and the tracker synced,
   which prunes the hot watch. *)
CandDone ==
  /\ cand.pc = "post" /\ pruning["cand"] = NoEntries
  /\ cand' = Idle
  /\ pruning' = [pruning EXCEPT !["cand"] = [s \in ExpiredNow |-> hot[s]]]
  /\ UNCHANGED <<pool, known, hot, queue, deferred, events, watch, entering,
                 refresh, races, spent>>

-----------------------------------------------------------------------------
(* The main loop drains an event. *)

DrainPool ==
  /\ events # <<>> /\ Head(events).kind = "pool"
  /\ pool' = Head(events).list
  /\ known' = ToSet(pool')
  /\ events' = Tail(events)
  /\ UNCHANGED <<hot, queue, deferred, watch, entering, refresh, cand,
                 pruning, races, spent>>

(* Movers are kept apart while an entry is pending, each symbol once, the
   newest of them when there are too many. *)
NewTo(ms, old) == SelectSeq(ms, LAMBDA m : m.sym \notin Syms(old))

DrainDeferred ==
  /\ events # <<>> /\ Head(events).kind = "scan" /\ entering
  /\ LET all == deferred \o NewTo(Head(events).list, deferred)
     IN deferred' = SubSeq(all, IF Len(all) > DeferMax
                                THEN Len(all) - DeferMax + 1 ELSE 1, Len(all))
  /\ events' = Tail(events)
  /\ UNCHANGED <<pool, known, hot, queue, watch, entering, refresh, cand,
                 pruning, races, spent>>

(* enqueue_candidate: a symbol that waits already, or finds no place, is
   refused; the others go behind those of their priority. *)
Enqueued(q, m) ==
  IF m.sym \in Syms(q) \/ Len(q) >= QueueMax THEN q
  ELSE LET before(x) == Priority(x, watch) <= Priority(m, watch)
           after(x) == ~before(x)
       IN SelectSeq(q, before) \o <<m>> \o SelectSeq(q, after)

DrainScan ==
  /\ events # <<>> /\ Head(events).kind = "scan" /\ ~entering
  /\ queue' = FoldLeft(Enqueued, queue,
                       deferred \o NewTo(Head(events).list, deferred))
  /\ deferred' = <<>>
  /\ events' = Tail(events)
  /\ UNCHANGED <<pool, known, hot, watch, entering, refresh, cand, pruning,
                 races, spent>>

(* The bar path of the alerts drops what left the price band and gives the
   watchlist its symbols: those of the alerts and the hot watch. *)
AlertCycle ==
  /\ \E out \in {{}} \cup {{s} : s \in ToSet(pool)} :
       pool' = InBandOnly(pool, Symbols \ out)
  /\ \E alerts \in {{}, Symbols} : watch' = alerts \cup DOMAIN hot
  /\ UNCHANGED <<known, hot, queue, deferred, events, entering, refresh, cand,
                 pruning, races, spent>>

EntryPending ==
  /\ entering' = ~entering
  /\ UNCHANGED <<pool, known, hot, queue, deferred, events, watch, refresh,
                 cand, pruning, races, spent>>

Time ==
  /\ spent.ticks < MaxTicks
  /\ hot' = Ageing(hot)
  /\ spent' = [spent EXCEPT !.ticks = @ + 1]
  /\ UNCHANGED <<pool, known, queue, deferred, events, watch, entering,
                 refresh, cand, pruning, races>>

Next ==
  \/ RefreshMerge \/ RefreshStore \/ RefreshPost
  \/ FastScan
  \/ MainPrunes \/ PruneOne("main") \/ PruneOne("cand")
  \/ CandPull \/ CandGrade \/ CandEvict \/ CandPromote \/ CandCheck
  \/ CandAppend \/ CandDone
  \/ DrainPool \/ DrainDeferred \/ DrainScan
  \/ AlertCycle \/ EntryPending \/ Time

Spec == Init /\ [][Next]_vars

-----------------------------------------------------------------------------
(* The hot watch holds no more symbols than its maximum, but for one for each
   time a prune put back an entry that the candidate worker had dropped since
   the prune read it. *)
HotOverflowExplained ==
  Cardinality(DOMAIN hot) <= HotMax + races.revived

(* The bar pool holds no more symbols than its maximum, but for one for each
   time the pool filled up between the candidate worker's look at its length
   and its append. *)
PoolOverflowExplained ==
  Len(pool) <= PoolMax + races.appended
=============================================================================
