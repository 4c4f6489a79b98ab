----------------------------- MODULE BarSeeding -----------------------------
(***************************************************************************)
(* How symbols get their bars of the day: the seed queue, the worker that   *)
(* serves it, the pause after weak fetches, and the main loop, which owns   *)
(* the bar buffers, asks for what is missing on every cycle and drops the   *)
(* buffers of symbols that leave the watchlist.                             *)
(*                                                                         *)
(* "few" is a buffer with fewer bars than the scanners need (ten), "ready"  *)
(* one with enough. Time appears as what it does: the pause ends, a weak    *)
(* batch is forgotten after a minute. The worker also waits for a pool      *)
(* refresh and for the quota of the minute; both only delay its steps. Left *)
(* out: the daily reset of the retries, and that the watchlist keeps the    *)
(* symbols of open positions.                                               *)
(***************************************************************************)
EXTENDS Integers, Sequences, FiniteSets, SequencesExt

CONSTANTS
  Symbols,
  PoolSymbols,   \* the symbols of the bar pool
  SeedMax,       \* _hod_seed_max
  BatchSize,     \* hod_seed_batch_size
  Tries,         \* failed loads after which a symbol is not asked for again
  SmallBatch,    \* smaller batches never count as weak
  ManyFailed,    \* so many failures make any batch weak
  WeakLimit,     \* weak batches in a minute that pause the fetches
  ExpandMax,     \* symbols one cycle requests (25, and 80 for their stats)
  EventMax,      \* bound of the event queue
  MaxWeak,       \* bound: weak batches of the other workers
  MaxDrops       \* bound: loads that find the event queue full

ASSUME SeedAssumption ==
  /\ IsFiniteSet(Symbols) /\ PoolSymbols \subseteq Symbols
  /\ {SeedMax, BatchSize, Tries, SmallBatch, ManyFailed, WeakLimit,
    ExpandMax, EventMax}
       \subseteq Nat \ {0}
  /\ {MaxWeak, MaxDrops} \subseteq Nat

VARIABLES
  bars,       \* the bar buffer of each symbol
  watch,      \* the trading watchlist
  seeds,      \* the seed queue; a symbol is pending while it is in it
  retries,    \* failed loads of each symbol
  blacklist,  \* symbols that are not loaded any more
  net,        \* weak batches of the last minute, and whether fetches pause
  worker,     \* the seed worker: where it is, its batch, what came back
  loads,      \* the loads on the event queue
  spent       \* weak batches of others and dropped loads so far

vars == <<bars, watch, seeds, retries, blacklist, net,
          worker, loads, spent>>

Init ==
  /\ bars = [s \in Symbols |-> "none"]
  /\ watch = {}
  /\ seeds = <<>> /\ retries = [s \in Symbols |-> 0] /\ blacklist = {}
  /\ net = [weak |-> 0, paused |-> FALSE]
  /\ worker = [pc |-> "idle", batch |-> {}]
  /\ loads = <<>>
  /\ spent = [weak |-> 0, drops |-> 0]

(* _enqueue_hod_seed_symbols: the symbols that do not wait yet, in any order. *)
Requested(q, S) ==
  {q \o p : p \in SetToSeqs(S \ ToSet(q))}

-----------------------------------------------------------------------------
(* The fetches and the pause. *)

(* _record_bar_fetch_failures calls the batch weak. *)
Weak(failed, asked) ==
  /\ failed > 0
  /\ asked >= SmallBatch
  /\ 100 * failed >= 65 * asked \/ failed >= ManyFailed

Recorded(n, failed, asked) ==
  IF ~Weak(failed, asked) THEN n
  ELSE IF n.weak + 1 >= WeakLimit THEN [weak |-> 0, paused |-> TRUE]
  ELSE [n EXCEPT !.weak = @ + 1]

(* A weak batch of the pool or the candidate worker. *)
OthersFail ==
  /\ spent.weak < MaxWeak
  /\ net' = Recorded(net, ManyFailed + SmallBatch, ManyFailed + SmallBatch)
  /\ spent' = [spent EXCEPT !.weak = @ + 1]
  /\ UNCHANGED <<bars, watch, seeds, retries, blacklist,
                 worker, loads>>

PauseEnds ==
  /\ net.paused
  /\ net' = [net EXCEPT !.paused = FALSE]
  /\ UNCHANGED <<bars, watch, seeds, retries, blacklist,
                 worker, loads, spent>>

WeakForgotten ==
  /\ net.weak > 0
  /\ net' = [net EXCEPT !.weak = 0]
  /\ UNCHANGED <<bars, watch, seeds, retries, blacklist,
                 worker, loads, spent>>

-----------------------------------------------------------------------------
(* The seed worker. *)

WorkerPull ==
  /\ worker.pc = "idle" /\ seeds # <<>>
  /\ ~net.paused
  /\ LET n == IF Len(seeds) > BatchSize THEN BatchSize ELSE Len(seeds)
     IN /\ worker' = [pc |-> "pulled", batch |-> ToSet(SubSeq(seeds, 1, n))]
        /\ seeds' = SubSeq(seeds, n + 1, Len(seeds))
  /\ UNCHANGED <<bars, watch, retries, blacklist, net,
                 loads, spent>>

(* A pause that began meanwhile gives up the batch. What is left of it without
   blacklisted symbols and full buffers is loaded. *)
Wanting == {s \in worker.batch \ blacklist : bars[s] # "ready"}

WorkerSift ==
  /\ worker.pc = "pulled"
  /\ worker' = IF net.paused \/ Wanting = {}
               THEN [pc |-> "idle", batch |-> {}]
               ELSE [pc |-> "fetching", batch |-> Wanting]
  /\ UNCHANGED <<bars, watch, seeds, retries, blacklist,
                 net, loads, spent>>

(* The answer: the bars of some symbols, none when the fetch raises, and none
   without any fetch when a pause has begun. Symbols without bars count a
   failure; with the last one they are blacklisted, else they wait again. *)
Failures(failed) ==
  [s \in Symbols |-> IF s \in failed THEN retries[s] + 1 ELSE retries[s]]

WorkerLoad ==
  /\ worker.pc = "fetching"
  /\ \E S \in SUBSET worker.batch, raised \in BOOLEAN :
       /\ net.paused \/ raised => S = {}
       /\ \E got \in [S -> {"few", "ready"}] :
            IF S = {}
            THEN UNCHANGED <<loads, spent>>
            ELSE \/ /\ Len(loads) < EventMax
                    /\ loads' = Append(loads, got)
                    /\ UNCHANGED spent
                 \/ /\ spent.drops < MaxDrops
                    /\ spent' = [spent EXCEPT !.drops = @ + 1]
                    /\ UNCHANGED loads
       /\ LET failed == worker.batch \ S
          IN /\ net' = IF net.paused \/ raised THEN net
                       ELSE Recorded(net, Cardinality(failed),
                                     Cardinality(worker.batch))
             /\ retries' = Failures(failed)
             /\ blacklist' = {s \in Symbols : retries'[s] >= Tries}
             /\ seeds' \in Requested(seeds, failed \ blacklist')
  /\ worker' = [pc |-> "idle", batch |-> {}]
  /\ UNCHANGED <<bars, watch>>

-----------------------------------------------------------------------------
(* The main loop. *)

(* A load replaces the buffers of its symbols. *)
DrainLoad ==
  /\ loads # <<>>
  /\ LET got == Head(loads)
     IN bars' = [s \in Symbols |-> IF s \in DOMAIN got THEN got[s]
                                   ELSE bars[s]]
  /\ loads' = Tail(loads)
  /\ UNCHANGED <<watch, seeds, retries, blacklist, net, worker,
                 spent>>

(* A bar of the stream is appended to the buffer, whoever it belongs to. *)
StreamBar(s) ==
  /\ bars[s] # "ready"
  /\ bars' \in {[bars EXCEPT ![s] = b] : b \in {"few", "ready"}}
  /\ bars[s] = "none" => bars'[s] = "few"
  /\ UNCHANGED <<watch, seeds, retries, blacklist, net,
                 worker, loads, spent>>

(* _refresh_watchlist_bars: the last thirty bars of a symbol whose bars are
   old, fetched whether or not the fetches pause. *)
RefreshBars(s) ==
  /\ s \in watch
  /\ bars' \in {[bars EXCEPT ![s] = b] : b \in {"few", "ready"}}
  /\ UNCHANGED <<watch, seeds, retries, blacklist, net,
                 worker, loads, spent>>

(* _expand_hod_universe, once a cycle: request the watched and pooled symbols
   without enough bars, and those symbols with bars whose stats of the prior
   day are not known (any of them: the stats are not modelled). *)
Listed == watch \cup PoolSymbols

(* Fault: the symbols of the pool are not asked for. *)
MissingWatched == {s \in watch : bars[s] # "ready"}

Missing == {s \in Listed : bars[s] # "ready"}

AtMost(S, n) == {T \in SUBSET S : \/ T = S /\ Cardinality(S) <= n
                                  \/ Cardinality(T) = n}

ExpandUniverse ==
  /\ \E S \in AtMost(Missing, ExpandMax),
        T \in SUBSET {s \in Symbols : bars[s] # "none"} :
       seeds' \in UNION {Requested(q, T) : q \in Requested(seeds, S)}
  /\ UNCHANGED <<bars, watch, retries, blacklist, net,
                 worker, loads, spent>>

(* The tick tracker asks for a symbol it has no session of. *)
TrackerAsks(s) ==
  /\ s \in Listed /\ s \notin ToSet(seeds)
  /\ Len(seeds) < SeedMax
  /\ seeds' = Append(seeds, s)
  /\ UNCHANGED <<bars, watch, retries, blacklist, net,
                 worker, loads, spent>>

(* Buffers go with the place on the watchlist. *)
Without(S) == [s \in Symbols |-> IF s \in S THEN "none" ELSE bars[s]]
(* _sync_watchlist_to_hod_alerts gives the watchlist its target: symbols of
   alerts and of the hot watch, and those a position or the burst lane needs. *)
SyncWatchlist ==
  \E target \in SUBSET Symbols :
    /\ target # watch
    /\ watch' = target
    /\ seeds' \in Requested(seeds, target \ watch)
    /\ bars' = Without(watch \ target)
    /\ UNCHANGED <<retries, blacklist, net, worker,
                      loads, spent>>

(* _prune_watchlist: symbols the pipeline skipped too often go. *)
PruneWatchlist ==
  \E S \in (SUBSET watch) \ {{}} :
    /\ watch' = watch \ S
    /\ bars' = Without(S)
    /\ UNCHANGED <<seeds, retries, blacklist, net, worker,
                   loads, spent>>

Worker == WorkerPull \/ WorkerSift \/ WorkerLoad

Next ==
  \/ WorkerPull \/ WorkerSift \/ WorkerLoad
  \/ OthersFail \/ PauseEnds \/ WeakForgotten
  \/ DrainLoad \/ ExpandUniverse \/ SyncWatchlist \/ PruneWatchlist
  \/ \E s \in Symbols : \/ StreamBar(s) \/ RefreshBars(s) \/ TrackerAsks(s)

(* The worker thread runs, the main loop drains its queue and runs cycles, a
   pause lasts twenty seconds, and a pool refresh comes to its end. *)
Fairness ==
  /\ SF_vars(WorkerPull) /\ WF_vars(WorkerSift) /\ WF_vars(WorkerLoad)
  /\ WF_vars(DrainLoad) /\ WF_vars(ExpandUniverse)
  /\ WF_vars(PauseEnds)

Spec == Init /\ [][Next]_vars /\ Fairness

-----------------------------------------------------------------------------
(* A watched or pooled symbol without bars gets some, or is given up after its
   failures, or leaves the lists: batches lost to a pause, loads lost to a full
   queue and failed fetches are all asked for again. *)
SeedsServed ==
  \A s \in Symbols :
    (s \in Listed /\ bars[s] = "none")
      ~> (bars[s] # "none" \/ s \in blacklist \/ s \notin Listed)
=============================================================================
