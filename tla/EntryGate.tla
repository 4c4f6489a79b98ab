------------------------------ MODULE EntryGate ------------------------------
(***************************************************************************)
(* Who may open a position: one trading day of the main loop                *)
(* (PipelineRunner.run) and of the position-sync thread, in the default     *)
(* live configuration. The scan cycle lets a signal through its gates and   *)
(* defers it to the 10-second execution timer; a bar or a timeout releases  *)
(* it; the executor checks the gates again and sends the order. Alerts of   *)
(* the tick tracker buy quick scalps past the timer. Meanwhile exits of     *)
(* every path, on both threads, start cooldowns, blacklist losers, trip     *)
(* the circuit breaker and purge what is queued for their symbol.           *)
(*                                                                         *)
(* Profit and loss, quality checks and times are choices left open. Every   *)
(* signal buys. What is held is one state for portfolio and tracker: how    *)
(* those drift apart is the subject of PositionReconciler.                  *)
(***************************************************************************)
EXTENDS Integers, FiniteSets, Sequences, Selections

CONSTANTS
  Symbols,
  MaxPositions,  \* max_positions
  MaxEntries,    \* _max_entries_per_symbol
  MaxExits,      \* bound on the exits of a day
  MaxSurprises   \* bound on the positions the reconciler adopts or drops

ASSUME GateAssumption ==
  /\ MaxPositions \in Nat \ {0}
  /\ MaxEntries \in Nat \ {0}
  /\ MaxExits \in Nat
  /\ MaxSurprises \in Nat
  /\ "none" \notin Symbols

VARIABLES
  at,            \* what the main loop is doing
  order,         \* the buy order it waits for
  timer,         \* ExecutionTimer._pending: what is queued for each symbol
  old,           \* the queued symbols whose wait is over
  ready,         \* _timed_signal_queue
  keys,          \* the symbols check_timeouts has still to look at
  late,          \* the signals it has released so far
  alerts,        \* _pending_breakout_scalps
  held,          \* open positions, by how they were bought
  exited,        \* ReentryDetector._exit_history
  entries,       \* _symbol_entry_counts
  cooling,       \* symbols on _exit_cooldowns
  scalpCooling,  \* symbols on _breakout_scalp_cooldown
  losers,        \* _daily_losers
  tripped,       \* _circuit_breaker_tripped
  scalpOpen,     \* _breakout_scalp_active
  purge,         \* the exit the sync thread is recording
  exits,         \* history: exits so far
  surprises,     \* history: adoptions and drops so far
  sinceTrip      \* history: positions opened since the breaker tripped

loop   == <<at, order>>
queues == <<timer, old, ready>>
sweep  == <<keys, late>>
gates  == <<cooling, losers, tripped>>
scalps == <<alerts, scalpCooling, scalpOpen>>
counts == <<exits, surprises>>
book   == <<held, exited, entries, sinceTrip>>
vars == <<loop, queues, sweep, gates, scalps, counts, book, purge>>

Signal == [sym : Symbols, kind : {"entry", "add"}]
NoOrder == [sym |-> "none", via |-> "none", hot |-> FALSE]
Order == [sym : Symbols, via : {"entry", "add", "scalp"}, hot : BOOLEAN]
NoPurge == [sym |-> "none", seen |-> << >>]

Idle == order = NoOrder
Queued == {s \in Symbols : timer[s] # "none"}
OpenPositions == {s \in Symbols : held[s] # "none"}

TypeOK ==
  /\ at \in {"drain", "exits", "timed", "sweep", "late", "scalps", "poll",
             "cycle", "dead"}
  /\ order \in Order \cup {NoOrder}
  /\ timer \in [Symbols -> {"none", "entry", "add"}]
  /\ old \subseteq Queued
  /\ ready \in Seq(Signal)
  /\ keys \subseteq Symbols
  /\ late \subseteq Signal
  /\ alerts \subseteq Symbols
  /\ held \in [Symbols -> {"none", "plain", "scalp"}]
  /\ exited \subseteq Symbols
  /\ entries \in [Symbols -> Nat]
  /\ cooling \subseteq Symbols
  /\ scalpCooling \subseteq Symbols
  /\ losers \subseteq Symbols
  /\ tripped \in BOOLEAN
  /\ scalpOpen \in BOOLEAN
  /\ purge \in [sym : Symbols, seen : Seq(Signal)] \cup {NoPurge}
  /\ exits \in 0..MaxExits
  /\ surprises \in 0..MaxSurprises
  /\ sinceTrip \in Nat

Init ==
  /\ at = "drain"
  /\ order = NoOrder
  /\ timer = [s \in Symbols |-> "none"]
  /\ old = {}
  /\ ready = << >>
  /\ keys = {}
  /\ late = {}
  /\ alerts = {}
  /\ held = [s \in Symbols |-> "none"]
  /\ exited = {}
  /\ entries = [s \in Symbols |-> 0]
  /\ cooling = {}
  /\ scalpCooling = {}
  /\ losers = {}
  /\ tripped = FALSE
  /\ scalpOpen = FALSE
  /\ purge = NoPurge
  /\ exits = 0
  /\ surprises = 0
  /\ sinceTrip = 0

-----------------------------------------------------------------------------
(* The main loop goes on to its next part. *)
Moves(from, to) ==
  /\ at = from /\ Idle
  /\ at' = to
  /\ UNCHANGED <<order, queues, sweep, gates, scalps, counts, book, purge>>

-----------------------------------------------------------------------------
(* What every exit does. *)

Without(queue, s) == Where(queue, LAMBDA sig : sig.sym # s)

(* record_realized_exit: a win starts the short cooldown; a loss may        *)
(* blacklist the symbol and trip the breaker. The caller may cool as well.  *)
Realized(s, cools) ==
  \E won, blacklists, trips \in BOOLEAN :
    /\ cooling' = IF won \/ cools THEN cooling \cup {s} ELSE cooling
    /\ losers' = IF ~won /\ blacklists THEN losers \cup {s} ELSE losers
    /\ tripped' = (tripped \/ (~won /\ trips))

(* Mutant: the age of a cancelled signal is left to the next one. *)
CancelKeepsAge(s) ==
  /\ timer' = [timer EXCEPT ![s] = "none"]
  /\ old' = old

Cancel(s) ==
  /\ timer' = [timer EXCEPT ![s] = "none"]
  /\ old' = old \ {s}

(* _record_trade_exit on the main loop. *)
RecordExit(s, cools) ==
  /\ held[s] # "none"
  /\ exits < MaxExits
  /\ exits' = exits + 1
  /\ Realized(s, cools)
  /\ Cancel(s)
  /\ ready' = Without(ready, s)
  /\ UNCHANGED <<order, sweep, alerts, scalpCooling, entries, purge, surprises,
                 sinceTrip>>

-----------------------------------------------------------------------------
(* Draining events: alerts, completed 10-second bars, instant exits. *)

Alert(s) ==
  /\ at = "drain"
  /\ alerts' = alerts \cup {s}
  /\ UNCHANGED <<loop, queues, sweep, gates, scalpCooling, scalpOpen, counts,
                 book, purge>>

BarReleases(s) ==
  /\ at = "drain"
  /\ timer[s] # "none"
  /\ ready' = Append(ready, [sym |-> s, kind |-> timer[s]])
  /\ Cancel(s)
  /\ UNCHANGED <<loop, sweep, gates, scalps, counts, book, purge>>

BarCancels(s) ==
  /\ at = "drain"
  /\ timer[s] # "none"
  /\ Cancel(s)
  /\ UNCHANGED <<loop, ready, sweep, gates, scalps, counts, book, purge>>

(* The tick trail, the tape and the 10-second candle sell everything. They  *)
(* start no cooldown of their own, and what they pass on as the strategy is *)
(* not its name, so the scalp flag stays.                                   *)
InstantExit(s) ==
  /\ at = "drain"
  /\ RecordExit(s, FALSE)
  /\ held' = [held EXCEPT ![s] = "none"]
  /\ UNCHANGED <<at, scalpOpen, exited>>

DrainEnds == Moves("drain", "exits")

-----------------------------------------------------------------------------
(* The exit check of every second. *)

(* Part of a scalp sold clears the flag as all of it does. *)
FastExit(s, all) ==
  /\ at = "exits"
  /\ RecordExit(s, TRUE)
  /\ held' = IF all THEN [held EXCEPT ![s] = "none"] ELSE held
  /\ scalpOpen' = (scalpOpen /\ held[s] # "scalp")
  /\ UNCHANGED <<at, exited>>

ExitsEnd == Moves("exits", "timed")

-----------------------------------------------------------------------------
(* Orders the main loop sends and waits for. *)

(* Mutant: the entries of the day are not counted. *)
MayEnterUncounted(s) ==
  /\ ~tripped
  /\ s \notin cooling
  /\ held[s] = "none"
  /\ s \notin losers

MayEnter(s) ==
  /\ ~tripped
  /\ s \notin cooling
  /\ held[s] = "none"
  /\ s \notin losers
  /\ entries[s] < MaxEntries

MayAdd(s) == ~tripped /\ held[s] # "none"

(* execute_timed_signal: gates first, then the quality checks that may      *)
(* still drop the signal; a hot one may be sent a second time.              *)
ExecuteTimed(sig) ==
  \/ order' = NoOrder
  \/ /\ sig.kind = "entry"
     /\ MayEnter(sig.sym)
     /\ \E hot \in BOOLEAN :
          order' = [sym |-> sig.sym, via |-> "entry", hot |-> hot]
  \/ /\ sig.kind = "add"
     /\ MayAdd(sig.sym)
     /\ order' = [sym |-> sig.sym, via |-> "add", hot |-> FALSE]

OrderFills ==
  /\ ~Idle
  /\ order' = NoOrder
  /\ IF order.via = "add"
       THEN UNCHANGED <<at, held, entries, sinceTrip, scalpOpen, scalpCooling>>
       ELSE LET s == order.sym IN
            /\ entries' = [entries EXCEPT ![s] = @ + 1]
            /\ sinceTrip' = IF tripped THEN sinceTrip + 1 ELSE sinceTrip
            /\ IF order.via = "scalp"
                 THEN /\ held' = [held EXCEPT ![s] = "scalp"]
                      /\ scalpOpen' = TRUE
                      /\ scalpCooling' = scalpCooling \cup {s}
                      /\ at' = "poll"
                 ELSE /\ held' = [held EXCEPT ![s] = "plain"]
                      /\ UNCHANGED <<at, scalpOpen, scalpCooling>>
  /\ UNCHANGED <<queues, sweep, gates, alerts, counts, exited, purge>>

(* The hot retry checks prices and quality again, not the gates. *)
OrderMisses ==
  /\ ~Idle
  /\ \/ order' = NoOrder
     \/ /\ order.hot
        /\ order' = [sym |-> order.sym, via |-> order.via, hot |-> FALSE]
  /\ UNCHANGED <<at, queues, sweep, gates, scalps, counts, book, purge>>

-----------------------------------------------------------------------------
(* Timed entries: the released queue first, then the timeouts. *)

TakeReady ==
  /\ at = "timed" /\ Idle
  /\ ready # << >>
  /\ ready' = Tail(ready)
  /\ ExecuteTimed(Head(ready))
  /\ UNCHANGED <<at, timer, old, sweep, gates, scalps, counts, book, purge>>

StartSweep ==
  /\ at = "timed" /\ Idle
  /\ ready = << >>
  /\ at' = "sweep"
  /\ keys' = Queued
  /\ UNCHANGED <<order, queues, late, gates, scalps, counts, book, purge>>

(* Mutant: a signal that timed out unconfirmed stays in the timer. *)
SweepSymbolKeeps(s) ==
  /\ at = "sweep"
  /\ s \in keys
  /\ keys' = keys \ {s}
  /\ IF timer[s] # "none" /\ s \in old
       THEN \/ Cancel(s) /\ late' = late \cup {[sym |-> s, kind |-> timer[s]]}
            \/ UNCHANGED <<timer, old, late>>
       ELSE UNCHANGED <<timer, old, late>>
  /\ UNCHANGED <<at, order, ready, gates, scalps, counts, book, purge>>

(* check_timeouts reads the entry of each symbol it listed: one that the    *)
(* other thread has cancelled since raises out of the main loop.            *)
SweepSymbol(s) ==
  /\ at = "sweep"
  /\ s \in keys
  /\ IF timer[s] = "none"
       THEN /\ at' = "dead"
            /\ UNCHANGED <<timer, old, keys, late>>
       ELSE /\ at' = at
            /\ keys' = keys \ {s}
            /\ IF s \in old
                 THEN /\ Cancel(s)
                      /\ late' \in {late, late \cup {[sym |-> s, kind |-> timer[s]]}}
                 ELSE UNCHANGED <<timer, old, late>>
  /\ UNCHANGED <<order, ready, gates, scalps, counts, book, purge>>

SweepEnds == keys = {} /\ Moves("sweep", "late")

TakeLate ==
  /\ at = "late" /\ Idle
  /\ \E sig \in late :
       /\ late' = late \ {sig}
       /\ ExecuteTimed(sig)
  /\ UNCHANGED <<at, queues, keys, gates, scalps, counts, book, purge>>

(* Mutant: the breaker does not stop the scalps. *)
LateEndsUnchecked ==
  /\ at = "late" /\ Idle
  /\ late = {}
  /\ at' = IF Queued # {} \/ ready # << >> THEN "drain" ELSE "scalps"
  /\ UNCHANGED <<order, queues, sweep, gates, scalps, counts, book, purge>>

(* A pending timed entry holds scalps and cycle back. The breaker is looked *)
(* at once for all the alerts of this round.                                *)
LateEnds ==
  /\ at = "late" /\ Idle
  /\ late = {}
  /\ IF Queued # {} \/ ready # << >>
       THEN at' = "drain" /\ UNCHANGED alerts
       ELSE /\ at' = "scalps"
            /\ alerts' = IF tripped THEN {} ELSE alerts
  /\ UNCHANGED <<order, queues, sweep, gates, scalpCooling, scalpOpen, counts,
                 book, purge>>

-----------------------------------------------------------------------------
(* Quick scalps. *)

MayScalp(s) ==
  /\ ~scalpOpen
  /\ s \notin scalpCooling
  /\ s \notin cooling
  /\ entries[s] < MaxEntries
  /\ held[s] = "none"

TakeAlert(s) ==
  /\ at = "scalps" /\ Idle
  /\ s \in alerts
  /\ alerts' = alerts \ {s}
  /\ \/ order' = NoOrder
     \/ MayScalp(s) /\ order' = [sym |-> s, via |-> "scalp", hot |-> FALSE]
  /\ UNCHANGED <<at, queues, sweep, gates, scalpCooling, scalpOpen, counts,
                 book, purge>>

ScalpsEnd == alerts = {} /\ Moves("scalps", "poll")

-----------------------------------------------------------------------------
(* The scan cycle. *)

(* Without a new bar the cycle waits for the poll interval. *)
CycleWaits == Moves("poll", "drain")

CycleStarts == Moves("poll", "cycle")

(* The cycle names no strategy for an older position: the flag stays. What  *)
(* it sells completely is watched for a re-entry.                           *)
CycleExit(s, all) ==
  /\ at = "cycle"
  /\ RecordExit(s, TRUE)
  /\ held' = IF all THEN [held EXCEPT ![s] = "none"] ELSE held
  /\ exited' = IF all THEN exited \cup {s} ELSE exited
  /\ UNCHANGED <<at, scalpOpen>>

AtPositionLimit == Cardinality(OpenPositions) >= MaxPositions

(* A scan signal passes every gate, a re-entry the position limit alone. *)
MayDeferEntry(s) == ~AtPositionLimit /\ MayEnter(s)
MayDeferReentry(s) == ~AtPositionLimit /\ s \in exited

(* Adds are deferred before re-entries and new entries; the timer keeps the *)
(* first signal of a symbol.                                                *)
Defer ==
  /\ at = "cycle"
  /\ at' = "drain"
  /\ \E adds \in SUBSET OpenPositions,
        buys \in SUBSET {s \in Symbols : MayDeferEntry(s) \/ MayDeferReentry(s)} :
       timer' = [s \in Symbols |-> IF timer[s] # "none" THEN timer[s]
                                   ELSE IF s \in adds THEN "add"
                                   ELSE IF s \in buys THEN "entry"
                                   ELSE "none"]
  /\ UNCHANGED <<order, old, ready, sweep, gates, scalps, counts, book,
                 purge>>

-----------------------------------------------------------------------------
(* The position-sync thread finds a sale the main loop did not record       *)
(* itself. It rebuilds the queue of released signals from what it saw; if   *)
(* the queue changed meanwhile, building it may raise and be given up.      *)

SyncExit(s) ==
  /\ purge = NoPurge
  /\ held[s] # "none"
  /\ exits < MaxExits
  /\ exits' = exits + 1
  /\ Realized(s, FALSE)
  /\ Cancel(s)
  /\ purge' = [sym |-> s, seen |-> ready]
  /\ UNCHANGED <<loop, ready, sweep, scalps, surprises, book>>

SyncPurges ==
  /\ purge # NoPurge
  /\ ready' = Without(purge.seen, purge.sym)
  /\ held' \in {held, [held EXCEPT ![purge.sym] = "none"]}
  /\ purge' = NoPurge
  /\ UNCHANGED <<loop, timer, old, sweep, gates, scalps, counts, exited,
                 entries, sinceTrip>>

SyncAborts ==
  /\ purge # NoPurge
  /\ ready # purge.seen
  /\ purge' = NoPurge
  /\ UNCHANGED <<loop, queues, sweep, gates, scalps, counts, book>>

(* A merge adopts a position nobody recorded, or drops one that is gone. *)
Surprise(s) ==
  /\ surprises < MaxSurprises
  /\ surprises' = surprises + 1
  /\ held' = [held EXCEPT ![s] = IF @ = "none" THEN "plain" ELSE "none"]
  /\ UNCHANGED <<loop, queues, sweep, gates, scalps, exits, exited, entries,
                 purge, sinceTrip>>

-----------------------------------------------------------------------------
(* Time. *)

CoolingEnds(s) ==
  /\ s \in cooling
  /\ cooling' = cooling \ {s}
  /\ UNCHANGED <<loop, queues, sweep, losers, tripped, scalps, counts, book,
                 purge>>

ScalpCoolingEnds(s) ==
  /\ s \in scalpCooling
  /\ scalpCooling' = scalpCooling \ {s}
  /\ UNCHANGED <<loop, queues, sweep, gates, alerts, scalpOpen, counts, book,
                 purge>>

WaitEnds(s) ==
  /\ timer[s] # "none"
  /\ s \notin old
  /\ old' = old \cup {s}
  /\ UNCHANGED <<loop, timer, ready, sweep, gates, scalps, counts, book,
                 purge>>
-----------------------------------------------------------------------------

Events ==
  \/ \E s \in Symbols : Alert(s) \/ BarReleases(s) \/ BarCancels(s)
                        \/ InstantExit(s)
  \/ DrainEnds

Exits ==
  \/ \E s \in Symbols, all \in BOOLEAN : FastExit(s, all)
  \/ ExitsEnd

Timed ==
  \/ TakeReady \/ StartSweep \/ SweepEnds \/ TakeLate \/ LateEnds
  \/ \E s \in Symbols : SweepSymbol(s)

Scalps ==
  \/ \E s \in Symbols : TakeAlert(s)
  \/ ScalpsEnd

Cycle ==
  \/ CycleWaits \/ CycleStarts \/ Defer
  \/ \E s \in Symbols, all \in BOOLEAN : CycleExit(s, all)

Sync ==
  \/ SyncPurges \/ SyncAborts
  \/ \E s \in Symbols : SyncExit(s) \/ Surprise(s)

Time == \E s \in Symbols : CoolingEnds(s) \/ ScalpCoolingEnds(s) \/ WaitEnds(s)

Next ==
  \/ Events \/ Exits \/ OrderFills \/ OrderMisses \/ Timed \/ Scalps \/ Cycle
  \/ Sync \/ Time

Safety == Init /\ [][Next]_vars

(* The main loop keeps running and its orders are answered; no wait lasts  *)
(* for ever; and new bars or the poll interval bring the cycle again and    *)
(* again.                                                                  *)
Fairness ==
  /\ WF_vars(DrainEnds)
  /\ WF_vars(ExitsEnd)
  /\ WF_vars(OrderFills \/ OrderMisses)
  /\ WF_vars(Timed)
  /\ WF_vars(Scalps)
  /\ WF_vars(CycleWaits \/ CycleStarts)
  /\ SF_vars(CycleStarts)
  /\ WF_vars(Defer)
  /\ \A s \in Symbols : WF_vars(WaitEnds(s))

Spec == Safety /\ Fairness

-----------------------------------------------------------------------------
(* Once the breaker trips, at most one more position opens: the one whose   *)
(* order was past its check already, whichever thread tripped it            *)
(* (_new_entries_blocked, run_cycle).                                       *)
LastEntry == sinceTrip <= 1

(* No symbol is bought more often than a day allows, although the timer,    *)
(* the released queue, a copy of it the sync thread put back, the hot retry *)
(* and the scalps may all hold one more purchase of it.                     *)
EntryBudget == \A s \in Symbols : entries[s] <= MaxEntries

(* Signals that wait in the timer hold cycles and scalps back, but never    *)
(* for good (run, check_timeouts): unless the main loop has ended, the scan *)
(* cycle comes again and again.                                             *)
CyclesResume == []<>(at \in {"cycle", "dead"})
=============================================================================
