------------------------- MODULE PositionReconciler -------------------------
(***************************************************************************)
(* How the bot keeps its portfolio and its exit trackers aligned with the  *)
(* broker account (execution/position_reconciler.py), driven as the runner *)
(* drives it: the main loop opens and exits positions through orders that  *)
(* the broker fills while nobody holds a lock, and both the main loop and  *)
(* the position-sync thread fetch a position snapshot, cover unexpected    *)
(* shorts and merge the snapshot, in separate steps that interleave.       *)
(*                                                                         *)
(* Quantities are signed share counts (negative: short). Prices and times  *)
(* are left out except for the pending grace period, counted in ticks.     *)
(***************************************************************************)
EXTENDS Integers, FiniteSets

CONSTANTS
  Symbols,        \* traded symbols
  MaxQty,         \* bound on the shares held long
  MaxShort,       \* bound on the shares held short
  PendingGrace,   \* ticks a fresh entry stays protected (DEFAULT_PENDING_GRACE)
  MissLimit,      \* empty reads before a symbol is flat (DEFAULT_BROKER_MISS_LIMIT)
  MaxTrades,      \* bound: trades the main loop is not waiting for
  MaxDecisions    \* bound: entries and exit rounds the main loop starts

ASSUME ReconcilerAssumption ==
  /\ Symbols # {}
  /\ MaxQty \in Nat \ {0}
  /\ MaxShort \in Nat
  /\ PendingGrace \in Nat
  /\ MissLimit \in Nat \ {0}
  /\ MaxTrades \in Nat
  /\ MaxDecisions \in Nat

Threads == {"main", "sync"}
Qty == (-MaxShort)..MaxQty
Nothing == [s \in Symbols |-> 0]

VARIABLES
  held,       \* shares the account really holds (external)
  listed,     \* shares the positions endpoint lists; lags held (external)
  trades,     \* outside trades so far
  decisions,  \* entries and exit rounds so far
  cache,      \* AlpacaBroker._pos_cache; Nothing stands for None and for {}
  fresh,      \* is the cache younger than half a second?
  view,       \* per thread: the snapshot it is working on
  phase,      \* per thread: where it is in the runner's code
  covered,    \* per thread: shorts it covered since it fetched its snapshot
  order,      \* the order the main loop is waiting for
  exitSig,    \* per symbol: the exit signal not yet done with (shares to sell,
              \*   negative: to buy back), 0 if none
  portfolio,  \* PortfolioState: signed quantity, 0 is flat
  tracked,    \* symbols the exit manager monitors
  side,       \* TrackedPosition.side
  remaining,  \* TrackedPosition.remaining_qty
  halved,     \* symbols whose tracker has sold_half set
  graceLeft,  \* ticks until pending_broker_since runs out
  missCount,  \* SymbolLedger.broker_miss_count
  absent,     \* history: merges in a row that missed a tracked symbol
  abandoned   \* history: exits given up with the position unmonitored

external  == <<held, listed, trades>>
caching   == <<cache, fresh>>
threading == <<view, phase, covered>>
ordering  == <<order, exitSig>>
trackers  == <<tracked, side, remaining, halved>>
ledger    == <<graceLeft, missCount>>
history   == <<absent, abandoned>>
vars == <<external, decisions, caching, threading, ordering, portfolio, trackers, ledger,
          history>>

Abs(n) == IF n < 0 THEN -n ELSE n
Least(m, n) == IF m < n THEN m ELSE n

NoOrder ==
  [kind |-> "none", sym |-> CHOOSE s \in Symbols : TRUE, side |-> "BUY",
   want |-> 0, qty |-> 0, filled |-> 0, attempt |-> 0]

Order ==
  [kind : {"none", "entry", "exit", "done"}, sym : Symbols,
   side : {"BUY", "SELL"}, want : Nat, qty : Nat, filled : Nat,
   attempt : 0..2]

TypeOK ==
  /\ held \in [Symbols -> Qty]
  /\ listed \in [Symbols -> Qty]
  /\ trades \in 0..MaxTrades
  /\ decisions \in 0..MaxDecisions
  /\ cache \in [Symbols -> Qty]
  /\ fresh \in BOOLEAN
  /\ view \in [Threads -> [Symbols -> Qty]]
  /\ phase \in [Threads -> {"starting", "idle", "exits", "order", "push", "cleanup"}]
  /\ covered \in [Threads -> SUBSET Symbols]
  /\ order \in Order
  /\ exitSig \in [Symbols -> Int]
  /\ portfolio \in [Symbols -> Int]
  /\ tracked \in SUBSET Symbols
  /\ side \in [Symbols -> {"BUY", "SELL"}]
  /\ remaining \in [Symbols -> Nat]
  /\ halved \in SUBSET Symbols
  /\ graceLeft \in [Symbols -> 0..PendingGrace]
  /\ missCount \in [Symbols -> 0..(MissLimit - 1)]
  /\ absent \in [Symbols -> 0..MissLimit]
  /\ abandoned \in SUBSET Symbols

(* The bot starts, perhaps with positions left at the broker by an earlier *)
(* run: nothing is tracked, the first refresh is about to run on the main   *)
(* thread and the sync thread starts after it.                              *)
Init ==
  /\ held \in [Symbols -> Qty]
  /\ listed = held
  /\ trades = 0
  /\ decisions = 0
  /\ cache = Nothing
  /\ fresh = FALSE
  /\ view = [t \in Threads |-> Nothing]
  /\ phase = [t \in Threads |-> IF t = "main" THEN "push" ELSE "starting"]
  /\ covered = [t \in Threads |-> {}]
  /\ order = NoOrder
  /\ exitSig = Nothing
  /\ portfolio = Nothing
  /\ tracked = {}
  /\ side = [s \in Symbols |-> "BUY"]
  /\ remaining = Nothing
  /\ halved = {}
  /\ graceLeft = Nothing
  /\ missCount = Nothing
  /\ absent = Nothing
  /\ abandoned = {}

-----------------------------------------------------------------------------
(* The broker account and the passage of time.                             *)

(* Shares change hands without the main loop waiting for it: a protective  *)
(* stop triggers, an order given up on fills late, somebody trades by hand. *)
BrokerMoves(s, q) ==
  /\ trades < MaxTrades
  /\ q # held[s]
  /\ held' = [held EXCEPT ![s] = q]
  /\ trades' = trades + 1
  /\ UNCHANGED <<listed, decisions, caching, threading, ordering, portfolio, trackers,
                 ledger, history>>

(* The positions endpoint catches up with the account. *)
Publish(s) ==
  /\ listed[s] # held[s]
  /\ listed' = [listed EXCEPT ![s] = held[s]]
  /\ UNCHANGED <<held, trades, decisions, caching, threading, ordering, portfolio,
                 trackers, ledger, history>>

CacheAges ==
  /\ fresh
  /\ fresh' = FALSE
  /\ UNCHANGED <<external, decisions, cache, threading, ordering, portfolio, trackers,
                 ledger, history>>

GraceTick ==
  /\ \E s \in Symbols : graceLeft[s] > 0
  /\ graceLeft' = [s \in Symbols |-> IF graceLeft[s] > 0 THEN graceLeft[s] - 1
                                     ELSE 0]
  /\ UNCHANGED <<external, decisions, caching, threading, ordering, portfolio, trackers,
                 missCount, history>>

(* Part of the order the main loop waits for is executed. *)
OrderFills(n) ==
  /\ phase["main"] = "order"
  /\ n \in 1..(order.qty - order.filled)
  /\ LET q == held[order.sym] + (IF order.side = "BUY" THEN n ELSE -n)
     IN  /\ q \in Qty
         /\ held' = [held EXCEPT ![order.sym] = q]
  /\ order' = [order EXCEPT !.filled = @ + n]
  /\ UNCHANGED <<listed, trades, decisions, caching, threading, exitSig, portfolio,
                 trackers, ledger, history>>

-----------------------------------------------------------------------------
(* Building blocks of the trackers and of the ledger.                      *)

(* Fault: the grace restarts but earlier misses still count. *)
MarkEntryPendingKeepsMisses(s) ==
  /\ graceLeft' = [graceLeft EXCEPT ![s] = PendingGrace]
  /\ missCount' = missCount

(* SymbolLedger after mark_entry_pending: grace restarts, misses forgotten. *)
MarkEntryPending(s) ==
  /\ graceLeft' = [graceLeft EXCEPT ![s] = PendingGrace]
  /\ missCount' = [missCount EXCEPT ![s] = 0]

(* SymbolLedger after clear_pending. *)
ClearPending(s) ==
  /\ graceLeft' = [graceLeft EXCEPT ![s] = 0]
  /\ missCount' = [missCount EXCEPT ![s] = 0]

(* The exit manager stops monitoring the symbols of S. *)
Untrack(S) ==
  /\ tracked' = tracked \ S
  /\ side' = [s \in Symbols |-> IF s \in S THEN "BUY" ELSE side[s]]
  /\ remaining' = [s \in Symbols |-> IF s \in S THEN 0 ELSE remaining[s]]
  /\ halved' = halved \ S

InvalidateCache == cache' = Nothing /\ fresh' = FALSE

(* What get_positions answers after an invalidation: the listing, or nothing *)
(* when the call fails and no cached answer is left to fall back on.         *)
FreshRead(snapshot) ==
  \/ snapshot = listed /\ cache' = listed /\ fresh' = TRUE
  \/ snapshot = Nothing /\ InvalidateCache

(* Shares of s that an exit on side d may trade, seen in a snapshot. *)
Available(snapshot, s, d) ==
  IF d = "SELL" THEN (IF snapshot[s] > 0 THEN snapshot[s] ELSE 0)
  ELSE (IF snapshot[s] < 0 THEN -snapshot[s] ELSE 0)

-----------------------------------------------------------------------------
(* Refreshing from the broker: _push_positions_from_alpaca, run by the sync *)
(* thread every three seconds and by the main loop once an order is done.   *)

SyncWakes ==
  /\ phase["sync"] = "idle"
  /\ phase' = [phase EXCEPT !["sync"] = "push"]
  /\ UNCHANGED <<external, decisions, caching, view, covered, ordering, portfolio,
                 trackers, ledger, history>>

(* The thread goes on with the snapshot it was given. *)
TakeSnapshot(t, snapshot) ==
  /\ phase[t] = "push"
  /\ view' = [view EXCEPT ![t] = snapshot]
  /\ phase' = [phase EXCEPT ![t] = "cleanup"]
  /\ UNCHANGED <<external, decisions, covered, ordering, portfolio, trackers, ledger,
                 history>>

ReadCached(t) ==
  /\ fresh
  /\ TakeSnapshot(t, cache)
  /\ UNCHANGED caching

ReadLive(t) ==
  /\ ~fresh
  /\ TakeSnapshot(t, listed)
  /\ cache' = listed
  /\ fresh' = TRUE

(* The call fails or times out: the last cached answer, {} without one. *)
ReadFails(t) ==
  /\ ~fresh
  /\ TakeSnapshot(t, cache)
  /\ UNCHANGED caching

(* _cleanup_accidental_shorts buys n shares of a short back: the order is  *)
(* clamped to a fresh read, the tracker dropped, and the symbol popped     *)
(* from the snapshot, which another thread may be sharing. Shorts it skips *)
(* (cooldown, size limit, no fill) stay in the snapshot.                   *)
CoverShort(t, s, n) ==
  /\ phase[t] = "cleanup"
  /\ view[t][s] < 0
  /\ n \in 1..Least(-view[t][s], Available(listed, s, "BUY"))
  /\ held[s] + n \in Qty
  /\ held' = [held EXCEPT ![s] = @ + n]
  /\ portfolio' = [portfolio EXCEPT ![s] = IF @ < 0 THEN @ + n ELSE @]
  /\ Untrack({s})
  /\ covered' = [covered EXCEPT ![t] = @ \cup {s}]
  /\ \E sharers \in SUBSET {u \in Threads : view[u] = view[t]} :
       view' = [u \in Threads |-> IF u \in sharers \cup {t}
                                  THEN [view[u] EXCEPT ![s] = 0]
                                  ELSE view[u]]
  /\ InvalidateCache
  /\ UNCHANGED <<listed, trades, decisions, phase, ordering, ledger, history>>

Shown(v) == {s \in Symbols : v[s] # 0}

Missing(v) == tracked \ Shown(v)

(* The grace protects a tracked symbol, the rest collect a miss each. *)
Missed(v) == {s \in Missing(v) : graceLeft[s] = 0}

(* Fault: one miss too few. *)
VanishedTooSoon(v) == {s \in Missed(v) : missCount[s] + 2 >= MissLimit}

(* Fault: one miss too many. *)
VanishedTooLate(v) == {s \in Missed(v) : missCount[s] >= MissLimit}

(* The misses that confirm a symbol flat. *)
Vanished(v) == {s \in Missed(v) : missCount[s] + 1 >= MissLimit}

(* Symbols whose tracker the merge replaces: an orphan long, and a short    *)
(* that is not tracked as one.                                              *)
Adopted(v) ==
  {s \in Shown(v) : \/ s \notin tracked
                    \/ v[s] < 0 /\ side[s] # "SELL"}

(* Fault: what is untracked and unlisted keeps its portfolio quantity. *)
MergedPortfolioKeepsRest(v) ==
  [s \in Symbols |-> IF v[s] # 0 THEN v[s]
                     ELSE IF s \notin Vanished(v) THEN portfolio[s]
                     ELSE 0]

(* PortfolioState after a merge: the broker is authoritative for what it   *)
(* lists, misses keep what is still monitored, all else becomes flat.      *)
MergedPortfolio(v) ==
  [s \in Symbols |-> IF v[s] # 0 THEN v[s]
                     ELSE IF s \in tracked \ Vanished(v) THEN portfolio[s]
                     ELSE 0]

(* SymbolLedger after a merge. *)
MergedLedger(v) ==
  /\ graceLeft' = [s \in Symbols |-> IF s \in Shown(v) \cup Vanished(v) THEN 0
                                     ELSE graceLeft[s]]
  /\ missCount' = [s \in Symbols |->
                     IF s \in Shown(v) \cup Vanished(v) THEN 0
                     ELSE IF s \in Missed(v) THEN missCount[s] + 1
                     ELSE missCount[s]]

(* PositionReconciler.reconcile on the snapshot, which ends the refresh. *)
Merge(t) ==
  LET v == view[t] IN
  /\ phase[t] = "cleanup"
  /\ portfolio' = MergedPortfolio(v)
  /\ tracked' = (tracked \cup Shown(v)) \ Vanished(v)
  /\ side' = [s \in Symbols |->
                IF s \in Adopted(v) THEN (IF v[s] < 0 THEN "SELL" ELSE "BUY")
                ELSE IF s \in Vanished(v) THEN "BUY"
                ELSE side[s]]
  /\ remaining' = [s \in Symbols |-> IF s \in Shown(v) THEN Abs(v[s])
                                     ELSE IF s \in Vanished(v) THEN 0
                                     ELSE remaining[s]]
  /\ halved' = halved \ (Adopted(v) \cup Vanished(v))
  /\ MergedLedger(v)
  /\ absent' = [s \in Symbols |->
                  IF s \in Missing(v) \ Vanished(v)
                  THEN Least(absent[s] + 1, MissLimit)
                  ELSE 0]
  /\ abandoned' = {}
  /\ view' = [view EXCEPT ![t] = Nothing]
  /\ covered' = [covered EXCEPT ![t] = {}]
  /\ phase' = [u \in Threads |->
                 IF u = "main" /\ t = "main" /\ \E s \in Symbols : exitSig[s] # 0
                 THEN "exits"
                 ELSE IF u = t \/ phase[u] = "starting" THEN "idle"
                 ELSE phase[u]]
  /\ order' = IF t = "main" THEN NoOrder ELSE order
  /\ UNCHANGED <<external, decisions, caching, exitSig>>

-----------------------------------------------------------------------------
(* Entries of the main loop: EntryExecutor.execute_timed_signal.            *)

(* A released signal for a symbol the portfolio shows flat goes to the broker. *)
SubmitEntry(s, q) ==
  /\ phase["main"] = "idle"
  /\ portfolio[s] = 0
  /\ decisions < MaxDecisions
  /\ decisions' = decisions + 1
  /\ order' = [kind |-> "entry", sym |-> s, side |-> "BUY", want |-> q, qty |-> q,
               filled |-> 0, attempt |-> 0]
  /\ phase' = [phase EXCEPT !["main"] = "order"]
  /\ UNCHANGED <<external, caching, view, covered, exitSig, portfolio,
                 trackers, ledger, history>>

(* broker.submit reports a fill: apply_fill, then _on_position_opened, which *)
(* registers the signal's own quantity unless somebody tracks the symbol.    *)
EntryFilled ==
  LET s == order.sym IN
  /\ phase["main"] = "order"
  /\ order.kind = "entry"
  /\ order.filled > 0
  /\ portfolio' = [portfolio EXCEPT ![s] = @ + order.filled]
  /\ IF s \in tracked THEN UNCHANGED <<trackers, absent>>
     ELSE /\ tracked' = tracked \cup {s}
          /\ side' = [side EXCEPT ![s] = "BUY"]
          /\ remaining' = [remaining EXCEPT ![s] = order.want]
          /\ halved' = halved
          /\ absent' = [absent EXCEPT ![s] = 0]
  /\ MarkEntryPending(s)
  /\ InvalidateCache
  /\ phase' = [phase EXCEPT !["main"] = "push"]
  /\ order' = [order EXCEPT !.kind = "done"]
  /\ UNCHANGED <<external, decisions, view, covered, exitSig, abandoned>>

(* broker.submit reports no fill; the order may have filled all the same    *)
(* (its status could not be read) or still fill after it was cancelled.     *)
EntryUnfilled ==
  /\ phase["main"] = "order"
  /\ order.kind = "entry"
  /\ order' = NoOrder
  /\ phase' = [phase EXCEPT !["main"] = "idle"]
  /\ UNCHANGED <<external, decisions, caching, view, covered, exitSig, portfolio,
                 trackers, ledger, history>>

-----------------------------------------------------------------------------
(* Exits of the main loop: _check_exits_only.                               *)

(* ExitManager.check_exits signals full exits for the symbols of full,      *)
(* dropping their trackers at once, and first partials of h shares for      *)
(* those of half.                                                           *)
DecideExits(full, half, h) ==
  /\ phase["main"] = "idle"
  /\ decisions < MaxDecisions
  /\ full \cup half # {}
  /\ full \cap half = {}
  /\ full \cup half \subseteq {s \in tracked : remaining[s] > 0}
  /\ half \cap halved = {}
  /\ \A s \in half : h < remaining[s]
  /\ decisions' = decisions + 1
  /\ exitSig' = [s \in Symbols |->
                   LET n == IF s \in full THEN remaining[s]
                            ELSE IF s \in half THEN h ELSE 0
                   IN  IF side[s] = "BUY" THEN n ELSE -n]
  /\ tracked' = tracked \ full
  /\ side' = [s \in Symbols |-> IF s \in full THEN "BUY" ELSE side[s]]
  /\ remaining' = [s \in Symbols |-> IF s \in full THEN 0
                                     ELSE IF s \in half THEN remaining[s] - h
                                     ELSE remaining[s]]
  /\ halved' = (halved \cup half) \ full
  /\ phase' = [phase EXCEPT !["main"] = "exits"]
  /\ UNCHANGED <<external, caching, view, covered, order, portfolio,
                 ledger, history>>

(* _submit_fast_exit_order: clamp to a fresh read of the broker position;   *)
(* with nothing to trade no order goes out (quantity 0).                    *)
SubmitExit(s) ==
  LET d == IF exitSig[s] > 0 THEN "SELL" ELSE "BUY" IN
  /\ phase["main"] = "exits"
  /\ exitSig[s] # 0
  /\ order.attempt = 0 \/ order.sym = s
  /\ \E snapshot \in {listed, Nothing} :
       /\ FreshRead(snapshot)
       /\ order' = [kind |-> "exit", sym |-> s, side |-> d,
                    want |-> Abs(exitSig[s]), filled |-> 0,
                    qty |-> Least(Abs(exitSig[s]), Available(snapshot, s, d)),
                    attempt |-> order.attempt + 1]
  /\ phase' = [phase EXCEPT !["main"] = "order"]
  /\ UNCHANGED <<external, decisions, view, covered, exitSig, portfolio, trackers,
                 ledger, history>>

(* The order is reported filled: apply_fill, then _record_trade_exit, which *)
(* drops a tracker left over and its ledger entry when nothing remains.     *)
ExitFilled ==
  LET s == order.sym
      q == portfolio[s] + (IF order.side = "SELL" THEN -order.filled
                           ELSE order.filled)
  IN
  /\ phase["main"] = "order"
  /\ order.kind = "exit"
  /\ order.filled > 0
  /\ portfolio' = [portfolio EXCEPT ![s] = q]
  /\ IF \/ s \notin tracked
        \/ remaining[s] = 0
        \/ order.side = "SELL" /\ q <= 0
     THEN Untrack({s}) /\ ClearPending(s)
     ELSE UNCHANGED <<trackers, ledger>>
  /\ exitSig' = [exitSig EXCEPT ![s] = 0]
  /\ InvalidateCache
  /\ order' = [order EXCEPT !.kind = "done"]
  /\ phase' = [phase EXCEPT !["main"] = "push"]
  /\ UNCHANGED <<external, decisions, view, covered, history>>

(* No fill is reported. After the first attempt the broker position is read *)
(* again: gone or on the wrong side means refresh, else try once more.      *)
ExitUnfilled ==
  LET s == order.sym IN
  /\ phase["main"] = "order"
  /\ order.kind = "exit"
  /\ order.attempt = 1
  /\ \E snapshot \in {listed, Nothing} :
       /\ FreshRead(snapshot)
       /\ IF Available(snapshot, s, order.side) > 0
          THEN /\ phase' = [phase EXCEPT !["main"] = "exits"]
               /\ order' = [kind |-> "none", sym |-> s, side |-> order.side,
                            want |-> order.want, qty |-> 0, filled |-> 0,
                            attempt |-> 1]
               /\ UNCHANGED exitSig
          ELSE /\ phase' = [phase EXCEPT !["main"] = "push"]
               /\ order' = [order EXCEPT !.kind = "done"]
               /\ exitSig' = [exitSig EXCEPT ![s] = 0]
  /\ UNCHANGED <<external, decisions, view, covered, portfolio, trackers, ledger,
                 history>>

(* Trackers after both attempts failed: a half-sell is rolled back, a full  *)
(* exit is not.                                                             *)
RollBackHalf(s) ==
  IF s \in tracked \cap halved /\ remaining[s] > 0
  THEN /\ halved' = halved \ {s}
       /\ remaining' = [remaining EXCEPT ![s] = @ + order.want]
       /\ UNCHANGED <<tracked, side>>
  ELSE UNCHANGED trackers

(* The second attempt fails as well: the exit is given up, no refresh. *)
ExitGivenUp ==
  LET s == order.sym IN
  /\ phase["main"] = "order"
  /\ order.kind = "exit"
  /\ order.attempt = 2
  /\ RollBackHalf(s)
  /\ abandoned' = IF s \in tracked THEN abandoned ELSE abandoned \cup {s}
  /\ exitSig' = [exitSig EXCEPT ![s] = 0]
  /\ order' = NoOrder
  /\ phase' = [phase EXCEPT !["main"] =
                 IF \E r \in Symbols \ {s} : exitSig[r] # 0 THEN "exits"
                 ELSE "idle"]
  /\ UNCHANGED <<external, decisions, caching, view, covered, portfolio, ledger, absent>>

-----------------------------------------------------------------------------
Broker ==
  \/ \E s \in Symbols, q \in Qty : BrokerMoves(s, q)
  \/ \E s \in Symbols : Publish(s)
  \/ CacheAges
  \/ GraceTick
  \/ \E n \in 1..MaxQty : OrderFills(n)

Refresh(t) ==
  \/ ReadCached(t)
  \/ ReadLive(t)
  \/ ReadFails(t)
  \/ \E s \in Symbols, n \in 1..MaxQty : CoverShort(t, s, n)
  \/ Merge(t)

MainLoop ==
  \/ \E s \in Symbols, q \in 1..MaxQty : SubmitEntry(s, q)
  \/ EntryFilled
  \/ EntryUnfilled
  \/ \E full, half \in SUBSET Symbols, h \in 1..MaxQty :
       DecideExits(full, half, h)
  \/ \E s \in Symbols : SubmitExit(s)
  \/ ExitFilled
  \/ ExitUnfilled
  \/ ExitGivenUp

Next == Broker \/ SyncWakes \/ (\E t \in Threads : Refresh(t)) \/ MainLoop

Safety == Init /\ [][Next]_vars

(* The sync thread's loop never stops and every answer it waits for comes;  *)
(* the main loop finishes what it began; calls to the broker do not fail    *)
(* for ever; the endpoint catches up and time passes.                       *)
Fairness ==
  /\ WF_vars(SyncWakes)
  /\ \A t \in Threads : /\ WF_vars(ReadCached(t) \/ ReadFails(t))
                        /\ SF_vars(ReadLive(t))
                        /\ WF_vars(Merge(t))
  /\ WF_vars(\E s \in Symbols : SubmitExit(s))
  /\ WF_vars(EntryFilled \/ EntryUnfilled)
  /\ WF_vars(ExitFilled \/ ExitUnfilled \/ ExitGivenUp)
  /\ \A s \in Symbols : WF_vars(Publish(s))
  /\ WF_vars(CacheAges)
  /\ WF_vars(GraceTick)

Spec == Safety /\ Fairness

-----------------------------------------------------------------------------
(* Properties                                                               *)

(* Somebody looks after s: it is monitored, or an exit signal for it is     *)
(* being worked off, or the main loop is about to refresh after its order,  *)
(* or a thread has just covered it, or its exit was given up on and the     *)
(* next refresh must repair that.                                           *)
Attended(s) ==
  \/ s \in tracked
  \/ exitSig[s] # 0
  \/ phase["main"] \in {"push", "cleanup"} /\ order.kind = "done" /\ order.sym = s
  \/ \E t \in Threads : s \in covered[t]
  \/ s \in abandoned

(* No position falls between the portfolio and the exit manager: whatever   *)
(* the two threads and the broker do, a symbol the portfolio shows open is  *)
(* attended. (position_reconciler.py: "Exit manager not monitoring          *)
(* positions that exist only at the broker".)                               *)
NoUnattendedPosition == \A s \in Symbols : portfolio[s] # 0 => Attended(s)

(* The miss counter of a monitored symbol never runs ahead of the merges in *)
(* a row that really missed it: no entry, exit, adoption or refresh leaves a *)
(* stale count behind that would shorten the next position's patience.      *)
MissesAreReal == \A s \in tracked : missCount[s] <= absent[s]

(* "Never untrack on a single missing broker read": a merge gives a symbol  *)
(* up only outside its grace period and after MissLimit merges in a row     *)
(* that missed it, this one included, whichever threads ran them.           *)
PatientUntrack ==
  [][\A t \in Threads, s \in Symbols :
       Merge(t) /\ s \in tracked /\ s \notin tracked'
         => graceLeft[s] = 0 /\ absent[s] + 1 >= MissLimit]_vars

(* Once trades stop, portfolio and trackers agree with the account for good, *)
(* however long calls kept failing, whatever snapshots were stale.           *)
Aligned ==
  \A s \in Symbols : portfolio[s] = held[s] /\ (s \in tracked <=> held[s] # 0)

Converges == <>[]Aligned
=============================================================================
