------------------------------ MODULE BurstLane ------------------------------
(***************************************************************************)
(* The burst lane of a trading day: the symbols it watches, the orders it   *)
(* sends from the main loop, the breakout-scalp lane that shares its one    *)
(* slot, the sync thread that may adopt a position while its order is still *)
(* awaited, and the exits that reach _record_trade_exit with or without the *)
(* name of the lane. Cooldowns, windows and the twenty minutes after a      *)
(* target end whenever they like.                                           *)
(***************************************************************************)
EXTENDS BurstReplay

CONSTANTS
  Symbols,   \* what the burst lane may watch
  Runners    \* what the breakout-scalp lane may buy

ASSUME LaneAssumption ==
  IsFiniteSet(Symbols \cup Runners) /\ "none" \notin Symbols \cup Runners

VARIABLES
  mode,     \* which of the lane's three switches is on
  watch,    \* WarriorWatchBook, by symbol
  order,    \* the purchase the main loop waits for
  pos,      \* tracked positions, by what their tracker tells of them
  active,   \* _breakout_scalp_active
  since,    \* history: bars since the pending breakout was first armed
  leaky     \* history: a lane position was sold in part, or its order missed

Traded == Symbols \cup Runners

vars == <<mode, watch, order, pos, active, since, leaky>>

NoOrder == [sym |-> "none", trig |-> "none", age |-> 0]
Idle == order = NoOrder

Init ==
  /\ mode \in Modes
  /\ watch = [s \in Symbols |-> NoWatch]
  /\ order = NoOrder
  /\ pos = [s \in Traded |-> "none"]
  /\ active = FALSE
  /\ since = [s \in Symbols |-> 0]
  /\ leaky = FALSE

(* An adopted tracker carries the reconciler's reason, not the lane's. *)
ActiveTradesByName == Cardinality({s \in Traded : pos[s] \in {"burst", "scalp"}})
ActiveTrades ==
  LET named == Cardinality({s \in Traded : pos[s] \in {"burst", "scalp"}})
  IN  IF named = 0 /\ active THEN 1 ELSE named
SlotFree == ActiveTrades < 1

Older(n) == IF n > Patience THEN n ELSE n + 1
NewBar ==
  /\ watch' = [s \in Symbols |->
                 IF watch[s].pend = NoPending THEN watch[s]
                 ELSE [watch[s] EXCEPT !.pend.age = Older(@), !.pend.born = Older(@)]]
  /\ since' = [s \in Symbols |->
                 IF watch[s].pend = NoPending THEN 0 ELSE Older(since[s])]
  /\ UNCHANGED <<mode, order, pos, active, leaky>>

ArmSymbol(s, rejected) ==
  /\ Idle
  /\ watch' = [watch EXCEPT ![s] =
                 IF rejected /\ mode = "warrior" THEN ArmedRejected(@)
                 ELSE Armed(mode, @)]
  /\ UNCHANGED <<mode, order, pos, active, since, leaky>>

(* A full Warrior book makes room for another symbol: the weakest one without
   position and target goes. *)
Evict(s) ==
  /\ Idle /\ mode = "warrior" /\ watch[s].armed
  /\ pos[s] \notin {"burst", "scalp"} /\ watch[s].wins = "none"
  /\ watch' = [watch EXCEPT ![s] = Evicted(@)]
  /\ since' = [since EXCEPT ![s] = 0]
  /\ UNCHANGED <<mode, order, pos, active, leaky>>

WindowCloses(s) ==
  /\ Idle /\ watch[s].armed
  /\ watch' = [watch EXCEPT ![s] = WindowEnds(@)]
  /\ since' = [since EXCEPT ![s] = 0]
  /\ UNCHANGED <<mode, order, pos, active, leaky>>

(* Trading paused or the breaker tripped: nothing is watched until armed anew. *)
EntriesBlocked ==
  /\ Idle /\ \E s \in Symbols : watch[s].armed
  /\ watch' = [s \in Symbols |-> [Drop(watch[s]) EXCEPT !.armed = FALSE, !.high = FALSE]]
  /\ since' = [s \in Symbols |-> 0]
  /\ UNCHANGED <<mode, order, pos, active, leaky>>

CooldownEnds(s) ==
  /\ watch[s].cooling
  /\ watch' = [watch EXCEPT ![s].cooling = FALSE]
  /\ UNCHANGED <<mode, order, pos, active, since, leaky>>

TargetStales(s) ==
  /\ watch[s].wins = "fresh"
  /\ watch' = [watch EXCEPT ![s].wins = "stale"]
  /\ UNCHANGED <<mode, order, pos, active, since, leaky>>

(* One symbol of one pass of the lane. With the slot taken the pass ends before
   it looks at the symbol. *)
Known(s, x) ==
  IF watch[s].pend = NoPending \/ (mode = "warrior" /\ Starter(watch[s], x) # watch[s])
  THEN 1 ELSE since[s]
SinceOf(s, x, w) ==
  IF w.pend = NoPending THEN 0
  ELSE IF w.pend = watch[s].pend THEN since[s]
  ELSE IF w.pend.rebased THEN Known(s, x)
  ELSE w.pend.age
Look(s, x) ==
  /\ Idle /\ watch[s].armed /\ SlotFree
  /\ LET seen == Live(mode, watch[s], x)
     IN  /\ watch' = [watch EXCEPT ![s] = seen.w]
         /\ since' = [since EXCEPT ![s] = SinceOf(s, x, seen.w)]
         /\ order' = IF seen.buy = "none" THEN NoOrder
                     ELSE [sym |-> s, trig |-> seen.buy,
                           age |-> IF seen.age = 0 THEN 0 ELSE Known(s, x)]
  /\ UNCHANGED <<mode, pos, active, leaky>>
LookBlocked(s) ==
  /\ Idle /\ watch[s].armed /\ watch[s].blocked /\ ~SlotFree
  /\ watch' = [watch EXCEPT ![s] = Drop(@)]
  /\ since' = [since EXCEPT ![s] = 0]
  /\ UNCHANGED <<mode, order, pos, active, leaky>>

(* The breakout-scalp lane asks for its own flag alone. *)
ScalpOrder(s) ==
  /\ Idle /\ ~active /\ pos[s] = "none"
  /\ order' = [sym |-> s, trig |-> "scalp", age |-> 0]
  /\ UNCHANGED <<mode, watch, pos, active, since, leaky>>

(* The sync thread finds the shares at the broker before the order returns. *)
Adopt ==
  /\ ~Idle /\ pos[order.sym] = "none"
  /\ pos' = [pos EXCEPT ![order.sym] = "adopted"]
  /\ UNCHANGED <<mode, watch, order, active, since, leaky>>

OrderFills ==
  /\ ~Idle
  /\ pos' = [pos EXCEPT ![order.sym] =
               IF @ = "adopted" THEN @
               ELSE IF order.trig = "scalp" THEN "scalp" ELSE "burst"]
  /\ active' = TRUE
  /\ watch' = IF order.trig = "scalp" THEN watch
              ELSE [watch EXCEPT ![order.sym] = Filled(mode, @, order.trig)]
  /\ order' = NoOrder
  /\ UNCHANGED <<mode, since, leaky>>

(* The wait of the order ends without a fill that the executor learns of. *)
OrderMisses ==
  /\ ~Idle
  /\ order' = NoOrder
  /\ leaky' = (leaky \/ pos[order.sym] = "adopted")
  /\ UNCHANGED <<mode, watch, pos, active, since>>

(* An exit of the fast path knows the lane by the tracker's strategy; it sells
   a part or the rest. The day's stop and give-back limit may block. *)
ExitNamed(s, outcome, ahead, part, blocks) ==
  /\ Idle /\ pos[s] \in {"burst", "scalp"}
  /\ blocks => mode # "cycle" /\ pos[s] = "burst"
  /\ active' = FALSE
  /\ LET left == Exited(mode, watch[s], outcome, ahead)
     IN  watch' = IF pos[s] = "scalp" THEN watch
                  ELSE [watch EXCEPT ![s] =
                          [left EXCEPT !.blocked = left.blocked \/ blocks]]
  /\ pos' = [pos EXCEPT ![s] = IF part THEN @ ELSE "none"]
  /\ since' = [t \in Symbols |-> IF watch'[t].pend = NoPending THEN 0 ELSE since[t]]
  /\ leaky' = (leaky \/ part)
  /\ UNCHANGED <<mode, order>>

(* Instant exits pass the tracker's reason for the strategy, the broker's own
   fills pass none: neither the flag nor the watch hears of them. *)
ExitUnnamed(s) ==
  /\ pos[s] # "none" /\ s # order.sym
  /\ pos' = [pos EXCEPT ![s] = "none"]
  /\ UNCHANGED <<mode, watch, order, active, since, leaky>>

Next ==
  \/ NewBar \/ EntriesBlocked \/ Adopt \/ OrderFills \/ OrderMisses
  \/ \E s \in Symbols :
       \/ \E r \in BOOLEAN : ArmSymbol(s, r)
       \/ Evict(s) \/ WindowCloses(s) \/ CooldownEnds(s) \/ TargetStales(s)
       \/ \E x \in Bars[mode][pos[s] # "none"] : Look(s, x)
       \/ LookBlocked(s)
  \/ \E s \in Runners : ScalpOrder(s)
  \/ \E s \in Traded :
       \/ ExitUnnamed(s)
       \/ \E o \in Outcomes, ahead, part, blocks \in BOOLEAN :
            ExitNamed(s, o, ahead, part, blocks)

Spec == Init /\ [][Next]_vars

-----------------------------------------------------------------------------
(* The backtest judges a bar as the live lane does: for every watch the lane can
   reach and every bar, the same order and the same watch after it, and the same
   watch after an exit. It does not in three cases, which the live code decides
   otherwise: a failed burst while the symbol is held, the prior-runner context
   below the window high, and a first exit with a profit short of the target. *)
SameLook(m, w, x) ==
  LET live == Live(m, w, x)
  IN  \/ live = Replay(m, w, x)
      \/ x.held /\ m = "warrior" /\ w.failed /\ w.wins = "none"
      \/ live.w.pend.trig = "prior_runner" /\ x.rel # "above" /\ live.buy = "none"
SameExit(m, w, outcome, ahead) ==
  \/ Exited(m, w, outcome, ahead) = ReplayExited(m, w, outcome, ahead)
  \/ m = "warrior" /\ outcome = "win" /\ w.wins = "none"
ReplayParity ==
  \A s \in Symbols : watch[s].armed =>
    /\ \A x \in Bars[mode][pos[s] # "none"] : SameLook(mode, watch[s], x)
    /\ \A o \in Outcomes, ahead \in BOOLEAN : SameExit(mode, watch[s], o, ahead)
    /\ WindowEnds(watch[s]) = ReplayWindowEnds(watch[s])

(* A breakout is bought while it is fresh: never after its patience, counted
   from the first time it was armed whatever rejections and rebases came between;
   outside the Warrior book never on the bar that armed it either. *)
BuysInWindow ==
  order.trig \notin {"none", "scalp"} =>
    order.age \in (IF mode = "warrior" THEN 0 ELSE 1)..Patience

(* The lane and the breakout-scalp lane share one slot: they never hold two
   positions, an order under way counted and an adopted one too, as long as no
   position was sold in part and no filled order was missed. *)
Bought == {s \in Traded : pos[s] # "none"} \cup {s \in Traded : s = order.sym}
OneBurst == ~leaky => Cardinality(Bought) <= 1

(* A failed first burst, a banked day stop, a cooldown or a spent allowance keep
   the lane out of a symbol: no order is sent for it before they are lifted,
   whatever the bar shows. *)
Barred(w) ==
  \/ w.cooling
  \/ mode # "cycle" /\ (w.blocked \/ w.count = MaxEntries)
  \/ mode = "warrior" /\ w.wins = "none" /\ w.failed
BuysOnlyForgiven ==
  [][\A s \in Symbols :
       order = NoOrder /\ order'.sym = s /\ order'.trig # "scalp" => ~Barred(watch[s])]_vars
=============================================================================
