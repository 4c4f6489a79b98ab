--------------------------- MODULE BurstLaneProofs ---------------------------
(***************************************************************************)
(* The burst lane for any symbols, contexts and limits: the two lanes never *)
(* hold two positions, a symbol that its watch bars is not bought, a        *)
(* breakout is bought while it is fresh, and the backtest judges a bar as   *)
(* the lane does.                                                           *)
(***************************************************************************)
EXTENDS BurstLane, FiniteSetTheorems, TLAPS

Held(s) == pos[s] # "none" \/ s = order.sym

(* The inductive invariant behind OneBurst. An order names a symbol; without *)
(* partial sales and missed fills one symbol is held at most, its tracker    *)
(* during an order is at most an adopted one, and the flag is up unless the  *)
(* position is the order's own.                                              *)
Places ==
  /\ pos \in [Traded -> {"none", "burst", "scalp", "adopted"}]
  /\ order = NoOrder \/ order.sym \in Traded
  /\ active \in BOOLEAN /\ leaky \in BOOLEAN

Alone == \A s, t \in Traded : Held(s) /\ Held(t) => s = t
FlagUp == ~active => \A s \in Traded : pos[s] # "none" => s = order.sym
NotYetOurs == order # NoOrder => pos[order.sym] \in {"none", "adopted"}
Slot == ~leaky => Alone /\ FlagUp /\ NotYetOurs

IInv == Places /\ Slot

-----------------------------------------------------------------------------
LEMMA NoOrderIsNobody == NoOrder.sym \notin Traded
  BY LaneAssumption DEF NoOrder, Traded

LEMMA InitHolds == Init => IInv
  BY NoOrderIsNobody DEF Init, IInv, Places, Slot, Alone, FlagUp, NotYetOurs, Held

(* With the slot free and the lane idle nothing at all is held. *)
LEMMA FreeIsEmpty ==
  ASSUME IInv, SlotFree, ~leaky, Idle
  PROVE  /\ ~active
         /\ \A s \in Traded : pos[s] = "none"
<1> DEFINE named == {s \in Traded : pos[s] \in {"burst", "scalp"}}
<1>1. IsFiniteSet(named) /\ Cardinality(named) \in Nat
  BY LaneAssumption, FS_Subset, FS_CardinalityType DEF Traded
<1>2. Cardinality(named) = 0 /\ ~active
  BY <1>1 DEF SlotFree, ActiveTrades
<1> QED
  BY <1>2, NoOrderIsNobody DEF IInv, Slot, FlagUp, Idle

(* Steps that leave order, positions and flag alone. *)
LEMMA Quiet ==
  ASSUME IInv, UNCHANGED <<order, pos, active, leaky>>
  PROVE  IInv'
  BY DEF IInv, Places, Slot, Alone, FlagUp, NotYetOurs, Held

(* An order is sent while nothing is held. *)
LEMMA OrderSent ==
  ASSUME IInv, NEW s \in Traded, Idle, order'.sym = s,
         ~leaky => ~active /\ \A t \in Traded : pos[t] = "none",
         UNCHANGED <<pos, active, leaky>>
  PROVE  IInv'
  BY DEF IInv, Places, Slot, Alone, FlagUp, NotYetOurs, Held

LEMMA LookHolds ==
  ASSUME IInv, NEW s \in Symbols, NEW x, Look(s, x)
  PROVE  IInv'
<1>1. CASE order' = NoOrder
  BY <1>1, Quiet DEF Look, Idle
<1>2. CASE order' # NoOrder
  <2>1. order'.sym = s /\ s \in Traded
    BY <1>2 DEF Look, Traded
  <2> QED
    BY <2>1, FreeIsEmpty, OrderSent DEF Look
<1> QED
  BY <1>1, <1>2

LEMMA ScalpOrderHolds ==
  ASSUME IInv, NEW s \in Runners, ScalpOrder(s)
  PROVE  IInv'
<1>1. s \in Traded /\ order'.sym = s
  BY DEF ScalpOrder, Traded
<1>2. ~leaky => ~active /\ \A t \in Traded : pos[t] = "none"
  BY NoOrderIsNobody DEF ScalpOrder, Idle, IInv, Slot, FlagUp
<1> QED
  BY <1>1, <1>2, OrderSent DEF ScalpOrder

LEMMA AdoptHolds == IInv /\ Adopt => IInv'
<1> SUFFICES ASSUME IInv, Adopt PROVE IInv'
  OBVIOUS
<1>1. order.sym \in Traded /\ order' = order /\ leaky' = leaky /\ active' = active
  BY DEF IInv, Places, Adopt, Idle
<1>2. \A s \in Traded : pos'[s] = IF s = order.sym THEN "adopted" ELSE pos[s]
  BY <1>1 DEF IInv, Places, Adopt
<1>3. \A s \in Traded : Held(s)' => Held(s)
  BY <1>1, <1>2 DEF Held
<1>4. Places'
  BY <1>1 DEF IInv, Places, Adopt
<1>5. Slot'
  BY <1>1, <1>2, <1>3 DEF IInv, Slot, Alone, FlagUp, NotYetOurs
<1> QED
  BY <1>4, <1>5 DEF IInv

LEMMA OrderFillsHolds == IInv /\ OrderFills => IInv'
<1> SUFFICES ASSUME IInv, OrderFills PROVE IInv'
  OBVIOUS
<1>1. order.sym \in Traded /\ order' = NoOrder /\ leaky' = leaky /\ active' = TRUE
  BY DEF IInv, Places, OrderFills, Idle
<1>2. \A s \in Traded : s # order.sym => pos'[s] = pos[s]
  BY DEF IInv, Places, OrderFills
<1>3. \A s \in Traded : Held(s)' => Held(s)
  BY <1>1, <1>2, NoOrderIsNobody DEF Held
<1>4. Places'
  BY <1>1 DEF IInv, Places, OrderFills
<1>5. Slot'
  BY <1>1, <1>3 DEF IInv, Slot, Alone, FlagUp, NotYetOurs
<1> QED
  BY <1>4, <1>5 DEF IInv

LEMMA OrderMissesHolds == IInv /\ OrderMisses => IInv'
<1> SUFFICES ASSUME IInv, OrderMisses PROVE IInv'
  OBVIOUS
<1>1. Places'
  BY DEF IInv, Places, OrderMisses
<1>2. ASSUME ~leaky' PROVE pos[order.sym] = "none" /\ ~leaky
  BY <1>2 DEF IInv, Slot, NotYetOurs, OrderMisses, Idle
<1>3. \A s \in Traded : Held(s)' => Held(s)
  BY NoOrderIsNobody DEF Held, OrderMisses
<1>4. Slot'
  BY <1>2, <1>3 DEF IInv, Slot, Alone, FlagUp, NotYetOurs, OrderMisses
<1> QED
  BY <1>1, <1>4 DEF IInv

LEMMA ExitNamedHolds ==
  ASSUME IInv, NEW s \in Traded, NEW o, NEW ahead, NEW part \in BOOLEAN, NEW blocks,
         ExitNamed(s, o, ahead, part, blocks)
  PROVE  IInv'
<1>1. Places'
  BY DEF IInv, Places, ExitNamed
<1>2. ASSUME ~leaky'
      PROVE  /\ ~leaky /\ order' = NoOrder
             /\ \A t \in Traded : pos'[t] = "none"
  <2>1. ~leaky /\ ~part /\ order' = NoOrder /\ Held(s)
    BY <1>2 DEF ExitNamed, Idle, Held, IInv, Places
  <2>2. \A t \in Traded : t # s => pos[t] = "none"
    BY <2>1 DEF IInv, Slot, Alone, Held
  <2> QED
    BY <2>1, <2>2 DEF ExitNamed, IInv, Places
<1>3. Slot'
  BY <1>2, NoOrderIsNobody DEF Slot, Alone, FlagUp, NotYetOurs, Held
<1> QED
  BY <1>1, <1>3 DEF IInv

LEMMA ExitUnnamedHolds ==
  ASSUME IInv, NEW s \in Traded, ExitUnnamed(s)
  PROVE  IInv'
<1>1. \A t \in Traded : pos'[t] = IF t = s THEN "none" ELSE pos[t]
  BY DEF IInv, Places, ExitUnnamed
<1>2. Places'
  BY DEF IInv, Places, ExitUnnamed
<1>3. \A t \in Traded : Held(t)' => Held(t)
  BY <1>1 DEF Held, ExitUnnamed
<1>4. Slot'
  BY <1>1, <1>3 DEF IInv, Places, Slot, Alone, FlagUp, NotYetOurs, ExitUnnamed
<1> QED
  BY <1>2, <1>4 DEF IInv

LEMMA StepHolds == IInv /\ [Next]_vars => IInv'
<1> SUFFICES ASSUME IInv, [Next]_vars PROVE IInv'
  OBVIOUS
<1>1. CASE NewBar \/ EntriesBlocked
  BY <1>1, Quiet DEF NewBar, EntriesBlocked
<1>2. CASE Adopt \/ OrderFills \/ OrderMisses
  BY <1>2, AdoptHolds, OrderFillsHolds, OrderMissesHolds
<1>3. ASSUME NEW s \in Symbols,
             \/ \E r \in BOOLEAN : ArmSymbol(s, r)
             \/ Evict(s) \/ WindowCloses(s) \/ CooldownEnds(s) \/ TargetStales(s)
             \/ LookBlocked(s)
      PROVE  IInv'
  BY <1>3, Quiet DEF ArmSymbol, Evict, WindowCloses, CooldownEnds, TargetStales, LookBlocked
<1>4. ASSUME NEW s \in Symbols, NEW x, Look(s, x)
      PROVE  IInv'
  BY <1>4, LookHolds
<1>5. ASSUME NEW s \in Runners, ScalpOrder(s) PROVE IInv'
  BY <1>5, ScalpOrderHolds
<1>6. ASSUME NEW s \in Traded, ExitUnnamed(s) PROVE IInv'
  BY <1>6, ExitUnnamedHolds
<1>7. ASSUME NEW s \in Traded,
             \E o \in Outcomes, ahead, part, blocks \in BOOLEAN :
               ExitNamed(s, o, ahead, part, blocks)
      PROVE  IInv'
  BY <1>7, ExitNamedHolds
<1>8. CASE UNCHANGED vars
  BY <1>8, Quiet DEF vars
<1> QED
  BY <1>1, <1>2, <1>3, <1>4, <1>5, <1>6, <1>7, <1>8 DEF Next

(* What is held alone is at most one symbol. *)
LEMMA AloneIsOne == IInv => OneBurst
<1> SUFFICES ASSUME IInv, ~leaky PROVE Cardinality(Bought) <= 1
  BY DEF OneBurst
<1>1. Bought = {s \in Traded : Held(s)}
  BY DEF Bought, Held
<1>2. CASE Bought = {}
  BY <1>2, FS_EmptySet
<1>3. CASE Bought # {}
  <2>1. PICK s \in Traded : s \in Bought
    BY <1>1, <1>3
  <2>2. Bought = {s}
    BY <1>1, <2>1 DEF IInv, Slot, Alone
  <2>3. Cardinality({s}) = 1
    BY FS_Singleton, Zenon
  <2> QED
    BY <2>2, <2>3
<1> QED
  BY <1>2, <1>3

(* The burst and the scalp lane share one slot: unless a position was sold in *)
(* part or a filled order was missed, they never hold two positions, orders   *)
(* under way and adopted positions counted (_process_momentum_burst_scalps,   *)
(* _process_breakout_scalps, _record_trade_exit).                             *)
THEOREM SingleBurst == Spec => []OneBurst
<1>1. Spec => []IInv
  BY InitHolds, StepHolds, PTL DEF Spec
<1> QED
  BY <1>1, AloneIsOne, PTL

-----------------------------------------------------------------------------
(* Whatever the bar shows, the lane does not buy what the watch bars. *)
LEMMA BarredBuysNothing ==
  ASSUME NEW w, NEW x, Barred(w)
  PROVE  Live(mode, w, x).buy = "none"
<1>1. \A v : Skip(v).buy = "none"
  BY DEF Skip
<1>2. Recover(w, x).buy = "none"
  BY <1>1 DEF Recover
<1>3. CASE mode # "cycle" /\ w.blocked
  BY <1>1, <1>3 DEF Live
<1>4. CASE mode = "warrior" /\ w.failed /\ w.wins = "none"
  BY <1>1, <1>2, <1>4 DEF Live
<1>5. CASE w.cooling \/ (mode # "cycle" /\ w.count = MaxEntries)
  <2>1. Rests(mode, w, x)
    BY <1>5, BurstAssumption DEF Rests
  <2> QED
    BY <1>1, <1>2, <2>1 DEF Live
<1> QED
  BY <1>3, <1>4, <1>5 DEF Barred

(* Only a look of the lane orders for one of its symbols under another name *)
(* than the scalp's.                                                        *)
LEMMA OnlyLooksOrder ==
  ASSUME Next, NEW s \in Symbols, order = NoOrder, order'.sym = s, order'.trig # "scalp"
  PROVE  \E x : Look(s, x)
<1>1. order' # order /\ order'.sym \in Traded /\ s # "none"
  BY NoOrderIsNobody, LaneAssumption DEF Traded, NoOrder
<1>2. ~(NewBar \/ EntriesBlocked \/ Adopt \/ OrderFills \/ OrderMisses)
  BY <1>1, NoOrderIsNobody DEF NewBar, EntriesBlocked, Adopt, OrderFills, OrderMisses, Idle
<1>3. ASSUME NEW t \in Symbols
      PROVE  ~(\/ \E r \in BOOLEAN : ArmSymbol(t, r)
               \/ Evict(t) \/ WindowCloses(t) \/ CooldownEnds(t) \/ TargetStales(t)
               \/ LookBlocked(t))
  BY <1>1 DEF ArmSymbol, Evict, WindowCloses, CooldownEnds, TargetStales, LookBlocked
<1>4. ASSUME NEW t \in Runners PROVE ~ScalpOrder(t)
  BY DEF ScalpOrder
<1>5. ASSUME NEW t \in Traded PROVE ~ExitUnnamed(t)
  BY <1>1 DEF ExitUnnamed
<1>6. ASSUME NEW t \in Traded, NEW o, NEW ahead, NEW part, NEW blocks
      PROVE  ~ExitNamed(t, o, ahead, part, blocks)
  BY <1>1 DEF ExitNamed
<1>7. PICK t \in Symbols : \E x : Look(t, x)
  BY <1>2, <1>3, <1>4, <1>5, <1>6 DEF Next
<1>8. t = s
  BY <1>1, <1>7 DEF Look, NoOrder
<1> QED
  BY <1>7, <1>8

(* A failed first burst, the day's block, a cooldown or a spent allowance keep *)
(* the lane out of a symbol until they are lifted, whatever the bar shows      *)
(* (the gates at the head of _process_momentum_burst_scalps).                  *)
THEOREM BarredStaysOut == Spec => BuysOnlyForgiven
<1>1. ASSUME Next, NEW s \in Symbols, order = NoOrder, order'.sym = s,
             order'.trig # "scalp", Barred(watch[s])
      PROVE  FALSE
  <2>1. PICK x : Look(s, x)
    BY <1>1, OnlyLooksOrder
  <2>2. order' = NoOrder
    BY <1>1, <2>1, BarredBuysNothing DEF Look
  <2> QED
    BY <1>1, <2>2, NoOrderIsNobody DEF Traded
<1>2. [Next]_vars =>
        [\A s \in Symbols :
           order = NoOrder /\ order'.sym = s /\ order'.trig # "scalp" => ~Barred(watch[s])]_vars
  BY <1>1
<1> QED
  BY <1>2, PTL DEF Spec, BuysOnlyForgiven

-----------------------------------------------------------------------------
(* The watches of the lane, and the inductive invariant behind BuysInWindow:    *)
(* the age that a pending breakout carries is the one the history counts.       *)
Triggers == EntryTriggers \cup {"generic"}
Pendings ==
  {NoPending} \cup
  {p \in [trig : Triggers, age : Nat, born : Nat, rebased : BOOLEAN] : p.age <= p.born}
Watches ==
  [armed : BOOLEAN, high : BOOLEAN, pend : Pendings, count : Nat, cooling : BOOLEAN,
   wins : {"none", "fresh", "stale"}, allowed : {0, 1}, failed : BOOLEAN,
   blocked : BOOLEAN]

Watching ==
  /\ mode \in Modes
  /\ watch \in [Symbols -> Watches]
  /\ since \in [Symbols -> Nat]
  /\ \A s \in Symbols : since[s] = watch[s].pend.born

Fresh == Watching /\ BuysInWindow

(* What a look comes to: its watch is a watch; a breakout that it arms is as    *)
(* old as it says, one that it rebases is as old as the one it stems from, b    *)
(* bars; and an order is for such a breakout, or for the bar itself.            *)
Dated(r, w, b) ==
  /\ r.w \in Watches
  /\ \/ r.w.pend = w.pend
     \/ r.w.pend.born = (IF r.w.pend.rebased THEN b ELSE r.w.pend.age)
Timely(m, r, b) ==
  r.buy # "none" => IF r.age = 0 THEN m = "warrior" ELSE r.age = b /\ b \in 1..Patience

-----------------------------------------------------------------------------
LEMMA NoPendingFields ==
  /\ NoPending \in Pendings /\ NoPending.trig = "none" /\ NoPending.age = 0
  /\ NoPending.born = 0 /\ NoPending.rebased = FALSE
  BY DEF NoPending, Pendings

LEMMA BreakoutTyped ==
  ASSUME NEW t \in Triggers, NEW age \in Nat
  PROVE  /\ Breakout(t, age) \in Pendings /\ Breakout(t, age) # NoPending
         /\ Breakout(t, age).trig = t /\ Breakout(t, age).age = age
         /\ Breakout(t, age).born = age /\ Breakout(t, age).rebased = FALSE
  BY DEF Breakout, Pendings, NoPending, Triggers, EntryTriggers, TrendContexts, LaneContexts

LEMMA ArmTyped ==
  ASSUME NEW w \in Watches, NEW t \in Triggers, NEW age \in Nat
  PROVE  /\ Arm(w, t, age) \in Watches
         /\ Arm(w, t, age).pend = Breakout(t, age)
         /\ Arm(w, t, age).high = w.high /\ Arm(w, t, age).wins = w.wins
         /\ Arm(w, t, age).count = w.count
         /\ ArmHigh(w, t, age) \in Watches
         /\ ArmHigh(w, t, age).pend = Breakout(t, age)
  BY BreakoutTyped DEF Arm, ArmHigh, Watches

LEMMA DropTyped ==
  ASSUME NEW w \in Watches
  PROVE  /\ Drop(w) \in Watches /\ Drop(w).pend = NoPending
         /\ Drop(w).wins = w.wins /\ Drop(w).failed = w.failed
         /\ Drop(w).blocked = w.blocked
  BY NoPendingFields DEF Drop, Watches

LEMMA TrendTyped ==
  ASSUME NEW x
  PROVE  Trend(x) = "none" \/ Trend(x) \in TrendContexts
  BY DEF Trend

LEMMA ContextNames ==
  /\ "none" \notin Triggers /\ TrendContexts \subseteq Triggers
  /\ LaneContexts \subseteq Triggers /\ InitialStarters \subseteq Triggers
  /\ HighBaseConfirms \subseteq Triggers /\ EntryTriggers \subseteq Triggers
  BY DEF Triggers, EntryTriggers, TrendContexts, LaneContexts, InitialStarters,
         HighBaseConfirms

LEMMA SkipDated ==
  ASSUME NEW m, NEW b, NEW w \in Watches, NEW v \in Watches
  PROVE  /\ v.pend = w.pend => Dated(Skip(v), w, b) /\ Timely(m, Skip(v), b)
         /\ v.pend = NoPending => Dated(Skip(v), w, b) /\ Timely(m, Skip(v), b)
         /\ \A t \in Triggers, a \in Nat :
              v.pend = Breakout(t, a) => Dated(Skip(v), w, b) /\ Timely(m, Skip(v), b)
<1>1. Skip(v).w = v /\ Skip(v).buy = "none"
  BY DEF Skip
<1>2. Timely(m, Skip(v), b)
  BY <1>1 DEF Timely
<1>3. ASSUME v.pend = w.pend PROVE Dated(Skip(v), w, b)
  BY <1>1, <1>3 DEF Dated
<1>4. ASSUME v.pend = NoPending PROVE Dated(Skip(v), w, b)
  BY <1>1, <1>4, NoPendingFields DEF Dated
<1>5. ASSUME NEW t \in Triggers, NEW a \in Nat, v.pend = Breakout(t, a)
      PROVE  Dated(Skip(v), w, b)
  <2>1. v.pend.rebased = FALSE /\ v.pend.born = v.pend.age
    <3>1. Breakout(t, a).rebased = FALSE /\ Breakout(t, a).born = Breakout(t, a).age
      BY DEF Breakout
    <3> QED
      BY <1>5, <3>1, Zenon
  <2> QED
    BY <1>1, <2>1 DEF Dated
<1> QED
  BY <1>2, <1>3, <1>4, <1>5

LEMMA ArmsDated ==
  ASSUME NEW m, NEW b, NEW w \in Watches, NEW t \in Triggers, NEW age \in Nat
  PROVE  /\ Dated(Skip(Arm(w, t, age)), w, b) /\ Timely(m, Skip(Arm(w, t, age)), b)
         /\ Dated(Skip(ArmHigh(w, t, age)), w, b) /\ Timely(m, Skip(ArmHigh(w, t, age)), b)
  BY ArmTyped, SkipDated, Zenon

LEMMA DropsDated ==
  ASSUME NEW m, NEW b, NEW w \in Watches
  PROVE  /\ Dated(Skip(Drop(w)), w, b) /\ Timely(m, Skip(Drop(w)), b)
         /\ Dated(Skip(w), w, b) /\ Timely(m, Skip(w), b)
  BY DropTyped, SkipDated, Zenon

LEMMA RecoverDated ==
  ASSUME NEW m, NEW b, NEW w \in Watches, NEW x
  PROVE  Dated(Recover(w, x), w, b) /\ Timely(m, Recover(w, x), b)
<1>1. ASSUME NEW t \in LaneContexts \cup TrendContexts
      PROVE  /\ Forgive(w, t) \in Watches /\ Forgive(w, t).pend = Breakout(t, 1)
             /\ ForgiveHigh(w, t) \in Watches /\ ForgiveHigh(w, t).pend = Breakout(t, 1)
  <2>1. t \in Triggers
    BY ContextNames
  <2>2. Arm(w, t, 1) \in Watches /\ Arm(w, t, 1).pend = Breakout(t, 1)
    BY <2>1, ArmTyped
  <2>3. Forgive(w, t) \in Watches /\ Forgive(w, t).pend = Breakout(t, 1)
    BY <2>2 DEF Forgive, Watches
  <2> QED
    BY <2>3 DEF ForgiveHigh, Watches
<1>2. {"second_leg_vwap", "halt_resume", "failed_recovery"}
        \subseteq (LaneContexts \cup TrendContexts) \cap Triggers
  BY DEF LaneContexts, TrendContexts, Triggers, EntryTriggers
<1> QED
  BY <1>1, <1>2, DropsDated, SkipDated DEF Recover

LEMMA HitRunStopDated ==
  ASSUME NEW m, NEW b, NEW w \in Watches, NEW x
  PROVE  Dated(Skip(HitRunStop(w, x)), w, b) /\ Timely(m, Skip(HitRunStop(w, x)), b)
<1>1. /\ [Drop(w) EXCEPT !.armed = FALSE, !.high = FALSE] \in Watches
      /\ [Drop(w) EXCEPT !.armed = FALSE, !.high = FALSE].pend = NoPending
  BY DropTyped DEF Watches
<1> QED
  BY <1>1, DropsDated, SkipDated DEF HitRunStop

LEMMA AfterTargetDated ==
  ASSUME NEW m, NEW b, NEW w \in Watches, NEW x
  PROVE  Dated(AfterTarget(w, x), w, b) /\ Timely(m, AfterTarget(w, x), b)
<1>1. {"post_target", "parabolic", "fresh_continuation", "second_leg"} \subseteq Triggers
  BY DEF LaneContexts, TrendContexts, Triggers, EntryTriggers
<1> QED
  BY <1>1, ArmsDated, DropsDated DEF AfterTarget

LEMMA StarterTyped ==
  ASSUME NEW w \in Watches, NEW x
  PROVE  /\ Starter(w, x) \in Watches
         /\ \/ Starter(w, x) = w
            \/ /\ Starter(w, x).pend.born = 1 /\ Starter(w, x).pend.age = 1
               /\ Starter(w, x).pend.rebased = FALSE
<1>1. ASSUME NEW t \in Triggers
      PROVE  /\ Arm(w, t, 1).pend.born = 1 /\ Arm(w, t, 1).pend.age = 1
             /\ Arm(w, t, 1).pend.rebased = FALSE
  BY DEF Arm, Breakout, Watches
<1> QED
  BY <1>1, ContextNames, ArmTyped DEF Starter

LEMMA BelowDated ==
  ASSUME NEW m \in Modes, NEW b, NEW w \in Watches, NEW x, w.pend = NoPending
  PROVE  Dated(Below(m, w, x), w, b) /\ Timely(m, Below(m, w, x), b)
<1>1. {"prior_runner", "second_leg", "generic"} \cup TrendContexts \subseteq Triggers
  BY DEF LaneContexts, TrendContexts, Triggers, EntryTriggers
<1>2. Dated(ResetHigh(w, x), w, b) /\ Timely(m, ResetHigh(w, x), b)
  BY <1>1, ArmsDated, DropsDated DEF ResetHigh
<1>3. ASSUME NEW t PROVE Dated(Buy(w, t, 0), w, b) /\ Timely("warrior", Buy(w, t, 0), b)
  BY DEF Buy, Dated, Timely
<1>4. Dated(Skip(PriorRunnerBelow(w)), w, b) /\ Timely(m, Skip(PriorRunnerBelow(w)), b)
  BY <1>1, ArmsDated DEF PriorRunnerBelow
<1>5. Trend(x) # "none" =>
        Dated(Skip(Arm(w, Trend(x), 1)), w, b) /\ Timely(m, Skip(Arm(w, Trend(x), 1)), b)
  BY <1>1, TrendTyped, ArmsDated
<1>6. /\ Dated(Skip(ArmHigh(w, "second_leg", 0)), w, b)
      /\ Timely(m, Skip(ArmHigh(w, "second_leg", 0)), b)
      /\ Dated(Skip(Drop(w)), w, b) /\ Timely(m, Skip(Drop(w)), b)
      /\ Dated(Skip(w), w, b) /\ Timely(m, Skip(w), b)
  BY <1>1, ArmsDated, DropsDated
<1>7. ASSUME m = "warrior"
      PROVE  /\ Dated(BelowWarrior(w, x, PriorRunnerBelow), w, b)
             /\ Timely(m, BelowWarrior(w, x, PriorRunnerBelow), b)
  BY <1>2, <1>3, <1>4, <1>5, <1>6, <1>7 DEF BelowWarrior
<1> QED
  BY <1>2, <1>6, <1>7 DEF Below

LEMMA AboveDated ==
  ASSUME NEW m \in Modes, NEW b, NEW w \in Watches, NEW x, w.pend = NoPending
  PROVE  Dated(Above(m, w, x), w, b) /\ Timely(m, Above(m, w, x), b)
<1>1. {"prior_runner", "clwt", "generic"} \cup TrendContexts \subseteq Triggers
  BY DEF LaneContexts, TrendContexts, Triggers, EntryTriggers
<1>2. FreshTrigger(m, w, x) \in Triggers
  <2>1. Trend(x) \in FreshReclaims => Trend(x) # "none"
    BY DEF FreshReclaims, TrendContexts
  <2> QED
    BY <1>1, <2>1, TrendTyped DEF FreshTrigger
<1>3. /\ [w EXCEPT !.high = TRUE] \in Watches /\ [w EXCEPT !.high = TRUE].pend = w.pend
      /\ [Drop(w) EXCEPT !.high = TRUE] \in Watches
      /\ [Drop(w) EXCEPT !.high = TRUE].pend = NoPending
  BY DropTyped DEF Watches
<1>4. ASSUME NEW t, m = "warrior"
      PROVE  /\ Dated(Buy([w EXCEPT !.high = TRUE], t, 0), w, b)
             /\ Timely(m, Buy([w EXCEPT !.high = TRUE], t, 0), b)
  BY <1>3, <1>4 DEF Buy, Dated, Timely
<1>5. Dated(AboveAfterTarget(w, x), w, b) /\ Timely(m, AboveAfterTarget(w, x), b)
  <2>1. Dated(Skip([Drop(w) EXCEPT !.high = TRUE]), w, b)
        /\ Timely(m, Skip([Drop(w) EXCEPT !.high = TRUE]), b)
    BY <1>3, SkipDated, Zenon
  <2> QED
    BY <1>1, <2>1, ArmsDated DEF AboveAfterTarget
<1>6. Dated(Skip(ArmHigh(w, FreshTrigger(m, w, x), 0)), w, b)
      /\ Timely(m, Skip(ArmHigh(w, FreshTrigger(m, w, x), 0)), b)
  BY <1>2, ArmsDated
<1> QED
  BY <1>4, <1>5, <1>6 DEF Above

LEMMA RebaseTyped ==
  ASSUME NEW w \in Watches, NEW t \in Triggers
  PROVE  /\ Rebase(w, t) \in Watches /\ Rebase(w, t).pend.rebased = TRUE
         /\ Rebase(w, t).pend.born = w.pend.born
<1>1. w.pend.born \in Nat
  BY NoPendingFields DEF Watches, Pendings
<1>2. [trig |-> t, age |-> 0, born |-> w.pend.born, rebased |-> TRUE] \in Pendings
  BY <1>1 DEF Pendings
<1> QED
  BY <1>2 DEF Rebase, Watches

LEMMA ConfirmDated ==
  ASSUME NEW m \in Modes, NEW w \in Watches, NEW x,
         w.pend # NoPending, w.pend.born <= Patience
  PROVE  Dated(Confirm(m, w, x), w, w.pend.born) /\ Timely(m, Confirm(m, w, x), w.pend.born)
<1> DEFINE b == w.pend.born
           t == IF m = "warrior" THEN Confirmation(w, x) ELSE w.pend.trig
<1>1. /\ w.pend.trig \in Triggers /\ w.pend.age \in Nat /\ b \in Nat /\ w.pend.age <= b
  BY DEF Watches, Pendings
<1>2. t = "none" \/ t \in Triggers
  <2>1. {"clwt", "level_pullaway", "curl", "equal_high"} \subseteq Triggers
    BY DEF LaneContexts, Triggers, EntryTriggers
  <2> QED
    BY <1>1, <2>1, ContextNames, TrendTyped DEF Confirmation
<1>3. ASSUME NEW u \in Triggers
      PROVE  Dated(Skip(Rebase(w, u)), w, b) /\ Timely(m, Skip(Rebase(w, u)), b)
  BY RebaseTyped DEF Dated, Timely, Skip
<1>4. Dated(Unconfirmed(m, w, x), w, b) /\ Timely(m, Unconfirmed(m, w, x), b)
  <2> DEFINE v == [Drop(w) EXCEPT !.failed = w.failed \/ (m = "warrior" /\ x.tape = "sour")]
  <2>1. v \in Watches /\ v.pend = NoPending
    BY DropTyped DEF Watches
  <2>2. Dated(Skip(v), w, b) /\ Timely(m, Skip(v), b)
    BY <2>1, SkipDated, Zenon
  <2> QED
    BY <1>1, <1>3, <2>2 DEF Unconfirmed
<1>5. t # "none" => Dated(AfterBadTape(w, x, t), w, b) /\ Timely(m, AfterBadTape(w, x, t), b)
  BY <1>2, <1>3, DropsDated DEF AfterBadTape
<1>6. w.pend.age # 0 =>
        Dated(Buy(Drop(w), t, b), w, b) /\ Timely(m, Buy(Drop(w), t, b), b)
  BY <1>1, DropTyped, NoPendingFields, BurstAssumption DEF Buy, Dated, Timely
<1>7. t # "none" \/ m = "warrior"
  BY <1>1, ContextNames
<1> QED
  BY <1>4, <1>5, <1>6, <1>7, DropsDated DEF Confirm

(* What a rebased breakout is dated by: the bar that shows a starter, or the   *)
(* breakout that was pending.                                                 *)
Base(m, w, x) ==
  IF w.pend = NoPending \/ (m = "warrior" /\ Starter(w, x) # w) THEN 1 ELSE w.pend.born

LEMMA JudgeDated ==
  ASSUME NEW m \in Modes, NEW w \in Watches, NEW x, NEW b,
         LET v == IF m = "warrior" THEN Starter(w, x) ELSE w
         IN  v.pend # NoPending => v.pend.born = b
  PROVE  Dated(Judge(m, w, x), w, b) /\ Timely(m, Judge(m, w, x), b)
<1> DEFINE v == IF m = "warrior" THEN Starter(w, x) ELSE w
           u == Unspoilt(v)
<1>1. v \in Watches
  BY StarterTyped
<1>2. v.pend = w.pend \/ v.pend = NoPending \/ (v.pend.born = v.pend.age /\ ~v.pend.rebased)
  BY StarterTyped
<1>3. CASE v.pend.born > Patience
  <2>1. u = Drop(v)
    BY <1>3 DEF Unspoilt
  <2>2. u \in Watches /\ u.pend = NoPending
    BY <1>1, <2>1, DropTyped
  <2>3. Judge(m, w, x) = Below(m, u, x) \/ Judge(m, w, x) = Above(m, u, x)
    BY <2>2 DEF Judge
  <2>4. /\ Dated(Judge(m, w, x), u, b) /\ Timely(m, Judge(m, w, x), b)
    BY <2>2, <2>3, BelowDated, AboveDated
  <2> QED
    BY <2>2, <2>4, NoPendingFields DEF Dated
<1>4. CASE ~(v.pend.born > Patience)
  <2>1. u = v
    BY <1>4 DEF Unspoilt
  <2>2. CASE v.pend = NoPending
    <3>1. Judge(m, w, x) = Below(m, v, x) \/ Judge(m, w, x) = Above(m, v, x)
      BY <2>1, <2>2 DEF Judge
    <3>2. Dated(Judge(m, w, x), v, b) /\ Timely(m, Judge(m, w, x), b)
      BY <1>1, <2>2, <3>1, BelowDated, AboveDated
    <3> QED
      BY <2>2, <3>2, NoPendingFields DEF Dated
  <2>3. CASE v.pend # NoPending
    <3>1. Judge(m, w, x) = Confirm(m, v, x)
      BY <2>1, <2>3 DEF Judge
    <3>2. v.pend.born = b /\ v.pend.born <= Patience
      BY <1>1, <1>4, <2>3, BurstAssumption DEF Watches, Pendings
    <3>3. Dated(Judge(m, w, x), v, b) /\ Timely(m, Judge(m, w, x), b)
      BY <1>1, <2>3, <3>1, <3>2, ConfirmDated
    <3> QED
      BY <1>2, <2>3, <3>3 DEF Dated
  <2> QED
    BY <2>2, <2>3
<1> QED
  BY <1>3, <1>4

LEMMA LiveDated ==
  ASSUME NEW m \in Modes, NEW w \in Watches, NEW x
  PROVE  /\ Dated(Live(m, w, x), w, Base(m, w, x))
         /\ Timely(m, Live(m, w, x), Base(m, w, x))
<1> DEFINE b == Base(m, w, x)
<1>1. Dated(Judge(m, w, x), w, b) /\ Timely(m, Judge(m, w, x), b)
  <2>1. CASE m = "warrior" /\ Starter(w, x) # w
    <3>1. Starter(w, x).pend.born = 1 /\ b = 1
      BY <2>1, StarterTyped DEF Base
    <3> QED
      BY <2>1, <3>1, JudgeDated
  <2>2. CASE ~(m = "warrior" /\ Starter(w, x) # w)
    BY <2>2, JudgeDated DEF Base
  <2> QED
    BY <2>1, <2>2
<1>2. ASSUME Banked(m, w)
      PROVE  LET a == Arm(w, "prior_runner", 1)
             IN  Dated(Judge(m, a, x), w, b) /\ Timely(m, Judge(m, a, x), b)
  <2> DEFINE a == Arm(w, "prior_runner", 1)
             v == Starter(a, x)
  <2>1. "prior_runner" \in Triggers
    BY DEF LaneContexts, Triggers, EntryTriggers
  <2>2. a \in Watches /\ a.pend = Breakout("prior_runner", 1)
    BY <2>1, ArmTyped
  <2>3. a.pend.born = 1 /\ a.pend.age = 1 /\ a.pend.rebased = FALSE
    BY <2>1, <2>2 DEF Breakout
  <2>4. v.pend.born = 1
    BY <2>2, <2>3, StarterTyped
  <2>5. b = 1 /\ m = "warrior"
    BY <1>2 DEF Banked, Base
  <2>6. Dated(Judge(m, a, x), a, b) /\ Timely(m, Judge(m, a, x), b)
    BY <2>2, <2>4, <2>5, JudgeDated
  <2> QED
    BY <2>3, <2>6 DEF Dated
<1> QED
  BY <1>1, <1>2, DropsDated, RecoverDated, HitRunStopDated, AfterTargetDated DEF Live

-----------------------------------------------------------------------------
LEMMA FreshInit == Init => Fresh
<1> SUFFICES ASSUME Init PROVE Fresh
  OBVIOUS
<1>1. NoWatch \in Watches /\ NoWatch.pend = NoPending
  BY NoPendingFields DEF NoWatch, Watches
<1>2. Watching
  BY <1>1, NoPendingFields DEF Init, Watching
<1> QED
  BY <1>2 DEF Init, Fresh, BuysInWindow, NoOrder

LEMMA OlderTyped ==
  ASSUME NEW n \in Nat, NEW k \in Nat, n <= k
  PROVE  Older(n) \in Nat /\ Older(n) <= Older(k)
  BY BurstAssumption DEF Older

LEMMA FreshNewBar == Fresh /\ NewBar => Fresh'
<1> SUFFICES ASSUME Fresh, NewBar PROVE Fresh'
  OBVIOUS
<1>1. ASSUME NEW s \in Symbols
      PROVE  watch'[s] \in Watches /\ since'[s] \in Nat /\ since'[s] = watch'[s].pend.born
  <2> DEFINE w == watch[s]
             p == w.pend
  <2>1. w \in Watches /\ since[s] = p.born
    BY DEF Fresh, Watching
  <2>2. CASE p = NoPending
    BY <2>1, <2>2, NoPendingFields DEF NewBar
  <2>3. CASE p # NoPending
    <3>1. p \in [trig : Triggers, age : Nat, born : Nat, rebased : BOOLEAN] /\ p.age <= p.born
      BY <2>1, <2>3 DEF Watches, Pendings
    <3>2. /\ Older(p.age) \in Nat /\ Older(p.born) \in Nat
          /\ Older(p.age) <= Older(p.born)
      BY <3>1, OlderTyped
    <3> DEFINE q == [p EXCEPT !.age = Older(p.age), !.born = Older(p.born)]
    <3>3. q \in Pendings /\ q.born = Older(p.born)
      BY <3>1, <3>2 DEF Pendings
    <3>4. watch'[s] = [w EXCEPT !.pend = q] /\ since'[s] = Older(p.born)
      BY <2>1, <2>3 DEF NewBar
    <3> QED
      BY <2>1, <3>2, <3>3, <3>4 DEF Watches
  <2> QED
    BY <2>2, <2>3
<1>2. watch' = [s \in Symbols |-> watch'[s]] /\ since' = [s \in Symbols |-> since'[s]]
  BY DEF NewBar
<1>3. Watching'
  BY <1>1, <1>2 DEF NewBar, Fresh, Watching
<1> QED
  BY <1>3 DEF Fresh, BuysInWindow, NewBar

(* Steps that leave every pending breakout as it is, or drop it. *)
LEMMA FreshQuiet ==
  ASSUME Fresh, mode' = mode,
         \/ order' = order \/ order'.trig \in {"none", "scalp"},
         watch' \in [Symbols -> Watches], since' \in [Symbols -> Nat],
         \A s \in Symbols :
           \/ watch'[s].pend = watch[s].pend /\ since'[s] = since[s]
           \/ watch'[s].pend = NoPending /\ since'[s] = 0
  PROVE  Fresh'
<1>1. Watching'
  BY NoPendingFields DEF Fresh, Watching
<1> QED
  BY <1>1 DEF Fresh, BuysInWindow

LEMMA FreshSet ==
  ASSUME Fresh, mode' = mode, NEW s \in Symbols, NEW w \in Watches, order' = order,
         watch' = [watch EXCEPT ![s] = w],
         \/ w.pend = watch[s].pend /\ since' = since
         \/ w.pend = NoPending /\ since' = [since EXCEPT ![s] = 0]
  PROVE  Fresh'
<1>1. watch' \in [Symbols -> Watches] /\ since' \in [Symbols -> Nat]
  BY DEF Fresh, Watching
<1>2. \A t \in Symbols : 
        \/ watch'[t].pend = watch[t].pend /\ since'[t] = since[t]
        \/ watch'[t].pend = NoPending /\ since'[t] = 0
  BY DEF Fresh, Watching
<1> QED
  BY <1>1, <1>2, FreshQuiet

LEMMA FreshSymbolSteps ==
  ASSUME Fresh, NEW s \in Symbols,
         \/ \E r \in BOOLEAN : ArmSymbol(s, r)
         \/ Evict(s) \/ WindowCloses(s) \/ CooldownEnds(s) \/ TargetStales(s)
         \/ LookBlocked(s)
  PROVE  Fresh'
<1> DEFINE w == watch[s]
<1>1. w \in Watches
  BY DEF Fresh, Watching
<1>2. ASSUME NEW r \in BOOLEAN, ArmSymbol(s, r) PROVE Fresh'
  <2> DEFINE v == IF r /\ mode = "warrior" THEN ArmedRejected(w) ELSE Armed(mode, w)
  <2>1. v \in Watches /\ v.pend = w.pend
    BY <1>1 DEF ArmedRejected, Armed, Watches
  <2>2. watch' = [watch EXCEPT ![s] = v] /\ since' = since /\ mode' = mode /\ order' = order
    BY <1>2 DEF ArmSymbol
  <2> QED
    BY <2>1, <2>2, FreshSet
<1>3. WindowEnds(w) \in Watches /\ WindowEnds(w).pend = NoPending
  BY <1>1, NoPendingFields DEF WindowEnds, Watches
<1>4. CASE Evict(s)
  <2>1. Evicted(w) \in Watches /\ Evicted(w).pend = NoPending
    BY <1>3 DEF Evicted, Watches
  <2> QED
    BY <1>4, <2>1, FreshSet DEF Evict
<1>5. CASE WindowCloses(s)
  BY <1>3, <1>5, FreshSet DEF WindowCloses
<1>6. CASE CooldownEnds(s)
  <2>1. [w EXCEPT !.cooling = FALSE] \in Watches /\ [w EXCEPT !.cooling = FALSE].pend = w.pend
    BY <1>1 DEF Watches
  <2> QED
    BY <1>6, <2>1, FreshSet DEF CooldownEnds
<1>7. CASE TargetStales(s)
  <2>1. [w EXCEPT !.wins = "stale"] \in Watches /\ [w EXCEPT !.wins = "stale"].pend = w.pend
    BY <1>1 DEF Watches
  <2> QED
    BY <1>7, <2>1, FreshSet DEF TargetStales
<1>8. CASE LookBlocked(s)
  BY <1>1, <1>8, DropTyped, FreshSet DEF LookBlocked
<1> QED
  BY <1>2, <1>4, <1>5, <1>6, <1>7, <1>8

LEMMA FreshLook ==
  ASSUME Fresh, NEW s \in Symbols, NEW x, Look(s, x)
  PROVE  Fresh'
<1> DEFINE w == watch[s]
           r == Live(mode, w, x)
           b == Base(mode, w, x)
<1>1. w \in Watches /\ since[s] = w.pend.born /\ mode \in Modes /\ since[s] \in Nat
  BY DEF Fresh, Watching
<1>2. Dated(r, w, b) /\ Timely(mode, r, b)
  BY <1>1, LiveDated
<1>3. Known(s, x) = b
  BY <1>1 DEF Known, Base
<1>4. r.w \in Watches /\ r.w.pend.born \in Nat
  BY <1>2, NoPendingFields DEF Dated, Watches, Pendings
<1>5. SinceOf(s, x, r.w) = r.w.pend.born
  BY <1>1, <1>2, <1>3, NoPendingFields DEF SinceOf, Dated
<1>6. /\ watch' = [watch EXCEPT ![s] = r.w]
      /\ since' = [since EXCEPT ![s] = r.w.pend.born]
      /\ order' = IF r.buy = "none" THEN NoOrder
                  ELSE [sym |-> s, trig |-> r.buy, age |-> IF r.age = 0 THEN 0 ELSE b]
      /\ mode' = mode
  BY <1>3, <1>5 DEF Look
<1>7. Watching'
  BY <1>4, <1>6 DEF Fresh, Watching
<1>8. BuysInWindow'
  <2>1. CASE r.buy = "none"
    BY <1>6, <2>1 DEF BuysInWindow, NoOrder
  <2>2. CASE r.buy # "none"
    <3>1. order'.age = IF r.age = 0 THEN 0 ELSE b
      BY <1>6, <2>2
    <3>2. IF r.age = 0 THEN mode' = "warrior" ELSE b \in 1..Patience
      BY <1>2, <1>6, <2>2 DEF Timely
    <3> QED
      BY <3>1, <3>2, BurstAssumption DEF BuysInWindow
  <2> QED
    BY <2>1, <2>2
<1> QED
  BY <1>7, <1>8 DEF Fresh

LEMMA FreshExitNamed ==
  ASSUME Fresh, NEW s \in Traded, NEW o, NEW ahead \in BOOLEAN, NEW part, NEW blocks \in BOOLEAN,
         ExitNamed(s, o, ahead, part, blocks)
  PROVE  Fresh'
<1>1. ASSUME NEW t \in Symbols
      PROVE  /\ watch'[t] \in Watches
             /\ watch'[t].pend = watch[t].pend \/ watch'[t].pend = NoPending
  <2> DEFINE w == watch[t]
             e == Exited(mode, w, o, ahead)
  <2>1. w \in Watches
    BY DEF Fresh, Watching
  <2>2. TargetExit(w, ahead) \in Watches /\ TargetExit(w, ahead).pend = NoPending
    BY <2>1, DropTyped DEF TargetExit, Watches
  <2>3. LossExit(w, o, ahead) \in Watches /\ LossExit(w, o, ahead).pend = w.pend
    BY <2>1 DEF LossExit, Watches
  <2>4. [w EXCEPT !.cooling = TRUE] \in Watches /\ [w EXCEPT !.cooling = TRUE].pend = w.pend
    BY <2>1 DEF Watches
  <2>5. e \in Watches /\ (e.pend = w.pend \/ e.pend = NoPending)
    BY <2>1, <2>2, <2>3, <2>4 DEF Exited
  <2>6. /\ [e EXCEPT !.blocked = e.blocked \/ blocks] \in Watches
        /\ [e EXCEPT !.blocked = e.blocked \/ blocks].pend = e.pend
    BY <2>5 DEF Watches
  <2>7. watch'[t] = w \/ watch'[t] = [e EXCEPT !.blocked = e.blocked \/ blocks]
    BY DEF ExitNamed, Fresh, Watching
  <2> QED
    BY <2>1, <2>5, <2>6, <2>7
<1>2. watch' \in [Symbols -> Watches]
  BY <1>1 DEF ExitNamed, Fresh, Watching
<1>3. \A t \in Symbols : 
        \/ watch'[t].pend = watch[t].pend /\ since'[t] = since[t]
        \/ watch'[t].pend = NoPending /\ since'[t] = 0
  BY <1>1, NoPendingFields DEF ExitNamed, Fresh, Watching
<1>4. since' \in [Symbols -> Nat]
  BY DEF ExitNamed, Fresh, Watching
<1> QED
  BY <1>2, <1>3, <1>4, FreshQuiet DEF ExitNamed

LEMMA FreshStep == Fresh /\ [Next]_vars => Fresh'
<1> SUFFICES ASSUME Fresh, [Next]_vars PROVE Fresh'
  OBVIOUS
<1>1. CASE EntriesBlocked
  <2>1. ASSUME NEW s \in Symbols
        PROVE  LET v == [Drop(watch[s]) EXCEPT !.armed = FALSE, !.high = FALSE]
               IN  v \in Watches /\ v.pend = NoPending
    <3>1. Drop(watch[s]) \in Watches /\ Drop(watch[s]).pend = NoPending
      BY DropTyped DEF Fresh, Watching
    <3> QED
      BY <3>1 DEF Watches
  <2> QED
    BY <1>1, <2>1, FreshQuiet DEF EntriesBlocked
<1>2. CASE OrderFills
  <2>1. ASSUME NEW s \in Symbols, NEW t
        PROVE  /\ Filled(mode, watch[s], t) \in Watches
               /\ Filled(mode, watch[s], t).pend = watch[s].pend
    <3>1. watch[s] \in Watches
      BY DEF Fresh, Watching
    <3> QED
      <4>1. CASE mode = "cycle"
        BY <3>1, <4>1 DEF Watches, Filled
      <4>2. CASE mode # "cycle"
        <5>1. watch[s].count + 1 \in Nat
          BY <3>1 DEF Watches
        <5>2. (IF t = "post_target" THEN 0 ELSE watch[s].allowed) \in {0, 1}
          BY <3>1 DEF Watches
        <5> QED
          BY <3>1, <4>2, <5>1, <5>2 DEF Watches, Filled
      <4> QED
        BY <4>1, <4>2
  <2>2. /\ watch' \in [Symbols -> Watches]
        /\ \A s \in Symbols : watch'[s].pend = watch[s].pend
    BY <1>2, <2>1 DEF OrderFills, Fresh, Watching
  <2> QED
    BY <1>2, <2>2, FreshQuiet DEF OrderFills, NoOrder, Fresh, Watching
<1>3. CASE Adopt \/ OrderMisses
  BY <1>3, FreshQuiet DEF Adopt, OrderMisses, NoOrder, Fresh, Watching
<1>4. ASSUME NEW s \in Runners, ScalpOrder(s) PROVE Fresh'
  BY <1>4, FreshQuiet DEF ScalpOrder, Fresh, Watching
<1>5. ASSUME NEW s \in Traded, ExitUnnamed(s) PROVE Fresh'
  BY <1>5, FreshQuiet DEF ExitUnnamed, Fresh, Watching
<1>6. CASE UNCHANGED vars
  BY <1>6, FreshQuiet DEF vars, Fresh, Watching
<1>7. ASSUME NEW s \in Symbols, NEW x, Look(s, x)
      PROVE  Fresh'
  BY <1>7, FreshLook
<1>8. ASSUME NEW s \in Traded,
             \E o \in Outcomes, ahead, part, blocks \in BOOLEAN :
               ExitNamed(s, o, ahead, part, blocks)
      PROVE  Fresh'
  BY <1>8, FreshExitNamed
<1>9. ASSUME NEW s \in Symbols,
             \/ \E r \in BOOLEAN : ArmSymbol(s, r)
             \/ Evict(s) \/ WindowCloses(s) \/ CooldownEnds(s) \/ TargetStales(s)
             \/ LookBlocked(s)
      PROVE  Fresh'
  BY <1>9, FreshSymbolSteps
<1>10. NewBar => Fresh'
  BY FreshNewBar
<1> QED
  BY <1>1, <1>2, <1>3, <1>4, <1>5, <1>6, <1>7, <1>8, <1>9, <1>10 DEF Next

(* A breakout is bought before its patience is over, counted from the bar that  *)
(* armed it first whatever rejections and rebases came between, and outside the *)
(* Warrior book never on that bar itself (_process_momentum_burst_scalps).      *)
THEOREM BoughtFresh == Spec => []BuysInWindow
<1>1. Spec => []Fresh
  BY FreshInit, FreshStep, PTL DEF Spec
<1> QED
  BY <1>1, PTL DEF Fresh

-----------------------------------------------------------------------------
(* The live lane and its copy in the backtest, one operator after the other. *)
LEMMA ForgiveSame ==
  ASSUME NEW w \in Watches, NEW t
  PROVE  /\ Forgive(w, t) = ReplayForgiven(w, t, w.high)
         /\ ForgiveHigh(w, t) = ReplayForgiven(w, t, TRUE)
  BY DEF Forgive, ForgiveHigh, ReplayForgiven, Arm, Watches

LEMMA RecoverSame ==
  ASSUME NEW w \in Watches, NEW x
  PROVE  Recover(w, x) = ReplayRecover(w, x)
  BY ForgiveSame DEF Recover, ReplayRecover, Drop

LEMMA StopSame ==
  ASSUME NEW w \in Watches, NEW x
  PROVE  HitRunStop(w, x) = ReplayStop(w, x)
  BY DEF HitRunStop, ReplayStop, Drop, Watches

LEMMA AfterTargetSame ==
  ASSUME NEW w \in Watches, NEW x
  PROVE  AfterTarget(w, x) = ReplayAfterTarget(w, x)
  BY DEF AfterTarget, ReplayAfterTarget, Arm, ArmHigh, Drop, Watches

LEMMA StarterSame ==
  ASSUME NEW w, NEW x
  PROVE  Starter(w, x) = ReplayStarter(w, x)
  BY DEF Starter, ReplayStarter, Arm

LEMMA UnspoiltSame ==
  ASSUME NEW w \in Watches
  PROVE  Unspoilt(w) = ReplayUnspoilt(w)
<1>1. w.pend = NoPending => ~(w.pend.born > Patience)
  BY BurstAssumption DEF NoPending
<1> QED
  BY <1>1 DEF Unspoilt, ReplayUnspoilt, Drop

LEMMA TrendsFinite == IsFiniteSet(TrendContexts)
<1>1. \A a : IsFiniteSet({a})
  BY FS_Singleton, Zenon
<1>2. IsFiniteSet({"first_pullback"} \cup {"low_price_proof"} \cup {"high_base"}
                   \cup {"stair_step"})
  BY <1>1, FS_Union
<1>3. IsFiniteSet({"parabolic"} \cup {"trend_pullback"} \cup {"first_impulse"}
                   \cup {"second_leg_vwap"})
  BY <1>1, FS_Union
<1>4. TrendContexts =
        ({"first_pullback"} \cup {"low_price_proof"} \cup {"high_base"} \cup {"stair_step"})
          \cup ({"parabolic"} \cup {"trend_pullback"} \cup {"first_impulse"}
                \cup {"second_leg_vwap"})
  BY DEF TrendContexts
<1> QED
  BY <1>2, <1>3, <1>4, FS_Union, Zenon

LEMMA OnlyMember ==
  ASSUME NEW S, NEW c \in S, NEW d \in S, IsFiniteSet(S), Cardinality(S) <= 1
  PROVE  c = d
<1> SUFFICES ASSUME c # d PROVE FALSE
  OBVIOUS
<1>1. IsFiniteSet({c}) /\ Cardinality({c}) = 1
  BY FS_Singleton, Zenon
<1>2. Cardinality({c} \cup {d}) = Cardinality({c}) + 1
  BY <1>1, FS_AddElement
<1>3. Cardinality({c} \cup {d}) <= Cardinality(S)
  BY FS_Subset
<1>4. Cardinality(S) \in Nat
  BY FS_CardinalityType
<1> QED
  BY <1>1, <1>2, <1>3, <1>4

(* A bar shows one trend context at most. *)
LEMMA OneTrend ==
  ASSUME NEW x, x.ctx \in Contexts \cup {{}}
  PROVE  /\ \A c \in x.ctx \cap TrendContexts : c = Trend(x)
         /\ Trend(x) = "none" \/ Trend(x) \in x.ctx \cap TrendContexts
<1> DEFINE S == x.ctx \cap TrendContexts
<1>1. S # {} => Trend(x) \in S
  BY DEF Trend
<1>2. IsFiniteSet(S)
  BY TrendsFinite, FS_Subset
<1>3. x.ctx \in Contexts => Cardinality(S) <= 1
  BY ContextsAssumption
<1>4. \A c, d \in S : c = d
  BY <1>2, <1>3, OnlyMember
<1>5. S = {} => Trend(x) = "none"
  BY DEF Trend
<1> QED
  BY <1>1, <1>4, <1>5

LEMMA SameFields ==
  ASSUME NEW p \in [trig : Triggers, age : Nat, born : Nat, rebased : BOOLEAN],
         NEW q \in [trig : Triggers, age : Nat, born : Nat, rebased : BOOLEAN],
         p.trig = q.trig, p.age = q.age, p.born = q.born, p.rebased = q.rebased
  PROVE  p = q
  OBVIOUS

LEMMA RebaseSame ==
  ASSUME NEW w \in Watches, NEW t \in Triggers, w.pend # NoPending
  PROVE  Rebase(w, t) = ReplayRebase(w, t)
<1> DEFINE p == [trig |-> t, age |-> 0, born |-> w.pend.born, rebased |-> TRUE]
           q == [w.pend EXCEPT !.trig = t, !.age = 0, !.rebased = TRUE]
<1>1. w.pend \in [trig : Triggers, age : Nat, born : Nat, rebased : BOOLEAN]
  BY DEF Watches, Pendings
<1>2. p \in [trig : Triggers, age : Nat, born : Nat, rebased : BOOLEAN]
  BY <1>1
<1>3. q \in [trig : Triggers, age : Nat, born : Nat, rebased : BOOLEAN]
  BY <1>1
<1>4. p.trig = q.trig /\ p.age = q.age /\ p.born = q.born /\ p.rebased = q.rebased
  BY <1>1
<1>5. p = q
  BY <1>2, <1>3, <1>4, SameFields
<1> QED
  BY <1>5 DEF Rebase, ReplayRebase

LEMMA AboveSame ==
  ASSUME NEW m \in Modes, NEW w \in Watches, NEW x
  PROVE  Above(m, w, x) = ReplayAbove(m, w, x)
<1>1. FreshTrigger(m, w, x) = ReplayTrigger(m, w, x)
  BY DEF FreshTrigger, ReplayTrigger, Watches
<1>2. AboveAfterTarget(w, x) = ReplayAboveAfterTarget(w, x)
  BY DEF AboveAfterTarget, ReplayAboveAfterTarget, Arm, Drop, Watches
<1>3. ASSUME NEW t PROVE ArmHigh(w, t, 0) = [[w EXCEPT !.high = TRUE] EXCEPT !.pend = Breakout(t, 0)]
  BY DEF ArmHigh, Arm, Watches
<1> QED
  BY <1>1, <1>2, <1>3 DEF Above, ReplayAbove

LEMMA ResetHighSame ==
  ASSUME NEW w \in Watches, NEW x
  PROVE  ResetHigh(w, x) = Skip(ReplayResetHigh(w, x))
<1>1. ArmHigh(w, "generic", 0) = [w EXCEPT !.high = TRUE, !.pend = Breakout("generic", 0)]
  BY DEF ArmHigh, Arm, Watches
<1> QED
  BY <1>1 DEF ResetHigh, ReplayResetHigh

LEMMA ExitSame ==
  ASSUME NEW m \in Modes, NEW w \in Watches, NEW o \in Outcomes, NEW ahead \in BOOLEAN
  PROVE  SameExit(m, w, o, ahead)
<1>1. TargetExit(w, ahead) = ReplayTargetExit(w, ahead)
  BY DEF TargetExit, ReplayTargetExit, Drop, Watches
<1> QED
  BY <1>1 DEF SameExit, Exited, ReplayExited, LossExit, Watches, Outcomes, Modes

LEMMA WindowSame ==
  ASSUME NEW w \in Watches
  PROVE  WindowEnds(w) = ReplayWindowEnds(w)
<1>1. ASSUME NEW u \in Watches, NEW v \in Watches,
             u.armed = v.armed, u.high = v.high, u.pend = v.pend, u.count = v.count,
             u.cooling = v.cooling, u.wins = v.wins, u.allowed = v.allowed,
             u.failed = v.failed, u.blocked = v.blocked
      PROVE  u = v
  BY <1>1 DEF Watches
<1>2. NoPending \in Pendings
  BY DEF Pendings
<1>3. WindowEnds(w) \in Watches
  BY <1>2 DEF WindowEnds, Watches
<1>4. NoWatch \in Watches
  BY <1>2 DEF NoWatch, Watches
<1>5. ReplayWindowEnds(w) \in Watches
  BY <1>4 DEF ReplayWindowEnds, Watches
<1>6. LET r == ReplayWindowEnds(w)
      IN  /\ ~r.armed /\ ~r.high /\ r.pend = NoPending /\ r.count = 0 /\ ~r.cooling
          /\ r.wins = w.wins /\ r.allowed = w.allowed /\ ~r.failed /\ r.blocked = w.blocked
  BY <1>4 DEF ReplayWindowEnds, NoWatch, Watches
<1>7. LET r == WindowEnds(w)
      IN  /\ ~r.armed /\ ~r.high /\ r.pend = NoPending /\ r.count = 0 /\ ~r.cooling
          /\ r.wins = w.wins /\ r.allowed = w.allowed /\ ~r.failed /\ r.blocked = w.blocked
  BY DEF WindowEnds, Watches
<1> QED
  BY <1>1, <1>3, <1>5, <1>6, <1>7 DEF Watches

LEMMA ConfirmationSame ==
  ASSUME NEW w \in Watches, NEW x, x.ctx \in Contexts \cup {{}}, w.pend # NoPending
  PROVE  Confirmation(w, x) = ReplayConfirmation(w, x)
<1> DEFINE c == ReplayConfirmations(w, x)
           found == {i \in 1..7 : c[i] # {}}
           first == CHOOSE i \in found : \A j \in found : i <= j
<1>1. /\ Trend(x) \notin TrendContexts => Trend(x) = "none"
      /\ \A d \in x.ctx \cap TrendContexts : d = Trend(x)
      /\ Trend(x) # "none" => Trend(x) \in x.ctx
  BY OneTrend
<1>2. ASSUME NEW i \in 1..7, c[i] # {}, \A j \in 1..7 : j < i => c[j] = {}
      PROVE  ReplayConfirmation(w, x) = CHOOSE t \in c[i] : TRUE
  <2>1. i \in found /\ \A j \in found : i <= j
    BY <1>2
  <2>2. first = i
    BY <2>1
  <2> QED
    BY <2>1, <2>2 DEF ReplayConfirmation
<1>3. ASSUME \A i \in 1..7 : c[i] = {}
      PROVE  ReplayConfirmation(w, x) = "none"
  BY <1>3 DEF ReplayConfirmation
<1>4. /\ c[1] = {"clwt"} \cap x.ctx
      /\ c[2] = {"first_pullback", "low_price_proof"} \cap x.ctx
      /\ c[3] = {w.pend.trig} \cap EntryTriggers
      /\ c[4] = {"level_pullaway"} \cap x.ctx
      /\ c[5] = {"curl"} \cap x.ctx
      /\ c[6] = {"equal_high"} \cap x.ctx
      /\ c[7] = HighBaseConfirms \cap TrendContexts \cap x.ctx
  BY DEF ReplayConfirmations
<1>5. c[2] # {} <=> Trend(x) \in {"first_pullback", "low_price_proof"}
  BY <1>1, <1>4 DEF TrendContexts
<1>6. c[7] # {} <=> Trend(x) \in HighBaseConfirms
  BY <1>1, <1>4 DEF TrendContexts, HighBaseConfirms
<1>7. (c[2] # {} => c[2] = {Trend(x)}) /\ (c[7] # {} => c[7] = {Trend(x)})
  BY <1>1, <1>4 DEF TrendContexts
<1>8. \A d : (CHOOSE t \in {d} : TRUE) = d
  OBVIOUS
<1>9. ASSUME NEW i \in 1..7, NEW d, c[i] = {d}, \A j \in 1..7 : j < i => c[j] = {}
      PROVE  ReplayConfirmation(w, x) = d
  BY <1>2, <1>8, <1>9
<1>10. c[1] = {} \/ (c[1] = {"clwt"} /\ Confirmation(w, x) = "clwt")
  BY <1>4 DEF Confirmation, Shows
<1>11. ASSUME c[1] = {}
       PROVE  c[2] = {} \/ (c[2] = {Trend(x)} /\ Confirmation(w, x) = Trend(x))
  BY <1>4, <1>5, <1>7, <1>11 DEF Confirmation, Shows
<1>12. ASSUME c[1] = {}, c[2] = {}
       PROVE  c[3] = {} \/ (c[3] = {w.pend.trig} /\ Confirmation(w, x) = w.pend.trig)
  BY <1>4, <1>5, <1>12 DEF Confirmation, Shows
<1>13. ASSUME c[1] = {}, c[2] = {}, c[3] = {}
       PROVE  c[4] = {} \/ (c[4] = {"level_pullaway"} /\ Confirmation(w, x) = "level_pullaway")
  BY <1>4, <1>5, <1>13 DEF Confirmation, Shows
<1>14. ASSUME c[1] = {}, c[2] = {}, c[3] = {}, c[4] = {}
       PROVE  c[5] = {} \/ (c[5] = {"curl"} /\ Confirmation(w, x) = "curl")
  BY <1>4, <1>5, <1>14 DEF Confirmation, Shows
<1>15. ASSUME c[1] = {}, c[2] = {}, c[3] = {}, c[4] = {}, c[5] = {}
       PROVE  c[6] = {} \/ (c[6] = {"equal_high"} /\ Confirmation(w, x) = "equal_high")
  BY <1>4, <1>5, <1>15 DEF Confirmation, Shows
<1>16. ASSUME c[1] = {}, c[2] = {}, c[3] = {}, c[4] = {}, c[5] = {}, c[6] = {}
       PROVE  IF c[7] = {} THEN Confirmation(w, x) = "none"
              ELSE c[7] = {Trend(x)} /\ Confirmation(w, x) = Trend(x)
  BY <1>4, <1>5, <1>6, <1>7, <1>16 DEF Confirmation, Shows
<1> HIDE DEF c
<1>17. CASE c[1] # {}
  BY <1>9, <1>10, <1>17
<1>18. CASE c[1] = {} /\ c[2] # {}
  BY <1>9, <1>11, <1>18
<1>19. CASE c[1] = {} /\ c[2] = {} /\ c[3] # {}
  BY <1>9, <1>12, <1>19
<1>20. CASE c[1] = {} /\ c[2] = {} /\ c[3] = {} /\ c[4] # {}
  BY <1>9, <1>13, <1>20
<1>21. CASE c[1] = {} /\ c[2] = {} /\ c[3] = {} /\ c[4] = {} /\ c[5] # {}
  BY <1>9, <1>14, <1>21
<1>22. CASE /\ c[1] = {} /\ c[2] = {} /\ c[3] = {} /\ c[4] = {} /\ c[5] = {}
            /\ c[6] # {}
  BY <1>9, <1>15, <1>22
<1>23. CASE /\ c[1] = {} /\ c[2] = {} /\ c[3] = {} /\ c[4] = {} /\ c[5] = {}
            /\ c[6] = {}
  BY <1>3, <1>9, <1>16, <1>23
<1> QED
  BY <1>17, <1>18, <1>19, <1>20, <1>21, <1>22, <1>23

LEMMA ConfirmSame ==
  ASSUME NEW m \in Modes, NEW w \in Watches, NEW x, x.ctx \in Contexts \cup {{}},
         w.pend # NoPending
  PROVE  Confirm(m, w, x) = ReplayConfirm(m, w, x)
<1> DEFINE t == IF m = "warrior" THEN Confirmation(w, x) ELSE w.pend.trig
<1>1. w.pend.trig \in Triggers /\ w.pend.trig # "none"
  BY DEF Watches, Pendings, Triggers, EntryTriggers, TrendContexts, LaneContexts
<1>2. w.pend.trig \notin EntryTriggers <=> w.pend.trig = "generic"
  BY <1>1 DEF Triggers, EntryTriggers, TrendContexts, LaneContexts
<1>3. t = IF m = "warrior" THEN ReplayConfirmation(w, x) ELSE w.pend.trig
  BY ConfirmationSame
<1>4. t = "none" \/ t \in Triggers
  <2>1. "none" \notin TrendContexts /\ TrendContexts \subseteq Triggers /\ EntryTriggers \subseteq Triggers
    BY DEF TrendContexts, Triggers, EntryTriggers
  <2>2. {"clwt", "level_pullaway", "curl", "equal_high"} \subseteq Triggers
    BY DEF Triggers, EntryTriggers, LaneContexts
  <2>3. Trend(x) = "none" \/ Trend(x) \in TrendContexts
    BY DEF Trend
  <2> QED
    BY <1>1, <2>1, <2>2, <2>3 DEF Confirmation
<1>5. Unconfirmed(m, w, x) = ReplayRejects(m, w, x)
  <2>1. Rebase(w, w.pend.trig) = ReplayRebase(w, w.pend.trig)
    BY <1>1, RebaseSame
  <2>2. Rebases(w, x, w.pend.trig) /\ m # "cycle" <=> ReplayRebases(w, x, w.pend.trig, m)
    BY DEF Rebases, ReplayRebases
  <2> DEFINE off == [w EXCEPT !.pend = NoPending]
  <2>3. [off EXCEPT !.failed = w.failed] = off
    BY DEF Watches
  <2>4. CASE m = "warrior" /\ x.tape = "sour"
    BY <2>4 DEF Unconfirmed, ReplayRejects, Drop
  <2>5. CASE ~(m = "warrior" /\ x.tape = "sour")
    <3>1. w.failed \/ (m = "warrior" /\ x.tape = "sour") <=> w.failed
      BY <2>5
    <3>2. [Drop(w) EXCEPT !.failed = w.failed \/ (m = "warrior" /\ x.tape = "sour")] = off
      BY <2>5 DEF Drop, Watches
    <3>3. (m = "hit_run" /\ x.tape = "weak" /\ Rebases(w, x, w.pend.trig))
            <=> (m # "warrior" /\ x.tape = "weak" /\ ReplayRebases(w, x, w.pend.trig, m))
      BY <2>2 DEF Modes
    <3> QED
      BY <2>1, <2>5, <3>2, <3>3 DEF Unconfirmed, ReplayRejects
  <2> QED
    BY <2>4, <2>5
<1>6. ASSUME t # "none", m = "warrior", BadTape(w, x, t)
      PROVE  AfterBadTape(w, x, t) = ReplayBuys(m, w, x, t)
  <2>1. Rebase(w, t) = ReplayRebase(w, t)
    BY <1>4, <1>6, RebaseSame
  <2>2. Rebases(w, x, t) <=> ReplayRebases(w, x, t, m)
    BY <1>6 DEF Rebases, ReplayRebases
  <2> QED
    BY <1>6, <2>1, <2>2 DEF AfterBadTape, ReplayBuys, BadTape, Drop
<1>7. ASSUME ~(m = "warrior" /\ BadTape(w, x, t))
      PROVE  ReplayBuys(m, w, x, t) = IF x.buys THEN Buy(Drop(w), t, w.pend.born)
                                      ELSE Skip(Drop(w))
  BY <1>7 DEF ReplayBuys, BadTape, Drop
<1> HIDE DEF t
<1>8. Confirm(m, w, x) =
        IF w.pend.age = 0 THEN Skip(w)
        ELSE IF m = "warrior" /\ w.wins = "fresh" /\ w.pend.trig \notin EntryTriggers
             THEN Skip(Drop(w))
        ELSE IF (IF m = "warrior" THEN t = "none" ELSE x.tape # "confirms")
             THEN Unconfirmed(m, w, x)
        ELSE IF m = "warrior" /\ BadTape(w, x, t) THEN AfterBadTape(w, x, t)
        ELSE IF x.buys THEN Buy(Drop(w), t, w.pend.born)
        ELSE Skip(Drop(w))
  BY DEF Confirm, t
<1>9. ReplayConfirm(m, w, x) =
        IF w.pend.age = 0 THEN Skip(w)
        ELSE IF m = "warrior" /\ w.wins = "fresh" /\ w.pend.trig = "generic"
             THEN Skip(Drop(w))
        ELSE IF t = "none" \/ (m # "warrior" /\ x.tape # "confirms")
             THEN ReplayRejects(m, w, x)
        ELSE ReplayBuys(m, w, x, t)
  BY <1>3 DEF ReplayConfirm, Drop
<1>10. m # "warrior" => t # "none"
  BY <1>1, <1>3
<1> QED
  BY <1>2, <1>5, <1>6, <1>7, <1>8, <1>9, <1>10

(* Below the window high the two differ by the prior-runner context alone. *)
LEMMA BelowSame ==
  ASSUME NEW m \in Modes, NEW w \in Watches, NEW x
  PROVE  \/ Below(m, w, x) = ReplayBelow(m, w, x)
         \/ /\ Below(m, w, x).w.pend.trig = "prior_runner"
            /\ Below(m, w, x).buy = "none"
<1>1. CASE m = "cycle" \/ m = "hit_run"
  BY <1>1, ResetHighSame DEF Below, ReplayBelow
<1>2. CASE m = "warrior"
  <2>1. Below(m, w, x) = BelowWarrior(w, x, PriorRunnerBelow)
    BY <1>2 DEF Below
  <2>2. ArmHigh(w, "second_leg", 0) = [w EXCEPT !.high = TRUE, !.pend = Breakout("second_leg", 0)]
    BY DEF ArmHigh, Arm, Watches
  <2>3. Arm(w, Trend(x), 1) = [w EXCEPT !.pend = Breakout(Trend(x), 1)]
    BY DEF Arm
  <2>4. Drop(w) = [w EXCEPT !.pend = NoPending]
    BY DEF Drop
  <2>5. CASE w.count = 0 /\ Shows(x, "equal_high") /\ x.buys
    BY <1>2, <2>1, <2>5 DEF BelowWarrior, ReplayBelow
  <2>6. CASE ~(w.count = 0 /\ Shows(x, "equal_high") /\ x.buys) /\ Shows(x, "prior_runner")
    <3>1. Below(m, w, x) = Skip(Arm(w, "prior_runner", 0))
      BY <2>1, <2>6 DEF BelowWarrior, PriorRunnerBelow
    <3>2. Arm(w, "prior_runner", 0).pend.trig = "prior_runner"
      BY DEF Arm, Breakout, Watches
    <3> QED
      BY <3>1, <3>2 DEF Skip
  <2>7. CASE ~(w.count = 0 /\ Shows(x, "equal_high") /\ x.buys) /\ ~Shows(x, "prior_runner")
    <3>1. Below(m, w, x) =
            IF Trend(x) # "none" THEN Skip(Arm(w, Trend(x), 1))
            ELSE IF (w.wins = "fresh" \/ w.count > 0) /\ Shows(x, "second_leg")
                 THEN Skip(ArmHigh(w, "second_leg", 0))
            ELSE IF w.wins = "fresh" THEN Skip(Drop(w))
            ELSE IF w.count > 0 /\ x.rel = "near" /\ Pulls(x) /\ x.buys
                 THEN Buy(w, Pullaway(x), 0)
            ELSE ResetHigh(w, x)
      BY <2>1, <2>7 DEF BelowWarrior
    <3>2. ReplayBelow(m, w, x) =
            IF Trend(x) # "none" THEN Skip([w EXCEPT !.pend = Breakout(Trend(x), 1)])
            ELSE ReplayBelowRest(w, x)
      BY <1>2, <2>7 DEF ReplayBelow
    <3> QED
      BY <2>2, <2>3, <2>4, <3>1, <3>2, ResetHighSame DEF ReplayBelowRest
  <2> QED
    BY <2>5, <2>6, <2>7
<1> QED
  BY <1>1, <1>2 DEF Modes

(* What the look comes to: the same in both, or the prior-runner context below *)
(* the window high.                                                           *)
Agrees(live, replay, x) ==
  \/ live = replay
  \/ live.w.pend.trig = "prior_runner" /\ x.rel # "above" /\ live.buy = "none"

LEMMA JudgeSame ==
  ASSUME NEW m \in Modes, NEW w \in Watches, NEW x, x.ctx \in Contexts \cup {{}}
  PROVE  Agrees(Judge(m, w, x), ReplayJudge(m, w, x), x)
<1> DEFINE v == IF m = "warrior" THEN Starter(w, x) ELSE w
           u == Unspoilt(v)
<1>1. v \in Watches /\ v = IF m = "warrior" THEN ReplayStarter(w, x) ELSE w
  BY StarterTyped, StarterSame
<1>2. u = ReplayUnspoilt(v) /\ u \in Watches
  BY <1>1, UnspoiltSame, DropTyped DEF Unspoilt
<1> HIDE DEF u, v
<1>3. Judge(m, w, x) = IF u.pend # NoPending THEN Confirm(m, u, x)
                       ELSE IF u.high /\ x.rel # "above" THEN Below(m, u, x)
                       ELSE Above(m, u, x)
  BY DEF Judge, u, v
<1>4. ReplayJudge(m, w, x) = IF u.pend # NoPending THEN ReplayConfirm(m, u, x)
                             ELSE IF x.rel # "above" /\ u.high THEN ReplayBelow(m, u, x)
                             ELSE ReplayAbove(m, u, x)
  BY <1>1, <1>2 DEF ReplayJudge
<1> QED
  BY <1>2, <1>3, <1>4, ConfirmSame, BelowSame, AboveSame DEF Agrees

LEMMA LookSame ==
  ASSUME NEW m \in Modes, NEW h \in BOOLEAN, NEW w \in Watches, NEW x \in Bars[m][h]
  PROVE  SameLook(m, w, x)
<1>1. x \in BarsOf(m = "warrior", m = "hit_run", h)
  BY DEF Bars
<1>2. x.ctx \in Contexts \cup {{}} /\ x.held \in BOOLEAN
  BY <1>1 DEF BarsOf
<1>3. m = "hit_run" => (HitRunStops(w, x) <=> ReplayStops(w, x))
  BY <1>1 DEF BarsOf, HitRunStops, ReplayStops
<1>4. Drop(w) = [w EXCEPT !.pend = NoPending]
  BY DEF Drop
<1>5. Agrees(Judge(m, w, x), ReplayJudge(m, w, x), x)
  BY <1>2, JudgeSame
<1>6. LET a == Arm(w, "prior_runner", 1)
      IN  /\ a = [w EXCEPT !.pend = Breakout("prior_runner", 1)]
          /\ Agrees(Judge(m, a, x), ReplayJudge(m, a, x), x)
  <2>1. "prior_runner" \in Triggers
    BY DEF LaneContexts, Triggers, EntryTriggers
  <2> QED
    BY <1>2, <2>1, ArmTyped, JudgeSame DEF Arm
<1>7. CASE m # "cycle" /\ w.blocked
  BY <1>4, <1>7 DEF SameLook, Live, Replay
<1>8. CASE ~(m # "cycle" /\ w.blocked) /\ m = "warrior" /\ w.failed /\ w.wins = "none"
  BY <1>8, RecoverSame DEF SameLook, Live, Replay
<1>9. CASE /\ ~(m # "cycle" /\ w.blocked)
           /\ ~(m = "warrior" /\ w.failed /\ w.wins = "none")
           /\ Rests(m, w, x)
  BY <1>9 DEF SameLook, Live, Replay, Rests
<1>10. CASE /\ ~(m # "cycle" /\ w.blocked)
            /\ ~(m = "warrior" /\ w.failed /\ w.wins = "none")
            /\ ~Rests(m, w, x)
            /\ m = "hit_run" /\ HitRunStops(w, x)
  <2>1. Live(m, w, x) = Skip(HitRunStop(w, x))
    BY <1>10 DEF Live
  <2>2. Replay(m, w, x) = Skip(ReplayStop(w, x))
    BY <1>3, <1>10 DEF Replay, Rests
  <2> QED
    BY <2>1, <2>2, StopSame DEF SameLook
<1>11. CASE /\ ~(m # "cycle" /\ w.blocked)
            /\ ~(m = "warrior" /\ w.failed /\ w.wins = "none")
            /\ ~Rests(m, w, x)
            /\ ~(m = "hit_run" /\ HitRunStops(w, x))
  <2>1. Live(m, w, x) =
          IF m = "warrior" /\ w.wins = "stale" THEN Skip(Drop(w))
          ELSE IF Banked(m, w)
               THEN IF Shows(x, "prior_runner")
                    THEN Judge(m, Arm(w, "prior_runner", 1), x)
                    ELSE AfterTarget(w, x)
          ELSE Judge(m, w, x)
    BY <1>11 DEF Live
  <2>2. Replay(m, w, x) =
          IF m = "warrior" /\ w.wins = "stale" THEN Skip(Drop(w))
          ELSE IF Banked(m, w)
               THEN IF Shows(x, "prior_runner")
                    THEN ReplayJudge(m, [w EXCEPT !.pend = Breakout("prior_runner", 1)], x)
                    ELSE ReplayAfterTarget(w, x)
          ELSE ReplayJudge(m, w, x)
    BY <1>3, <1>4, <1>11 DEF Replay, Rests, Banked
  <2> QED
    BY <1>5, <1>6, <2>1, <2>2, AfterTargetSame DEF SameLook, Agrees
<1> QED
  BY <1>7, <1>8, <1>9, <1>10, <1>11

(* The backtest judges every bar as the live lane does but in the cases that   *)
(* SameLook and SameExit name, for any set of contexts the bars show at once    *)
(* (_process_momentum_burst_scalps, _maybe_execute_momentum_burst_replay).      *)
THEOREM ReplayAgrees == Spec => []ReplayParity
<1>1. Watching => ReplayParity
  BY LookSame, ExitSame, WindowSame DEF Watching, ReplayParity
<1>2. Spec => []Fresh
  BY FreshInit, FreshStep, PTL DEF Spec
<1> QED
  BY <1>1, <1>2, PTL DEF Fresh
=============================================================================
