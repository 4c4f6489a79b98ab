------------------------------ MODULE EntryProofs ------------------------------
(***************************************************************************)
(* The two specifications of what is bought. EntryGate, for any set of      *)
(* symbols and any limits: at most one position opens after the breaker     *)
(* trips, and the budget of entries per symbol is kept; each action is one  *)
(* lemma. OrderGates, for any tapes, looks, configurations and limits: what *)
(* the cycle orders is bounded, small when it is a scout, and scored; the   *)
(* scanners, the verifier and the gates have one lemma each.                *)
(***************************************************************************)
EXTENDS EntryGate, OrderGates, FiniteSetTheorems, SequenceTheorems, NaturalsInduction,
        WellFoundedInduction, TLAPS

Numbers ==
  /\ tripped \in BOOLEAN
  /\ sinceTrip \in Nat
  /\ entries \in [Symbols -> 0..MaxEntries]

(* Which part of the main loop waits for which order, and that a purchase  *)
(* on its way is within the budget.                                        *)
OrderPlaced ==
  /\ order.via \in {"none", "entry", "add", "scalp"}
  /\ order.via = "none" => order = NoOrder
  /\ order.via = "scalp" => at = "scalps"
  /\ order.via \in {"entry", "add"} => at \in {"timed", "late"}
  /\ order.via \in {"entry", "scalp"} /\ order.sym \in Symbols
       => entries[order.sym] < MaxEntries

(* Once a position has opened after the trip, no purchase is on its way,    *)
(* and the scalp lane has dropped its alerts.                               *)
BreakerHolds ==
  /\ ~tripped => sinceTrip = 0
  /\ sinceTrip <= 1
  /\ sinceTrip > 0 => order.via \notin {"entry", "scalp"}
  /\ sinceTrip > 0 /\ at = "scalps" => alerts = {}

IInv == Numbers /\ OrderPlaced /\ BreakerHolds

LEMMA InitHolds == Init => IInv
<1> SUFFICES ASSUME Init PROVE IInv
  OBVIOUS
<1>1. Numbers
  <2>1. 0 \in 0..MaxEntries
    BY GateAssumption
  <2> QED
    BY <2>1 DEF Init, Numbers
<1>2. OrderPlaced
  BY DEF Init, OrderPlaced, NoOrder
<1>3. BreakerHolds
  BY DEF Init, BreakerHolds
<1> QED
  BY <1>1, <1>2, <1>3 DEF IInv

(* Steps that leave order, entries, breaker and history alone and bring the *)
(* loop neither to nor from a place where it waits.                         *)
LEMMA Quiet ==
  ASSUME IInv, UNCHANGED <<order, tripped, sinceTrip, entries, at>>,
         alerts' = alerts \/ at # "scalps"
  PROVE  IInv'
  BY DEF IInv, Numbers, OrderPlaced, BreakerHolds

LEMMA MovesHolds ==
  ASSUME IInv, NEW from, NEW to, Moves(from, to),
         to = "scalps" => alerts = {}
  PROVE  IInv'
  BY DEF IInv, Numbers, OrderPlaced, BreakerHolds, Moves, Idle, NoOrder, scalps,
         book, gates

LEMMA RecordExitHolds ==
  ASSUME IInv, NEW s, NEW cools \in BOOLEAN, RecordExit(s, cools), at' = at
  PROVE  IInv'
<1>1. /\ UNCHANGED <<order, alerts, entries, sinceTrip, at>>
      /\ tripped' \in BOOLEAN
      /\ tripped => tripped'
  BY DEF RecordExit, Realized, IInv, Numbers
<1> QED
  BY <1>1 DEF IInv, Numbers, OrderPlaced, BreakerHolds

LEMMA ExecuteTimedHolds ==
  ASSUME IInv, NEW sig, ExecuteTimed(sig), at \in {"timed", "late"},
         UNCHANGED <<at, tripped, sinceTrip, entries, alerts>>
  PROVE  IInv'
<1>1. Numbers'
  BY DEF IInv, Numbers
<1>2. CASE order' = NoOrder
  BY <1>1, <1>2 DEF IInv, Numbers, OrderPlaced, BreakerHolds, NoOrder
<1>3. CASE /\ MayEnter(sig.sym)
           /\ \E hot \in BOOLEAN :
                order' = [sym |-> sig.sym, via |-> "entry", hot |-> hot]
  <2>1. order'.via = "entry" /\ order'.sym = sig.sym
    BY <1>3
  <2>2. ~tripped /\ entries[sig.sym] < MaxEntries
    BY <1>3 DEF MayEnter
  <2> QED
    BY <1>1, <2>1, <2>2 DEF IInv, Numbers, OrderPlaced, BreakerHolds
<1>4. CASE order' = [sym |-> sig.sym, via |-> "add", hot |-> FALSE]
  BY <1>1, <1>4 DEF IInv, Numbers, OrderPlaced, BreakerHolds
<1> QED
  BY <1>2, <1>3, <1>4 DEF ExecuteTimed

LEMMA OrderFillsHolds ==
  ASSUME IInv, OrderFills
  PROVE  IInv'
<1>1. order' = NoOrder /\ UNCHANGED <<tripped, alerts>>
  BY DEF OrderFills, gates
<1>2. CASE order.via = "add"
  <2>1. UNCHANGED <<at, entries, sinceTrip>>
    BY <1>2 DEF OrderFills
  <2> QED
    BY <1>1, <2>1 DEF IInv, Numbers, OrderPlaced, BreakerHolds, NoOrder
<1>3. CASE order.via # "add"
  <2>1. /\ entries' = [entries EXCEPT ![order.sym] = @ + 1]
        /\ sinceTrip' = IF tripped THEN sinceTrip + 1 ELSE sinceTrip
    BY <1>3 DEF OrderFills
  <2>2. /\ order.via = "scalp" => at' = "poll"
        /\ order.via # "scalp" => at' = at
    BY <1>3 DEF OrderFills
  <2>3. order.via \in {"entry", "scalp"}
    BY <1>3 DEF OrderFills, Idle, IInv, OrderPlaced
  <2>4. entries' \in [Symbols -> 0..MaxEntries]
    <3>1. CASE order.sym \in Symbols
      <4>1. entries[order.sym] \in 0..MaxEntries /\ entries[order.sym] < MaxEntries
        BY <2>3, <3>1 DEF IInv, Numbers, OrderPlaced
      <4>2. entries[order.sym] + 1 \in 0..MaxEntries
        BY <4>1, GateAssumption
      <4> QED
        BY <2>1, <4>2 DEF IInv, Numbers
    <3>2. CASE order.sym \notin Symbols
      BY <2>1, <3>2 DEF IInv, Numbers
    <3> QED
      BY <3>1, <3>2
  <2>5. sinceTrip = 0 /\ sinceTrip' \in 0..1 /\ (~tripped => sinceTrip' = 0)
    BY <2>1, <2>3 DEF IInv, Numbers, BreakerHolds
  <2>6. Numbers' /\ OrderPlaced'
    BY <1>1, <2>4, <2>5 DEF IInv, Numbers, OrderPlaced, NoOrder
  <2>7. at' # "scalps"
    BY <2>2, <2>3 DEF IInv, OrderPlaced
  <2>8. BreakerHolds'
    BY <1>1, <2>5, <2>7 DEF BreakerHolds, NoOrder
  <2> QED
    BY <2>6, <2>8 DEF IInv
<1> QED
  BY <1>2, <1>3

LEMMA OrderMissesHolds ==
  ASSUME IInv, OrderMisses
  PROVE  IInv'
<1>1. UNCHANGED <<at, tripped, sinceTrip, entries, alerts>>
  BY DEF OrderMisses, gates, scalps, book
<1>2. CASE order' = NoOrder
  BY <1>1, <1>2 DEF IInv, Numbers, OrderPlaced, BreakerHolds, NoOrder
<1>3. CASE order' = [sym |-> order.sym, via |-> order.via, hot |-> FALSE]
  <2>1. order'.via = order.via /\ order'.sym = order.sym
    BY <1>3
  <2>2. order.via # "none"
    BY DEF OrderMisses, Idle, IInv, OrderPlaced
  <2> QED
    BY <1>1, <2>1, <2>2 DEF IInv, Numbers, OrderPlaced, BreakerHolds
<1> QED
  BY <1>2, <1>3 DEF OrderMisses

LEMMA TakeAlertHolds ==
  ASSUME IInv, NEW s \in Symbols, TakeAlert(s)
  PROVE  IInv'
<1>1. /\ at = "scalps" /\ s \in alerts
      /\ UNCHANGED <<at, tripped, sinceTrip, entries>>
  BY DEF TakeAlert, gates, book
<1>2. sinceTrip = 0
  BY <1>1 DEF IInv, Numbers, BreakerHolds
<1>3. CASE order' = NoOrder
  BY <1>1, <1>2, <1>3 DEF IInv, Numbers, OrderPlaced, BreakerHolds, NoOrder
<1>4. CASE MayScalp(s) /\ order' = [sym |-> s, via |-> "scalp", hot |-> FALSE]
  BY <1>1, <1>2, <1>4 DEF IInv, Numbers, OrderPlaced, BreakerHolds, MayScalp
<1> QED
  BY <1>3, <1>4 DEF TakeAlert

LEMMA LateEndsHolds ==
  ASSUME IInv, LateEnds
  PROVE  IInv'
<1>1. /\ order = NoOrder
      /\ UNCHANGED <<order, tripped, sinceTrip, entries>>
      /\ at' = "drain" \/ (at' = "scalps" /\ (tripped => alerts' = {}))
  BY DEF LateEnds, Idle, gates, book
<1> QED
  BY <1>1 DEF IInv, Numbers, OrderPlaced, BreakerHolds, NoOrder

LEMMA SyncExitHolds ==
  ASSUME IInv, NEW s, SyncExit(s)
  PROVE  IInv'
<1>1. /\ UNCHANGED <<order, alerts, entries, sinceTrip, at>>
      /\ tripped' \in BOOLEAN
      /\ tripped => tripped'
  BY DEF SyncExit, Realized, IInv, Numbers, loop, scalps, book
<1> QED
  BY <1>1 DEF IInv, Numbers, OrderPlaced, BreakerHolds

(* The main loop goes on, looks at its queues or at the clock. *)
LEMMA LoopHolds ==
  ASSUME IInv, StartSweep \/ SweepEnds \/ ScalpsEnd \/ Defer
               \/ \E s \in Symbols : SweepSymbol(s)
  PROVE  IInv'
<1>1. CASE StartSweep
  BY <1>1 DEF StartSweep, Idle, gates, book, scalps, IInv, Numbers, OrderPlaced,
     BreakerHolds, NoOrder
<1>2. CASE SweepEnds
  BY <1>2, MovesHolds DEF SweepEnds
<1>3. CASE ScalpsEnd
  BY <1>3, MovesHolds DEF ScalpsEnd
<1>4. CASE Defer
  BY <1>4 DEF Defer, gates, book, scalps, IInv, Numbers, OrderPlaced,
     BreakerHolds
<1>5. CASE \E s \in Symbols : SweepSymbol(s)
  <2>1. /\ at = "sweep" /\ at' \in {"sweep", "dead"}
        /\ UNCHANGED <<order, tripped, sinceTrip, entries>>
    BY <1>5 DEF SweepSymbol, gates, book
  <2> QED
    BY <2>1 DEF IInv, Numbers, OrderPlaced, BreakerHolds
<1> QED
  BY <1>1, <1>2, <1>3, <1>4, <1>5

(* Bars, alerts, the clock and the sync thread touch none of it. *)
LEMMA BystandersHold ==
  ASSUME IInv,
         \/ \E s \in Symbols : Alert(s) \/ BarReleases(s) \/ BarCancels(s)
         \/ SyncPurges \/ SyncAborts
         \/ \E s \in Symbols : Surprise(s)
         \/ Time
  PROVE  IInv'
<1>1. CASE \E s \in Symbols : Alert(s)
  BY <1>1, Quiet DEF Alert, loop, gates, book
<1>2. CASE \E s \in Symbols : BarReleases(s) \/ BarCancels(s)
  BY <1>2, Quiet DEF BarReleases, BarCancels, loop, gates, scalps, book
<1>3. CASE SyncPurges \/ SyncAborts
  BY <1>3, Quiet DEF SyncPurges, SyncAborts, loop, gates, scalps, book
<1>4. CASE \E s \in Symbols : Surprise(s)
  BY <1>4, Quiet DEF Surprise, loop, gates, scalps
<1>5. CASE Time
  <2>1. CASE \E s \in Symbols : CoolingEnds(s)
    BY <2>1, Quiet DEF CoolingEnds, loop, scalps, book
  <2>2. CASE \E s \in Symbols : ScalpCoolingEnds(s)
    BY <2>2, Quiet DEF ScalpCoolingEnds, loop, gates, book
  <2>3. CASE \E s \in Symbols : WaitEnds(s)
    BY <2>3, Quiet DEF WaitEnds, loop, gates, scalps, book
  <2> QED
    BY <1>5, <2>1, <2>2, <2>3 DEF Time
<1> QED
  BY <1>1, <1>2, <1>3, <1>4, <1>5

LEMMA NextHolds ==
  ASSUME IInv, [Next]_vars
  PROVE  IInv'
<1>1. CASE Events
  <2>1. CASE \E s \in Symbols : InstantExit(s)
    BY <2>1, RecordExitHolds DEF InstantExit
  <2>2. CASE DrainEnds
    BY <2>2, MovesHolds DEF DrainEnds
  <2> QED
    BY <1>1, <2>1, <2>2, BystandersHold DEF Events
<1>2. CASE Exits
  <2>1. CASE \E s \in Symbols, all \in BOOLEAN : FastExit(s, all)
    BY <2>1, RecordExitHolds DEF FastExit
  <2>2. CASE ExitsEnd
    BY <2>2, MovesHolds DEF ExitsEnd
  <2> QED
    BY <1>2, <2>1, <2>2 DEF Exits
<1>3. CASE OrderFills \/ OrderMisses
  BY <1>3, OrderFillsHolds, OrderMissesHolds
<1>4. CASE Timed
  <2>1. CASE TakeReady
    BY <2>1, ExecuteTimedHolds DEF TakeReady, gates, scalps, book
  <2>2. CASE TakeLate
    BY <2>2, ExecuteTimedHolds DEF TakeLate, gates, scalps, book
  <2> QED
    BY <1>4, <2>1, <2>2, LateEndsHolds, LoopHolds DEF Timed
<1>5. CASE Scalps
  BY <1>5, TakeAlertHolds, LoopHolds DEF Scalps
<1>6. CASE Cycle
  <2>1. CASE CycleWaits \/ CycleStarts
    BY <2>1, MovesHolds DEF CycleWaits, CycleStarts
  <2>2. CASE \E s \in Symbols, all \in BOOLEAN : CycleExit(s, all)
    BY <2>2, RecordExitHolds DEF CycleExit
  <2> QED
    BY <1>6, <2>1, <2>2, LoopHolds DEF Cycle
<1>7. CASE Sync
  BY <1>7, SyncExitHolds, BystandersHold DEF Sync
<1>8. CASE Time
  BY <1>8, BystandersHold
<1>9. CASE UNCHANGED vars
  BY <1>9, Quiet DEF vars, loop, gates, scalps, book
<1> QED
  BY <1>1, <1>2, <1>3, <1>4, <1>5, <1>6, <1>7, <1>8, <1>9 DEF Next

THEOREM Inductive == Safety => []IInv
<1>1. Init => IInv
  BY InitHolds
<1>2. IInv /\ [Next]_vars => IInv'
  BY NextHolds
<1> QED
  BY <1>1, <1>2, PTL DEF Safety

(* At most the one order that was past its check opens a position after the *)
(* breaker trips (_new_entries_blocked, run_cycle).                         *)
THEOREM BreakerStops == Safety => []LastEntry
<1>1. IInv => LastEntry
  BY DEF IInv, BreakerHolds, LastEntry
<1> QED
  BY <1>1, Inductive, PTL

(* No path to an order buys a symbol beyond the budget of the day           *)
(* (_symbol_entry_counts).                                                  *)
THEOREM BudgetKept == Safety => []EntryBudget
<1>1. IInv => EntryBudget
  <2> SUFFICES ASSUME IInv, NEW s \in Symbols
               PROVE  entries[s] <= MaxEntries
    BY DEF EntryBudget
  <2>1. entries[s] \in 0..MaxEntries
    BY DEF IInv, Numbers
  <2> QED
    BY <2>1
<1> QED
  BY <1>1, Inductive, PTL

-----------------------------------------------------------------------------
(* A filtered queue is a queue: what Without leaves are signals that were in it. *)
LEMMA Least ==
  ASSUME NEW T, T \subseteq Nat, T # {}
  PROVE  \E n \in T : \A m \in T : n <= m
<1>1. IsWellFoundedOn(OpToRel(<, Nat), Nat)
  BY NatLessThanWellFounded
<1>2. PICK n \in T : \A m \in T : ~(<<m, n>> \in OpToRel(<, Nat))
  BY <1>1, WFMin
<1>3. ASSUME NEW m \in T, m < n PROVE <<m, n>> \in OpToRel(<, Nat)
  BY <1>3 DEF OpToRel
<1>4. \A m \in T : ~(m < n)
  BY <1>2, <1>3, Zenon
<1> QED
  BY <1>4

(* Among the indices that stay there is one of each rank. *)
LEMMA Ranked ==
  ASSUME NEW n \in Nat, NEW I, I \subseteq 1..n, NEW k \in 1..Cardinality(I)
  PROVE  \E i \in I : Cardinality({j \in I : j <= i}) = k
<1> DEFINE upTo(m) == {j \in I : j <= m}
           T == {m \in Nat : Cardinality(upTo(m)) >= k}
<1>0. \A j \in I : j \in Nat /\ 1 <= j /\ j <= n
  OBVIOUS
<1>1. IsFiniteSet(I) /\ Cardinality(I) \in Nat
  <2>1. IsFiniteSet(1..n)
    BY FS_Interval
  <2>2. IsFiniteSet(I)
    BY <2>1, FS_Subset
  <2> QED
    BY <2>2, FS_CardinalityType
<1>a. k \in Nat /\ 1 <= k /\ k <= Cardinality(I)
  BY <1>1
<1>2. ASSUME NEW m PROVE IsFiniteSet(upTo(m)) /\ Cardinality(upTo(m)) \in Nat
  <2>1. upTo(m) \subseteq I
    OBVIOUS
  <2>2. IsFiniteSet(upTo(m))
    BY <1>1, <2>1, FS_Subset
  <2> QED
    BY <2>2, FS_CardinalityType
<1>b. upTo(n) = I
  <2>1. \A j \in I : j <= n
    BY <1>0
  <2> QED
    BY <2>1, Zenon
<1>c. upTo(0) = {}
  <2>1. \A j \in I : ~(j <= 0)
    BY <1>0
  <2> QED
    BY <2>1, Zenon
<1>d. ASSUME NEW m \in Nat, m # 0, m \notin I PROVE upTo(m) = upTo(m - 1)
  <2>1. \A j \in I : j <= m <=> j <= m - 1
    BY <1>0, <1>d
  <2> QED
    BY <2>1, Zenon
<1>e. ASSUME NEW m \in Nat, m # 0, m \in I
      PROVE  upTo(m) = upTo(m - 1) \cup {m} /\ m \notin upTo(m - 1)
  <2>1. \A j \in I : j <= m <=> j <= m - 1 \/ j = m
    BY <1>0, <1>e
  <2>2. ~(m <= m - 1)
    BY <1>e
  <2>3. m <= m
    BY <1>e
  <2> QED
    BY <1>e, <2>1, <2>2, <2>3, Zenon
<1>f. Cardinality({}) = 0
  BY FS_EmptySet
<1> HIDE DEF upTo
<1>3. n \in T
  BY <1>a, <1>b
<1>4. PICK m \in T : \A l \in T : m <= l
  <2>1. T \subseteq Nat /\ T # {}
    BY <1>3
  <2> HIDE DEF T
  <2> QED
    BY <2>1, Least
<1>5. m \in Nat /\ Cardinality(upTo(m)) >= k
  BY <1>4
<1>6. m # 0
  BY <1>5, <1>a, <1>c, <1>f
<1>7. Cardinality(upTo(m - 1)) < k
  <2>1. m - 1 \in Nat /\ ~(m <= m - 1)
    BY <1>5, <1>6
  <2>2. m - 1 \notin T
    BY <1>4, <2>1
  <2>3. Cardinality(upTo(m - 1)) \in Nat
    BY <1>2
  <2> QED
    BY <1>a, <2>1, <2>2, <2>3
<1>8. m \in I
  <2> SUFFICES ASSUME m \notin I PROVE FALSE
    OBVIOUS
  <2>1. upTo(m) = upTo(m - 1)
    BY <1>5, <1>6, <1>d
  <2>2. Cardinality(upTo(m - 1)) \in Nat
    BY <1>2
  <2> QED
    BY <1>a, <1>5, <1>7, <2>1, <2>2
<1>9. Cardinality(upTo(m)) = Cardinality(upTo(m - 1)) + 1
  <2>1. upTo(m) = upTo(m - 1) \cup {m} /\ m \notin upTo(m - 1)
    BY <1>5, <1>6, <1>8, <1>e
  <2>2. IsFiniteSet(upTo(m - 1))
    BY <1>2
  <2>3. Cardinality(upTo(m - 1) \cup {m}) = Cardinality(upTo(m - 1)) + 1
    BY <2>1, <2>2, FS_AddElement
  <2> QED
    BY <2>1, <2>3
<1>g. Cardinality(upTo(m - 1)) \in Nat
  BY <1>2
<1>h. Cardinality(upTo(m)) = k
  BY <1>a, <1>5, <1>7, <1>9, <1>g
<1> QED
  BY <1>8, <1>h DEF upTo

LEMMA Selected ==
  ASSUME NEW S, NEW s \in Seq(S), NEW I, I \subseteq DOMAIN s
  PROVE  AtIndices(s, I) \in Seq(S)
<1>1. DOMAIN s = 1..Len(s) /\ Len(s) \in Nat
  OBVIOUS
<1>2. IsFiniteSet(I) /\ Cardinality(I) \in Nat
  <2>1. IsFiniteSet(1..Len(s))
    BY <1>1, FS_Interval
  <2>2. IsFiniteSet(I)
    BY <1>1, <2>1, FS_Subset
  <2> QED
    BY <2>2, FS_CardinalityType
<1>3. ASSUME NEW k \in 1..Cardinality(I)
      PROVE  s[CHOOSE i \in I : Cardinality({j \in I : j <= i}) = k] \in S
  <2>1. \E i \in I : Cardinality({j \in I : j <= i}) = k
    BY <1>1, Ranked
  <2>2. (CHOOSE i \in I : Cardinality({j \in I : j <= i}) = k) \in I
    BY <2>1
  <2> QED
    BY <1>1, <2>2
<1>4. AtIndices(s, I) \in [1..Cardinality(I) -> S]
  BY <1>3 DEF AtIndices
<1> QED
  BY <1>2, <1>4

LEMMA WithoutTyped ==
  ASSUME NEW queue \in Seq(Signal), NEW s
  PROVE  Without(queue, s) \in Seq(Signal)
  BY Selected DEF Without, Where

(* The type invariant, with what a copy of the released queue holds. *)
LEMMA InitTyped == Init => TypeOK
<1> SUFFICES ASSUME Init PROVE TypeOK
  OBVIOUS
<1>1. << >> \in Seq(Signal)
  OBVIOUS
<1>2. order \in Order \cup {NoOrder}
  BY DEF Init
<1>3. purge \in [sym : Symbols, seen : Seq(Signal)] \cup {NoPurge}
  BY DEF Init
<1>4. exits \in 0..MaxExits /\ surprises \in 0..MaxSurprises
  BY GateAssumption DEF Init
<1> QED
  BY <1>1, <1>2, <1>3, <1>4 DEF Init, TypeOK, Queued

LEMMA RealizedTyped ==
  ASSUME TypeOK, NEW s \in Symbols, NEW cools, Realized(s, cools)
  PROVE  cooling' \subseteq Symbols /\ losers' \subseteq Symbols /\ tripped' \in BOOLEAN
  BY DEF TypeOK, Realized

LEMMA CancelTyped ==
  ASSUME TypeOK, NEW s \in Symbols, Cancel(s)
  PROVE  timer' \in [Symbols -> {"none", "entry", "add"}] /\ old' \subseteq Queued'
  BY DEF TypeOK, Cancel, Queued

LEMMA RecordExitTyped ==
  ASSUME TypeOK, NEW s \in Symbols, NEW cools, RecordExit(s, cools), at' = at,
         held' \in [Symbols -> {"none", "plain", "scalp"}], exited' \subseteq Symbols,
         scalpOpen' \in BOOLEAN
  PROVE  TypeOK'
<1>1. cooling' \subseteq Symbols /\ losers' \subseteq Symbols /\ tripped' \in BOOLEAN
  BY RealizedTyped DEF RecordExit
<1>2. timer' \in [Symbols -> {"none", "entry", "add"}] /\ old' \subseteq Queued'
  BY CancelTyped DEF RecordExit
<1>3. ready' \in Seq(Signal)
  BY WithoutTyped DEF RecordExit, TypeOK
<1>4. exits' \in 0..MaxExits
  BY GateAssumption DEF RecordExit, TypeOK
<1> QED
  BY <1>1, <1>2, <1>3, <1>4 DEF RecordExit, TypeOK, sweep

LEMMA MovesTyped ==
  ASSUME TypeOK, NEW from, NEW to, Moves(from, to),
         to \in {"drain", "exits", "timed", "late", "poll", "cycle"}
  PROVE  TypeOK'
  BY DEF TypeOK, Moves, Queued, queues, sweep, gates, scalps, counts, book

LEMMA SignalTyped ==
  ASSUME TypeOK, NEW s \in Symbols, timer[s] # "none"
  PROVE  [sym |-> s, kind |-> timer[s]] \in Signal
  BY DEF TypeOK, Signal

LEMMA EventsTyped == TypeOK /\ Events => TypeOK'
<1> SUFFICES ASSUME TypeOK, Events PROVE TypeOK'
  OBVIOUS
<1> USE DEF loop, queues, sweep, gates, scalps, counts, book
<1>1. ASSUME NEW s \in Symbols, Alert(s) PROVE TypeOK'
  BY <1>1 DEF Alert, TypeOK, Queued
<1>2. ASSUME NEW s \in Symbols, BarReleases(s) PROVE TypeOK'
  <2>1. timer' \in [Symbols -> {"none", "entry", "add"}] /\ old' \subseteq Queued'
    BY <1>2, CancelTyped DEF BarReleases
  <2>2. ready' \in Seq(Signal)
    BY <1>2, SignalTyped DEF BarReleases, TypeOK
  <2> QED
    BY <1>2, <2>1, <2>2 DEF BarReleases, TypeOK
<1>3. ASSUME NEW s \in Symbols, BarCancels(s) PROVE TypeOK'
  BY <1>3, CancelTyped DEF BarCancels, TypeOK
<1>4. ASSUME NEW s \in Symbols, InstantExit(s) PROVE TypeOK'
  BY <1>4, RecordExitTyped DEF InstantExit, TypeOK
<1>5. CASE DrainEnds
  BY <1>5, MovesTyped DEF DrainEnds
<1> QED
  BY <1>1, <1>2, <1>3, <1>4, <1>5 DEF Events

LEMMA ExitsTyped == TypeOK /\ Exits => TypeOK'
<1> SUFFICES ASSUME TypeOK, Exits PROVE TypeOK'
  OBVIOUS
<1>1. ASSUME NEW s \in Symbols, NEW all \in BOOLEAN, FastExit(s, all) PROVE TypeOK'
  BY <1>1, RecordExitTyped DEF FastExit, TypeOK
<1>2. CASE ExitsEnd
  BY <1>2, MovesTyped DEF ExitsEnd
<1> QED
  BY <1>1, <1>2 DEF Exits

LEMMA OrdersTyped == TypeOK /\ (OrderFills \/ OrderMisses) => TypeOK'
<1> SUFFICES ASSUME TypeOK, OrderFills \/ OrderMisses PROVE TypeOK'
  OBVIOUS
<1> USE DEF loop, queues, sweep, gates, scalps, counts, book
<1>1. CASE OrderFills
  <2>1. order \in Order
    BY <1>1 DEF OrderFills, Idle, TypeOK
  <2>2. /\ order.sym \in Symbols
        /\ entries' \in [Symbols -> Nat]
        /\ sinceTrip' \in Nat
    BY <1>1, <2>1 DEF OrderFills, TypeOK, Order
  <2>3. /\ held' \in [Symbols -> {"none", "plain", "scalp"}]
        /\ scalpOpen' \in BOOLEAN /\ scalpCooling' \subseteq Symbols
        /\ at' = at \/ at' = "poll"
    BY <1>1, <2>2 DEF OrderFills, TypeOK
  <2> QED
    BY <1>1, <2>2, <2>3 DEF OrderFills, TypeOK, Queued
<1>2. CASE OrderMisses
  <2>1. order \in Order
    BY <1>2 DEF OrderMisses, Idle, TypeOK
  <2>2. [sym |-> order.sym, via |-> order.via, hot |-> FALSE] \in Order
    BY <2>1 DEF Order
  <2>3. order' \in Order \cup {NoOrder}
    BY <1>2, <2>2 DEF OrderMisses
  <2> QED
    BY <1>2, <2>3 DEF OrderMisses, TypeOK, Queued
<1> QED
  BY <1>1, <1>2

LEMMA ExecuteTyped ==
  ASSUME NEW sig \in Signal, ExecuteTimed(sig)
  PROVE  order' \in Order \cup {NoOrder}
<1>1. \A via \in {"entry", "add"}, hot \in BOOLEAN :
        [sym |-> sig.sym, via |-> via, hot |-> hot] \in Order
  BY DEF Signal, Order
<1> QED
  BY <1>1 DEF ExecuteTimed

LEMMA TimedTyped == TypeOK /\ Timed => TypeOK'
<1> SUFFICES ASSUME TypeOK, Timed PROVE TypeOK'
  OBVIOUS
<1> USE DEF loop, queues, sweep, gates, scalps, counts, book
<1>1. CASE TakeReady
  <2>1. Head(ready) \in Signal /\ ready' \in Seq(Signal)
    BY <1>1 DEF TakeReady, TypeOK
  <2>2. order' \in Order \cup {NoOrder}
    BY <1>1, <2>1, ExecuteTyped DEF TakeReady
  <2> QED
    BY <1>1, <2>1, <2>2 DEF TakeReady, TypeOK, Queued
<1>2. CASE StartSweep
  BY <1>2 DEF StartSweep, TypeOK, Queued
<1>3. CASE SweepEnds
  BY <1>3, MovesTyped DEF SweepEnds
<1>4. CASE TakeLate
  <2>1. order' \in Order \cup {NoOrder} /\ late' \subseteq Signal
    BY <1>4, ExecuteTyped DEF TakeLate, TypeOK
  <2> QED
    BY <1>4, <2>1 DEF TakeLate, TypeOK, Queued
<1>5. CASE LateEnds
  BY <1>5 DEF LateEnds, TypeOK, Queued
<1>6. ASSUME NEW s \in Symbols, SweepSymbol(s) PROVE TypeOK'
  <2>1. CASE timer[s] = "none"
    BY <1>6, <2>1 DEF SweepSymbol, TypeOK, Queued
  <2>2. CASE timer[s] # "none" /\ s \in old
    <3>1. timer' \in [Symbols -> {"none", "entry", "add"}] /\ old' \subseteq Queued'
      BY <1>6, <2>2, CancelTyped DEF SweepSymbol
    <3>2. late' \subseteq Signal
      BY <1>6, <2>2, SignalTyped DEF SweepSymbol, TypeOK
    <3> QED
      BY <1>6, <2>2, <3>1, <3>2 DEF SweepSymbol, TypeOK
  <2>3. CASE timer[s] # "none" /\ s \notin old
    BY <1>6, <2>3 DEF SweepSymbol, TypeOK, Queued
  <2> QED
    BY <2>1, <2>2, <2>3
<1> QED
  BY <1>1, <1>2, <1>3, <1>4, <1>5, <1>6 DEF Timed

LEMMA ScalpsTyped == TypeOK /\ Scalps => TypeOK'
<1> SUFFICES ASSUME TypeOK, Scalps PROVE TypeOK'
  OBVIOUS
<1>1. ASSUME NEW s \in Symbols, TakeAlert(s) PROVE TypeOK'
  <2>1. [sym |-> s, via |-> "scalp", hot |-> FALSE] \in Order
    BY DEF Order
  <2>2. order' \in Order \cup {NoOrder}
    BY <1>1, <2>1 DEF TakeAlert
  <2> QED
    BY <1>1, <2>2 DEF TakeAlert, TypeOK, Queued, queues, sweep, gates, counts, book
<1>2. CASE ScalpsEnd
  BY <1>2, MovesTyped DEF ScalpsEnd
<1> QED
  BY <1>1, <1>2 DEF Scalps

LEMMA CycleTyped == TypeOK /\ Cycle => TypeOK'
<1> SUFFICES ASSUME TypeOK, Cycle PROVE TypeOK'
  OBVIOUS
<1>1. CASE CycleWaits \/ CycleStarts
  BY <1>1, MovesTyped DEF CycleWaits, CycleStarts
<1>2. ASSUME NEW s \in Symbols, NEW all \in BOOLEAN, CycleExit(s, all) PROVE TypeOK'
  BY <1>2, RecordExitTyped DEF CycleExit, TypeOK
<1>3. CASE Defer
  <2>1. timer' \in [Symbols -> {"none", "entry", "add"}]
    BY <1>3 DEF Defer, TypeOK
  <2>2. Queued \subseteq Queued'
    BY <1>3 DEF Defer, Queued
  <2> QED
    BY <1>3, <2>1, <2>2 DEF Defer, TypeOK, sweep, gates, scalps, counts, book
<1> QED
  BY <1>1, <1>2, <1>3 DEF Cycle

LEMMA SyncTyped == TypeOK /\ Sync => TypeOK'
<1> SUFFICES ASSUME TypeOK, Sync PROVE TypeOK'
  OBVIOUS
<1> USE DEF loop, queues, sweep, gates, scalps, counts, book
<1>1. CASE SyncPurges
  <2>1. purge.seen \in Seq(Signal) /\ purge.sym \in Symbols
    BY <1>1 DEF SyncPurges, TypeOK
  <2>2. ready' \in Seq(Signal) /\ held' \in [Symbols -> {"none", "plain", "scalp"}]
    BY <1>1, <2>1, WithoutTyped DEF SyncPurges, TypeOK
  <2> QED
    BY <1>1, <2>2 DEF SyncPurges, TypeOK, Queued
<1>2. CASE SyncAborts
  BY <1>2 DEF SyncAborts, TypeOK, Queued
<1>3. ASSUME NEW s \in Symbols, SyncExit(s) PROVE TypeOK'
  <2>1. cooling' \subseteq Symbols /\ losers' \subseteq Symbols /\ tripped' \in BOOLEAN
    BY <1>3, RealizedTyped DEF SyncExit
  <2>2. timer' \in [Symbols -> {"none", "entry", "add"}] /\ old' \subseteq Queued'
    BY <1>3, CancelTyped DEF SyncExit
  <2>3. exits' \in 0..MaxExits /\ purge' \in [sym : Symbols, seen : Seq(Signal)]
    BY <1>3, GateAssumption DEF SyncExit, TypeOK
  <2> QED
    BY <1>3, <2>1, <2>2, <2>3 DEF SyncExit, TypeOK
<1>4. ASSUME NEW s \in Symbols, Surprise(s) PROVE TypeOK'
  <2>1. surprises' \in 0..MaxSurprises /\ held' \in [Symbols -> {"none", "plain", "scalp"}]
    BY <1>4, GateAssumption DEF Surprise, TypeOK
  <2> QED
    BY <1>4, <2>1 DEF Surprise, TypeOK, Queued
<1> QED
  BY <1>1, <1>2, <1>3, <1>4 DEF Sync

LEMMA TimeTyped == TypeOK /\ Time => TypeOK'
<1> SUFFICES ASSUME TypeOK, NEW s \in Symbols,
                    CoolingEnds(s) \/ ScalpCoolingEnds(s) \/ WaitEnds(s)
             PROVE  TypeOK'
  BY DEF Time
<1> USE DEF loop, queues, sweep, gates, scalps, counts, book
<1>1. CASE CoolingEnds(s)
  BY <1>1 DEF CoolingEnds, TypeOK, Queued
<1>2. CASE ScalpCoolingEnds(s)
  BY <1>2 DEF ScalpCoolingEnds, TypeOK, Queued
<1>3. CASE WaitEnds(s)
  BY <1>3 DEF WaitEnds, TypeOK, Queued
<1> QED
  BY <1>1, <1>2, <1>3

(* Whatever the threads do, a signal that waits longer than the timer gives it *)
(* is one the timer holds, and the released queue that the sync thread rebuilds *)
(* from its copy is a queue of signals (ExecutionTimer, _record_trade_exit).    *)
THEOREM Typed == Spec => []TypeOK
<1>1. TypeOK /\ [Next]_vars => TypeOK'
  <2> SUFFICES ASSUME TypeOK, [Next]_vars PROVE TypeOK'
    OBVIOUS
  <2>1. CASE UNCHANGED vars
    BY <2>1 DEF vars, loop, queues, sweep, gates, scalps, counts, book, TypeOK, Queued
  <2> QED
    BY <2>1, EventsTyped, ExitsTyped, OrdersTyped, TimedTyped, ScalpsTyped, CycleTyped,
       SyncTyped, TimeTyped DEF Next
<1> QED
  BY <1>1, InitTyped, PTL DEF Spec, Safety

-----------------------------------------------------------------------------
(* Counting: least elements, functions defined step by step. *)

LEMMA Greatest ==
  ASSUME NEW n \in Nat, NEW T, T \subseteq 0..n, T # {}
  PROVE  \E k \in T : \A m \in T : m <= k
<1> DEFINE U == {n - k : k \in T}
<1>1. U \subseteq Nat /\ U # {}
  <2>1. \A k \in T : n - k \in Nat
    OBVIOUS
  <2> QED
    BY <2>1
<1>2. PICK u \in U : \A m \in U : u <= m
  <2> HIDE DEF U
  <2> QED
    BY <1>1, Least
<1>3. PICK k \in T : u = n - k
  OBVIOUS
<1>4. ASSUME NEW m \in T PROVE m <= k
  <2>1. n - m \in U
    OBVIOUS
  <2>2. u <= n - m
    BY <1>2, <2>1
  <2> QED
    BY <1>3, <2>2
<1> QED
  BY <1>4

(* What holds at 0 and is carried on by every step holds up to n. *)
LEMMA Climbs ==
  ASSUME NEW n \in Nat, NEW good,
         0 \in good, \A i \in 1..n : i - 1 \in good => i \in good
  PROVE  \A i \in 0..n : i \in good
<1> SUFFICES ASSUME NEW bad \in 0..n, bad \notin good PROVE FALSE
  OBVIOUS
<1> DEFINE T == {i \in 0..n : i \notin good}
<1>1. T \subseteq Nat /\ T # {}
  OBVIOUS
<1>2. PICK i \in T : \A j \in T : i <= j
  <2> HIDE DEF T
  <2> QED
    BY <1>1, Least
<1>3. i \in 1..n /\ i - 1 \in 0..n /\ ~(i <= i - 1)
  BY <1>2
<1>4. i - 1 \in good
  BY <1>2, <1>3
<1> QED
  BY <1>2, <1>3, <1>4

(* A definition by recursion on 0..n has a value. *)
LEMMA Recursion ==
  ASSUME NEW V, NEW z \in V, NEW n \in Nat, NEW step \in [1..n -> [V -> V]]
  PROVE  \E g \in [0..n -> V] : g[0] = z /\ \A i \in 1..n : g[i] = step[i][g[i - 1]]
<1> DEFINE good == {m \in 0..n : \E g \in [0..m -> V] :
                      g[0] = z /\ \A i \in 1..m : g[i] = step[i][g[i - 1]]}
<1>1. 0 \in good
  <2> DEFINE g == [i \in 0..0 |-> z]
  <2>1. g \in [0..0 -> V] /\ g[0] = z /\ \A i \in 1..0 : g[i] = step[i][g[i - 1]]
    OBVIOUS
  <2>2. 0 \in 0..n
    OBVIOUS
  <2> HIDE DEF g
  <2> QED
    BY <2>1, <2>2
<1>2. ASSUME NEW m \in 1..n, m - 1 \in good PROVE m \in good
  <2>1. PICK g \in [0..m - 1 -> V] :
          g[0] = z /\ \A i \in 1..m - 1 : g[i] = step[i][g[i - 1]]
    BY <1>2
  <2> DEFINE h == [i \in 0..m |-> IF i = m THEN step[m][g[m - 1]] ELSE g[i]]
  <2>2. step[m][g[m - 1]] \in V
    OBVIOUS
  <2>3. h \in [0..m -> V]
    BY <2>2
  <2>4. h[0] = z
    BY <2>1
  <2>5. ASSUME NEW i \in 1..m PROVE h[i] = step[i][h[i - 1]]
    BY <2>1
  <2>6. m \in 0..n
    OBVIOUS
  <2> HIDE DEF h
  <2> QED
    BY <2>3, <2>4, <2>5, <2>6
<1>3. n \in good
  <2>1. n \in 0..n
    OBVIOUS
  <2> HIDE DEF good
  <2> QED
    BY <1>1, <1>2, <2>1, Climbs
<1> QED
  BY <1>3

-----------------------------------------------------------------------------
(* Bars and tapes. *)

Price == Nat \ {0}
Minute == {b \in [o : Price, h : Price, l : Price, c : Price, v : Nat] :
             b.l <= b.o /\ b.o <= b.h /\ b.l <= b.c /\ b.c <= b.h}
Tape == Seq(Minute)

LEMMA TotalTyped ==
  ASSUME NEW s \in Tape
  PROVE  Total(s) \in Nat
<1> DEFINE n == Len(s)
           body(f) == [i \in 0..n |-> IF i = 0 THEN 0 ELSE f[i - 1] + s[i].v]
           F == CHOOSE f : f = body(f)
           V == Nat
           step == [i \in 1..n |-> [x \in V |-> x + s[i].v]]
           good == {j \in 0..n : F[j] \in V}
<1>1. n \in Nat /\ 0 \in V /\ \A i \in 1..n : s[i].v \in Nat
  <2>1. n \in Nat /\ \A i \in 1..n : s[i] \in Minute
    BY DEF Tape
  <2> QED
    BY <2>1 DEF Minute
<1>2. step \in [1..n -> [V -> V]]
  BY <1>1
<1>3. PICK g \in [0..n -> V] : g[0] = 0 /\ \A i \in 1..n : g[i] = step[i][g[i - 1]]
  <2>1. n \in Nat /\ 0 \in V /\ step \in [1..n -> [V -> V]]
    BY <1>1, <1>2
  <2> HIDE DEF step, n, V
  <2>2. \E g \in [0..n -> V] : g[0] = 0 /\ \A i \in 1..n : g[i] = step[i][g[i - 1]]
    BY <2>1, Recursion
  <2> QED
    BY <2>2
<1>4. g = body(g)
  <2>1. ASSUME NEW i \in 1..n PROVE g[i] = g[i - 1] + s[i].v
    <3>1. i - 1 \in 0..n
      BY <1>1
    <3>2. g[i - 1] \in V /\ g[i] = step[i][g[i - 1]]
      <4> HIDE DEF V
      <4> QED
        BY <1>3, <3>1
    <3>3. step[i] = [x \in V |-> x + s[i].v]
      OBVIOUS
    <3> HIDE DEF step, n, V
    <3> QED
      BY <3>2, <3>3
  <2>2. ASSUME NEW i \in 0..n
        PROVE  g[i] = IF i = 0 THEN 0 ELSE g[i - 1] + s[i].v
    <3>1. i = 0 \/ i \in 1..n
      BY <1>1
    <3> HIDE DEF n, step, V
    <3> QED
      BY <1>3, <2>1, <3>1
  <2>3. g = [i \in 0..n |-> g[i]]
    <3> HIDE DEF n, step, V
    <3> QED
      BY <1>3
  <2> HIDE DEF step, n, V
  <2> QED
    BY <2>2, <2>3
<1>5. F = body(F)
  <2> HIDE DEF body
  <2> QED
    BY <1>4
<1> HIDE DEF F
<1>6. 0 \in good
  BY <1>1, <1>5
<1>7. ASSUME NEW i \in 1..n, i - 1 \in good PROVE i \in good
  BY <1>1, <1>5, <1>7
<1>8. n \in good
  <2>1. n \in 0..n
    BY <1>1
  <2> HIDE DEF good, n
  <2> QED
    BY <1>1, <1>6, <1>7, <2>1, Climbs
<1> QED
  BY <1>8 DEF Total, F

LEMMA Weighed == \A h, l, c, v \in Nat : (h + l + c) * v \in Nat
OBVIOUS

LEMMA VwapTyped ==
  ASSUME NEW s \in Tape
  PROVE  Vwap(s) \in Nat
<1> DEFINE n == Len(s)
           body(f) == [i \in 0..n |-> IF i = 0 THEN 0 ELSE f[i - 1] + (s[i].h + s[i].l +
                       s[i].c) * s[i].v]
           F == CHOOSE f : f = body(f)
           V == Nat
           step == [i \in 1..n |-> [x \in V |-> x + (s[i].h + s[i].l + s[i].c) * s[i].v]]
           good == {j \in 0..n : F[j] \in V}
<1>1. n \in Nat /\ 0 \in V /\ \A i \in 1..n : (s[i].h + s[i].l + s[i].c) * s[i].v \in Nat
  <2>1. n \in Nat /\ \A i \in 1..n : s[i] \in Minute
    BY DEF Tape
  <2>2. ASSUME NEW i \in 1..n
        PROVE  (s[i].h + s[i].l + s[i].c) * s[i].v \in Nat
    <3>1. s[i].h \in Nat /\ s[i].l \in Nat /\ s[i].c \in Nat /\ s[i].v \in Nat
      BY <2>1, <2>2 DEF Minute, Price
    <3> QED
      BY <3>1, Weighed
  <2> QED
    BY <2>1, <2>2
<1>2. step \in [1..n -> [V -> V]]
  BY <1>1
<1>3. PICK g \in [0..n -> V] : g[0] = 0 /\ \A i \in 1..n : g[i] = step[i][g[i - 1]]
  <2>1. n \in Nat /\ 0 \in V /\ step \in [1..n -> [V -> V]]
    BY <1>1, <1>2
  <2> HIDE DEF step, n, V
  <2>2. \E g \in [0..n -> V] : g[0] = 0 /\ \A i \in 1..n : g[i] = step[i][g[i - 1]]
    BY <2>1, Recursion
  <2> QED
    BY <2>2
<1>4. g = body(g)
  <2>1. ASSUME NEW i \in 1..n PROVE g[i] = g[i - 1] + (s[i].h + s[i].l + s[i].c) * s[i].v
    <3>1. i - 1 \in 0..n
      BY <1>1
    <3>2. g[i - 1] \in V /\ g[i] = step[i][g[i - 1]]
      <4> HIDE DEF V
      <4> QED
        BY <1>3, <3>1
    <3>3. step[i] = [x \in V |-> x + (s[i].h + s[i].l + s[i].c) * s[i].v]
      OBVIOUS
    <3> HIDE DEF step, n, V
    <3> QED
      BY <3>2, <3>3
  <2>2. ASSUME NEW i \in 0..n
        PROVE  g[i] = IF i = 0 THEN 0 ELSE g[i - 1] + (s[i].h + s[i].l + s[i].c) * s[i].v
    <3>1. i = 0 \/ i \in 1..n
      BY <1>1
    <3> HIDE DEF n, step, V
    <3> QED
      BY <1>3, <2>1, <3>1
  <2>3. g = [i \in 0..n |-> g[i]]
    <3> HIDE DEF n, step, V
    <3> QED
      BY <1>3
  <2> HIDE DEF step, n, V
  <2> QED
    BY <2>2, <2>3
<1>5. F = body(F)
  <2> HIDE DEF body
  <2> QED
    BY <1>4
<1> HIDE DEF F
<1>6. 0 \in good
  BY <1>1, <1>5
<1>7. ASSUME NEW i \in 1..n, i - 1 \in good PROVE i \in good
  <2> DEFINE turnover == (s[i].h + s[i].l + s[i].c) * s[i].v
  <2>1. turnover \in Nat
    BY <1>1
  <2>2. F[i] = F[i - 1] + turnover
    BY <1>1, <1>5
  <2> HIDE DEF turnover
  <2> QED
    BY <1>1, <1>7, <2>1, <2>2
<1>8. n \in good
  <2>1. n \in 0..n
    BY <1>1
  <2> HIDE DEF good, n
  <2> QED
    BY <1>1, <1>6, <1>7, <2>1, Climbs
<1>9. Total(s) \in Nat /\ F[n] \in Nat
  BY <1>8, TotalTyped
<1>10. Total(s) # 0 => F[n] \div (3 * Total(s)) \in Nat
  BY <1>9
<1> QED
  BY <1>10 DEF Vwap, F

(* The top of a tape is the high of one of its bars, and no bar is higher. *)
LEMMA TopAttained ==
  ASSUME NEW s \in Tape
  PROVE  /\ Top(s) \in Nat
         /\ \A j \in 1..Len(s) : s[j].h <= Top(s)
         /\ s # <<>> => Top(s) \in Price /\ \E j \in 1..Len(s) : s[j].h = Top(s)
<1> DEFINE n == Len(s)
           body(f) == [i \in 0..n |-> IF i = 0 THEN 0 ELSE AtLeast(f[i - 1], s[i].h)]
           F == CHOOSE f : f = body(f)
           V == Nat
           step == [i \in 1..n |-> [x \in V |-> AtLeast(x, s[i].h)]]
           good == {k \in 0..n : /\ F[k] \in V
                                 /\ \A j \in 1..k : s[j].h <= F[k]
                                 /\ k > 0 => \E j \in 1..k : s[j].h = F[k]}
<1>1. n \in Nat /\ 0 \in V /\ \A i \in 1..n : s[i].h \in Price /\ s[i].h \in Nat
  BY DEF Tape, Minute, Price
<1>2. step \in [1..n -> [V -> V]]
  BY <1>1 DEF AtLeast
<1>3. PICK g \in [0..n -> V] : g[0] = 0 /\ \A i \in 1..n : g[i] = step[i][g[i - 1]]
  <2>1. n \in Nat /\ 0 \in V /\ step \in [1..n -> [V -> V]]
    BY <1>1, <1>2
  <2> HIDE DEF step, n, V
  <2>2. \E g \in [0..n -> V] : g[0] = 0 /\ \A i \in 1..n : g[i] = step[i][g[i - 1]]
    BY <2>1, Recursion
  <2> QED
    BY <2>2
<1>4. g = body(g)
  <2>1. ASSUME NEW i \in 1..n PROVE g[i] = AtLeast(g[i - 1], s[i].h)
    <3>1. i - 1 \in 0..n
      BY <1>1
    <3>2. g[i - 1] \in V /\ g[i] = step[i][g[i - 1]]
      <4> HIDE DEF V
      <4> QED
        BY <1>3, <3>1
    <3>3. step[i] = [x \in V |-> AtLeast(x, s[i].h)]
      OBVIOUS
    <3> HIDE DEF step, n, V
    <3> QED
      BY <3>2, <3>3
  <2>2. ASSUME NEW i \in 0..n
        PROVE  g[i] = IF i = 0 THEN 0 ELSE AtLeast(g[i - 1], s[i].h)
    <3>1. i = 0 \/ i \in 1..n
      BY <1>1
    <3> HIDE DEF n, step, V
    <3> QED
      BY <1>3, <2>1, <3>1
  <2>3. g = [i \in 0..n |-> g[i]]
    <3> HIDE DEF n, step, V
    <3> QED
      BY <1>3
  <2> HIDE DEF step, n, V
  <2> QED
    BY <2>2, <2>3
<1>5. F = body(F)
  <2> HIDE DEF body
  <2> QED
    BY <1>4
<1> HIDE DEF F
<1>6. 0 \in good
  BY <1>1, <1>5
<1>7. ASSUME NEW i \in 1..n, i - 1 \in good PROVE i \in good
  <2>1. F[i] = AtLeast(F[i - 1], s[i].h)
    BY <1>1, <1>5
  <2>2. /\ F[i - 1] \in Nat
        /\ \A j \in 1..i - 1 : s[j].h <= F[i - 1]
        /\ i - 1 > 0 => \E j \in 1..i - 1 : s[j].h = F[i - 1]
    BY <1>7
  <2>3. s[i].h \in Nat /\ s[i].h > 0
    BY <1>1 DEF Price
  <2>4. F[i] \in V /\ F[i - 1] <= F[i] /\ s[i].h <= F[i]
    BY <2>1, <2>2, <2>3 DEF AtLeast
  <2>5. ASSUME NEW j \in 1..i PROVE s[j].h <= F[i]
    <3>1. j = i \/ j \in 1..i - 1
      OBVIOUS
    <3>2. s[j].h \in Nat
      BY <1>1
    <3> QED
      BY <2>2, <2>4, <3>1, <3>2
  <2>6. \E j \in 1..i : s[j].h = F[i]
    <3>1. CASE F[i] = s[i].h
      BY <3>1
    <3>2. CASE F[i] # s[i].h
      <4>1. F[i] = F[i - 1] /\ F[i - 1] > 0
        BY <2>1, <2>2, <2>3, <3>2 DEF AtLeast
      <4>2. i - 1 > 0
        BY <4>1, <1>5, <1>1
      <4> QED
        BY <2>2, <4>1, <4>2
    <3> QED
      BY <3>1, <3>2
  <2>7. i \in 0..n
    BY <1>1
  <2> HIDE DEF n, V
  <2> QED
    BY <2>4, <2>5, <2>6, <2>7
<1>8. n \in good
  <2>1. n \in 0..n
    BY <1>1
  <2> HIDE DEF good, n
  <2> QED
    BY <1>1, <1>6, <1>7, <2>1, Climbs
<1>9. Top(s) = F[n]
  BY DEF Top, F
<1>10. s # <<>> => n > 0
  BY <1>1 DEF Tape
<1>11. /\ F[n] \in V
       /\ \A j \in 1..n : s[j].h <= F[n]
       /\ n > 0 => \E j \in 1..n : s[j].h = F[n]
  BY <1>8
<1>12. ASSUME s # <<>>
       PROVE  Top(s) \in Price /\ \E j \in 1..n : s[j].h = Top(s)
  <2>1. PICK j \in 1..n : s[j].h = F[n]
    BY <1>10, <1>11, <1>12
  <2> HIDE DEF n
  <2> QED
    BY <1>1, <1>9, <2>1
<1>13. F[n] \in Nat /\ \A j \in 1..n : s[j].h <= F[n]
  BY <1>11
<1> QED
  BY <1>9, <1>12, <1>13

(* The bottom of a tape is the low of one of its bars, and no bar is lower. *)
LEMMA BottomAttained ==
  ASSUME NEW s \in Tape, s # <<>>
  PROVE  /\ Bottom(s) \in Price
         /\ \A j \in 1..Len(s) : Bottom(s) <= s[j].l
         /\ \E j \in 1..Len(s) : s[j].l = Bottom(s)
<1> DEFINE n == Len(s)
           body(f) == [i \in 1..n |-> IF i = 1 THEN s[1].l ELSE AtMost(f[i - 1], s[i].l)]
           F == CHOOSE f : f = body(f)
           V == Price
           step == [i \in 1..n - 1 |-> [x \in V |-> AtMost(x, s[i + 1].l)]]
           good == {k \in 0..n - 1 : /\ F[k + 1] \in V
                                     /\ \A j \in 1..k + 1 : F[k + 1] <= s[j].l
                                     /\ \E j \in 1..k + 1 : s[j].l = F[k + 1]}
<1>1. n \in Nat /\ n > 0 /\ n - 1 \in Nat /\ \A i \in 1..n : s[i].l \in Price
  BY DEF Tape, Minute
<1>2. step \in [1..n - 1 -> [V -> V]]
  <2>1. \A i \in 1..n - 1 : i + 1 \in 1..n
    BY <1>1
  <2>2. \A i \in 1..n - 1 : s[i + 1].l \in Price
    BY <1>1, <2>1
  <2> HIDE DEF n
  <2> QED
    BY <2>2 DEF AtMost, Price
<1>3. PICK g \in [0..n - 1 -> V] : g[0] = s[1].l /\ \A i \in 1..n - 1 : g[i] = step[i][g[i - 1]]
  <2> DEFINE m == n - 1
             z == s[1].l
  <2>1. m \in Nat /\ z \in V /\ step \in [1..m -> [V -> V]]
    BY <1>1, <1>2
  <2> HIDE DEF step, m, V, z
  <2>2. \E g \in [0..m -> V] : g[0] = z /\ \A i \in 1..m : g[i] = step[i][g[i - 1]]
    BY <2>1, Recursion
  <2> QED
    BY <2>2 DEF m, z
<1> DEFINE h == [i \in 1..n |-> g[i - 1]]
<1>4. h = body(h)
  <2>1. ASSUME NEW i \in 2..n PROVE h[i] = AtMost(h[i - 1], s[i].l)
    <3>1. /\ i - 1 \in 1..n - 1 /\ i - 2 \in 0..n - 1 /\ i \in 1..n /\ i - 1 \in 1..n
          /\ (i - 1) - 1 = i - 2 /\ (i - 1) + 1 = i
      BY <1>1
    <3>2. h[i] = g[i - 1] /\ h[i - 1] = g[i - 2]
      <4> HIDE DEF n
      <4> QED
        BY <3>1
    <3>3. g[i - 1] = step[i - 1][g[i - 2]] /\ g[i - 2] \in V
      <4> HIDE DEF V, step, n
      <4> QED
        BY <1>3, <3>1
    <3>4. step[i - 1] = [x \in V |-> AtMost(x, s[i].l)]
      <4> HIDE DEF V
      <4> QED
        BY <3>1
    <3>5. step[i - 1][g[i - 2]] = AtMost(g[i - 2], s[i].l)
      <4> HIDE DEF step, V
      <4> QED
        BY <3>3, <3>4
    <3> HIDE DEF step, n, V, h
    <3> QED
      BY <3>2, <3>3, <3>5
  <2>2. h[1] = s[1].l
    BY <1>1, <1>3
  <2>3. ASSUME NEW i \in 1..n
        PROVE  h[i] = IF i = 1 THEN s[1].l ELSE AtMost(h[i - 1], s[i].l)
    <3>1. i = 1 \/ i \in 2..n
      BY <1>1
    <3> HIDE DEF n, h
    <3> QED
      BY <2>1, <2>2, <3>1
  <2>4. h = [i \in 1..n |-> h[i]]
    OBVIOUS
  <2> HIDE DEF h, n
  <2> QED
    BY <2>3, <2>4
<1>5. F = body(F)
  <2> HIDE DEF body, h
  <2> QED
    BY <1>4
<1> HIDE DEF F
<1>6. 0 \in good
  <2>1. F[1] = s[1].l
    BY <1>1, <1>5
  <2>2. s[1].l \in Nat
    BY <1>1 DEF Price
  <2>3. 0 \in 0..n - 1 /\ 1..0 + 1 = {1} /\ 0 + 1 = 1
    BY <1>1
  <2>4. s[1].l \in V
    BY <1>1
  <2> HIDE DEF n, V
  <2> QED
    BY <2>1, <2>2, <2>3, <2>4
<1>7. ASSUME NEW i \in 1..n - 1, i - 1 \in good PROVE i \in good
  <2>1. i + 1 \in 1..n /\ (i - 1) + 1 = i /\ (i + 1) - 1 = i /\ i + 1 # 1 /\ i \in 0..n - 1
    BY <1>1
  <2>2. F[i + 1] = AtMost(F[i], s[i + 1].l)
    <3> HIDE DEF n
    <3> QED
      BY <1>5, <2>1
  <2>3. /\ F[i] \in Price
        /\ \A j \in 1..i : F[i] <= s[j].l
        /\ \E j \in 1..i : s[j].l = F[i]
    BY <1>7, <2>1
  <2>4. F[i] \in Nat /\ F[i] > 0 /\ s[i + 1].l \in Nat /\ s[i + 1].l > 0
    BY <1>1, <2>1, <2>3 DEF Price
  <2>5. F[i + 1] \in Price /\ F[i + 1] <= F[i] /\ F[i + 1] <= s[i + 1].l
    BY <2>2, <2>4 DEF AtMost, Price
  <2>6. ASSUME NEW j \in 1..i + 1 PROVE F[i + 1] <= s[j].l
    <3>1. j = i + 1 \/ j \in 1..i
      OBVIOUS
    <3>2. s[j].l \in Nat /\ F[i + 1] \in Nat
      BY <1>1, <2>5 DEF Price
    <3> QED
      BY <2>3, <2>4, <2>5, <3>1, <3>2
  <2>7. \E j \in 1..i + 1 : s[j].l = F[i + 1]
    <3>1. F[i + 1] = F[i] \/ F[i + 1] = s[i + 1].l
      BY <2>2 DEF AtMost
    <3>2. CASE F[i + 1] = F[i]
      BY <2>3, <3>2
    <3>3. CASE F[i + 1] = s[i + 1].l
      BY <3>3
    <3> QED
      BY <3>1, <3>2, <3>3
  <2>8. F[i + 1] \in V
    BY <2>5
  <2> HIDE DEF n, V
  <2> QED
    BY <2>1, <2>6, <2>7, <2>8
<1>8. n - 1 \in good
  <2>1. n - 1 \in 0..n - 1
    BY <1>1
  <2> HIDE DEF good, n
  <2> QED
    BY <1>1, <1>6, <1>7, <2>1, Climbs
<1>9. Bottom(s) = F[n]
  BY DEF Bottom, F
<1>10. /\ F[n] \in V
       /\ \A j \in 1..n : F[n] <= s[j].l
       /\ \E j \in 1..n : s[j].l = F[n]
  <2>1. (n - 1) + 1 = n
    BY <1>1
  <2> HIDE DEF n
  <2> QED
    BY <1>8, <2>1
<1> QED
  BY <1>9, <1>10

LEMMA TopsLast ==
  ASSUME NEW s \in Tape, s # <<>>
  PROVE  LastTopAt(s) \in 1..Len(s)
<1> DEFINE n == Len(s)
           T == {i \in 1..n : s[i].h = Top(s)}
<1>1. n \in Nat /\ T \subseteq 0..n
  BY DEF Tape
<1> \A j \in 1..n : s[j].h \in Nat
  BY DEF Tape, Minute, Price
<1>2. T # {}
  BY TopAttained
<1>3. PICK k \in T : \A m \in T : m <= k
  <2> HIDE DEF T, n
  <2> QED
    BY <1>1, <1>2, Greatest
<1>4. ASSUME NEW j \in k + 1..n PROVE s[j].h < Top(s)
  <2>1. j \in 1..n /\ ~(j <= k)
    BY <1>1
  <2>2. s[j].h <= Top(s) /\ Top(s) \in Nat
    BY <2>1, TopAttained
  <2>3. j \notin T
    BY <1>3, <2>1
  <2>4. s[j].h \in Nat
    BY <2>1
  <2> QED
    BY <2>1, <2>2, <2>3, <2>4
<1>5. k \in 1..n /\ s[k].h = Top(s) /\ \A j \in k + 1..n : s[j].h < Top(s)
  BY <1>4
<1> QED
  BY <1>5 DEF LastTopAt

LEMMA BottomsFirst ==
  ASSUME NEW s \in Tape, s # <<>>
  PROVE  BottomAt(s) \in 1..Len(s)
<1> DEFINE n == Len(s)
           T == {i \in 1..n : s[i].l = Bottom(s)}
<1>1. n \in Nat /\ T \subseteq Nat
  BY DEF Tape
<1> \A j \in 1..n : s[j].l \in Nat
  BY DEF Tape, Minute, Price
<1>2. T # {}
  BY BottomAttained
<1>3. PICK k \in T : \A m \in T : k <= m
  <2> HIDE DEF T
  <2> QED
    BY <1>1, <1>2, Least
<1>4. ASSUME NEW j \in 1..k - 1 PROVE s[j].l > s[k].l
  <2>1. j \in 1..n /\ ~(k <= j)
    BY <1>1
  <2>2. Bottom(s) <= s[j].l /\ Bottom(s) \in Nat /\ s[k].l = Bottom(s)
    BY <2>1, BottomAttained DEF Price
  <2>3. s[j].l # Bottom(s)
    BY <1>3, <2>1
  <2>4. s[j].l \in Nat
    BY <2>1
  <2> QED
    BY <2>2, <2>3, <2>4
<1>5. k \in 1..n /\ s[k].l = Bottom(s) /\ \A j \in 1..k - 1 : s[j].l > s[k].l
  BY <1>4
<1> QED
  BY <1>5 DEF BottomAt

(* Every part of a tape is a tape. *)
LEMMA Slice ==
  ASSUME NEW s \in Tape, NEW m \in Int, NEW n \in Int, m >= 1, n <= Len(s)
  PROVE  /\ SubSeq(s, m, n) \in Tape
         /\ Len(SubSeq(s, m, n)) = IF m <= n THEN n - m + 1 ELSE 0
<1>1. \A i \in m..n : s[i] \in Minute
  BY DEF Tape
<1> QED
  BY <1>1, SubSeqProperties DEF Tape

LEMMA LengthOf ==
  ASSUME NEW s \in Tape
  PROVE  Len(s) \in Nat /\ (s # <<>> <=> Len(s) > 0)
BY DEF Tape

LEMMA NewestBar ==
  ASSUME NEW s \in Tape, s # <<>>
  PROVE  Newest(s) \in Minute
BY DEF Newest, Tape

LEMMA FinalPart ==
  ASSUME NEW s \in Tape, NEW n \in Nat
  PROVE  Final(s, n) \in Tape /\ (n > 0 /\ s # <<>> => Final(s, n) # <<>>)
<1> DEFINE m == AtLeast(1, Len(s) - n + 1)
<1>1. Len(s) \in Nat /\ m \in Int /\ m >= 1 /\ (n > 0 /\ Len(s) > 0 => m <= Len(s))
  BY LengthOf DEF AtLeast
<1>2. /\ SubSeq(s, m, Len(s)) \in Tape
      /\ Len(SubSeq(s, m, Len(s))) = IF m <= Len(s) THEN Len(s) - m + 1 ELSE 0
  <2> HIDE DEF m
  <2> QED
    BY <1>1, Slice
<1>3. n > 0 /\ Len(s) > 0 => Len(SubSeq(s, m, Len(s))) > 0
  <2> HIDE DEF m
  <2> QED
    BY <1>1, <1>2
<1>4. Final(s, n) = SubSeq(s, m, Len(s))
  BY DEF Final
<1> HIDE DEF m
<1> QED
  BY <1>2, <1>3, <1>4, LengthOf

LEMMA BeforePart ==
  ASSUME NEW s \in Tape, s # <<>>
  PROVE  Before(s) \in Tape /\ Len(Before(s)) = Len(s) - 1
<1>1. Len(s) \in Nat /\ Len(s) > 0
  BY LengthOf
<1> QED
  BY <1>1, Slice DEF Before

LEMMA BasePart ==
  ASSUME NEW s \in Tape, Len(s) > 1, NEW n \in Nat, n > 0
  PROVE  Base(s, n) \in Tape /\ Base(s, n) # <<>>
<1>1. Len(s) \in Nat /\ s # <<>>
  BY LengthOf
<1>2. Before(s) \in Tape /\ Before(s) # <<>>
  BY <1>1, BeforePart, LengthOf
<1> QED
  BY <1>2, FinalPart DEF Base

LEMMA AfterTop ==
  ASSUME NEW s \in Tape, s # <<>>
  PROVE  SinceTop(s) \in Tape
<1>1. LastTopAt(s) + 1 \in Int /\ LastTopAt(s) + 1 >= 1 /\ Len(s) \in Nat
  BY TopsLast, LengthOf
<1> QED
  BY <1>1, Slice DEF SinceTop

LEMMA SinceLow ==
  ASSUME NEW s \in Tape, s # <<>>, NEW n \in Nat, n > 0
  PROVE  BaseSinceLow(s, n) \in Tape /\ BaseSinceLow(s, n) # <<>>
<1>1. BottomAt(s) \in 1..Len(s) /\ Len(s) \in Nat
  BY BottomsFirst, LengthOf
<1>2. SubSeq(s, BottomAt(s), Len(s)) \in Tape /\ Len(SubSeq(s, BottomAt(s), Len(s))) > 0
  BY <1>1, Slice
<1> QED
  BY <1>2, FinalPart, LengthOf DEF BaseSinceLow

(* Its top and its bottom are prices. *)
LEMMA Extremes ==
  ASSUME NEW s \in Tape, s # <<>>
  PROVE  Top(s) \in Price /\ Bottom(s) \in Price /\ Top(s) \in Int /\ Bottom(s) \in Int
BY TopAttained, BottomAttained DEF Price

-----------------------------------------------------------------------------
(* What a scanner finds is a hit whose levels are numbers. *)
Fields ==
  {"pattern", "score", "tier", "stop", "pullLow", "baseLow", "baseHigh", "level",
   "anchor", "vwap", "rally", "hod", "surge", "retrace", "told"}
IsHit(h) ==
  /\ \E T : h \in [Fields -> T]
  /\ h.stop \in Int /\ h.pullLow \in Int /\ h.baseLow \in Int
  /\ h.baseHigh \in Int /\ h.level \in Int

LEMMA NoHitIs == IsHit(NoHit)
<1>1. NoHit = [f \in Fields |-> NoHit[f]]
  BY DEF NoHit, Fields
<1>2. NoHit \in [Fields -> {NoHit[f] : f \in Fields}]
  BY <1>1
<1>3. \E T : NoHit \in [Fields -> T]
  BY <1>2
<1>4. /\ NoHit.stop \in Int /\ NoHit.pullLow \in Int /\ NoHit.baseLow \in Int
      /\ NoHit.baseHigh \in Int /\ NoHit.level \in Int
  BY DEF NoHit
<1> QED
  BY <1>3, <1>4 DEF IsHit

LEMMA vwap_pullback_hit ==
  ASSUME NEW t \in Tape
  PROVE  IsHit(vwap_pullback(t)) /\ (vwap_pullback(t) # NoHit => Len(t) >= 3)
<1> DEFINE low == AtMost(t[Len(t) - 1].l, Newest(t).l)
           vwap == Vwap(t)
           top == Top(t)
           rally == Pct(top, t[1].o)
           depth == Drop(top, t[Len(t) - 1].l)
           score == (rally * (1000 + depth)) \div 1000
           h == [NoHit EXCEPT !.pattern = "vwap_pullback", !.stop = low - 20,
                   !.pullLow = low, !.vwap = vwap, !.rally = rally, !.score = score]
           met ==
         /\ Len(t) >= 10
<1>1. vwap_pullback(t) = NoHit \/ (met /\ vwap_pullback(t) = h)
  BY DEF vwap_pullback
<1>2. ASSUME met PROVE IsHit(h) /\ Len(t) >= 3
  <2>1. Len(t) >= 10 /\ Len(t) \in Nat
    BY <1>2, LengthOf
  <2>2. t[Len(t) - 1].l \in Int /\ t[Len(t)].l \in Int
    <3>1. \A i \in 1..Len(t) : t[i].l \in Int
      BY DEF Tape, Minute, Price
    <3> QED
      BY <2>1, <3>1
  <2>3. low \in Int /\ low - 20 \in Int
    BY <2>2 DEF AtMost, Newest
  <2> HIDE DEF low, vwap, top, rally, depth, score
  <2>4. PICK T : NoHit \in [Fields -> T]
    BY NoHitIs DEF IsHit
  <2>5. h \in [Fields -> T \cup {"vwap_pullback", low - 20, low, vwap, rally, score}]
    BY <2>4 DEF Fields
  <2>6. /\ h.stop = low - 20
        /\ h.pullLow = low
        /\ h.baseLow = NoHit.baseLow
        /\ h.baseHigh = NoHit.baseHigh
        /\ h.level = NoHit.level
    BY <2>4 DEF Fields
  <2> HIDE DEF h
  <2>7. \E U : h \in [Fields -> U]
    BY <2>5
  <2>8. h.stop \in Int /\ h.pullLow \in Int /\ h.baseLow \in Int /\ h.baseHigh \in Int /\
        h.level \in Int
    BY <2>1, <2>2, <2>3, <2>6, NoHitIs DEF IsHit
  <2>9. IsHit(h)
    BY <2>7, <2>8 DEF IsHit
  <2> QED
    BY <2>1, <2>9
<1> HIDE DEF h, met
<1> QED
  BY <1>1, <1>2, NoHitIs

LEMMA hod_reclaim_hit ==
  ASSUME NEW t \in Tape
  PROVE  IsHit(hod_reclaim(t)) /\ (hod_reclaim(t) # NoHit => Len(t) >= 3)
<1> DEFINE prior == Before(t)
           hod == Top(prior)
           after == SinceTop(prior)
           low == Bottom(after)
           rally == Pct(hod, t[1].o)
           pull == Drop(hod, low)
           score == rally + pull + 5 * Pct(Newest(t).c, hod)
           h == [NoHit EXCEPT !.pattern = "hod_reclaim", !.stop = low - 20, !.pullLow = low,
                   !.rally = rally, !.hod = hod, !.score = score]
           met ==
         /\ Len(t) >= 10
         /\ Len(after) >= 2
<1>1. hod_reclaim(t) = NoHit \/ (met /\ hod_reclaim(t) = h)
  BY DEF hod_reclaim
<1>2. ASSUME met PROVE IsHit(h) /\ Len(t) >= 3
  <2>1. Len(t) >= 10 /\ Len(t) \in Nat /\ t # <<>> /\ Len(after) >= 2
    BY <1>2, LengthOf
  <2>2. prior \in Tape /\ prior # <<>>
    BY <2>1, BeforePart, LengthOf
  <2>3. after \in Tape /\ after # <<>>
    <3>1. after \in Tape
      BY <2>2, AfterTop
    <3> HIDE DEF after
    <3> QED
      BY <2>1, <3>1, LengthOf
  <2>4. low \in Int /\ low - 20 \in Int
    <3>1. low \in Int
      BY <2>3, Extremes
    <3> HIDE DEF low
    <3> QED
      BY <3>1
  <2> HIDE DEF prior, hod, after, low, rally, pull, score
  <2>5. PICK T : NoHit \in [Fields -> T]
    BY NoHitIs DEF IsHit
  <2>6. h \in [Fields -> T \cup {"hod_reclaim", low - 20, low, rally, hod, score}]
    BY <2>5 DEF Fields
  <2>7. /\ h.stop = low - 20
        /\ h.pullLow = low
        /\ h.baseLow = NoHit.baseLow
        /\ h.baseHigh = NoHit.baseHigh
        /\ h.level = NoHit.level
    BY <2>5 DEF Fields
  <2> HIDE DEF h
  <2>8. \E U : h \in [Fields -> U]
    BY <2>6
  <2>9. h.stop \in Int /\ h.pullLow \in Int /\ h.baseLow \in Int /\ h.baseHigh \in Int /\
        h.level \in Int
    BY <2>1, <2>2, <2>3, <2>4, <2>7, NoHitIs DEF IsHit
  <2>10. IsHit(h)
    BY <2>8, <2>9 DEF IsHit
  <2> QED
    BY <2>1, <2>10
<1> HIDE DEF h, met
<1> QED
  BY <1>1, <1>2, NoHitIs

LEMMA pullback_base_hit ==
  ASSUME NEW t \in Tape
  PROVE  IsHit(pullback_base(t)) /\ (pullback_base(t) # NoHit => Len(t) >= 3)
<1> DEFINE base == Final(t, 3)
           low == Bottom(base)
           move == Pct(Top(t), t[1].o)
           pull == Drop(Top(t), Newest(t).c)
           score == (move * (4000 - pull)) \div 1000
           tier == IF is_second_chance_vwap_reclaim(t) THEN "second_chance_reclaim" ELSE ""
           h == [NoHit EXCEPT !.pattern = "pullback_base", !.stop = low - 20,
                   !.baseLow = low, !.score = score, !.tier = tier]
           met ==
         /\ Len(t) >= 15
<1>1. pullback_base(t) = NoHit \/ (met /\ pullback_base(t) = h)
  BY DEF pullback_base
<1>2. ASSUME met PROVE IsHit(h) /\ Len(t) >= 3
  <2>1. Len(t) >= 15 /\ Len(t) \in Nat /\ t # <<>>
    BY <1>2, LengthOf
  <2>2. low \in Int /\ low - 20 \in Int
    <3>1. low \in Int
      BY <2>1, FinalPart, Extremes
    <3> HIDE DEF low
    <3> QED
      BY <3>1
  <2> HIDE DEF base, low, move, pull, score, tier
  <2>3. PICK T : NoHit \in [Fields -> T]
    BY NoHitIs DEF IsHit
  <2>4. h \in [Fields -> T \cup {"pullback_base", low - 20, low, score, tier}]
    BY <2>3 DEF Fields
  <2>5. /\ h.stop = low - 20
        /\ h.pullLow = NoHit.pullLow
        /\ h.baseLow = low
        /\ h.baseHigh = NoHit.baseHigh
        /\ h.level = NoHit.level
    BY <2>3 DEF Fields
  <2> HIDE DEF h
  <2>6. \E U : h \in [Fields -> U]
    BY <2>4
  <2>7. h.stop \in Int /\ h.pullLow \in Int /\ h.baseLow \in Int /\ h.baseHigh \in Int /\
        h.level \in Int
    BY <2>1, <2>2, <2>5, NoHitIs DEF IsHit
  <2>8. IsHit(h)
    BY <2>6, <2>7 DEF IsHit
  <2> QED
    BY <2>1, <2>8
<1> HIDE DEF h, met
<1> QED
  BY <1>1, <1>2, NoHitIs

LEMMA LeastPair ==
  ASSUME NEW T, T \subseteq Nat \X Nat, T # {}
  PROVE  \E p \in T : \A q \in T : p[1] < q[1] \/ (p[1] = q[1] /\ p[2] <= q[2])
<1> DEFINE U == {p[1] : p \in T}
<1>1. U \subseteq Nat /\ U # {}
  OBVIOUS
<1>2. PICK b \in U : \A m \in U : b <= m
  <2> HIDE DEF U
  <2> QED
    BY <1>1, Least
<1> DEFINE W == {p[2] : p \in {q \in T : q[1] = b}}
<1>3. W \subseteq Nat /\ W # {}
  OBVIOUS
<1>4. PICK a \in W : \A m \in W : a <= m
  <2> HIDE DEF W
  <2> QED
    BY <1>3, Least
<1>5. PICK p \in T : p[1] = b /\ p[2] = a
  OBVIOUS
<1>6. ASSUME NEW q \in T PROVE p[1] < q[1] \/ (p[1] = q[1] /\ p[2] <= q[2])
  <2>1. b <= q[1] /\ b \in Nat /\ q[1] \in Nat
    BY <1>1, <1>2
  <2>2. q[1] = b => a <= q[2]
    BY <1>4
  <2> QED
    BY <1>5, <2>1, <2>2
<1> QED
  BY <1>6

LEMMA abc_continuation_hit ==
  ASSUME NEW t \in Tape
  PROVE  IsHit(abc_continuation(t)) /\ (abc_continuation(t) # NoHit => Len(t) >= 3)
<1> DEFINE c == Newest(t)
           best == CHOOSE p \in AbcLegs(t) : \A q \in AbcLegs(t) :
                     p[1] < q[1] \/ (p[1] = q[1] /\ p[2] <= q[2])
           pull == BLeg(t, best[1])
           rise == ALeg(t, best[1], best[2])
           low == Bottom(pull)
           retrace == Retraced(rise, low)
           surge == Surge(c.v, pull)
           score == Times(Pct(Top(rise), Bottom(rise)), 10000 - retrace) + 2 * Pct(c.c, Top(pull))
           h == [NoHit EXCEPT !.pattern = "abc_continuation", !.pullLow = low,
                   !.surge = surge, !.retrace = retrace, !.score = score]
           met ==
         /\ Len(t) >= 10
         /\ AbcLegs(t) # {}
<1>1. abc_continuation(t) = NoHit \/ (met /\ abc_continuation(t) = h)
  BY DEF abc_continuation
<1>2. ASSUME met PROVE IsHit(h) /\ Len(t) >= 3
  <2>1. Len(t) >= 10 /\ Len(t) \in Nat /\ t # <<>> /\ AbcLegs(t) # {}
    BY <1>2, LengthOf
  <2>2. best \in AbcLegs(t)
    <3>1. AbcLegs(t) \subseteq Nat \X Nat
      <4>1. AbcLegs(t) \subseteq (2..8) \X (3..12)
        BY Zenon DEF AbcLegs
      <4>2. (2..8) \X (3..12) \subseteq Nat \X Nat
        OBVIOUS
      <4> QED
        BY <4>1, <4>2, Zenon
    <3> QED
      BY <2>1, <3>1, LeastPair
  <2>3. best[1] \in 2..8 /\ Len(t) - 1 - best[1] >= 3
    <3> HIDE DEF best
    <3> QED
      BY <2>2 DEF AbcLegs
  <2>4. pull \in Tape /\ pull # <<>>
    <3>1. Len(t) - best[1] \in Int /\ Len(t) - best[1] >= 1 /\ Len(t) - 1 \in Int /\
          Len(t) - 1 <= Len(t) /\ Len(t) - best[1] <= Len(t) - 1
      <4> HIDE DEF best
      <4> QED
        BY <2>1, <2>3
    <3>2. pull \in Tape /\ Len(pull) > 0
      <4> HIDE DEF best
      <4> QED
        BY <3>1, Slice DEF BLeg
    <3> HIDE DEF pull
    <3> QED
      BY <3>2, LengthOf
  <2>5. low \in Int
    <3> HIDE DEF pull
    <3> QED
      BY <2>4, Extremes
  <2> HIDE DEF c, best, pull, rise, low, retrace, surge, score
  <2>6. PICK T : NoHit \in [Fields -> T]
    BY NoHitIs DEF IsHit
  <2>7. h \in [Fields -> T \cup {"abc_continuation", low, surge, retrace, score}]
    BY <2>6 DEF Fields
  <2>8. /\ h.stop = NoHit.stop
        /\ h.pullLow = low
        /\ h.baseLow = NoHit.baseLow
        /\ h.baseHigh = NoHit.baseHigh
        /\ h.level = NoHit.level
    BY <2>6 DEF Fields
  <2> HIDE DEF h
  <2>9. \E U : h \in [Fields -> U]
    BY <2>7
  <2>10. h.stop \in Int /\ h.pullLow \in Int /\ h.baseLow \in Int /\ h.baseHigh \in Int /\
         h.level \in Int
    BY <2>1, <2>2, <2>3, <2>4, <2>5, <2>8, NoHitIs DEF IsHit
  <2>11. IsHit(h)
    BY <2>9, <2>10 DEF IsHit
  <2> QED
    BY <2>1, <2>11
<1> HIDE DEF h, met
<1> QED
  BY <1>1, <1>2, NoHitIs

LEMMA first_pullback_reclaim_hit ==
  ASSUME NEW t \in Tape
  PROVE  IsHit(first_pullback_reclaim(t)) /\ (first_pullback_reclaim(t) # NoHit => Len(t) >= 3)
<1> DEFINE prior == Before(t)
           impulse == Pct(Top(prior), t[1].o)
           after == SinceTop(prior)
           low == Bottom(after)
           pull == Drop(Top(prior), low)
           base == BaseSinceLow(after, 5)
           high == Top(base)
           under == Bottom(base)
           vwap == Vwap(t)
           score == Part(impulse, 80) + 2 * pull + 5 * Pct(Newest(t).c, high)
           h == [NoHit EXCEPT !.pattern = "first_pullback_reclaim", !.stop = under - 20,
                   !.pullLow = low, !.baseHigh = high, !.baseLow = under, !.vwap = vwap,
                     !.score = score]
           met ==
         /\ Len(t) >= 12
         /\ Len(after) >= 2
         /\ Len(base) >= 2
<1>1. first_pullback_reclaim(t) = NoHit \/ (met /\ first_pullback_reclaim(t) = h)
  BY DEF first_pullback_reclaim
<1>2. ASSUME met PROVE IsHit(h) /\ Len(t) >= 3
  <2>1. Len(t) >= 12 /\ Len(t) \in Nat /\ t # <<>> /\ Len(after) >= 2 /\ Len(base) >= 2
    BY <1>2, LengthOf
  <2>2. prior \in Tape /\ prior # <<>>
    BY <2>1, BeforePart, LengthOf
  <2>3. after \in Tape /\ after # <<>>
    <3>1. after \in Tape
      BY <2>2, AfterTop
    <3> HIDE DEF after
    <3> QED
      BY <2>1, <3>1, LengthOf
  <2>4. base \in Tape /\ base # <<>>
    <3> HIDE DEF after
    <3> QED
      BY <2>3, SinceLow
  <2>5. low \in Int /\ high \in Int /\ under \in Int
    <3> HIDE DEF after, base
    <3> QED
      BY <2>3, <2>4, Extremes
  <2>6. under - 20 \in Int
    <3> HIDE DEF under
    <3> QED
      BY <2>5
  <2> HIDE DEF prior, impulse, after, low, pull, base, high, under, vwap, score
  <2>7. PICK T : NoHit \in [Fields -> T]
    BY NoHitIs DEF IsHit
  <2>8. h \in [Fields -> T \cup {"first_pullback_reclaim", under - 20, low, high, under,
        vwap, score}]
    BY <2>7 DEF Fields
  <2>9. /\ h.stop = under - 20
        /\ h.pullLow = low
        /\ h.baseLow = under
        /\ h.baseHigh = high
        /\ h.level = NoHit.level
    BY <2>7 DEF Fields
  <2> HIDE DEF h
  <2>10. \E U : h \in [Fields -> U]
    BY <2>8
  <2>11. h.stop \in Int /\ h.pullLow \in Int /\ h.baseLow \in Int /\ h.baseHigh \in Int /\
         h.level \in Int
    BY <2>1, <2>2, <2>3, <2>4, <2>5, <2>6, <2>9, NoHitIs DEF IsHit
  <2>12. IsHit(h)
    BY <2>10, <2>11 DEF IsHit
  <2> QED
    BY <2>1, <2>12
<1> HIDE DEF h, met
<1> QED
  BY <1>1, <1>2, NoHitIs

LEMMA runner_reclaim_continuation_hit ==
  ASSUME NEW t \in Tape
  PROVE  IsHit(runner_reclaim_continuation(t)) /\
         (runner_reclaim_continuation(t) # NoHit => Len(t) >= 3)
<1> DEFINE prior == Before(t)
           impulse == Pct(Top(prior), t[1].o)
           after == SinceTop(prior)
           low == Bottom(after)
           pull == Drop(Top(prior), low)
           base == BaseSinceLow(after, 6)
           high == Top(base)
           under == Bottom(base)
           range == Pct(high, under)
           reclaim == Pct(Newest(t).c, high)
           vwap == Vwap(t)
           score == Part(impulse, 70) + Part(pull, 150) + 4 * reclaim - AtLeast(0, range - 1000)
           h == [NoHit EXCEPT !.pattern = "runner_reclaim_continuation", !.stop = under - 20,
                   !.pullLow = low, !.baseHigh = high, !.baseLow = under, !.vwap = vwap,
                     !.score = score]
           met ==
         /\ Len(t) >= 10
         /\ Len(after) >= 2
         /\ Len(base) >= 2
<1>1. runner_reclaim_continuation(t) = NoHit \/ (met /\ runner_reclaim_continuation(t) = h)
  BY DEF runner_reclaim_continuation
<1>2. ASSUME met PROVE IsHit(h) /\ Len(t) >= 3
  <2>1. Len(t) >= 10 /\ Len(t) \in Nat /\ t # <<>> /\ Len(after) >= 2 /\ Len(base) >= 2
    BY <1>2, LengthOf
  <2>2. prior \in Tape /\ prior # <<>>
    BY <2>1, BeforePart, LengthOf
  <2>3. after \in Tape /\ after # <<>>
    <3>1. after \in Tape
      BY <2>2, AfterTop
    <3> HIDE DEF after
    <3> QED
      BY <2>1, <3>1, LengthOf
  <2>4. base \in Tape /\ base # <<>>
    <3> HIDE DEF after
    <3> QED
      BY <2>3, SinceLow
  <2>5. low \in Int /\ high \in Int /\ under \in Int
    <3> HIDE DEF after, base
    <3> QED
      BY <2>3, <2>4, Extremes
  <2>6. under - 20 \in Int
    <3> HIDE DEF under
    <3> QED
      BY <2>5
  <2> HIDE DEF prior, impulse, after, low, pull, base, high, under, range, reclaim, vwap, score
  <2>7. PICK T : NoHit \in [Fields -> T]
    BY NoHitIs DEF IsHit
  <2>8. h \in [Fields -> T \cup {"runner_reclaim_continuation", under - 20, low, high, under,
        vwap, score}]
    BY <2>7 DEF Fields
  <2>9. /\ h.stop = under - 20
        /\ h.pullLow = low
        /\ h.baseLow = under
        /\ h.baseHigh = high
        /\ h.level = NoHit.level
    BY <2>7 DEF Fields
  <2> HIDE DEF h
  <2>10. \E U : h \in [Fields -> U]
    BY <2>8
  <2>11. h.stop \in Int /\ h.pullLow \in Int /\ h.baseLow \in Int /\ h.baseHigh \in Int /\
         h.level \in Int
    BY <2>1, <2>2, <2>3, <2>4, <2>5, <2>6, <2>9, NoHitIs DEF IsHit
  <2>12. IsHit(h)
    BY <2>10, <2>11 DEF IsHit
  <2> QED
    BY <2>1, <2>12
<1> HIDE DEF h, met
<1> QED
  BY <1>1, <1>2, NoHitIs

LEMMA Percentages ==
  ASSUME NEW a \in Int, NEW b \in Price, NEW p \in Nat
  PROVE  Pct(a, b) \in Int /\ Drop(b, a) \in Int /\ Part(a, p) \in Int
<1>1. (a - b) * 10000 \in Int /\ (b - a) * 10000 \in Int /\ a * p \in Int /\ b \in Nat /\ b > 0
  BY DEF Price
<1> QED
  BY <1>1 DEF Pct, Drop, Part

LEMMA SurgeTyped ==
  ASSUME NEW v \in Nat, NEW s \in Tape
  PROVE  Surge(v, s) \in Int
<1>1. Total(s) \in Nat /\ v * 100 * Len(s) \in Int
  BY TotalTyped, LengthOf
<1>2. Total(s) # 0 => (v * 100 * Len(s)) \div Total(s) \in Int
  <2> DEFINE x == v * 100 * Len(s)
  <2> HIDE DEF x
  <2> QED
    BY <1>1 DEF x
<1> QED
  BY <1>2 DEF Surge

(* Of finitely many graded numbers one is the least with the best grade. *)
LEMMA BestGraded ==
  ASSUME NEW n \in Nat, NEW T, T \subseteq 0..n, T # {}, NEW f \in [T -> Int]
  PROVE  \E w \in T : \A u \in T : f[w] > f[u] \/ (f[w] = f[u] /\ w <= u)
<1> DEFINE Best(w, k) == \A u \in T : u <= k => f[w] > f[u] \/ (f[w] = f[u] /\ w <= u)
           good == {k \in 0..n : \/ \A u \in T : ~(u <= k)
                                 \/ \E w \in T : w <= k /\ Best(w, k)}
<1>1. 0 \in good
  <2>1. CASE 0 \in T
    <3>1. \A u \in T : u <= 0 => u = 0
      OBVIOUS
    <3>2. Best(0, 0)
      BY <2>1, <3>1
    <3> QED
      BY <2>1, <3>2
  <2>2. CASE 0 \notin T
    <3>1. \A u \in T : ~(u <= 0)
      BY <2>2
    <3> QED
      BY <3>1
  <2> QED
    BY <2>1, <2>2
<1>2. ASSUME NEW k \in 1..n, k - 1 \in good PROVE k \in good
  <2>1. \A u \in T : u <= k => u <= k - 1 \/ u = k
    OBVIOUS
  <2>2. k \in 0..n /\ k \in Int
    OBVIOUS
  <2>3. CASE k \notin T
    <3>1. \A u \in T : u <= k <=> u <= k - 1
      BY <2>1, <2>3
    <3> QED
      BY <1>2, <2>2, <3>1
  <2>4. CASE k \in T /\ \A u \in T : ~(u <= k - 1)
    <3>1. Best(k, k)
      BY <2>1, <2>4
    <3> QED
      BY <2>2, <2>4, <3>1
  <2>5. CASE k \in T /\ \E w \in T : w <= k - 1 /\ Best(w, k - 1)
    <3>1. PICK w \in T : w <= k - 1 /\ Best(w, k - 1)
      BY <2>5
    <3>2. f[w] \in Int /\ f[k] \in Int /\ w \in Int /\ \A u \in T : f[u] \in Int /\ u \in Int
      BY <2>5
    <3>3. CASE f[k] > f[w]
      <4>1. ASSUME NEW u \in T, u <= k PROVE f[k] > f[u] \/ (f[k] = f[u] /\ k <= u)
        <5>1. CASE u = k
          BY <5>1, <3>2
        <5>2. CASE u <= k - 1
          BY <3>1, <3>2, <3>3, <5>2
        <5> QED
          BY <2>1, <4>1, <5>1, <5>2
      <4>2. Best(k, k)
        BY <4>1
      <4> QED
        BY <2>2, <2>5, <4>2
    <3>4. CASE ~(f[k] > f[w])
      <4>1. ASSUME NEW u \in T, u <= k PROVE f[w] > f[u] \/ (f[w] = f[u] /\ w <= u)
        <5>1. CASE u = k
          BY <5>1, <3>1, <3>2, <3>4, <2>2
        <5>2. CASE u <= k - 1
          BY <3>1, <5>2
        <5> QED
          BY <2>1, <4>1, <5>1, <5>2
      <4>2. Best(w, k) /\ w <= k
        BY <3>1, <3>2, <4>1, <2>2
      <4> QED
        BY <2>2, <4>2
    <3> QED
      BY <3>3, <3>4
  <2> QED
    BY <1>2, <2>3, <2>4, <2>5
<1>3. n \in good
  <2>1. n \in 0..n
    OBVIOUS
  <2> HIDE DEF good
  <2> QED
    BY <1>1, <1>2, <2>1, Climbs
<1>4. PICK w \in T : w <= n /\ Best(w, n)
  <2>1. PICK u \in T : TRUE
    OBVIOUS
  <2>2. u <= n
    BY <2>1
  <2> QED
    BY <1>3, <2>2
<1>5. \A u \in T : u <= n
  OBVIOUS
<1> QED
  BY <1>4, <1>5

LEMMA BreakoutScoreTyped ==
  ASSUME NEW t \in Tape, Len(t) > 1, Green(Newest(t)), NEW w \in Nat, w > 0
  PROVE  BreakoutScore(t, Base(t, w)) \in Int
<1> DEFINE last == Newest(t)
           base == Base(t, w)
           open == t[1].o
           wick == last.h - last.c
           range == last.h - last.l
<1>1. base \in Tape /\ base # <<>> /\ t # <<>> /\ Len(t) \in Nat
  BY BasePart, LengthOf
<1>2. last \in Minute /\ open \in Price
  BY <1>1, NewestBar DEF Tape, Minute
<1>3. Top(base) \in Price /\ Bottom(base) \in Price /\ Top(base) \in Int /\ Bottom(base) \in Int
  BY <1>1, Extremes
<1>4. last.c \in Int /\ last.v \in Nat /\ wick \in Int /\ range \in Nat /\ range > 0
  BY <1>2 DEF Green, Minute, Price
<1>5. Surge(last.v, base) \in Int
  <2> HIDE DEF last, base
  <2> QED
    BY <1>1, <1>4, SurgeTyped
<1>6. (wick * 10000) \div range \in Int
  <2> HIDE DEF wick, range
  <2> QED
    BY <1>4
<1> DEFINE tail == (wick * 10000) \div range
           rose == Pct(last.c, open)
           over == Pct(last.c, Top(base))
           deep == Pct(Top(base), Bottom(base))
           surge == Surge(last.v, base)
<1>7. rose \in Int /\ over \in Int /\ deep \in Int
  <2> HIDE DEF last, base, open
  <2> QED
    BY <1>2, <1>3, <1>4, Percentages
<1>8. BreakoutScore(t, base) =
        Part(rose, 70) + 6 * over + 8 * AtMost(surge, 400) - Part(deep, 150) - Part(tail, 20)
  BY DEF BreakoutScore
<1>9. tail \in Int /\ surge \in Int
  BY <1>5, <1>6
<1> HIDE DEF tail, rose, over, deep, surge, base
<1>10. Part(rose, 70) \in Int /\ Part(deep, 150) \in Int /\ Part(tail, 20) \in Int
  BY <1>7, <1>9 DEF Part
<1>11. AtMost(surge, 400) \in Int
  BY <1>9 DEF AtMost
<1> QED
  BY <1>7, <1>8, <1>10, <1>11 DEF base

LEMMA level_breakout_reclaim_hit ==
  ASSUME NEW t \in Tape
  PROVE  IsHit(level_breakout_reclaim(t)) /\ (level_breakout_reclaim(t) # NoHit => Len(t) >= 3)
<1> DEFINE scored(w) == BreakoutScore(t, Base(t, w))
           best == CHOOSE w \in CleanWidths(t) : \A u \in CleanWidths(t) :
                     scored(w) > scored(u) \/ (scored(w) = scored(u) /\ w <= u)
           base == Base(t, best)
           under == Bottom(base)
           high == Top(base)
           vwap == Vwap(t)
           score == scored(best)
           h == [NoHit EXCEPT !.pattern = "level_breakout_reclaim", !.stop = under - 20,
                   !.baseHigh = high, !.level = high, !.baseLow = under, !.vwap = vwap,
                     !.score = score]
           met ==
         /\ Len(t) >= 8
         /\ Green(Newest(t))
         /\ CleanWidths(t) # {}
<1>1. level_breakout_reclaim(t) = NoHit \/ (met /\ level_breakout_reclaim(t) = h)
  BY DEF level_breakout_reclaim
<1>2. ASSUME met PROVE IsHit(h) /\ Len(t) >= 3
  <2>1. Len(t) >= 8 /\ Len(t) \in Nat /\ Green(Newest(t)) /\ CleanWidths(t) # {}
    BY <1>2, LengthOf
  <2>2. best \in CleanWidths(t)
    <3> DEFINE f == [w \in CleanWidths(t) |-> scored(w)]
    <3>1. CleanWidths(t) \subseteq 4..8
      BY Zenon DEF CleanWidths
    <3>2. f \in [CleanWidths(t) -> Int]
      <4>1. \A w \in CleanWidths(t) : w \in Nat /\ w > 0
        BY <3>1
      <4>2. \A w \in CleanWidths(t) : scored(w) \in Int
        BY <2>1, <4>1, BreakoutScoreTyped
      <4> HIDE DEF scored
      <4> QED
        BY <4>2
    <3>3. CleanWidths(t) \subseteq 0..8
      BY <3>1
    <3>4. \E w \in CleanWidths(t) : \A u \in CleanWidths(t) : f[w] > f[u] \/ (f[w] = f[u] /\ w <= u)
      <4> HIDE DEF f
      <4> QED
        BY <2>1, <3>2, <3>3, BestGraded
    <3>5. \E w \in CleanWidths(t) : \A u \in CleanWidths(t) :
            scored(w) > scored(u) \/ (scored(w) = scored(u) /\ w <= u)
      <4> HIDE DEF scored
      <4> QED
        BY <3>4
    <3> HIDE DEF scored, f
    <3> QED
      BY <3>5
  <2>3. base \in Tape /\ base # <<>>
    <3>1. best \in Nat /\ best > 0
      <4>1. best \in 4..8
        <5> HIDE DEF best
        <5> QED
          BY <2>2, Zenon DEF CleanWidths
      <4> HIDE DEF best
      <4> QED
        BY <4>1
    <3> HIDE DEF best
    <3> QED
      BY <2>1, <3>1, BasePart
  <2>4. under \in Int /\ high \in Int
    <3> HIDE DEF base
    <3> QED
      BY <2>3, Extremes
  <2>5. under - 20 \in Int
    <3> HIDE DEF under
    <3> QED
      BY <2>4
  <2> HIDE DEF scored, best, base, under, high, vwap, score
  <2>6. PICK T : NoHit \in [Fields -> T]
    BY NoHitIs DEF IsHit
  <2>7. h \in [Fields -> T \cup {"level_breakout_reclaim", under - 20, high, under, vwap, score}]
    BY <2>6 DEF Fields
  <2>8. /\ h.stop = under - 20
        /\ h.pullLow = NoHit.pullLow
        /\ h.baseLow = under
        /\ h.baseHigh = high
        /\ h.level = high
    BY <2>6 DEF Fields
  <2> HIDE DEF h
  <2>9. \E U : h \in [Fields -> U]
    BY <2>7
  <2>10. h.stop \in Int /\ h.pullLow \in Int /\ h.baseLow \in Int /\ h.baseHigh \in Int /\
         h.level \in Int
    BY <2>1, <2>2, <2>3, <2>4, <2>5, <2>8, NoHitIs DEF IsHit
  <2>11. IsHit(h)
    BY <2>9, <2>10 DEF IsHit
  <2> QED
    BY <2>1, <2>11
<1> HIDE DEF h, met
<1> QED
  BY <1>1, <1>2, NoHitIs

LEMMA shallow_stair_continuation_hit ==
  ASSUME NEW t \in Tape
  PROVE  IsHit(shallow_stair_continuation(t)) /\
         (shallow_stair_continuation(t) # NoHit => Len(t) >= 3)
<1> DEFINE last == Newest(t)
           top == Top(t)
           move == Pct(top, t[1].o)
           recent == RecentVolume(t)
           elite == move >= 5000 /\ recent >= 250 /\ last.c >= 2000
           off == Drop(top, last.c)
           B(w) == Base(t, w)
           tight == {w \in 3..5 : Pct(Top(B(w)), Bottom(B(w))) <= IF elite THEN 1300 ELSE 700}
           base == B(CHOOSE w \in tight : \A u \in tight : w <= u)
           under == Bottom(base)
           high == Top(base)
           surge == Surge(last.v, base)
           stop == AtLeast(under - 20, Part(last.c, 94))
           vwap == Vwap(t)
           score == Part(move, 75) + 10 * AtMost(surge, 400) + 4 * AtMost(recent, 600)
                    + 6 * Pct(last.c, high) - Part(Pct(high, under), 50) - Part(off, 80)
           h == [NoHit EXCEPT !.pattern = "shallow_stair_continuation",
                   !.tier = "stair_scout", !.stop = stop, !.baseHigh = high,
                     !.baseLow = under, !.vwap = vwap, !.score = score]
           met ==
         /\ Len(t) >= 12
         /\ tight # {}
<1>1. shallow_stair_continuation(t) = NoHit \/ (met /\ shallow_stair_continuation(t) = h)
  BY DEF shallow_stair_continuation
<1>2. ASSUME met PROVE IsHit(h) /\ Len(t) >= 3
  <2>1. Len(t) >= 12 /\ Len(t) \in Nat /\ t # <<>> /\ tight # {}
    BY <1>2, LengthOf
  <2>2. \E w \in tight : \A u \in tight : w <= u
    <3>1. tight \subseteq Nat
      OBVIOUS
    <3> HIDE DEF tight
    <3> QED
      BY <2>1, <3>1, Least
  <2> DEFINE width == CHOOSE w \in tight : \A u \in tight : w <= u
  <2>3. width \in tight
    <3> HIDE DEF tight
    <3> QED
      BY <2>2
  <2>4. base \in Tape /\ base # <<>>
    <3>1. width \in 3..5
      <4> HIDE DEF width
      <4> QED
        BY <2>3, Zenon
    <3>2. base = Base(t, width)
      BY Zenon
    <3>3. width \in Nat /\ width > 0
      <4> HIDE DEF width
      <4> QED
        BY <3>1
    <3> HIDE DEF width, base
    <3> QED
      BY <2>1, <3>2, <3>3, BasePart
  <2>5. under \in Int /\ high \in Int
    <3> HIDE DEF base
    <3> QED
      BY <2>4, Extremes
  <2>6. stop \in Int
    <3>1. last.c \in Int
      BY <2>1, NewestBar DEF Minute, Price
    <3> HIDE DEF under, last
    <3> QED
      BY <2>5, <3>1 DEF AtLeast, Part
  <2> HIDE DEF last, top, move, recent, elite, off, B, tight, base, under, high, surge, stop,
               vwap, score
  <2>7. PICK T : NoHit \in [Fields -> T]
    BY NoHitIs DEF IsHit
  <2>8. h \in [Fields -> T \cup {"shallow_stair_continuation", "stair_scout", stop, high,
        under, vwap, score}]
    BY <2>7 DEF Fields
  <2>9. /\ h.stop = stop
        /\ h.pullLow = NoHit.pullLow
        /\ h.baseLow = under
        /\ h.baseHigh = high
        /\ h.level = NoHit.level
    BY <2>7 DEF Fields
  <2> HIDE DEF h
  <2>10. \E U : h \in [Fields -> U]
    BY <2>8
  <2>11. h.stop \in Int /\ h.pullLow \in Int /\ h.baseLow \in Int /\ h.baseHigh \in Int /\
         h.level \in Int
    BY <2>1, <2>2, <2>3, <2>4, <2>5, <2>6, <2>9, NoHitIs DEF IsHit
  <2>12. IsHit(h)
    BY <2>10, <2>11 DEF IsHit
  <2> QED
    BY <2>1, <2>12
<1> HIDE DEF h, met
<1> QED
  BY <1>1, <1>2, NoHitIs

LEMMA early_vwap_reclaim_scout_hit ==
  ASSUME NEW t \in Tape
  PROVE  IsHit(early_vwap_reclaim_scout(t)) /\
         (early_vwap_reclaim_scout(t) # NoHit => Len(t) >= 3)
<1> DEFINE n == Len(t)
           last == Newest(t)
           top == Top(t)
           move == Pct(top, t[1].o)
           vwap == Vwap(t)
           was == Vwap(Before(t))
           window == Washout(t)
           low == Bottom(window)
           hold == Holding(t)
           under == Bottom(hold)
           washed == Drop(was, low)
           above == Pct(last.c, vwap)
           risk == Drop(last.c, under)
           off == Drop(top, last.c)
           stop == AtLeast(under - 20, Part(vwap, 97))
           score == Part(move, 45) + 4 * washed + 6 * above + 6 * AtMost(Surge(last.v,
             Base(t, 5)), 400)
                    - Part(off, 40) - Part(risk, 80)
           h == [NoHit EXCEPT !.pattern = "early_vwap_reclaim_scout", !.vwap = vwap,
                   !.stop = stop, !.score = score]
           met ==
         /\ n >= 12
         /\ Len(window) >= 4
<1>1. early_vwap_reclaim_scout(t) = NoHit \/ (met /\ early_vwap_reclaim_scout(t) = h)
  BY DEF early_vwap_reclaim_scout
<1>2. ASSUME met PROVE IsHit(h) /\ Len(t) >= 3
  <2>1. Len(t) >= 12 /\ Len(t) \in Nat /\ t # <<>> /\ Len(window) >= 4
    <3> HIDE DEF window
    <3> QED
      BY <1>2, LengthOf
  <2>2. window \in Tape /\ window # <<>>
    <3> DEFINE from == AtLeast(LastTopAt(t) + 1, Len(t) - 9)
    <3>1. from \in Int /\ from >= 1 /\ n - 1 \in Int /\ n - 1 <= Len(t)
      BY <2>1, TopsLast DEF AtLeast
    <3>2. window \in Tape
      <4> HIDE DEF from
      <4> QED
        BY <3>1, Slice DEF Washout, from
    <3> HIDE DEF window
    <3> QED
      BY <2>1, <3>2, LengthOf
  <2>3. last \in Minute
    BY <2>1, NewestBar
  <2>4. hold \in Tape /\ hold # <<>>
    <3> HIDE DEF window, last
    <3>1. BottomAt(window) + 1 \in Int /\ BottomAt(window) + 1 >= 1 /\ Len(window) \in Int
      BY <2>2, BottomsFirst, LengthOf
    <3>2. SubSeq(window, BottomAt(window) + 1, Len(window)) \in Tape
      BY <2>2, <3>1, Slice
    <3> DEFINE rest == SubSeq(window, BottomAt(window) + 1, Len(window))
    <3> HIDE DEF rest
    <3> QED
      BY <2>3, <3>2 DEF Tape, rest, Holding, window, last
  <2>5. stop \in Int
    <3>1. under \in Int
      <4> HIDE DEF hold
      <4> QED
        BY <2>4, Extremes
    <3>2. vwap \in Int
      BY VwapTyped
    <3> HIDE DEF under, vwap
    <3> QED
      BY <3>1, <3>2 DEF AtLeast, Part
  <2> HIDE DEF n, last, top, move, vwap, was, window, low, hold, under, washed, above, risk,
               off, stop, score
  <2>6. PICK T : NoHit \in [Fields -> T]
    BY NoHitIs DEF IsHit
  <2>7. h \in [Fields -> T \cup {"early_vwap_reclaim_scout", vwap, stop, score}]
    BY <2>6 DEF Fields
  <2>8. /\ h.stop = stop
        /\ h.pullLow = NoHit.pullLow
        /\ h.baseLow = NoHit.baseLow
        /\ h.baseHigh = NoHit.baseHigh
        /\ h.level = NoHit.level
    BY <2>6 DEF Fields
  <2> HIDE DEF h
  <2>9. \E U : h \in [Fields -> U]
    BY <2>7
  <2>10. h.stop \in Int /\ h.pullLow \in Int /\ h.baseLow \in Int /\ h.baseHigh \in Int /\
         h.level \in Int
    BY <2>1, <2>2, <2>3, <2>4, <2>5, <2>8, NoHitIs DEF IsHit
  <2>11. IsHit(h)
    BY <2>9, <2>10 DEF IsHit
  <2> QED
    BY <2>1, <2>11
<1> HIDE DEF h, met
<1> QED
  BY <1>1, <1>2, NoHitIs

LEMMA FoundHits ==
  ASSUME NEW t \in Tape, NEW hit \in HitsOf(t)
  PROVE  IsHit(hit) /\ Len(t) >= 3
<1>1. /\ hit # NoHit
      /\ \/ hit = vwap_pullback(t) \/ hit = hod_reclaim(t) \/ hit = pullback_base(t)
         \/ hit = abc_continuation(t) \/ hit = first_pullback_reclaim(t)
         \/ hit = level_breakout_reclaim(t) \/ hit = runner_reclaim_continuation(t)
         \/ hit = shallow_stair_continuation(t) \/ hit = early_vwap_reclaim_scout(t)
  BY DEF HitsOf
<1> QED
  BY <1>1, vwap_pullback_hit, hod_reclaim_hit, pullback_base_hit, abc_continuation_hit,
     first_pullback_reclaim_hit, level_breakout_reclaim_hit, runner_reclaim_continuation_hit,
     shallow_stair_continuation_hit, early_vwap_reclaim_scout_hit

-----------------------------------------------------------------------------
(* The verifier rewrites the tier and the levels of a hit, and leaves a hit. *)
LEMMA Tiered ==
  ASSUME NEW hit, IsHit(hit), NEW tier
  PROVE  IsHit([hit EXCEPT !.tier = tier]) /\ [hit EXCEPT !.tier = tier].tier = tier
<1> DEFINE h == [hit EXCEPT !.tier = tier]
<1>1. PICK T : hit \in [Fields -> T]
  BY DEF IsHit
<1>2. h \in [Fields -> T \cup {tier}]
  BY <1>1 DEF Fields
<1>3. /\ h.stop = hit.stop /\ h.pullLow = hit.pullLow /\ h.baseLow = hit.baseLow
      /\ h.baseHigh = hit.baseHigh /\ h.level = hit.level /\ h.tier = tier
  BY <1>1 DEF Fields
<1> HIDE DEF h
<1>4. \E U : h \in [Fields -> U]
  BY <1>2
<1>5. IsHit(h)
  BY <1>3, <1>4 DEF IsHit
<1> QED
  BY <1>3, <1>5 DEF h

LEMMA ScoutPlaced ==
  ASSUME NEW hit, IsHit(hit), NEW low \in Int
  PROVE  IsHit([hit EXCEPT !.tier = "fresh_vwap_reclaim_scout", !.baseLow = low,
                           !.stop = low - 20])
<1> DEFINE h == [hit EXCEPT !.tier = "fresh_vwap_reclaim_scout", !.baseLow = low,
                            !.stop = low - 20]
<1>1. PICK T : hit \in [Fields -> T]
  BY DEF IsHit
<1>2. h \in [Fields -> T \cup {"fresh_vwap_reclaim_scout", low, low - 20}]
  BY <1>1 DEF Fields
<1>3. /\ h.stop = low - 20 /\ h.pullLow = hit.pullLow /\ h.baseLow = low
      /\ h.baseHigh = hit.baseHigh /\ h.level = hit.level
  BY <1>1 DEF Fields
<1> HIDE DEF h
<1>4. \E U : h \in [Fields -> U]
  BY <1>2
<1>5. IsHit(h)
  BY <1>3, <1>4 DEF IsHit
<1> QED
  BY <1>5 DEF h

LEMMA NearMissPlaced ==
  ASSUME NEW t \in Tape, Len(t) >= 3, NEW view, NEW hit, IsHit(hit)
  PROVE  IsHit(NearMiss(t, view, hit))
<1> DEFINE low == Bottom(Base(t, 3))
           high == Top(Base(t, 3))
           vwap == Vwap(t)
           told == AtLeast(0, RuleScore(t, view))
           h == [hit EXCEPT !.tier = "vwap_reclaim_scout", !.baseHigh = high, !.baseLow = low,
                            !.anchor = high, !.vwap = vwap, !.told = told]
<1>1. low \in Int /\ high \in Int
  <2>1. Len(t) > 1
    BY LengthOf
  <2> QED
    BY <2>1, BasePart, Extremes
<1>2. NearMiss(t, view, hit) = h
  BY DEF NearMiss
<1> HIDE DEF low, high, vwap, told
<1>3. PICK T : hit \in [Fields -> T]
  BY DEF IsHit
<1>4. h \in [Fields -> T \cup {"vwap_reclaim_scout", high, low, vwap, told}]
  BY <1>3 DEF Fields
<1>5. /\ h.stop = hit.stop /\ h.pullLow = hit.pullLow /\ h.baseLow = low
      /\ h.baseHigh = high /\ h.level = hit.level
  BY <1>3 DEF Fields
<1> HIDE DEF h
<1>6. \E U : h \in [Fields -> U]
  BY <1>4
<1>7. IsHit(h)
  BY <1>1, <1>5, <1>6 DEF IsHit
<1> QED
  BY <1>2, <1>7

LEMMA StructureKeepsHit ==
  ASSUME NEW t \in Tape, Len(t) >= 3, NEW was, IsHit(was), NEW float
  PROVE  IsHit(pullback_structure_reject(t, was, float).hit)
<1> DEFINE low == Bottom(Base(t, 3))
           scout(hit) == [hit EXCEPT !.tier = "fresh_vwap_reclaim_scout", !.baseLow = low,
                                     !.stop = low - 20]
           retry == [was EXCEPT !.tier = "a_plus_retry_watch"]
           answer == pullback_structure_reject(t, was, float)
<1>1. low \in Int
  <2>1. Len(t) > 1
    BY LengthOf
  <2> QED
    BY <2>1, BasePart, Extremes
<1>2. IsHit(retry)
  BY Tiered
<1>3. IsHit(scout(was)) /\ IsHit(scout(retry))
  <2> HIDE DEF low, retry
  <2> QED
    BY <1>1, <1>2, ScoutPlaced
<1>4. answer.hit \in {was, retry, scout(was), scout(retry)}
  BY DEF pullback_structure_reject, Refuses, Passes
<1> HIDE DEF retry, scout, answer
<1>5. IsHit(answer.hit)
  BY <1>2, <1>3, <1>4
<1> QED
  BY <1>5 DEF answer

LEMMA LateKeepsHit ==
  ASSUME NEW t \in Tape, Len(t) >= 3, NEW hit, IsHit(hit), NEW float
  PROVE  IsHit(late_pullback_reject(t, hit, float).hit)
<1> DEFINE far == OffTop(t) > IF hit.pattern = "vwap_pullback" THEN MaxHod ELSE MaxHodOther
           fresh == is_fresh_late_reclaim(t, [hit EXCEPT !.tier = ""])
           small == hit.pattern = "pullback_base" /\ DayMove(t) < 2000
           mid == scoutable_mid_move(t, hit)
           named == IF small THEN (IF mid THEN "pullback_scout" ELSE "")
                    ELSE IF far THEN fresh ELSE ""
           told == IF far THEN fresh ELSE ""
           first == [hit EXCEPT !.tier = named]
           answer == pullback_structure_reject(t, first, float)
           verdict == late_pullback_reject(t, hit, float)
<1>1. IsHit(answer.hit)
  <2>1. IsHit(first)
    <3> HIDE DEF named
    <3> QED
      BY Tiered
  <2> HIDE DEF first
  <2> QED
    BY <2>1, StructureKeepsHit
<1>2. verdict.hit \in {[hit EXCEPT !.tier = ""], [hit EXCEPT !.tier = told], answer.hit}
  BY DEF late_pullback_reject, Refuses
<1>3. IsHit([hit EXCEPT !.tier = ""]) /\ IsHit([hit EXCEPT !.tier = told])
  <2> HIDE DEF told
  <2> QED
    BY Tiered
<1> HIDE DEF told, answer, verdict
<1>4. IsHit(verdict.hit)
  BY <1>1, <1>2, <1>3
<1> QED
  BY <1>4 DEF verdict

(* What the guard lets through it let through as it is. *)
LEMMA GuardedHit ==
  ASSUME NEW t \in Tape, Len(t) >= 3, NEW view, NEW hit, IsHit(hit)
  PROVE  LET g == Guarded(t, view, hit)
         IN  /\ IsHit(g.hit)
             /\ g.why = "" => check_entry_quality(t, view, SetupOf(g.hit, 0), 5) = ""
<1> DEFINE why == check_entry_quality(t, view, SetupOf(hit, 0), 5)
           again == NearMiss(t, view, hit)
           later == check_entry_quality(t, view, SetupOf(again, 0), 5)
           g == Guarded(t, view, hit)
<1>1. IsHit(again)
  BY NearMissPlaced
<1>2. g = [why |-> why, hit |-> hit] \/ g = [why |-> later, hit |-> again]
  BY DEF Guarded, WhenScored, Rescored, Refuses
<1>3. CASE g = [why |-> why, hit |-> hit]
  <2>1. g.why = why /\ g.hit = hit
    <3> HIDE DEF why, g
    <3> QED
      BY <1>3
  <2> QED
    BY <2>1
<1>4. CASE g = [why |-> later, hit |-> again]
  <2>1. g.why = later /\ g.hit = again
    <3> HIDE DEF later, again, g
    <3> QED
      BY <1>4
  <2> HIDE DEF g, again
  <2> QED
    BY <1>1, <2>1 DEF g
<1> QED
  BY <1>2, <1>3, <1>4

(* A stop that the verifier accepts is below the price. *)
LEMMA StopBelow ==
  ASSUME NEW t \in Tape, Len(t) >= 3, NEW hit, IsHit(hit)
  PROVE  LET s == Stopped(t, hit)
         IN  s.why = "" =>
               /\ s.stop \in Int /\ s.stop < Newest(t).c
               /\ IsHit(s.hit) /\ s.hit.pattern = hit.pattern
               /\ s.hit = hit \/ s.hit.tier = "abc_scout"
<1> DEFINE price == Newest(t).c
           stop == PatternStop(hit)
           most == IF (price - t[1].o) * 100 > 30 * t[1].o THEN 1500 ELSE 1000
           tight == Bottom(Final(t, 3)) - 20
           hot == hot_hod_reclaim_stop(t)
           abc == abc_scout_tactical_stop(t, hit)
           placed(x) == [why |-> IF (price - x) * 1000 < 5 * price THEN "risk too tight" ELSE "",
                         hit |-> hit, stop |-> x]
           scout == [hit EXCEPT !.tier = "abc_scout", !.stop = abc]
           s == Stopped(t, hit)
<1>1. price \in Nat /\ price > 0 /\ Newest(t).l \in Int /\ t # <<>>
  <2>1. t # <<>>
    BY LengthOf
  <2> QED
    BY <2>1, NewestBar DEF Minute, Price
<1>2. stop \in Int
  BY DEF IsHit, PatternStop
<1>3. tight \in Int
  <2>1. Bottom(Final(t, 3)) \in Int
    BY <1>1, FinalPart, Extremes
  <2> QED
    BY <2>1
<1>4. hot \in Int
  <2>1. Bottom(Final(t, 2)) \in Int
    BY <1>1, FinalPart, Extremes
  <2> QED
    BY <1>1, <2>1 DEF hot_hod_reclaim_stop, Part
<1>5. abc \in Int
  <2>1. \/ abc = 0
        \/ abc = AtLeast(AtMost(Newest(t).l, Part(price, 96)) - 20, Part(price, 94))
    BY SMT DEF abc_scout_tactical_stop
  <2>2. Part(price, 96) \in Int /\ Part(price, 94) \in Int
    <3> HIDE DEF price
    <3> QED
      BY <1>1 DEF Part
  <2> DEFINE most94 == Part(price, 94)
             most96 == Part(price, 96)
             low == Newest(t).l
  <2> HIDE DEF abc, price, most94, most96, low
  <2>3. abc = 0 \/ abc = AtLeast(AtMost(low, most96) - 20, most94)
    BY <2>1, Zenon DEF most94, most96, low
  <2>4. low \in Int /\ most96 \in Int /\ most94 \in Int
    BY <1>1, <2>2, Zenon DEF most94, most96, low
  <2> QED
    BY <2>3, <2>4 DEF AtLeast, AtMost
<1>6. /\ IsHit(scout) /\ scout.pattern = hit.pattern /\ scout.tier = "abc_scout"
  <2> HIDE DEF abc
  <2>1. PICK T : hit \in [Fields -> T]
    BY DEF IsHit
  <2>2. scout \in [Fields -> T \cup {"abc_scout", abc}]
    BY <2>1 DEF Fields
  <2>3. /\ scout.stop = abc /\ scout.pullLow = hit.pullLow /\ scout.baseLow = hit.baseLow
        /\ scout.baseHigh = hit.baseHigh /\ scout.level = hit.level
        /\ scout.pattern = hit.pattern /\ scout.tier = "abc_scout"
    BY <2>1 DEF Fields
  <2> HIDE DEF scout
  <2>4. \E U : scout \in [Fields -> U]
    BY <2>2
  <2>5. IsHit(scout)
    BY <1>5, <2>3, <2>4 DEF IsHit
  <2> QED
    BY <2>3, <2>5
<1>7. \/ s.why # ""
      \/ s = placed(stop) /\ Risks(price, stop, 0, most)
      \/ s = placed(hot) /\ Risks(price, hot, 50, 800)
      \/ s = placed(tight) /\ Risks(price, tight, 50, most)
      \/ s = [placed(abc) EXCEPT !.hit = scout] /\ abc > 0
  <2> DEFINE loose == [why |-> "risk too wide", hit |-> hit, stop |-> 0]
             above == [loose EXCEPT !.why = "stop above entry"]
  <2>1. loose.why # "" /\ above.why # ""
    OBVIOUS
  <2>2. \/ s = above \/ s = loose
        \/ s = placed(stop) /\ Risks(price, stop, 0, most)
        \/ s = placed(hot) /\ Risks(price, hot, 50, 800)
        \/ s = placed(tight) /\ Risks(price, tight, 50, most)
        \/ s = [placed(abc) EXCEPT !.hit = scout] /\ abc > 0
    <3>1. s = IF stop >= price THEN above
              ELSE IF Risks(price, stop, 0, most) THEN placed(stop)
              ELSE IF is_hot_hod_reclaim(t, hit)
              THEN IF Risks(price, hot, 50, 800) THEN placed(hot) ELSE loose
              ELSE IF Risks(price, tight, 50, most) THEN placed(tight)
              ELSE IF abc > 0 THEN [placed(abc) EXCEPT !.hit = scout]
              ELSE loose
      BY Zenon DEF Stopped
    <3> HIDE DEF s, placed, loose, above, tight, hot, price, most, abc, scout, stop
    <3>2. CASE stop >= price
      <4>1. s = above
        BY <3>1, <3>2, Zenon
      <4> QED
        BY <4>1, Zenon
    <3>3. CASE ~(stop >= price) /\ Risks(price, stop, 0, most)
      <4>1. s = placed(stop)
        BY <3>1, <3>3, Zenon
      <4> QED
        BY <3>3, <4>1, Zenon
    <3>4. CASE /\ ~(stop >= price) /\ ~Risks(price, stop, 0, most)
               /\ is_hot_hod_reclaim(t, hit)
      <4>1. s = IF Risks(price, hot, 50, 800) THEN placed(hot) ELSE loose
        BY <3>1, <3>4, Zenon
      <4> QED
        BY <4>1, Zenon
    <3>5. CASE /\ ~(stop >= price) /\ ~Risks(price, stop, 0, most)
               /\ ~is_hot_hod_reclaim(t, hit)
      <4>1. s = IF Risks(price, tight, 50, most) THEN placed(tight)
                ELSE IF abc > 0 THEN [placed(abc) EXCEPT !.hit = scout] ELSE loose
        BY <3>1, <3>5, Zenon
      <4> QED
        BY <4>1, Zenon
    <3> QED
      BY <3>2, <3>3, <3>4, <3>5, Zenon
  <2> HIDE DEF loose, above, s, placed, scout, stop, hot, tight, abc, price, most
  <2> QED
    BY <2>1, <2>2, Zenon
<1>8. abc > 0 => abc < price
  <2>1. abc # 0 => Risks(price, abc, 50, 800)
    BY DEF abc_scout_tactical_stop
  <2> HIDE DEF abc, price
  <2> QED
    BY <1>1, <1>5, <2>1 DEF Risks
<1>9. /\ Risks(price, stop, 0, most) => stop < price
      /\ Risks(price, hot, 50, 800) => hot < price
      /\ Risks(price, tight, 50, most) => tight < price
  <2> HIDE DEF stop, hot, tight, price, most
  <2> QED
    BY <1>1, <1>2, <1>3, <1>4 DEF Risks
<1>10. CASE s.why # ""
  BY <1>10
<1>11. ASSUME NEW x \in Int, x < price, s = placed(x)
       PROVE  /\ s.stop \in Int /\ s.stop < price
              /\ IsHit(s.hit) /\ s.hit.pattern = hit.pattern
              /\ s.hit = hit \/ s.hit.tier = "abc_scout"
  <2>1. s.stop = x /\ s.hit = hit
    <3> HIDE DEF s
    <3> QED
      BY <1>11
  <2> HIDE DEF s, price
  <2> QED
    BY <1>11, <2>1
<1>12. ASSUME s = [placed(abc) EXCEPT !.hit = scout], abc > 0
       PROVE  /\ s.stop \in Int /\ s.stop < price
              /\ IsHit(s.hit) /\ s.hit.pattern = hit.pattern
              /\ s.hit = hit \/ s.hit.tier = "abc_scout"
  <2>1. s.stop = abc /\ s.hit = scout
    <3> HIDE DEF s, abc, scout
    <3> QED
      BY <1>12
  <2> HIDE DEF s, price, abc, scout
  <2> QED
    BY <1>5, <1>6, <1>8, <1>12, <2>1
<1> HIDE DEF s, stop, hot, tight, abc, price, most, placed, scout
<1> QED
  BY <1>2, <1>3, <1>4, <1>5, <1>7, <1>9, <1>11, <1>12 DEF s, price

-----------------------------------------------------------------------------
(* A list of checks that gives no reason: none of them holds. *)
LEMMA Counted ==
  ASSUME NEW n \in Nat PROVE 1..n \subseteq Nat
OBVIOUS

LEMMA NoReason ==
  ASSUME NEW checks, NEW n \in Nat, DOMAIN checks = 1..n,
         \A i \in 1..n : checks[i][2] => checks[i][1] # "",
         FirstOf(checks) = ""
  PROVE  \A i \in 1..n : ~checks[i][2]
<1> SUFFICES ASSUME NEW k \in 1..n, checks[k][2] PROVE FALSE
  OBVIOUS
<1> DEFINE hits == {i \in DOMAIN checks : checks[i][2]}
           first == CHOOSE i \in hits : \A j \in hits : i <= j
<1>1. hits \subseteq 1..n
  <2>1. hits \subseteq DOMAIN checks
    BY Zenon
  <2> QED
    BY <2>1
<1>2. k \in hits
  BY Zenon
<1>3. first \in hits
  <2>1. hits \subseteq Nat /\ hits # {}
    <3> HIDE DEF hits
    <3> QED
      BY <1>1, <1>2, Counted, Zenon
  <2>2. \E i \in hits : \A j \in hits : i <= j
    <3> HIDE DEF hits
    <3> QED
      BY <2>1, Least
  <2> HIDE DEF hits
  <2> QED
    BY <2>2
<1>4. FirstOf(checks) = checks[first][1]
  <2>1. FirstOf(checks) = IF hits = {} THEN "" ELSE checks[first][1]
    BY Zenon DEF FirstOf
  <2> HIDE DEF hits, first
  <2> QED
    BY <1>2, <2>1
<1>5. first \in 1..n /\ checks[first][2]
  <2>1. checks[first][2]
    <3> HIDE DEF first
    <3> QED
      BY <1>3, Zenon
  <2>2. first \in 1..n
    <3> HIDE DEF first, hits
    <3> QED
      BY <1>1, <1>3
  <2> QED
    BY <2>1, <2>2
<1> HIDE DEF first
<1> QED
  BY <1>4, <1>5

LEMMA Sixteen ==
  ASSUME NEW r1, NEW r2, NEW r3, NEW r4, NEW r5, NEW r6, NEW r7, NEW r8,
         NEW r9, NEW r10, NEW r11, NEW r12, NEW r13, NEW r14, NEW r15, NEW r16
  PROVE  LET rows == <<r1, r2, r3, r4, r5, r6, r7, r8, r9, r10, r11, r12, r13, r14, r15, r16>>
         IN  /\ DOMAIN rows = 1..16
             /\ \A i \in 1..16 : rows[i] \in {r1, r2, r3, r4, r5, r6, r7, r8, r9, r10, r11, r12,
                                          r13, r14, r15, r16}
             /\ rows[11] = r11 /\ rows[16] = r16
  OBVIOUS

LEMMA Last ==
  11 \in 1..16 /\ 16 \in 1..16
OBVIOUS

LEMMA QualityRows ==
  ASSUME NEW t, NEW view, NEW setup, NEW least
  PROVE  LET rows == QualityChecks(t, view, setup, least)
         IN  /\ DOMAIN rows = 1..16 /\ \A i \in 1..16 : rows[i][1] # ""
             /\ ~rows[11][2] =>
                  (view.quotes >= 3 => assess_opportunity_scaled_spread(t, view, setup).ok)
             /\ ~rows[16][2] => ScoreOk(t, view, setup)
<1> DEFINE r1 == <<"outside range", outside_range(t)>>
           r2 == <<"float too large", MaxFloat > 0 /\ view.float > MaxFloat>>
           r3 == <<"stale data", Stale(t, view)>>
           r4 == <<"below vwap", below_vwap(t) /\ ~deep_reclaim_ok(t, setup)>>
           r5 == <<"dead cat bounce", dead_cat(t) /\ ~deep_reclaim_ok(t, setup)>>
           r6 == <<"not enough movement", too_quiet(t, view, least)>>
           r7 == <<"low day volume", Total(t) < 100>>
           r8 == <<"thin sub-$5 liquidity", thin_sub5(t, view)>>
           r9 == <<"low day volume", low_day_volume(t)>>
           r10 == <<"weak active tape", weak_active_tape(t)>>
           r11 == <<"spread too wide", view.quotes >= 3 /\
                    ~assess_opportunity_scaled_spread(t, view, setup).ok>>
           r12 == <<"thin liquidity score", thin_score(t, view)>>
           r13 == <<"watch-only liquidity score", LiquidityScore(t, view) < 50>>
           r14 == <<"selling pressure", selling(view) /\ ~elite_sub2_reclaim(t, view, setup)>>
           r15 == <<"ml low confidence", view.veto>>
           r16 == <<"entry score too low", ~ScoreOk(t, view, setup)>>
<1>1. QualityChecks(t, view, setup, least) =
        <<r1, r2, r3, r4, r5, r6, r7, r8, r9, r10, r11, r12, r13, r14, r15, r16>>
  BY Zenon DEF QualityChecks
<1>2. /\ r1[1] # "" /\ r2[1] # "" /\ r3[1] # "" /\ r4[1] # "" /\ r5[1] # ""
      /\ r6[1] # "" /\ r7[1] # ""
      /\ r8[1] # "" /\ r9[1] # "" /\ r10[1] # "" /\ r11[1] # "" /\ r12[1] # "" /\ r13[1] # ""
      /\ r14[1] # "" /\ r15[1] # "" /\ r16[1] # ""
  OBVIOUS
<1>3. /\ ~r11[2] => (view.quotes >= 3 => assess_opportunity_scaled_spread(t, view, setup).ok)
      /\ ~r16[2] => ScoreOk(t, view, setup)
  OBVIOUS
<1> HIDE DEF r1, r2, r3, r4, r5, r6, r7, r8, r9, r10, r11, r12, r13, r14, r15, r16
<1> DEFINE rows == <<r1, r2, r3, r4, r5, r6, r7, r8, r9, r10, r11, r12, r13, r14, r15, r16>>
<1>4. /\ DOMAIN rows = 1..16
      /\ \A i \in 1..16 : rows[i] \in {r1, r2, r3, r4, r5, r6, r7, r8, r9, r10, r11, r12,
                                      r13, r14, r15, r16}
      /\ rows[11] = r11 /\ rows[16] = r16
  BY Sixteen
<1> HIDE DEF rows
<1>5. \A i \in 1..16 : rows[i][1] # ""
  BY <1>2, <1>4
<1>6. /\ ~rows[11][2] => (view.quotes >= 3 => assess_opportunity_scaled_spread(t, view, setup).ok)
      /\ ~rows[16][2] => ScoreOk(t, view, setup)
  BY <1>3, <1>4, Zenon
<1>7. QualityChecks(t, view, setup, least) = rows
  BY <1>1 DEF rows
<1> QED
  BY <1>4, <1>5, <1>6, <1>7, Zenon

LEMMA GuardPassed ==
  ASSUME NEW t, NEW view, NEW setup, NEW least,
         check_entry_quality(t, view, setup, least) = ""
  PROVE  /\ view.quotes >= 3 => assess_opportunity_scaled_spread(t, view, setup).ok
         /\ ScoreOk(t, view, setup)
<1> DEFINE rows == QualityChecks(t, view, setup, least)
<1>1. FirstOf(rows) = ""
  <2>1. check_entry_quality(t, view, setup, least)
          = IF Len(t) < 3 THEN "insufficient bars" ELSE FirstOf(rows)
    BY Zenon DEF check_entry_quality
  <2> HIDE DEF rows
  <2> QED
    BY <2>1
<1>2. /\ DOMAIN rows = 1..16 /\ \A i \in 1..16 : rows[i][1] # ""
      /\ ~rows[11][2] =>
           (view.quotes >= 3 => assess_opportunity_scaled_spread(t, view, setup).ok)
      /\ ~rows[16][2] => ScoreOk(t, view, setup)
  BY QualityRows, Zenon
<1> HIDE DEF rows
<1>3. \A i \in 1..16 : ~rows[i][2]
  <2>1. 16 \in Nat /\ \A i \in 1..16 : rows[i][2] => rows[i][1] # ""
    BY <1>2
  <2> QED
    BY <1>1, <1>2, <2>1, NoReason, Zenon
<1> QED
  BY <1>2, <1>3, Last, Zenon

LEMMA Factors ==
  ASSUME NEW t, NEW hit
  PROVE  /\ setup_quality_factor(t, hit) \in {30, 35, 45, 70, 100}
         /\ hit.tier \in DOMAIN ScoutFactors => setup_quality_factor(t, hit) <= 45
<1>1. \A tier \in DOMAIN ScoutFactors : ScoutFactors[tier] \in {30, 35, 45}
  BY DEF ScoutFactors
<1>2. CASE hit.tier \in DOMAIN ScoutFactors
  <2>1. setup_quality_factor(t, hit) = ScoutFactors[hit.tier]
    BY <1>2 DEF setup_quality_factor
  <2> QED
    BY <1>1, <1>2, <2>1
<1>3. CASE hit.tier \notin DOMAIN ScoutFactors
  <2>1. setup_quality_factor(t, hit) \in {45, 70, 100}
    BY <1>3, Zenon DEF setup_quality_factor
  <2> QED
    BY <1>3, <2>1
<1> QED
  BY <1>2, <1>3

(* A spread is fine, an exception of a lesser size, or too wide. *)
LEMMA Assessed ==
  ASSUME NEW t, NEW view, NEW setup
  PROVE  LET given(f) == [ok |-> TRUE, exception |-> TRUE, factor |-> f]
             assessed == assess_opportunity_scaled_spread(t, view, setup)
         IN  \/ assessed = NoException \/ assessed = TooWide
             \/ assessed = given(25) \/ assessed = given(35) \/ assessed = given(45)
<1> DEFINE factor == IF SpreadOver(t, view, SpreadCeiling(setup)) THEN 25
                     ELSE IF SpreadOver(t, view, 80) THEN 35 ELSE 45
           given(f) == [ok |-> TRUE, exception |-> TRUE, factor |-> f]
           assessed == assess_opportunity_scaled_spread(t, view, setup)
<1>1. assessed = NoException \/ assessed = TooWide \/ assessed = given(factor)
  BY Zenon DEF assess_opportunity_scaled_spread
<1>2. factor = 25 \/ factor = 35 \/ factor = 45
  OBVIOUS
<1>3. /\ factor = 25 => given(factor) = given(25)
      /\ factor = 35 => given(factor) = given(35)
      /\ factor = 45 => given(factor) = given(45)
  <2> HIDE DEF factor
  <2> QED
    OBVIOUS
<1> HIDE DEF factor, assessed, given
<1>4. \/ assessed = NoException \/ assessed = TooWide
      \/ assessed = given(25) \/ assessed = given(35) \/ assessed = given(45)
  BY <1>1, <1>2, <1>3, Zenon
<1> QED
  BY <1>4 DEF assessed, given

(* What the guard takes without a score, the sizing takes for an exception again. *)
LEMMA ExceptionAgain ==
  ASSUME NEW t, NEW view, NEW setup, NEW other,
         setup.score = 0, other.pattern = setup.pattern, other.tier = setup.tier,
         view.spread # 0, ~tick_aware_spread_ok(view.spread, Newest(t).c, 50),
         assess_opportunity_scaled_spread(t, view, setup).ok
  PROVE  assess_opportunity_scaled_spread(t, view, other).exception
<1> DEFINE wide == SpreadOver(t, view, SpreadCeiling(setup))
           factor == IF wide THEN 25 ELSE IF SpreadOver(t, view, 80) THEN 35 ELSE 45
           given == [ok |-> TRUE, exception |-> TRUE, factor |-> factor]
           assessed == assess_opportunity_scaled_spread(t, view, setup)
<1>1. /\ SpreadCeiling(other) = SpreadCeiling(setup)
      /\ EliteRunner(t, view, other) <=> EliteRunner(t, view, setup)
  <2>1. SpreadCeiling(other) = SpreadCeiling(setup)
    BY DEF SpreadCeiling
  <2>2. EliteRunner(t, view, other) <=> EliteRunner(t, view, setup)
    BY DEF EliteRunner
  <2> QED
    BY <2>1, <2>2
<1>2. ~TooWide.ok /\ given.exception
  BY DEF TooWide, NoException
<1>3. ~MassiveRunner(t, view, setup)
  BY DEF MassiveRunner
<1>4. EliteRunner(t, view, setup) /\ ~wide /\ ActiveBook(t, view)
  <2>1. assessed = TooWide \/ (/\ EliteRunner(t, view, setup)
                               /\ IF wide THEN MassiveRunner(t, view, setup)
                                  ELSE ActiveBook(t, view))
    BY Zenon DEF assess_opportunity_scaled_spread
  <2> QED
    BY <1>2, <1>3, <2>1, Zenon
<1>5. assess_opportunity_scaled_spread(t, view, other) = given
  BY <1>1, <1>4, Zenon DEF assess_opportunity_scaled_spread
<1> QED
  BY <1>2, <1>5, Zenon

LEMMA SpreadFactors ==
  ASSUME NEW t, NEW view, NEW hit
  PROVE  LET spread == SpreadOf(t, view, hit)
         IN  spread.exception \in BOOLEAN /\ (spread.exception => spread.factor \in {25, 35, 45})
<1> DEFINE Answer(x) == x.exception \in BOOLEAN /\ (x.exception => x.factor \in {25, 35, 45})
           setup == SetupOf(hit, AtLeast(0, hit.score) \div 100)
           given(f) == [ok |-> TRUE, exception |-> TRUE, factor |-> f]
           assessed == assess_opportunity_scaled_spread(t, view, setup)
<1>1. Answer(NoException) /\ Answer(TooWide)
  BY DEF NoException, TooWide
<1>2. Answer(given(25)) /\ Answer(given(35)) /\ Answer(given(45))
  OBVIOUS
<1>3. \/ assessed = NoException \/ assessed = TooWide
      \/ assessed = given(25) \/ assessed = given(35) \/ assessed = given(45)
  BY Assessed
<1>4. SpreadOf(t, view, hit) = assessed \/ SpreadOf(t, view, hit) = NoException
  BY DEF SpreadOf
<1> HIDE DEF assessed, given, Answer
<1>5. Answer(SpreadOf(t, view, hit))
  BY <1>1, <1>2, <1>3, <1>4
<1> QED
  BY <1>5 DEF Answer

LEMMA Shares ==
  ASSUME NEW d \in Nat, NEW r \in Nat, r > 0
  PROVE  d \div r \in Nat /\ (d \div r) * r <= d
OBVIOUS

LEMMA Affordable ==
  ASSUME NEW d \in Nat, NEW r \in Nat, NEW k \in Nat, k * r <= d,
         NEW q, q = AtLeast(1, AtMost(k, 2000))
  PROVE  q \in Nat /\ q >= 1 /\ (q = 1 \/ q * r <= d)
<1>1. q \in Nat /\ q >= 1 /\ (q = 1 \/ q <= k)
  BY DEF AtLeast, AtMost
<1>2. q <= k => q * r <= k * r
  BY <1>1
<1>3. q * r \in Nat /\ k * r \in Nat
  BY <1>1
<1> QED
  BY <1>1, <1>2, <1>3

-----------------------------------------------------------------------------
(* What the verifier signs. *)
Ticket == [entry : Int, stop : Int, target : Int, factor : Nat, exception : BOOLEAN, qty : Nat]
Strained(t, view) ==
  view.quotes >= 3 /\ view.spread > 0 /\ ~tick_aware_spread_ok(view.spread, Newest(t).c, 50)
Sound(t, view, hit, signal) ==
  /\ signal \in Ticket
  /\ signal.stop < signal.entry /\ signal.entry < signal.target
  /\ signal.factor <= 100 /\ signal.qty >= 1
  /\ signal.qty = 1 \/ signal.qty * RiskOf(signal) <= DollarRisk * 10 * signal.factor
  /\ Strained(t, view) \/ hit.tier \in DOMAIN ScoutFactors => signal.factor <= 45

LEMMA SizedSound ==
  ASSUME NEW t \in Tape, Len(t) >= 3, NEW view \in Look, NEW hit, NEW stop \in Int,
         stop < Newest(t).c,
         Strained(t, view) /\ hit.tier \notin DOMAIN ScoutFactors
           => SpreadOf(t, view, hit).exception
  PROVE  Sound(t, view, hit, Sized(t, view, hit, stop))
<1> DEFINE spread == SpreadOf(t, view, hit)
           quality == setup_quality_factor(t, hit)
           factor == IF spread.exception THEN AtMost(quality, spread.factor) ELSE quality
           price == Newest(t).c
           risk == price - stop
           dollars == DollarRisk * 10 * factor
           qty == AtLeast(1, AtMost(dollars \div risk, 2000))
           signal == [entry |-> price, stop |-> stop, target |-> price + 2 * risk,
                      factor |-> factor, exception |-> spread.exception, qty |-> qty]
<1>1. Sized(t, view, hit, stop) = signal
  BY Zenon DEF Sized
<1>2. price \in Int /\ risk \in Nat /\ risk > 0
  <2>1. t # <<>>
    BY LengthOf
  <2>2. price \in Nat
    BY <2>1, NewestBar DEF Minute, Price
  <2>3. stop < price
    OBVIOUS
  <2> HIDE DEF price
  <2> QED
    BY <2>2, <2>3
<1>3. /\ spread.exception \in BOOLEAN /\ (spread.exception => spread.factor \in {25, 35, 45})
      /\ quality \in {30, 35, 45, 70, 100} /\ (hit.tier \in DOMAIN ScoutFactors => quality <= 45)
  BY SpreadFactors, Factors
<1>4. factor \in Nat /\ factor <= 100
      /\ (spread.exception \/ hit.tier \in DOMAIN ScoutFactors => factor <= 45)
  <2> HIDE DEF spread, quality
  <2> QED
    BY <1>3 DEF AtMost
<1>5. Strained(t, view) \/ hit.tier \in DOMAIN ScoutFactors => factor <= 45
  <2> HIDE DEF factor
  <2> QED
    BY <1>4
<1>6. dollars \in Nat
  <2> HIDE DEF factor
  <2> QED
    BY <1>4, PlansAssumption
<1>7. qty \in Nat /\ qty >= 1 /\ (qty = 1 \/ qty * risk <= dollars)
  <2> DEFINE k == dollars \div risk
  <2>1. k \in Nat /\ k * risk <= dollars
    <3> HIDE DEF dollars, risk
    <3> QED
      BY <1>2, <1>6, Shares
  <2>2. qty = AtLeast(1, AtMost(k, 2000))
    OBVIOUS
  <2> HIDE DEF dollars, risk, qty, k
  <2> QED
    BY <1>2, <1>6, <2>1, <2>2, Affordable
<1> HIDE DEF spread, factor, qty, price
<1>8. /\ signal.entry = price /\ signal.stop = stop /\ signal.target = price + 2 * risk
      /\ signal.factor = factor /\ signal.qty = qty /\ signal \in Ticket
  BY <1>2, <1>3, <1>4, <1>7 DEF Ticket
<1>9. stop < price /\ price < price + 2 * risk
  BY <1>2
<1> HIDE DEF signal
<1> QED
  BY <1>1, <1>4, <1>5, <1>7, <1>8, <1>9 DEF Sound, RiskOf

LEMMA LookTyped ==
  ASSUME NEW view \in Look
  PROVE  view.quotes \in 0..5 /\ view.spread \in Nat
BY Zenon DEF Look

LEMMA StrainedMeans ==
  ASSUME NEW t, NEW view \in Look, Strained(t, view)
  PROVE  /\ view.quotes >= 3 /\ view.quotes > 0 /\ view.spread # 0
         /\ ~tick_aware_spread_ok(view.spread, Newest(t).c, 50)
BY LookTyped DEF Strained

(* The way through the verifier: the guard passes a hit, and its stop is accepted. *)
LEMMA SignedOnce ==
  ASSUME NEW t \in Tape, Len(t) >= 3, NEW view, NEW hit, IsHit(hit),
         verify(t, view, hit).why = ""
  PROVE  \E h : /\ IsHit(h) /\ check_entry_quality(t, view, SetupOf(h, 0), 5) = ""
                /\ Stopped(t, h).why = ""
                /\ verify(t, view, hit).hit = Stopped(t, h).hit
                /\ verify(t, view, hit).signal
                     = Sized(t, view, Stopped(t, h).hit, Stopped(t, h).stop)
<1> DEFINE early == IF hit.pattern \in {"vwap_pullback", "pullback_base"}
                   THEN late_pullback_reject(t, hit, view.float) ELSE Passes(hit)
           quiet == pattern_active_tape_reject(t, early.hit)
           guarded == Guarded(t, view, early.hit)
           h == guarded.hit
           stopped == Stopped(t, h)
           signal == Sized(t, view, stopped.hit, stopped.stop)
           answer == verify(t, view, hit)
<1>1. IsHit(early.hit)
  <2>1. IsHit(late_pullback_reject(t, hit, view.float).hit)
    BY LateKeepsHit
  <2>2. Passes(hit).hit = hit
    BY DEF Passes
  <2> QED
    BY <2>1, <2>2, Zenon
<1>2. IsHit(h) /\ (guarded.why = "" => check_entry_quality(t, view, SetupOf(h, 0), 5) = "")
  <2> HIDE DEF early
  <2> QED
    BY <1>1, GuardedHit, Zenon
<1>3. \A x : Unsigned(x).why = x.why
  BY DEF Unsigned
<1>4. Refuses(quiet, early.hit).why = quiet
  BY DEF Refuses
<1> HIDE DEF quiet, guarded, stopped, signal, early
<1>5. answer = WhenEarly(t, view, early)
  BY Zenon DEF verify, early
<1>6. early.why = ""
  BY <1>3, <1>5, Zenon DEF WhenEarly
<1>7. answer = WhenActive(t, view, early.hit, quiet)
  BY <1>5, <1>6, Zenon DEF WhenEarly, quiet
<1>8. quiet = ""
  BY <1>3, <1>4, <1>7, Zenon DEF WhenActive
<1>9. answer = WhenGuarded(t, view, guarded)
  BY <1>7, <1>8, Zenon DEF WhenActive, guarded
<1>10. guarded.why = ""
  BY <1>3, <1>9, Zenon DEF WhenGuarded
<1>11. answer = Signed(t, view, stopped)
  BY <1>9, <1>10, Zenon DEF WhenGuarded, stopped
<1>12. stopped.why = ""
  BY <1>3, <1>11, Zenon DEF Signed
<1>13. answer = [why |-> "", hit |-> stopped.hit, signal |-> signal]
  BY <1>11, <1>12, Zenon DEF Signed, signal
<1> HIDE DEF answer
<1>14. answer.hit = stopped.hit /\ answer.signal = signal
  BY <1>13
<1> HIDE DEF h
<1> QED
  BY <1>2, <1>10, <1>12, <1>14, Zenon DEF signal, stopped, answer

LEMMA VerifiedSound ==
  ASSUME NEW t \in Tape, Len(t) >= 3, NEW view \in Look, NEW hit, IsHit(hit),
         verify(t, view, hit).why = ""
  PROVE  /\ IsHit(verify(t, view, hit).hit)
         /\ Sound(t, view, verify(t, view, hit).hit, verify(t, view, hit).signal)
<1>1. PICK h : /\ IsHit(h) /\ check_entry_quality(t, view, SetupOf(h, 0), 5) = ""
               /\ Stopped(t, h).why = ""
               /\ verify(t, view, hit).hit = Stopped(t, h).hit
               /\ verify(t, view, hit).signal
                    = Sized(t, view, Stopped(t, h).hit, Stopped(t, h).stop)
  BY SignedOnce
<1> DEFINE last == Stopped(t, h).hit
           stop == Stopped(t, h).stop
           other == SetupOf(last, AtLeast(0, last.score) \div 100)
<1>2. /\ stop \in Int /\ stop < Newest(t).c /\ IsHit(last)
      /\ last = h \/ last.tier = "abc_scout"
  BY <1>1, StopBelow
<1>3. ASSUME Strained(t, view), last.tier \notin DOMAIN ScoutFactors
      PROVE  SpreadOf(t, view, last).exception
  <2>1. last = h
    <3>1. "abc_scout" \in DOMAIN ScoutFactors
      BY DEF ScoutFactors
    <3> QED
      BY <1>2, <1>3, <3>1, Zenon
  <2>2. /\ view.quotes >= 3 /\ view.quotes > 0 /\ view.spread # 0
        /\ ~tick_aware_spread_ok(view.spread, Newest(t).c, 50)
    BY <1>3, StrainedMeans
  <2>3. assess_opportunity_scaled_spread(t, view, SetupOf(h, 0)).ok
    BY <1>1, <2>2, GuardPassed
  <2>4. /\ SetupOf(h, 0).score = 0 /\ other.pattern = SetupOf(h, 0).pattern
        /\ other.tier = SetupOf(h, 0).tier
    <3> HIDE DEF last
    <3> QED
      BY <2>1 DEF SetupOf
  <2> HIDE DEF other, last
  <2>5. assess_opportunity_scaled_spread(t, view, other).exception
    BY <2>2, <2>3, <2>4, ExceptionAgain
  <2> QED
    BY <2>2, <2>5, Zenon DEF SpreadOf, other
<1>4. Sound(t, view, last, Sized(t, view, last, stop))
  <2> HIDE DEF last, stop
  <2> QED
    BY <1>2, <1>3, SizedSound
<1> QED
  BY <1>1, <1>2, <1>4, Zenon

-----------------------------------------------------------------------------
(* The tape that a leg prints is a tape. *)
LEMMA PartOf ==
  ASSUME NEW x \in Nat, NEW bp \in Nat
  PROVE  Times(x, bp) \in Nat /\ (bp <= 10000 => Times(x, bp) <= x)
<1>1. x * bp \in Nat /\ (bp <= 10000 => x * bp <= x * 10000)
  OBVIOUS
<1> DEFINE y == x * bp
<1>2. y \in Nat /\ (bp <= 10000 => y <= x * 10000)
  BY <1>1
<1> HIDE DEF y
<1>3. y \div 10000 \in Nat /\ (y <= x * 10000 => y \div 10000 <= x)
  BY <1>2
<1> QED
  BY <1>2, <1>3 DEF Times, y

LEMMA NextBarTyped ==
  ASSUME NEW t \in Tape, NEW start \in Price, NEW l \in Stretch
  PROVE  NextBar(t, start, l) \in Minute
<1> DEFINE move == l.move
           over == l.over
           under == l.under
           o == IF t = <<>> THEN start ELSE Newest(t).c
           c == AtLeast(1, Times(o, move))
           top == AtLeast(o, c)
           low == AtMost(o, c)
           high == AtLeast(top, Times(top, over))
           down == AtLeast(1, Times(low, under))
           bar == [o |-> o, c |-> c, h |-> high, l |-> down, v |-> l.v]
<1>1. /\ move \in Nat /\ over \in Nat /\ l.v \in Nat
      /\ under \in Nat /\ under <= 10000
  BY DEF Stretch
<1>2. o \in Price
  BY NewestBar DEF Minute
<1> HIDE DEF o, move, over, under
<1>3. c \in Price
  <2>1. o \in Nat
    BY <1>2 DEF Price
  <2>2. Times(o, move) \in Nat
    BY <1>1, <2>1, PartOf
  <2> QED
    BY <2>2 DEF Price, AtLeast
<1> HIDE DEF c
<1>4. /\ top \in Price /\ top >= o /\ top >= c
      /\ low \in Price /\ low <= o /\ low <= c
  BY <1>2, <1>3 DEF Price, AtLeast, AtMost
<1> HIDE DEF top, low
<1>5. high \in Price /\ high >= top
  <2>1. top \in Nat
    BY <1>4 DEF Price
  <2>2. Times(top, over) \in Nat
    BY <1>1, <2>1, PartOf
  <2> QED
    BY <1>4, <2>2 DEF Price, AtLeast
<1>6. down \in Price /\ down <= low
  <2>1. Times(low, under) \in Nat /\ Times(low, under) <= low
    <3>1. low \in Nat
      BY <1>4 DEF Price
    <3> QED
      BY <1>1, <3>1, PartOf
  <2> QED
    BY <1>4, <2>1 DEF Price, AtLeast
<1> HIDE DEF high, down
<1>7. down <= o /\ o <= high /\ down <= c /\ c <= high
  BY <1>2, <1>3, <1>4, <1>5, <1>6 DEF Price
<1>8. bar \in Minute
  BY <1>1, <1>2, <1>3, <1>5, <1>6, <1>7 DEF Minute
<1> HIDE DEF bar
<1>9. NextBar(t, start, l) = bar
  BY Zenon DEF NextBar, bar, move, over, under, o, c, top, low, high, down
<1> QED
  BY <1>8, <1>9

LEMMA PlayedTyped ==
  ASSUME NEW t \in Tape, NEW start \in Price, NEW l \in Stretch
  PROVE  Played(t, start, l) \in Tape
<1> DEFINE n == l.n
           V == Tape
           body(f) == [i \in 0..n |-> IF i = 0 THEN t
                                      ELSE Append(f[i - 1], NextBar(f[i - 1], start, l))]
           F == CHOOSE f : f = body(f)
           step == [i \in 1..n |-> [x \in V |-> Append(x, NextBar(x, start, l))]]
           good == {j \in 0..n : F[j] \in V}
<1>1. n \in Nat /\ t \in V /\ \A x \in V : Append(x, NextBar(x, start, l)) \in V
  <2>1. n \in Nat
    BY DEF Stretch
  <2>2. ASSUME NEW x \in Tape PROVE Append(x, NextBar(x, start, l)) \in Tape
    BY NextBarTyped DEF Tape
  <2> QED
    BY <2>1, <2>2
<1>2. step \in [1..n -> [V -> V]]
  <2> HIDE DEF n, V
  <2> QED
    BY <1>1
<1>3. PICK g \in [0..n -> V] : g[0] = t /\ \A i \in 1..n : g[i] = step[i][g[i - 1]]
  <2>1. n \in Nat /\ t \in V /\ step \in [1..n -> [V -> V]]
    BY <1>1, <1>2
  <2> HIDE DEF step, n, V
  <2>2. \E g \in [0..n -> V] : g[0] = t /\ \A i \in 1..n : g[i] = step[i][g[i - 1]]
    BY <2>1, Recursion
  <2> QED
    BY <2>2
<1>4. g = body(g)
  <2>1. ASSUME NEW i \in 1..n
        PROVE  g[i] = Append(g[i - 1], NextBar(g[i - 1], start, l))
    <3>1. i - 1 \in 0..n
      BY <1>1
    <3>2. g[i - 1] \in V /\ g[i] = step[i][g[i - 1]]
      <4> HIDE DEF V
      <4> QED
        BY <1>3, <3>1
    <3>3. step[i] = [x \in V |-> Append(x, NextBar(x, start, l))]
      OBVIOUS
    <3> HIDE DEF step, n, V
    <3> QED
      BY <3>2, <3>3
  <2>2. ASSUME NEW i \in 0..n
        PROVE  g[i] = IF i = 0 THEN t ELSE Append(g[i - 1], NextBar(g[i - 1], start, l))
    <3>1. i = 0 \/ i \in 1..n
      BY <1>1
    <3> HIDE DEF n, step, V
    <3> QED
      BY <1>3, <2>1, <3>1
  <2>3. g = [i \in 0..n |-> g[i]]
    <3> HIDE DEF n, step, V
    <3> QED
      BY <1>3
  <2> HIDE DEF step, n, V
  <2> QED
    BY <2>2, <2>3
<1>5. F = body(F)
  <2> HIDE DEF body
  <2> QED
    BY <1>4
<1> HIDE DEF F
<1>6. 0 \in good
  <2>1. 0 \in 0..n
    BY <1>1
  <2>2. F[0] = t
    BY <1>5, <2>1
  <2> QED
    BY <1>1, <2>1, <2>2
<1>7. ASSUME NEW i \in 1..n, i - 1 \in good PROVE i \in good
  <2>1. i \in 0..n /\ i # 0
    BY <1>1
  <2>2. F[i] = Append(F[i - 1], NextBar(F[i - 1], start, l))
    BY <1>5, <2>1
  <2>3. F[i - 1] \in V
    BY <1>7
  <2>4. F[i] \in V
    <3> HIDE DEF V
    <3> QED
      BY <1>1, <2>2, <2>3
  <2> QED
    BY <2>1, <2>4
<1>8. n \in good
  <2>1. n \in 0..n
    BY <1>1
  <2> HIDE DEF good, n
  <2> QED
    BY <1>1, <1>6, <1>7, <2>1, Climbs
<1> QED
  BY <1>8 DEF Played, F

-----------------------------------------------------------------------------
(* The last gates. *)
LEMMA Seven ==
  ASSUME NEW r1, NEW r2, NEW r3, NEW r4, NEW r5, NEW r6, NEW r7
  PROVE  LET rows == <<r1, r2, r3, r4, r5, r6, r7>>
         IN  /\ DOMAIN rows = 1..7 /\ 7 \in Nat /\ 2 \in 1..7 /\ 4 \in 1..7 /\ 5 \in 1..7
             /\ \A i \in 1..7 : rows[i] \in {r1, r2, r3, r4, r5, r6, r7}
             /\ rows[2] = r2 /\ rows[4] = r4 /\ rows[5] = r5
OBVIOUS

LEMMA SaysWhy ==
  ASSUME NEW why
  PROVE  /\ Says(why)[2] => Says(why)[1] # ""
         /\ ~Says(why)[2] => why = ""
BY DEF Says

LEMMA GatePassed ==
  ASSUME NEW s, NEW signal, NEW capped, NEW news, NEW market,
         GateReject(s, signal, capped, news, market) = ""
  PROVE  /\ final_entry_quality_reject(s, signal) = ""
         /\ ~((signal.target - signal.entry) * 10 < MinReward(news) * RiskOf(signal))
         /\ ~(OverRisk(signal) /\ SafeShares(signal) < 10)
<1> DEFINE low == (signal.target - signal.entry) * 10 < MinReward(news) * RiskOf(signal)
           final == final_entry_quality_reject(s, signal)
           entered == check_entry(tape, look, s.hit, market)
           r1 == <<"negative news", news <= -30>>
           r2 == Says(final)
           r3 == <<"late chase", normal_entry_chase_reject(s, signal)>>
           r4 == <<"reward too small", low>>
           r5 == <<"risk cap", OverRisk(signal) /\ SafeShares(signal) < 10>>
           r6 == <<"position_risk_limit", capped.qty > MaxHeld>>
           r7 == Says(entered)
<1>1. GateReject(s, signal, capped, news, market) = FirstOf(<<r1, r2, r3, r4, r5, r6, r7>>)
  BY Zenon DEF GateReject
<1>2. r1[1] # "" /\ r3[1] # "" /\ r4[1] # "" /\ r5[1] # "" /\ r6[1] # ""
  OBVIOUS
<1>3. /\ ~r2[2] => final = ""
      /\ ~r4[2] => ~low
      /\ ~r5[2] => ~(OverRisk(signal) /\ SafeShares(signal) < 10)
      /\ r2[2] => r2[1] # ""
      /\ r7[2] => r7[1] # ""
  <2> HIDE DEF low, final, entered
  <2>1. ~r4[2] => ~low
    BY Zenon DEF low
  <2>2. ~r5[2] => ~(OverRisk(signal) /\ SafeShares(signal) < 10)
    OBVIOUS
  <2> QED
    BY <2>1, <2>2, SaysWhy
<1> HIDE DEF low, r1, r2, r3, r4, r5, r6, r7
<1> DEFINE rows == <<r1, r2, r3, r4, r5, r6, r7>>
<1>4. /\ DOMAIN rows = 1..7 /\ 7 \in Nat /\ 2 \in 1..7 /\ 4 \in 1..7 /\ 5 \in 1..7
      /\ \A i \in 1..7 : rows[i] \in {r1, r2, r3, r4, r5, r6, r7}
      /\ rows[2] = r2 /\ rows[4] = r4 /\ rows[5] = r5
  BY Seven
<1>5. FirstOf(rows) = ""
  BY <1>1
<1> HIDE DEF rows
<1>6. \A i \in 1..7 : rows[i][2] => rows[i][1] # ""
  BY <1>2, <1>3, <1>4
<1>7. \A i \in 1..7 : ~rows[i][2]
  BY <1>4, <1>5, <1>6, NoReason, Zenon
<1>8. ~r2[2] /\ ~r4[2] /\ ~r5[2]
  BY <1>4, <1>7, Zenon
<1> QED
  BY <1>3, <1>8, Zenon DEF low

(* A capped entry is lower, and its target still above it. *)
LEMMA LevelCapped ==
  ASSUME NEW t, NEW view, NEW s, IsHit(s.hit), Sound(t, view, s.hit, s.signal)
  PROVE  Sound(t, view, s.hit, maybe_apply_level_capped_entry(s))
<1> DEFINE base == FirstAbove0(s.hit.level, s.hit.baseHigh)
           cap == Times(base, 10100)
           was == s.signal
           risk == cap - was.stop
           target == IF was.target > cap THEN was.target
                     ELSE cap + AtLeast((risk * 18) \div 10, (cap * 15) \div 1000)
           x == [was EXCEPT !.entry = cap, !.target = target]
           answer == maybe_apply_level_capped_entry(s)
<1>1. /\ was \in Ticket /\ was.stop < was.entry /\ was.entry < was.target
      /\ was.factor <= 100 /\ was.qty >= 1
      /\ was.qty = 1 \/ was.qty * RiskOf(was) <= DollarRisk * 10 * was.factor
      /\ Strained(t, view) \/ s.hit.tier \in DOMAIN ScoutFactors => was.factor <= 45
  BY DEF Sound
<1>2. cap \in Int
  BY DEF IsHit, FirstAbove0, Times
<1>3. answer = was \/ (answer = x /\ was.entry > cap /\ was.stop < cap)
  <2>1. answer = IF CapApplies(s, base, cap) THEN x ELSE was
    BY DEF maybe_apply_level_capped_entry
  <2>2. CapApplies(s, base, cap) => was.entry > cap /\ was.stop < cap
    <3> HIDE DEF base, cap
    <3> QED
      BY DEF CapApplies
  <2> HIDE DEF answer, x, base, cap, was
  <2> QED
    BY <2>1, <2>2
<1> HIDE DEF cap, was
<1>4. ASSUME was.entry > cap, was.stop < cap
      PROVE  Sound(t, view, s.hit, x)
  <2>1. was.stop \in Int /\ was.entry \in Int /\ was.target \in Int /\ was.qty \in Nat
        /\ was.factor \in Nat
    BY <1>1 DEF Ticket
  <2>2. target \in Int /\ cap < target
    <3>1. risk \in Nat /\ risk >= 1
      BY <1>2, <1>4, <2>1
    <3>2. (risk * 18) \div 10 \in Int /\ (risk * 18) \div 10 >= 1
      <4> HIDE DEF risk
      <4> QED
        BY <3>1
    <3>3. (cap * 15) \div 1000 \in Int
      BY <1>2
    <3> HIDE DEF risk
    <3> QED
      BY <1>2, <2>1, <3>2, <3>3 DEF AtLeast
  <2> HIDE DEF target
  <2>3. /\ x \in Ticket /\ x.entry = cap /\ x.target = target /\ x.stop = was.stop
        /\ x.factor = was.factor /\ x.qty = was.qty
    BY <1>1, <1>2, <2>2 DEF Ticket
  <2>4. RiskOf(x) \in Nat /\ RiskOf(was) \in Nat /\ RiskOf(x) <= RiskOf(was)
    BY <1>2, <1>4, <2>1, <2>3 DEF RiskOf
  <2>5. x.qty = 1 \/ x.qty * RiskOf(x) <= DollarRisk * 10 * x.factor
    <3> DEFINE a == RiskOf(x)
               b == RiskOf(was)
               q == was.qty
               d == DollarRisk * 10 * was.factor
    <3>1. q * a <= q * b /\ q * a \in Nat /\ q * b \in Nat
      <4>1. q \in Nat /\ a \in Nat /\ b \in Nat /\ a <= b
        BY <2>1, <2>4
      <4> HIDE DEF a, b, q
      <4> QED
        BY <4>1
    <3>2. d \in Nat
      BY <2>1, PlansAssumption
    <3>3. q = 1 \/ q * b <= d
      BY <1>1
    <3>4. q = 1 \/ q * a <= d
      <4> DEFINE m == q * a
                 n == q * b
      <4> HIDE DEF m, n, d
      <4>1. m <= n /\ m \in Nat /\ n \in Nat /\ (q = 1 \/ n <= d)
        BY <3>1, <3>3 DEF m, n
      <4>2. q = 1 \/ m <= d
        BY <3>2, <4>1
      <4> QED
        BY <4>2 DEF m
    <3> QED
      BY <2>3, <3>4
  <2> HIDE DEF x
  <2>6. x.stop < x.entry /\ x.entry < x.target
    BY <1>4, <2>2, <2>3
  <2> QED
    BY <1>1, <2>3, <2>5, <2>6 DEF Sound
<1>5. Sound(t, view, s.hit, was)
  BY DEF was
<1> HIDE DEF x, answer
<1>6. Sound(t, view, s.hit, answer)
  BY <1>3, <1>4, <1>5, Zenon
<1> QED
  BY <1>6 DEF answer

(* What passes the gates keeps the three promises. *)
LEMMA Affords ==
  ASSUME NEW t, NEW view, NEW hit, NEW signal, Sound(t, view, hit, signal),
         ~(OverRisk(signal) /\ SafeShares(signal) < 10)
  PROVE  LET x == Capped(signal)
         IN  /\ x.entry = signal.entry /\ x.stop = signal.stop /\ x.target = signal.target
             /\ x.factor = signal.factor
             /\ x.qty \in 1..MaxShares
             /\ x.qty = 1 \/ x.qty * RiskOf(x) <= DollarRisk * 10 * x.factor
<1> DEFINE qty == signal.qty
           risk == RiskOf(signal)
           factor == signal.factor
           most == DollarRisk * 1000
           d == DollarRisk * 10 * factor
           few == AtMost(qty, MaxShares)
           x == Capped(signal)
<1>1. /\ signal \in Ticket /\ signal.stop < signal.entry /\ qty >= 1 /\ factor <= 100
      /\ qty = 1 \/ qty * risk <= d
  BY DEF Sound
<1>2. /\ qty \in Nat /\ factor \in Nat /\ signal.entry \in Int /\ signal.stop \in Int
  BY <1>1 DEF Ticket
<1>3. risk \in Nat /\ risk > 0
  BY <1>1, <1>2 DEF RiskOf
<1>4. d \in Nat /\ most \in Nat /\ d <= most
  <2>1. DollarRisk \in Nat
    BY PlansAssumption
  <2> HIDE DEF factor
  <2>2. DollarRisk * factor <= DollarRisk * 100 /\ DollarRisk * factor \in Nat
    BY <1>1, <1>2, <2>1
  <2> QED
    BY <1>2, <2>1, <2>2
<1> HIDE DEF d, most, qty, risk, factor
<1>5. ~OverRisk(signal)
  <2>1. OverRisk(signal) <=> risk * qty > most
    BY Zenon DEF OverRisk, risk, qty, most
  <2>2. SafeShares(signal) = most \div risk
    BY Zenon DEF SafeShares, risk, most
  <2>3. CASE qty = 1
    <3>1. risk > most => most \div risk = 0
      BY <1>3, <1>4
    <3> QED
      BY <1>3, <1>4, <2>1, <2>2, <2>3, <3>1
  <2>4. CASE qty * risk <= d
    <3>1. qty * risk \in Nat /\ risk * qty = qty * risk
      BY <1>2, <1>3
    <3> DEFINE m == qty * risk
    <3>2. m \in Nat /\ m <= d
      BY <2>4, <3>1
    <3> HIDE DEF m
    <3>3. ~(m > most)
      BY <1>4, <3>2
    <3> QED
      BY <2>1, <3>1, <3>3 DEF m
  <2> QED
    BY <1>1, <2>3, <2>4
<1>6. few \in 1..MaxShares /\ few \in Nat /\ few <= qty
  BY <1>1, <1>2, GatesAssumption DEF AtMost
<1>7. /\ x.entry = signal.entry /\ x.stop = signal.stop /\ x.target = signal.target
      /\ x.factor = factor /\ x.qty = few
  BY <1>1, <1>5 DEF Capped, Ticket, few, qty, factor
<1> HIDE DEF few, x
<1>8. RiskOf(x) = risk
  BY <1>7 DEF RiskOf, risk
<1>9. few = 1 \/ few * risk <= d
  <2>1. few * risk <= qty * risk /\ few * risk \in Nat /\ qty * risk \in Nat
    BY <1>2, <1>3, <1>6
  <2>2. qty = 1 => few = 1
    BY <1>6
  <2> DEFINE m == few * risk
             n == qty * risk
  <2>3. m <= n /\ m \in Nat /\ n \in Nat /\ (qty = 1 \/ n <= d)
    BY <1>1, <2>1
  <2> HIDE DEF m, n
  <2>4. qty = 1 \/ m <= d
    BY <1>4, <2>3
  <2> QED
    BY <2>2, <2>4 DEF m
<1>10. /\ x.factor = signal.factor /\ x.qty \in 1..MaxShares
       /\ x.qty = 1 \/ x.qty * RiskOf(x) <= DollarRisk * 10 * x.factor
  BY <1>6, <1>7, <1>8, <1>9 DEF d, factor
<1> QED
  BY <1>7, <1>10, Zenon DEF x

LEMMA BlindFlow ==
  ASSUME NEW view \in Look
  PROVE  ~selling(Blind(view))
<1>1. Blind(view).flow = 0
  BY Zenon DEF Blind, Look
<1> QED
  BY <1>1 DEF selling

LEMMA NotSold ==
  ASSUME NEW t, NEW view, NEW setup, ~selling(view)
  PROVE  ~elite_sub2_reclaim(t, view, setup)
BY DEF elite_sub2_reclaim

LEMMA FinalScore ==
  ASSUME NEW s, NEW signal, look \in Look, final_entry_quality_reject(s, signal) = ""
  PROVE  /\ ~((signal.entry - signal.stop) * 100 > 6 * signal.entry)
         /\ \/ RuleScore(tape, Blind(look)) >= ScoreThreshold
            \/ s.hit.tier = "vwap_reclaim_scout" /\ RuleScore(tape, Blind(look)) >= 75
<1> DEFINE score == FirstAbove0(s.hit.told, AtLeast(0, s.hit.score) \div 100)
           setup == SetupOf(s.hit, score)
           wide == (signal.entry - signal.stop) * 100 > 6 * signal.entry
           checked == check_entry_quality(tape, Blind(look), setup, 0)
<1>1. final_entry_quality_reject(s, signal) = IF wide THEN "stop too wide" ELSE checked
  BY DEF final_entry_quality_reject
<1>2. ~wide /\ checked = ""
  <2> HIDE DEF wide, checked
  <2> QED
    BY <1>1
<1>3. ScoreOk(tape, Blind(look), setup)
  <2> HIDE DEF setup
  <2> QED
    BY <1>2, GuardPassed
<1>4. ~elite_sub2_reclaim(tape, Blind(look), setup)
  <2> DEFINE view == Blind(look)
  <2>1. ~selling(view)
    BY BlindFlow
  <2> HIDE DEF view, setup
  <2>2. ~elite_sub2_reclaim(tape, view, setup)
    BY <2>1, NotSold, Zenon
  <2> QED
    BY <2>2 DEF view
<1>5. setup.tier = s.hit.tier
  BY DEF SetupOf
<1> HIDE DEF setup
<1>6. \/ RuleScore(tape, Blind(look)) >= ScoreThreshold
      \/ vwap_reclaim_scout_score_ok(tape, setup, RuleScore(tape, Blind(look)))
  BY <1>3, <1>4, Zenon DEF ScoreOk
<1> QED
  BY <1>2, <1>5, <1>6, Zenon DEF vwap_reclaim_scout_score_ok

-----------------------------------------------------------------------------
(* The invariant: the tape and the look are typed, every hit that is still to be verified
   is one on at least three bars, and every signal that waits for the gates is sound on
   the tape it was verified on. *)
TapeTyped ==
  /\ script \in Scripts /\ leg \in Nat
  /\ tape \in Tape /\ look \in Look
FoundSound == \A hit \in found : IsHit(hit) /\ Len(tape) >= 3
SignalsSound == \A s \in signals : IsHit(s.hit) /\ Sound(tape, look, s.hit, s.signal)
CycleInv ==
  /\ TapeTyped /\ FoundSound /\ SignalsSound
  /\ OrderBounded /\ ScoutsStaySmall /\ ScoredOrScout

LEMMA Starts == CycleInit => CycleInv
<1> SUFFICES ASSUME CycleInit PROVE CycleInv
  OBVIOUS
<1>1. script \in Scripts /\ leg = 0 /\ tape = <<>> /\ look \in Looks /\ found = {}
      /\ signals = {} /\ bought = NothingBought
  BY DEF CycleInit
<1>2. look \in Look
  BY <1>1, GatesAssumption
<1>3. tape \in Tape
  BY <1>1 DEF Tape
<1>4. leg \in Nat
  BY <1>1
<1> QED
  BY <1>1, <1>2, <1>3, <1>4, Zenon
     DEF CycleInv, TapeTyped, FoundSound, SignalsSound, OrderBounded, ScoutsStaySmall,
       ScoredOrScout

(* An order, or none, that stays on its tape stays what it was. *)
LEMMA OrderKept ==
  ASSUME OrderBounded, ScoutsStaySmall, ScoredOrScout,
         bought' = NothingBought \/ UNCHANGED <<bought, tape, look>>
  PROVE  OrderBounded' /\ ScoutsStaySmall' /\ ScoredOrScout'
<1>1. CASE bought' = NothingBought
  BY <1>1, Zenon DEF OrderBounded, ScoutsStaySmall, ScoredOrScout
<1>2. CASE UNCHANGED <<bought, tape, look>>
  BY <1>2 DEF OrderBounded, ScoutsStaySmall, ScoredOrScout
<1> QED
  BY <1>1, <1>2

LEMMA ScanKeeps ==
  ASSUME CycleInv, Scan PROVE CycleInv'
<1> DEFINE l == script.legs[leg + 1]
           start == script.start
<1>1. /\ found = {} /\ signals = {} /\ bought = NothingBought /\ leg < Len(script.legs)
      /\ leg' = leg + 1 /\ tape' = Played(tape, start, l) /\ found' = HitsOf(tape')
      /\ look' \in Looks
      /\ script' = script /\ signals' = signals /\ bought' = bought
  BY DEF Scan
<1>2. script \in [start : Nat \ {0}, legs : Seq(Stretch)] /\ leg \in Nat /\ tape \in Tape
  BY GatesAssumption DEF CycleInv, TapeTyped
<1>3. l \in Stretch /\ start \in Price
  <2>1. script.legs \in Seq(Stretch) /\ script.start \in Nat \ {0}
    BY <1>2, Zenon
  <2> DEFINE legs == script.legs
  <2>2. leg + 1 \in 1..Len(legs)
    <3>1. Len(legs) \in Nat
      BY <2>1
    <3> HIDE DEF legs
    <3> QED
      BY <1>1, <1>2, <3>1 DEF legs
  <2>3. legs[leg + 1] \in Stretch
    <3> HIDE DEF legs
    <3> QED
      BY <2>1, <2>2 DEF legs
  <2> QED
    BY <2>1, <2>3 DEF Price
<1> HIDE DEF l, start
<1>4. tape' \in Tape
  BY <1>1, <1>2, <1>3, PlayedTyped
<1>5. TapeTyped'
  <2>1. look' \in Look /\ leg' \in Nat /\ script' \in Scripts
    BY <1>1, <1>2, GatesAssumption DEF CycleInv, TapeTyped
  <2> QED
    BY <1>4, <2>1 DEF TapeTyped
<1>6. FoundSound'
  <2>1. \A hit \in HitsOf(tape') : IsHit(hit) /\ Len(tape') >= 3
    BY <1>4, FoundHits
  <2> QED
    BY <1>1, <2>1 DEF FoundSound
<1>7. SignalsSound'
  BY <1>1 DEF SignalsSound
<1>8. OrderBounded' /\ ScoutsStaySmall' /\ ScoredOrScout'
  BY <1>1, OrderKept DEF CycleInv
<1> QED
  BY <1>5, <1>6, <1>7, <1>8 DEF CycleInv

LEMMA HideKeeps ==
  ASSUME CycleInv, NEW hit \in found, Hide(hit) PROVE CycleInv'
<1>1. /\ found' \subseteq found
      /\ UNCHANGED <<script, leg, tape, look, config, signals, cooldowns, blocked, bought>>
  BY DEF Hide
<1>2. TapeTyped' /\ FoundSound' /\ SignalsSound'
  BY <1>1 DEF CycleInv, TapeTyped, FoundSound, SignalsSound
<1>3. OrderBounded' /\ ScoutsStaySmall' /\ ScoredOrScout'
  BY <1>1, OrderKept DEF CycleInv
<1> QED
  BY <1>2, <1>3 DEF CycleInv

LEMMA VerifyKeeps ==
  ASSUME CycleInv, NEW hit \in found, Verify(hit) PROVE CycleInv'
<1> DEFINE answer == verify(tape, look, hit)
           new == [hit |-> answer.hit, signal |-> answer.signal]
<1>1. /\ found' \subseteq found
      /\ signals' = signals \/ (answer.why = "" /\ signals' = signals \union {new})
      /\ UNCHANGED <<script, leg, tape, look, bought>>
  BY DEF Verify
<1>2. TapeTyped' /\ FoundSound'
  BY <1>1 DEF CycleInv, TapeTyped, FoundSound
<1>3. SignalsSound'
  <2>1. answer.why = "" => IsHit(answer.hit) /\ Sound(tape, look, answer.hit, answer.signal)
    BY VerifiedSound DEF CycleInv, TapeTyped, FoundSound
  <2>2. new.hit = answer.hit /\ new.signal = answer.signal
    OBVIOUS
  <2>3. answer.why = "" => IsHit(new.hit) /\ Sound(tape, look, new.hit, new.signal)
    BY <2>1, <2>2
  <2> HIDE DEF answer, new
  <2> QED
    BY <1>1, <2>3 DEF CycleInv, SignalsSound
<1>4. OrderBounded' /\ ScoutsStaySmall' /\ ScoredOrScout'
  BY <1>1, OrderKept DEF CycleInv
<1> QED
  BY <1>2, <1>3, <1>4 DEF CycleInv

LEMMA CountsTyped == \A k \in 1..MaxShares : k \in Int
BY GatesAssumption

LEMMA BracketHolds ==
  ASSUME NEW e \in Int, NEW st \in Int, NEW tg \in Int, NEW reward \in Nat,
         ~((e - st) * 100 > 6 * e), ~((tg - e) * 10 < reward * (e - st))
  PROVE  e - st \in Int /\ (e - st) * 100 <= 6 * e /\ (tg - e) * 10 >= reward * (e - st)
OBVIOUS

LEMMA SmallDollars ==
  ASSUME NEW q \in Int, NEW r \in Int, NEW f \in Nat, f <= 45,
         q = 1 \/ q * r <= DollarRisk * 10 * f
  PROVE  q = 1 \/ q * r * 100 <= DollarRisk * 1000 * 45
<1>1. DollarRisk \in Nat
  BY PlansAssumption
<1> DEFINE d == DollarRisk
           m == q * r
<1>2. m \in Int
  OBVIOUS
<1>3. d * 10 * f <= d * 450 /\ d * 10 * f \in Int
  <2> HIDE DEF d
  <2>1. d * f <= d * 45 /\ d * f \in Int
    BY <1>1 DEF d
  <2> QED
    BY <1>1, <2>1 DEF d
<1>4. q = 1 \/ m <= d * 10 * f
  OBVIOUS
<1> HIDE DEF m
<1>5. q = 1 \/ m <= d * 450
  BY <1>1, <1>2, <1>3, <1>4
<1>6. q = 1 \/ m * 100 <= d * 1000 * 45
  BY <1>1, <1>2, <1>5
<1> QED
  BY <1>6 DEF m

(* What the gates let through. *)
LEMMA GateOrders ==
  ASSUME CycleInv, NEW s \in signals, NEW news, NEW market,
         GateReject(s, maybe_apply_level_capped_entry(s),
                    Capped(maybe_apply_level_capped_entry(s)), news, market) = "",
         bought' = [hit |-> s.hit, news |-> news,
                    signal |-> Capped(maybe_apply_level_capped_entry(s))],
         UNCHANGED <<tape, look>>
  PROVE  OrderBounded' /\ ScoutsStaySmall' /\ ScoredOrScout'
<1> DEFINE signal == maybe_apply_level_capped_entry(s)
           x == Capped(signal)
           few(y) == y.qty = 1 \/ y.qty * RiskOf(y) <= DollarRisk * 10 * y.factor
           strained == Strained(tape, look)
           scout == s.hit.tier \in DOMAIN ScoutFactors
<1>1. IsHit(s.hit) /\ Sound(tape, look, s.hit, s.signal) /\ look \in Look
  BY DEF CycleInv, SignalsSound, TapeTyped
<1>2. Sound(tape, look, s.hit, signal)
  BY <1>1, LevelCapped
<1> HIDE DEF signal
<1>3. /\ final_entry_quality_reject(s, signal) = ""
      /\ ~((signal.target - signal.entry) * 10 < MinReward(news) * RiskOf(signal))
      /\ ~(OverRisk(signal) /\ SafeShares(signal) < 10)
  BY GatePassed DEF signal
<1>4. /\ x.entry = signal.entry /\ x.stop = signal.stop /\ x.target = signal.target
      /\ x.factor = signal.factor /\ x.qty \in 1..MaxShares /\ few(x)
  <2>1. ~(OverRisk(signal) /\ SafeShares(signal) < 10)
    BY <1>3, Zenon
  <2> QED
    BY <1>2, <2>1, Affords, ZenonT(60)
<1>5. /\ ~((signal.entry - signal.stop) * 100 > 6 * signal.entry)
      /\ \/ RuleScore(tape, Blind(look)) >= ScoreThreshold
         \/ s.hit.tier = "vwap_reclaim_scout" /\ RuleScore(tape, Blind(look)) >= 75
  BY <1>1, <1>3, FinalScore
<1>6. /\ signal.stop < signal.entry /\ signal.entry < signal.target
      /\ signal.factor \in Nat /\ signal.stop \in Int /\ signal.entry \in Int
      /\ signal.target \in Int /\ (strained \/ scout => signal.factor <= 45)
  BY <1>2 DEF Sound, Ticket
<1> HIDE DEF x, strained, scout
<1> DEFINE e == signal.entry
           st == signal.stop
           tg == signal.target
           q == x.qty
           f == signal.factor
           reward == MinReward(news)
           Bounded(y) == /\ y.stop < y.entry /\ y.entry < y.target
                         /\ RiskOf(y) * 100 <= 6 * y.entry
                         /\ (y.target - y.entry) * 10 >= MinReward(news) * RiskOf(y)
           Small(y) == y.qty = 1 \/ y.qty * RiskOf(y) * 100 <= DollarRisk * 1000 * 45
<1>7. RiskOf(x) = e - st /\ RiskOf(signal) = e - st
  BY <1>4 DEF RiskOf
<1>8. /\ e \in Int /\ st \in Int /\ tg \in Int /\ f \in Nat /\ q \in Int /\ reward \in Nat
  <2>1. q \in Int
    BY <1>4, CountsTyped, Zenon
  <2>2. reward \in Nat
    BY DEF MinReward
  <2> QED
    BY <1>6, <2>1, <2>2, Zenon
<1>9. Bounded(x) /\ e - st \in Int
  <2>1. ~((e - st) * 100 > 6 * e) /\ ~((tg - e) * 10 < reward * (e - st))
    BY <1>3, <1>5, <1>7, Zenon
  <2>2. e - st \in Int /\ (e - st) * 100 <= 6 * e /\ (tg - e) * 10 >= reward * (e - st)
    <3> HIDE DEF e, st, tg, reward
    <3> QED
      BY <1>8, <2>1, BracketHolds
  <2> QED
    BY <1>4, <1>6, <1>7, <2>2, Zenon
<1>10. strained \/ scout => Small(x)
  <2> DEFINE r == e - st
  <2>1. r \in Int
    BY <1>9
  <2>2. q = 1 \/ q * r <= DollarRisk * 10 * f
    BY <1>4, <1>7, Zenon
  <2>3. strained \/ scout => f <= 45
    BY <1>6, Zenon
  <2> HIDE DEF q, f, r
  <2>4. strained \/ scout => (q = 1 \/ q * r * 100 <= DollarRisk * 1000 * 45)
    BY <1>8, <2>1, <2>2, <2>3, SmallDollars, ZenonT(60)
  <2> QED
    BY <1>7, <2>4, Zenon DEF q, r
<1>11. bought'.hit = s.hit /\ bought'.news = news /\ bought'.signal = x
  BY DEF x, signal
<1>12. OrderBounded'
  BY <1>4, <1>9, <1>11 DEF OrderBounded
<1>13. ScoutsStaySmall'
  BY <1>10, <1>11 DEF ScoutsStaySmall, strained, scout, Strained
<1>14. ScoredOrScout'
  BY <1>5, <1>11 DEF ScoredOrScout
<1> QED
  BY <1>12, <1>13, <1>14

LEMMA GateKeeps ==
  ASSUME CycleInv, NEW s \in signals, NEW news, NEW market, Gate(s, news, market)
  PROVE  CycleInv'
<1>1. /\ signals' \subseteq signals /\ UNCHANGED <<script, leg, tape, look, found>>
      /\ \/ bought' = bought
         \/ /\ GateReject(s, maybe_apply_level_capped_entry(s),
                          Capped(maybe_apply_level_capped_entry(s)), news, market) = ""
            /\ bought' = [hit |-> s.hit, news |-> news,
                          signal |-> Capped(maybe_apply_level_capped_entry(s))]
  BY DEF Gate
<1>2. TapeTyped' /\ FoundSound' /\ SignalsSound'
  BY <1>1 DEF CycleInv, TapeTyped, FoundSound, SignalsSound
<1>3. OrderBounded' /\ ScoutsStaySmall' /\ ScoredOrScout'
  <2>1. CASE bought' = bought
    BY <1>1, <2>1, OrderKept DEF CycleInv
  <2>2. CASE bought' # bought
    BY <1>1, <2>2, GateOrders
  <2> QED
    BY <2>1, <2>2
<1> QED
  BY <1>2, <1>3 DEF CycleInv

LEMMA CycleInvariant == CycleSpec => []CycleInv
<1>1. CycleInv /\ [CycleNext]_cycleVars => CycleInv'
  <2> SUFFICES ASSUME CycleInv, [CycleNext]_cycleVars PROVE CycleInv'
    OBVIOUS
  <2>1. CASE Scan
    BY <2>1, ScanKeeps
  <2>2. CASE \E hit \in found : Hide(hit)
    BY <2>2, HideKeeps
  <2>3. CASE \E hit \in found : Verify(hit)
    BY <2>3, VerifyKeeps
  <2>4. CASE \E s \in signals, news \in News, market \in Markets : Gate(s, news, market)
    BY <2>4, GateKeeps
  <2>5. CASE UNCHANGED cycleVars
    <3>1. /\ TapeTyped' /\ FoundSound' /\ SignalsSound'
      BY <2>5 DEF CycleInv, TapeTyped, FoundSound, SignalsSound, cycleVars
    <3>2. OrderBounded' /\ ScoutsStaySmall' /\ ScoredOrScout'
      BY <2>5, OrderKept DEF CycleInv, cycleVars
    <3> QED
      BY <3>1, <3>2 DEF CycleInv
  <2> QED
    BY <2>1, <2>2, <2>3, <2>4, <2>5 DEF CycleNext
<1> QED
  BY <1>1, Starts, PTL DEF CycleSpec

(* What the cycle sends to the broker is a bracket around its entry, its stop at most six
   percent away, its target worth the risk, within its dollars and the share limit,
   whatever the tape, the look and the hit (_verify_pattern, run_cycle). *)
THEOREM OrdersBounded == CycleSpec => []OrderBounded
<1>1. CycleInv => OrderBounded
  BY DEF CycleInv
<1> QED
  BY <1>1, CycleInvariant, PTL

(* A scout, and an entry through a spread that the guard excuses, risks less than half of
   a full position (entry_guard.py, _verify_pattern). *)
THEOREM ScoutsSmall == CycleSpec => []ScoutsStaySmall
<1>1. CycleInv => ScoutsStaySmall
  BY DEF CycleInv
<1> QED
  BY <1>1, CycleInvariant, PTL

(* Nothing below the rule score is bought but a VWAP reclaim scout
   (final_entry_quality_reject, check_entry_quality). *)
THEOREM BoughtScored == CycleSpec => []ScoredOrScout
<1>1. CycleInv => ScoredOrScout
  BY DEF CycleInv
<1> QED
  BY <1>1, CycleInvariant, PTL
=============================================================================
