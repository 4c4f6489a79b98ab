----------------------- MODULE PositionReconcilerProofs -----------------------
(***************************************************************************)
(* Machine-checked proofs about PositionReconciler, for every set of       *)
(* symbols and every value of the bounds.                                  *)
(***************************************************************************)
EXTENDS PositionReconciler, TLAPS

(* The arithmetic helpers stay in the naturals. *)
LEMMA AbsNat == \A n \in Int : Abs(n) \in Nat
  BY DEF Abs

LEMMA LeastNat == \A m, n \in Nat : Least(m, n) \in Nat
  BY DEF Least

LEMMA QtyInt == Qty \subseteq Int
  BY ReconcilerAssumption DEF Qty

LEMMA RangeEnds ==
  /\ 0 \in 0..(MissLimit - 1)
  /\ 0 \in 0..MissLimit
  /\ 0 \in 0..PendingGrace
  /\ PendingGrace \in 0..PendingGrace
  BY ReconcilerAssumption

LEMMA NothingTyped == Nothing \in [Symbols -> Qty] /\ Nothing \in [Symbols -> Nat]
  BY ReconcilerAssumption DEF Nothing, Qty

LEMMA NoOrderTyped == NoOrder \in Order
  BY ReconcilerAssumption DEF NoOrder, Order

LEMMA AvailableNat ==
  ASSUME NEW v \in [Symbols -> Qty], NEW s \in Symbols, NEW d
  PROVE  Available(v, s, d) \in Nat
<1>1. v[s] \in Int
  BY QtyInt
<1> QED
  BY <1>1 DEF Available

(* The initial states are well typed. *)
LEMMA TypeInit == Init => TypeOK
<1> SUFFICES ASSUME Init PROVE TypeOK
  OBVIOUS
<1>2. /\ graceLeft \in [Symbols -> 0..PendingGrace]
      /\ missCount \in [Symbols -> 0..(MissLimit - 1)]
      /\ absent \in [Symbols -> 0..MissLimit]
  BY RangeEnds DEF Init, Nothing
<1>3. /\ exitSig \in [Symbols -> Int]
      /\ portfolio \in [Symbols -> Int]
      /\ remaining \in [Symbols -> Nat]
  BY NothingTyped DEF Init
<1>4. /\ held \in [Symbols -> Qty]
      /\ listed \in [Symbols -> Qty]
      /\ cache \in [Symbols -> Qty]
      /\ view \in [Threads -> [Symbols -> Qty]]
      /\ order \in Order
  BY NothingTyped, NoOrderTyped DEF Init
<1>5. /\ trades \in 0..MaxTrades
      /\ decisions \in 0..MaxDecisions
  BY ReconcilerAssumption DEF Init
<1> QED
  BY <1>2, <1>3, <1>4, <1>5 DEF Init, TypeOK, Threads

(* Every step of the broker keeps the types. *)
LEMMA TypeBroker == TypeOK /\ Broker => TypeOK'
<1> SUFFICES ASSUME TypeOK, Broker PROVE TypeOK'
  OBVIOUS
<1> USE DEF TypeOK
<1>1. ASSUME NEW s \in Symbols, NEW q \in Qty, BrokerMoves(s, q) PROVE TypeOK'
  BY <1>1, ReconcilerAssumption DEF BrokerMoves, caching, threading, ordering, trackers, ledger,
     history
<1>2. ASSUME NEW s \in Symbols, Publish(s) PROVE TypeOK'
  BY <1>2 DEF Publish, caching, threading, ordering, trackers, ledger, history
<1>3. CASE CacheAges
  BY <1>3 DEF CacheAges, external, threading, ordering, trackers, ledger,
     history
<1>4. CASE GraceTick
  <2>1. graceLeft' \in [Symbols -> 0..PendingGrace]
    BY <1>4, ReconcilerAssumption DEF GraceTick
  <2> QED
    BY <1>4, <2>1 DEF GraceTick, external, caching, threading, ordering,
       trackers, history
<1>5. ASSUME NEW n \in 1..MaxQty, OrderFills(n) PROVE TypeOK'
  <2>1. order' \in Order
    <3>1. order.filled \in Nat /\ n \in Nat
      BY DEF Order
    <3>2. order.filled + n \in Nat
      BY <3>1
    <3>3. order' = [order EXCEPT !.filled = order.filled + n]
      BY <1>5 DEF OrderFills
    <3> QED
      BY <3>2, <3>3 DEF Order
  <2>2. held' \in [Symbols -> Qty]
    BY <1>5 DEF OrderFills
  <2> QED
    BY <1>5, <2>1, <2>2 DEF OrderFills, caching, threading, trackers, ledger,
       history
<1> QED
  BY <1>1, <1>2, <1>3, <1>4, <1>5 DEF Broker

(* Every step of a refresh keeps the types, on either thread. *)
LEMMA TypeRead ==
  ASSUME TypeOK, NEW t \in Threads,
         ReadCached(t) \/ ReadLive(t) \/ ReadFails(t)
  PROVE  TypeOK'
<1>1. PICK snapshot \in [Symbols -> Qty] :
        /\ TakeSnapshot(t, snapshot)
        /\ cache' \in [Symbols -> Qty]
        /\ fresh' \in BOOLEAN
  BY DEF TypeOK, ReadCached, ReadLive, ReadFails, caching
<1>2. view' \in [Threads -> [Symbols -> Qty]]
  BY <1>1 DEF TypeOK, TakeSnapshot
<1> QED
  BY <1>1, <1>2 DEF TypeOK, TakeSnapshot, external, ordering, trackers, ledger, history

LEMMA TypeCoverShort ==
  ASSUME TypeOK, NEW t \in Threads, NEW s \in Symbols, NEW n \in 1..MaxQty,
         CoverShort(t, s, n)
  PROVE  TypeOK'
<1>1. held' \in [Symbols -> Qty]
  BY DEF TypeOK, CoverShort
<1>2. portfolio' \in [Symbols -> Int]
  BY ReconcilerAssumption DEF TypeOK, CoverShort
<1>3. 0 \in Qty
  BY ReconcilerAssumption DEF Qty
<1>4. view' \in [Threads -> [Symbols -> Qty]]
  BY <1>3 DEF TypeOK, CoverShort
<1>5. cache' \in [Symbols -> Qty] /\ fresh' \in BOOLEAN
  BY NothingTyped DEF CoverShort, InvalidateCache
<1>6. /\ tracked' \in SUBSET Symbols
      /\ side' \in [Symbols -> {"BUY", "SELL"}]
      /\ remaining' \in [Symbols -> Nat]
      /\ halved' \in SUBSET Symbols
  BY DEF TypeOK, CoverShort, Untrack
<1>7. covered' \in [Threads -> SUBSET Symbols]
  BY DEF TypeOK, CoverShort
<1>8. UNCHANGED <<listed, trades, decisions, phase, exitSig, order, graceLeft, missCount,
                  absent, abandoned>>
  BY DEF CoverShort, ordering, ledger, history
<1> QED
  BY <1>1, <1>2, <1>4, <1>5, <1>6, <1>7, <1>8 DEF TypeOK

LEMMA TypeMerge ==
  ASSUME TypeOK, NEW t \in Threads, Merge(t)
  PROVE  TypeOK'
<1> DEFINE v == view[t]
<1>1. v \in [Symbols -> Qty] /\ \A s \in Symbols : v[s] \in Int
  BY QtyInt DEF TypeOK
<1>2. portfolio' \in [Symbols -> Int]
  BY <1>1 DEF TypeOK, Merge, MergedPortfolio
<1>3. tracked' \in SUBSET Symbols /\ halved' \in SUBSET Symbols
  BY DEF TypeOK, Merge, Shown
<1>4. side' \in [Symbols -> {"BUY", "SELL"}]
  BY DEF TypeOK, Merge
<1>5. remaining' \in [Symbols -> Nat]
  BY <1>1, AbsNat DEF TypeOK, Merge
<1>6. graceLeft' \in [Symbols -> 0..PendingGrace]
  BY ReconcilerAssumption DEF TypeOK, Merge, MergedLedger
<1>7. missCount' \in [Symbols -> 0..(MissLimit - 1)]
  <2>1. ASSUME NEW s \in Symbols PROVE missCount'[s] \in 0..(MissLimit - 1)
    <3>1. CASE s \in Missed(v) \ Vanished(v)
      BY <3>1, ReconcilerAssumption DEF TypeOK, Merge, MergedLedger, Missed, Vanished
    <3>2. CASE s \notin Missed(v) \/ s \in Vanished(v)
      BY <3>2, ReconcilerAssumption DEF TypeOK, Merge, MergedLedger, Vanished
    <3> QED
      BY <3>1, <3>2
  <2> QED
    BY <2>1 DEF Merge, MergedLedger
<1>8. absent' \in [Symbols -> 0..MissLimit]
  BY ReconcilerAssumption DEF TypeOK, Merge, Least
<1>9. /\ view' \in [Threads -> [Symbols -> Qty]]
      /\ covered' \in [Threads -> SUBSET Symbols]
      /\ abandoned' \in SUBSET Symbols
      /\ order' \in Order
  BY NothingTyped, NoOrderTyped DEF TypeOK, Merge
<1>10. phase' \in [Threads -> {"starting", "idle", "exits", "order", "push", "cleanup"}]
  BY DEF TypeOK, Merge
<1> QED
  BY <1>2, <1>3, <1>4, <1>5, <1>6, <1>7, <1>8, <1>9, <1>10
     DEF TypeOK, Merge, external, caching

LEMMA TypeRefresh ==
  ASSUME TypeOK, NEW t \in Threads, Refresh(t)
  PROVE  TypeOK'
BY TypeRead, TypeCoverShort, TypeMerge DEF Refresh

(* Entries keep the types. *)
LEMMA TypeSubmitEntry ==
  ASSUME TypeOK, NEW s \in Symbols, NEW q \in 1..MaxQty, SubmitEntry(s, q)
  PROVE  TypeOK'
<1>1. order' \in Order
  <2>1. q \in Nat
    BY ReconcilerAssumption
  <2> QED
    BY <2>1 DEF SubmitEntry, Order
<1>2. phase' \in [Threads -> {"starting", "idle", "exits", "order", "push", "cleanup"}]
  BY DEF TypeOK, SubmitEntry
<1>3. decisions' \in 0..MaxDecisions
  BY ReconcilerAssumption DEF TypeOK, SubmitEntry
<1> QED
  BY <1>1, <1>2, <1>3 DEF TypeOK, SubmitEntry, external, caching, trackers, ledger, history

LEMMA TypeEntryFilled ==
  ASSUME TypeOK, EntryFilled
  PROVE  TypeOK'
<1>1. order.sym \in Symbols /\ order.want \in Nat /\ order.filled \in Nat
  BY DEF TypeOK, Order
<1>2. order' \in Order
  BY DEF TypeOK, EntryFilled, Order
<1>3. phase' \in [Threads -> {"starting", "idle", "exits", "order", "push", "cleanup"}]
  BY DEF TypeOK, EntryFilled
<1>4. portfolio' \in [Symbols -> Int]
  BY <1>1 DEF TypeOK, EntryFilled
<1>5. cache' \in [Symbols -> Qty] /\ fresh' \in BOOLEAN
  BY NothingTyped DEF EntryFilled, InvalidateCache
<1>6. graceLeft' \in [Symbols -> 0..PendingGrace]
  BY RangeEnds DEF TypeOK, EntryFilled, MarkEntryPending
<1>7. missCount' \in [Symbols -> 0..(MissLimit - 1)]
  BY RangeEnds DEF TypeOK, EntryFilled, MarkEntryPending
<1>8. /\ tracked' \in SUBSET Symbols
      /\ side' \in [Symbols -> {"BUY", "SELL"}]
      /\ remaining' \in [Symbols -> Nat]
      /\ halved' \in SUBSET Symbols
      /\ absent' \in [Symbols -> 0..MissLimit]
  <2>1. CASE order.sym \in tracked
    BY <2>1 DEF TypeOK, EntryFilled, trackers
  <2>2. CASE order.sym \notin tracked
    <3>1. tracked' \in SUBSET Symbols /\ halved' \in SUBSET Symbols
      BY <1>1, <2>2 DEF TypeOK, EntryFilled
    <3>2. side' \in [Symbols -> {"BUY", "SELL"}]
      BY <2>2 DEF TypeOK, EntryFilled
    <3>3. remaining' \in [Symbols -> Nat]
      BY <1>1, <2>2 DEF TypeOK, EntryFilled
    <3>4. absent' \in [Symbols -> 0..MissLimit]
      BY <2>2, RangeEnds DEF TypeOK, EntryFilled
    <3> QED
      BY <3>1, <3>2, <3>3, <3>4
  <2> QED
    BY <2>1, <2>2
<1> QED
  BY <1>2, <1>3, <1>4, <1>5, <1>6, <1>7, <1>8 DEF TypeOK, EntryFilled, external

LEMMA TypeEntryUnfilled ==
  ASSUME TypeOK, EntryUnfilled
  PROVE  TypeOK'
BY NoOrderTyped DEF TypeOK, EntryUnfilled, external, caching, trackers, ledger, history

(* Exits keep the types. *)
LEMMA TypeDecideExits ==
  ASSUME TypeOK, NEW full \in SUBSET Symbols, NEW half \in SUBSET Symbols,
         NEW h \in 1..MaxQty, DecideExits(full, half, h)
  PROVE  TypeOK'
<1>1. h \in Int /\ \A s \in half : remaining[s] - h \in Nat
  BY ReconcilerAssumption DEF TypeOK, DecideExits
<1>2. exitSig' \in [Symbols -> Int]
  BY <1>1 DEF TypeOK, DecideExits
<1>3. remaining' \in [Symbols -> Nat]
  BY <1>1 DEF TypeOK, DecideExits
<1>4. /\ tracked' \in SUBSET Symbols
      /\ halved' \in SUBSET Symbols
      /\ side' \in [Symbols -> {"BUY", "SELL"}]
  BY DEF TypeOK, DecideExits
<1>5. phase' \in [Threads -> {"starting", "idle", "exits", "order", "push", "cleanup"}]
  BY DEF TypeOK, DecideExits
<1>6. decisions' \in 0..MaxDecisions
  BY ReconcilerAssumption DEF TypeOK, DecideExits
<1> QED
  BY <1>2, <1>3, <1>4, <1>5, <1>6 DEF TypeOK, DecideExits, external, caching, ledger, history

LEMMA FreshReadTyped ==
  ASSUME TypeOK, NEW snapshot \in {listed, Nothing}, FreshRead(snapshot)
  PROVE  /\ snapshot \in [Symbols -> Qty]
         /\ cache' \in [Symbols -> Qty]
         /\ fresh' \in BOOLEAN
BY NothingTyped DEF TypeOK, FreshRead, InvalidateCache

LEMMA TypeSubmitExit ==
  ASSUME TypeOK, NEW s \in Symbols, SubmitExit(s), order.attempt < 2
  PROVE  TypeOK'
<1> DEFINE d == IF exitSig[s] > 0 THEN "SELL" ELSE "BUY"
<1>1. PICK snapshot \in {listed, Nothing} :
        /\ FreshRead(snapshot)
        /\ order' = [kind |-> "exit", sym |-> s, side |-> d,
                     want |-> Abs(exitSig[s]), filled |-> 0,
                     qty |-> Least(Abs(exitSig[s]), Available(snapshot, s, d)),
                     attempt |-> order.attempt + 1]
  BY DEF SubmitExit
<1>2. cache' \in [Symbols -> Qty] /\ fresh' \in BOOLEAN
  BY <1>1, FreshReadTyped
<1>3. Abs(exitSig[s]) \in Nat
  BY AbsNat DEF TypeOK
<1>4. Available(snapshot, s, d) \in Nat
  BY <1>1, FreshReadTyped, AvailableNat
<1>5. Least(Abs(exitSig[s]), Available(snapshot, s, d)) \in Nat
  BY <1>3, <1>4, LeastNat
<1>6. order.attempt \in 0..2
  BY DEF TypeOK, Order
<1>7. order' \in Order
  BY <1>1, <1>3, <1>5, <1>6 DEF Order
<1>8. phase' \in [Threads -> {"starting", "idle", "exits", "order", "push", "cleanup"}]
  BY DEF TypeOK, SubmitExit
<1> QED
  BY <1>2, <1>7, <1>8 DEF TypeOK, SubmitExit, external, trackers, ledger, history

LEMMA TypeExitFilled ==
  ASSUME TypeOK, ExitFilled
  PROVE  TypeOK'
<1>1. order.sym \in Symbols /\ order.filled \in Nat
  BY DEF TypeOK, Order
<1>2. order' \in Order
  BY DEF TypeOK, ExitFilled, Order
<1>3. portfolio' \in [Symbols -> Int]
  BY <1>1 DEF TypeOK, ExitFilled
<1>4. cache' \in [Symbols -> Qty] /\ fresh' \in BOOLEAN
  BY NothingTyped DEF ExitFilled, InvalidateCache
<1>5. exitSig' \in [Symbols -> Int]
  <2>1. exitSig' = [exitSig EXCEPT ![order.sym] = 0]
    BY DEF ExitFilled
  <2>2. exitSig \in [Symbols -> Int]
    BY DEF TypeOK
  <2> QED
    BY <1>1, <2>1, <2>2
<1>6. phase' \in [Threads -> {"starting", "idle", "exits", "order", "push", "cleanup"}]
  BY DEF TypeOK, ExitFilled
<1>7. /\ tracked' \in SUBSET Symbols
      /\ side' \in [Symbols -> {"BUY", "SELL"}]
      /\ remaining' \in [Symbols -> Nat]
      /\ halved' \in SUBSET Symbols
      /\ graceLeft' \in [Symbols -> 0..PendingGrace]
      /\ missCount' \in [Symbols -> 0..(MissLimit - 1)]
  <2>1. CASE Untrack({order.sym}) /\ ClearPending(order.sym)
    <3>1. /\ tracked' \in SUBSET Symbols
          /\ side' \in [Symbols -> {"BUY", "SELL"}]
          /\ remaining' \in [Symbols -> Nat]
          /\ halved' \in SUBSET Symbols
      BY <2>1 DEF TypeOK, Untrack
    <3>2. /\ graceLeft' \in [Symbols -> 0..PendingGrace]
          /\ missCount' \in [Symbols -> 0..(MissLimit - 1)]
      BY <2>1, RangeEnds DEF TypeOK, ClearPending
    <3> QED
      BY <3>1, <3>2
  <2>2. CASE UNCHANGED <<trackers, ledger>>
    BY <2>2 DEF TypeOK, trackers, ledger
  <2> QED
    BY <2>1, <2>2 DEF ExitFilled
<1> QED
  BY <1>2, <1>3, <1>4, <1>5, <1>6, <1>7 DEF TypeOK, ExitFilled, external, history

(* The two ways a first attempt without a fill goes on. *)
LEMMA UnfilledOutcome ==
  ASSUME ExitUnfilled
  PROVE  \/ /\ phase' = [phase EXCEPT !["main"] = "exits"]
            /\ order' = [kind |-> "none", sym |-> order.sym, side |-> order.side,
                         want |-> order.want, qty |-> 0, filled |-> 0,
                         attempt |-> 1]
            /\ exitSig' = exitSig
         \/ /\ phase' = [phase EXCEPT !["main"] = "push"]
            /\ order' = [order EXCEPT !.kind = "done"]
            /\ exitSig' = [exitSig EXCEPT ![order.sym] = 0]
BY DEF ExitUnfilled

LEMMA TypeExitUnfilled ==
  ASSUME TypeOK, ExitUnfilled
  PROVE  TypeOK'
<1>1. PICK snapshot \in {listed, Nothing} : FreshRead(snapshot)
  BY DEF ExitUnfilled
<1>2. cache' \in [Symbols -> Qty] /\ fresh' \in BOOLEAN
  BY <1>1, FreshReadTyped
<1>3. order' \in Order
  <2>1. order \in Order
    BY DEF TypeOK
  <2>2. \/ order' = [kind |-> "none", sym |-> order.sym, side |-> order.side,
                         want |-> order.want, qty |-> 0, filled |-> 0,
                         attempt |-> 1]
        \/ order' = [order EXCEPT !.kind = "done"]
    BY UnfilledOutcome
  <2> QED
    BY <2>1, <2>2 DEF Order
<1>4. exitSig' \in [Symbols -> Int]
  BY UnfilledOutcome DEF TypeOK
<1>5. phase' \in [Threads -> {"starting", "idle", "exits", "order", "push", "cleanup"}]
  BY UnfilledOutcome DEF TypeOK
<1> QED
  BY <1>2, <1>3, <1>4, <1>5 DEF TypeOK, ExitUnfilled, external, trackers, ledger, history

LEMMA TypeExitGivenUp ==
  ASSUME TypeOK, ExitGivenUp
  PROVE  TypeOK'
<1>1. order.sym \in Symbols /\ order.want \in Nat
  BY DEF TypeOK, Order
<1>2. /\ tracked' \in SUBSET Symbols
      /\ side' \in [Symbols -> {"BUY", "SELL"}]
      /\ remaining' \in [Symbols -> Nat]
      /\ halved' \in SUBSET Symbols
  BY <1>1 DEF TypeOK, ExitGivenUp, RollBackHalf, trackers
<1>3. exitSig' \in [Symbols -> Int] /\ abandoned' \in SUBSET Symbols
  BY <1>1 DEF TypeOK, ExitGivenUp
<1>4. order' \in Order
  BY NoOrderTyped DEF ExitGivenUp
<1>5. phase' \in [Threads -> {"starting", "idle", "exits", "order", "push", "cleanup"}]
  BY DEF TypeOK, ExitGivenUp
<1> QED
  BY <1>2, <1>3, <1>4, <1>5 DEF TypeOK, ExitGivenUp, external, caching, ledger

-----------------------------------------------------------------------------
(* TypeOK alone is not inductive: the attempt counter of an exit is bounded *)
(* only because the main loop submits it from the phases named here, and    *)
(* exits are decided only when no older exit signal is left.                *)
MainPhases ==
  /\ phase["main"] # "starting"
  /\ phase["main"] = "idle" => order.attempt = 0
  /\ phase["main"] = "exits" => order.attempt < 2
  /\ phase["main"] = "idle" => \A s \in Symbols : exitSig[s] = 0
  /\ phase["main"] = "order" /\ order.kind = "entry"
       => \A s \in Symbols : exitSig[s] = 0

IInv == TypeOK /\ MainPhases

LEMMA PhasesBroker == IInv /\ Broker => MainPhases'
<1> SUFFICES ASSUME IInv, Broker PROVE MainPhases'
  OBVIOUS
<1>1. phase' = phase /\ exitSig' = exitSig
  BY DEF Broker, BrokerMoves, Publish, CacheAges, GraceTick, OrderFills, threading, ordering
<1>2. order'.attempt = order.attempt /\ order'.kind = order.kind
  BY DEF IInv, TypeOK, Order, Broker, BrokerMoves, Publish, CacheAges, GraceTick,
     OrderFills, ordering
<1> QED
  BY <1>1, <1>2 DEF IInv, MainPhases

LEMMA PhasesRefresh ==
  ASSUME IInv, NEW t \in Threads, Refresh(t)
  PROVE  MainPhases'
<1>1. CASE ReadCached(t) \/ ReadLive(t) \/ ReadFails(t)
  <2>1. \E snapshot : TakeSnapshot(t, snapshot)
    BY <1>1 DEF ReadCached, ReadLive, ReadFails
  <2> QED
    BY <2>1 DEF IInv, TypeOK, MainPhases, TakeSnapshot, ordering, Threads
<1>2. ASSUME NEW s \in Symbols, NEW n \in 1..MaxQty, CoverShort(t, s, n)
      PROVE  MainPhases'
  BY <1>2 DEF IInv, MainPhases, CoverShort, ordering
<1>3. CASE Merge(t)
  <2>1. CASE t = "main"
    BY <1>3, <2>1 DEF IInv, TypeOK, MainPhases, Merge, NoOrder, Threads
  <2>2. CASE t = "sync"
    BY <1>3, <2>2 DEF IInv, TypeOK, MainPhases, Merge, Threads
  <2> QED
    BY <2>1, <2>2 DEF Threads
<1> QED
  BY <1>1, <1>2, <1>3 DEF Refresh

LEMMA PhasesMainLoop == IInv /\ MainLoop => MainPhases'
<1> SUFFICES ASSUME IInv, MainLoop PROVE MainPhases'
  OBVIOUS
<1> USE DEF IInv, MainPhases
<1>1. ASSUME NEW s \in Symbols, NEW q \in 1..MaxQty, SubmitEntry(s, q)
      PROVE  MainPhases'
  BY <1>1 DEF TypeOK, SubmitEntry, Threads
<1>2. CASE EntryFilled
  BY <1>2 DEF TypeOK, EntryFilled, Threads
<1>3. CASE EntryUnfilled
  BY <1>3 DEF TypeOK, EntryUnfilled, Threads, NoOrder
<1>4. ASSUME NEW full \in SUBSET Symbols, NEW half \in SUBSET Symbols,
             NEW h \in 1..MaxQty, DecideExits(full, half, h)
      PROVE  MainPhases'
  BY <1>4 DEF TypeOK, DecideExits, Threads
<1>5. ASSUME NEW s \in Symbols, SubmitExit(s) PROVE MainPhases'
  BY <1>5 DEF TypeOK, SubmitExit, Threads
<1>6. CASE ExitFilled
  BY <1>6 DEF TypeOK, ExitFilled, Threads
<1>7. CASE ExitUnfilled
  <2>1. order.attempt = 1
    BY <1>7 DEF ExitUnfilled
  <2>2. "main" \in DOMAIN phase
    BY DEF TypeOK, Threads
  <2>3. order'.attempt = 1
    BY <1>7, <2>1, UnfilledOutcome DEF TypeOK, Order
  <2>4. phase'["main"] \in {"exits", "push"}
    BY <1>7, <2>2, UnfilledOutcome
  <2> QED
    BY <2>3, <2>4
<1>8. CASE ExitGivenUp
  <2>1. CASE \E r \in Symbols \ {order.sym} : exitSig[r] # 0
    BY <1>8, <2>1 DEF TypeOK, ExitGivenUp, Threads, NoOrder
  <2>2. CASE \A r \in Symbols \ {order.sym} : exitSig[r] = 0
    BY <1>8, <2>2 DEF TypeOK, ExitGivenUp, Threads, NoOrder
  <2> QED
    BY <2>1, <2>2
<1> QED
  BY <1>1, <1>2, <1>3, <1>4, <1>5, <1>6, <1>7, <1>8 DEF MainLoop

LEMMA TypeSyncWakes ==
  ASSUME TypeOK, SyncWakes
  PROVE  TypeOK'
<1>1. phase' \in [Threads -> {"starting", "idle", "exits", "order", "push", "cleanup"}]
  BY DEF TypeOK, SyncWakes
<1> QED
  BY <1>1 DEF TypeOK, SyncWakes, external, caching, ordering, trackers, ledger, history

LEMMA TypeMainLoop == IInv /\ MainLoop => TypeOK'
<1> SUFFICES ASSUME IInv, MainLoop PROVE TypeOK'
  OBVIOUS
<1>1. TypeOK
  BY DEF IInv
<1>2. ASSUME NEW s \in Symbols, NEW q \in 1..MaxQty, SubmitEntry(s, q) PROVE TypeOK'
  BY <1>1, <1>2, TypeSubmitEntry
<1>3. CASE EntryFilled \/ EntryUnfilled
  BY <1>1, <1>3, TypeEntryFilled, TypeEntryUnfilled
<1>4. ASSUME NEW full \in SUBSET Symbols, NEW half \in SUBSET Symbols,
             NEW h \in 1..MaxQty, DecideExits(full, half, h)
      PROVE  TypeOK'
  BY <1>1, <1>4, TypeDecideExits
<1>5. ASSUME NEW s \in Symbols, SubmitExit(s) PROVE TypeOK'
  <2>1. order.attempt < 2
    BY <1>5 DEF IInv, MainPhases, SubmitExit
  <2> QED
    BY <1>1, <1>5, <2>1, TypeSubmitExit
<1>6. CASE ExitFilled \/ ExitUnfilled \/ ExitGivenUp
  BY <1>1, <1>6, TypeExitFilled, TypeExitUnfilled, TypeExitGivenUp
<1> QED
  BY <1>2, <1>3, <1>4, <1>5, <1>6 DEF MainLoop

LEMMA IInvStutter == IInv /\ UNCHANGED vars => IInv'
BY DEF IInv, TypeOK, MainPhases, vars, external, caching, threading, ordering, trackers,
   ledger, history

(* The inductive invariant, and with it the typing of every reachable state *)
(* of the two threads and of the bookkeeping they share.                    *)
THEOREM Inductive == Safety => []IInv
<1>1. Init => IInv
  <2>1. Init => MainPhases
    BY DEF Init, MainPhases, Threads, Nothing, NoOrder
  <2> QED
    BY <2>1, TypeInit DEF IInv
<1>2. IInv /\ Next => IInv'
  <2> SUFFICES ASSUME IInv, Next PROVE IInv'
    OBVIOUS
  <2>1. TypeOK
    BY DEF IInv
  <2>2. CASE Broker
    BY <2>1, <2>2, TypeBroker, PhasesBroker DEF IInv
  <2>3. CASE SyncWakes
    <3>1. MainPhases'
      BY <2>3 DEF IInv, MainPhases, TypeOK, SyncWakes, ordering, Threads
    <3> QED
      BY <2>1, <2>3, <3>1, TypeSyncWakes DEF IInv
  <2>4. ASSUME NEW t \in Threads, Refresh(t) PROVE IInv'
    BY <2>1, <2>4, TypeRefresh, PhasesRefresh DEF IInv
  <2>5. CASE MainLoop
    BY <2>5, TypeMainLoop, PhasesMainLoop DEF IInv
  <2> QED
    BY <2>2, <2>3, <2>4, <2>5 DEF Next
<1> QED
  BY <1>1, <1>2, IInvStutter, PTL DEF Safety

THEOREM TypeCorrect == Safety => []TypeOK
<1>1. IInv => TypeOK
  BY DEF IInv
<1> QED
  BY <1>1, Inductive, PTL

-----------------------------------------------------------------------------
(* Patience: the miss counters are honest.                                  *)

LEMMA MissesMerge ==
  ASSUME IInv, MissesAreReal, NEW t \in Threads, Merge(t)
  PROVE  MissesAreReal'
<1> DEFINE v == view[t]
<1> SUFFICES ASSUME NEW s \in Symbols, s \in tracked' PROVE missCount'[s] <= absent'[s]
  BY DEF MissesAreReal, Merge, IInv, TypeOK, Shown
<1>1. missCount[s] \in 0..(MissLimit - 1) /\ absent[s] \in 0..MissLimit
  BY DEF IInv, TypeOK
<1>2. CASE s \in Shown(v) \cup Vanished(v)
  <2>1. missCount'[s] = 0
    BY <1>2 DEF Merge, MergedLedger
  <2>2. absent'[s] \in Nat
    BY <1>1, ReconcilerAssumption DEF Merge, Least
  <2> QED
    BY <2>1, <2>2
<1>3. CASE s \notin Shown(v) \cup Vanished(v)
  <2>1. s \in Missing(v) \ Vanished(v) /\ s \in tracked
    BY <1>3 DEF Merge, Missing
  <2>2. missCount[s] <= absent[s]
    BY <2>1 DEF MissesAreReal
  <2>3. absent'[s] = Least(absent[s] + 1, MissLimit)
    BY <2>1 DEF Merge
  <2>4. missCount'[s] = missCount[s]
        \/ missCount'[s] = missCount[s] + 1
    BY <1>3 DEF Merge, MergedLedger
  <2>5. missCount'[s] < MissLimit
    <3>1. CASE s \in Missed(v)
      BY <1>1, <1>3, <2>4, <3>1, ReconcilerAssumption DEF Vanished
    <3>2. CASE s \notin Missed(v)
      BY <1>1, <1>3, <3>2, ReconcilerAssumption DEF Merge, MergedLedger
    <3> QED
      BY <3>1, <3>2
  <2> QED
    BY <1>1, <2>2, <2>3, <2>4, <2>5, ReconcilerAssumption DEF Least
<1> QED
  BY <1>2, <1>3

LEMMA MissesRest ==
  ASSUME IInv, MissesAreReal,
         Broker \/ SyncWakes \/ MainLoop
  PROVE  MissesAreReal'
<1> USE DEF MissesAreReal
<1>1. CASE \/ \E s \in Symbols, q \in Qty : BrokerMoves(s, q)
           \/ \E s \in Symbols : Publish(s)
           \/ CacheAges
           \/ GraceTick
           \/ \E n \in 1..MaxQty : OrderFills(n)
           \/ SyncWakes
  BY <1>1 DEF BrokerMoves, Publish, CacheAges, GraceTick, OrderFills, SyncWakes,
     trackers, ledger, history
<1>2. CASE \/ \E s \in Symbols, q \in 1..MaxQty : SubmitEntry(s, q)
           \/ EntryUnfilled
           \/ \E s \in Symbols : SubmitExit(s)
           \/ ExitUnfilled
  BY <1>2 DEF SubmitEntry, EntryUnfilled, SubmitExit, ExitUnfilled, trackers, ledger,
     history
<1>3. CASE EntryFilled
  <2>1. missCount' = [missCount EXCEPT ![order.sym] = 0]
    BY <1>3 DEF EntryFilled, MarkEntryPending
  <2>2. order.sym \in Symbols
    BY DEF IInv, TypeOK, Order
  <2>3. missCount'[order.sym] = 0 /\ absent'[order.sym] \in Nat
    BY <1>3, <2>1, <2>2, ReconcilerAssumption DEF IInv, TypeOK, EntryFilled
  <2>4. ASSUME NEW s \in tracked', s # order.sym PROVE missCount'[s] <= absent'[s]
    <3>1. s \in tracked /\ missCount'[s] = missCount[s] /\ absent'[s] = absent[s]
      BY <1>3, <2>1, <2>4 DEF IInv, TypeOK, EntryFilled, trackers
    <3> QED
      BY <3>1
  <2> QED
    BY <2>3, <2>4
<1>4. ASSUME NEW full \in SUBSET Symbols, NEW half \in SUBSET Symbols,
             NEW h \in 1..MaxQty, DecideExits(full, half, h)
      PROVE  MissesAreReal'
  BY <1>4 DEF DecideExits, ledger, history
<1>5. CASE ExitFilled
  <2>1. absent' = absent
    BY <1>5 DEF ExitFilled, history
  <2>2. CASE Untrack({order.sym}) /\ ClearPending(order.sym)
    BY <2>1, <2>2 DEF IInv, TypeOK, Untrack, ClearPending
  <2>3. CASE UNCHANGED <<trackers, ledger>>
    BY <2>1, <2>3 DEF trackers, ledger
  <2> QED
    BY <1>5, <2>2, <2>3 DEF ExitFilled
<1>6. CASE ExitGivenUp
  BY <1>6 DEF ExitGivenUp, RollBackHalf, trackers, ledger
<1> QED
  BY <1>1, <1>2, <1>3, <1>4, <1>5, <1>6 DEF Broker, MainLoop

(* The miss counter of a monitored symbol never exceeds the merges in a row *)
(* that missed it, whichever threads ran them.                              *)
THEOREM HonestMisses == Safety => []MissesAreReal
<1>1. Init => MissesAreReal
  BY DEF Init, MissesAreReal
<1>2. IInv /\ MissesAreReal /\ Next => MissesAreReal'
  <2> SUFFICES ASSUME IInv, MissesAreReal, NEW t \in Threads, Refresh(t)
               PROVE  MissesAreReal'
    BY MissesRest DEF Next
  <2>1. CASE ReadCached(t) \/ ReadLive(t) \/ ReadFails(t)
    BY <2>1 DEF ReadCached, ReadLive, ReadFails, TakeSnapshot, MissesAreReal, trackers,
       ledger, history
  <2>2. ASSUME NEW s \in Symbols, NEW n \in 1..MaxQty, CoverShort(t, s, n)
        PROVE  MissesAreReal'
    BY <2>2 DEF CoverShort, Untrack, MissesAreReal, ledger, history
  <2> QED
    BY <2>1, <2>2, MissesMerge DEF Refresh
<1>3. MissesAreReal /\ UNCHANGED vars => MissesAreReal'
  BY DEF MissesAreReal, vars, trackers, ledger, history
<1> QED
  BY <1>1, <1>2, <1>3, Inductive, PTL DEF Safety

(* A symbol is given up only outside its grace period and after MissLimit   *)
(* merges in a row that missed it.                                          *)
THEOREM Patience == Safety => PatientUntrack
<1>1. ASSUME IInv, MissesAreReal, NEW t \in Threads, NEW s \in Symbols, Merge(t),
             s \in tracked, s \notin tracked'
      PROVE  graceLeft[s] = 0 /\ absent[s] + 1 >= MissLimit
  <2>1. s \in Vanished(view[t])
    BY <1>1 DEF Merge
  <2>2. graceLeft[s] = 0 /\ missCount[s] + 1 >= MissLimit
    BY <2>1 DEF Vanished, Missed
  <2>3. missCount[s] <= absent[s] /\ missCount[s] \in Int /\ absent[s] \in Int
    BY <1>1, ReconcilerAssumption DEF MissesAreReal, IInv, TypeOK
  <2> QED
    BY <2>2, <2>3, ReconcilerAssumption
<1>2. IInv /\ MissesAreReal
        => [\A t \in Threads, s \in Symbols :
              Merge(t) /\ s \in tracked /\ s \notin tracked'
                => graceLeft[s] = 0 /\ absent[s] + 1 >= MissLimit]_vars
  BY <1>1
<1> QED
  BY <1>2, Inductive, HonestMisses, PTL DEF PatientUntrack

-----------------------------------------------------------------------------
(* Attendance: no open position is left unmonitored.                        *)

(* Steps that leave the portfolio and whatever attends to it alone. *)
LEMMA AttendedBroker ==
  ASSUME IInv, NoUnattendedPosition, Broker \/ SyncWakes
  PROVE  NoUnattendedPosition'
<1>1. /\ UNCHANGED <<portfolio, tracked, exitSig, covered, abandoned>>
      /\ phase'["main"] = phase["main"]
      /\ order'.kind = order.kind /\ order'.sym = order.sym
  <2>1. CASE SyncWakes
    BY <2>1 DEF IInv, TypeOK, Threads, SyncWakes, ordering, trackers, history
  <2>2. CASE \E n \in 1..MaxQty : OrderFills(n)
    BY <2>2 DEF IInv, TypeOK, Order, OrderFills, threading, trackers, history
  <2>3. CASE \/ \E s \in Symbols, q \in Qty : BrokerMoves(s, q)
             \/ \E s \in Symbols : Publish(s)
             \/ CacheAges
             \/ GraceTick
    BY <2>3 DEF BrokerMoves, Publish, CacheAges, GraceTick, threading, ordering, trackers,
       history
  <2> QED
    BY <2>1, <2>2, <2>3 DEF Broker
<1> QED
  BY <1>1 DEF NoUnattendedPosition, Attended

LEMMA AttendedRefresh ==
  ASSUME IInv, NoUnattendedPosition, NEW t \in Threads, Refresh(t)
  PROVE  NoUnattendedPosition'
<1> SUFFICES ASSUME NEW s \in Symbols, portfolio'[s] # 0 PROVE Attended(s)'
  BY DEF NoUnattendedPosition
<1> USE DEF IInv, TypeOK, Threads
<1>1. CASE ReadCached(t) \/ ReadLive(t) \/ ReadFails(t)
  <2>1. PICK snapshot : TakeSnapshot(t, snapshot)
    BY <1>1 DEF ReadCached, ReadLive, ReadFails
  <2>2. Attended(s)
    BY <2>1 DEF TakeSnapshot, NoUnattendedPosition
  <2> QED
    BY <2>1, <2>2 DEF TakeSnapshot, Attended, ordering, trackers, history
<1>2. ASSUME NEW r \in Symbols, NEW n \in 1..MaxQty, CoverShort(t, r, n)
      PROVE  Attended(s)'
  <2>1. CASE s = r
    BY <1>2, <2>1 DEF CoverShort, Attended
  <2>2. CASE s # r
    <3>1. Attended(s)
      BY <1>2, <2>2 DEF CoverShort, NoUnattendedPosition
    <3>2. s \in tracked => s \in tracked'
      BY <1>2, <2>2 DEF CoverShort, Untrack
    <3>3. \A u \in Threads : s \in covered[u] => s \in covered'[u]
      BY <1>2 DEF CoverShort
    <3> QED
      BY <1>2, <3>1, <3>2, <3>3 DEF CoverShort, Attended, ordering, history
  <2> QED
    BY <2>1, <2>2
<1>3. CASE Merge(t)
  <2>1. portfolio'[s] = MergedPortfolio(view[t])[s]
    BY <1>3 DEF Merge
  <2>2. s \in Shown(view[t]) \/ s \in tracked \ Vanished(view[t])
    BY <2>1 DEF MergedPortfolio, Shown
  <2>3. s \in tracked'
    BY <1>3, <2>2 DEF Merge, Vanished, Missed, Missing
  <2> QED
    BY <2>3 DEF Attended
<1> QED
  BY <1>1, <1>2, <1>3 DEF Refresh

LEMMA AttendedMainLoop ==
  ASSUME IInv, NoUnattendedPosition, MainLoop
  PROVE  NoUnattendedPosition'
<1> SUFFICES ASSUME NEW s \in Symbols, portfolio'[s] # 0 PROVE Attended(s)'
  BY DEF NoUnattendedPosition
<1> USE DEF IInv, TypeOK, Threads
<1>1. CASE (\E r \in Symbols, q \in 1..MaxQty : SubmitEntry(r, q)) \/ EntryUnfilled
  BY <1>1 DEF SubmitEntry, EntryUnfilled, NoUnattendedPosition, Attended, trackers, history
<1>2. CASE EntryFilled
  <2>1. CASE s = order.sym
    BY <1>2, <2>1 DEF EntryFilled, Attended, trackers
  <2>2. CASE s # order.sym
    BY <1>2, <2>2 DEF EntryFilled, NoUnattendedPosition, Attended, trackers
  <2> QED
    BY <2>1, <2>2
<1>3. ASSUME NEW full \in SUBSET Symbols, NEW half \in SUBSET Symbols,
             NEW h \in 1..MaxQty, DecideExits(full, half, h)
      PROVE  Attended(s)'
  <2>1. portfolio' = portfolio /\ Attended(s) /\ exitSig[s] = 0 /\ phase["main"] = "idle"
    BY <1>3 DEF DecideExits, MainPhases, NoUnattendedPosition
  <2>2. s \in full => exitSig'[s] # 0
    <3>1. s \in full => remaining[s] \in Nat /\ remaining[s] > 0
      BY <1>3 DEF DecideExits
    <3>2. s \in full => exitSig'[s] = remaining[s] \/ exitSig'[s] = -remaining[s]
      BY <1>3 DEF DecideExits
    <3> QED
      BY <3>1, <3>2
  <2> QED
    BY <1>3, <2>1, <2>2 DEF DecideExits, Attended, history
<1>4. ASSUME NEW r \in Symbols, SubmitExit(r) PROVE Attended(s)'
  BY <1>4 DEF SubmitExit, NoUnattendedPosition, Attended, trackers, history
<1>5. CASE ExitFilled
  <2>1. CASE s = order.sym
    <3>1. phase'["main"] = "push" /\ order'.kind = "done" /\ order'.sym = s
      BY <1>5, <2>1 DEF ExitFilled, Order
    <3> QED
      BY <3>1 DEF Attended
  <2>2. CASE s # order.sym
    <3>1. Attended(s)
      BY <1>5, <2>2 DEF ExitFilled, NoUnattendedPosition
    <3>2. s \in tracked => s \in tracked'
      BY <1>5, <2>2 DEF ExitFilled, Untrack, trackers
    <3> QED
      BY <1>5, <2>2, <3>1, <3>2 DEF ExitFilled, Attended, history
  <2> QED
    BY <2>1, <2>2
<1>6. CASE ExitUnfilled
  <2>1. Attended(s) /\ tracked' = tracked /\ covered' = covered /\ abandoned' = abandoned
    BY <1>6 DEF ExitUnfilled, NoUnattendedPosition, trackers, history
  <2>2. phase["main"] = "order"
    BY <1>6 DEF ExitUnfilled
  <2>3. CASE /\ phase' = [phase EXCEPT !["main"] = "exits"]
             /\ exitSig' = exitSig
    BY <2>1, <2>2, <2>3 DEF Attended
  <2>4. CASE /\ phase' = [phase EXCEPT !["main"] = "push"]
             /\ order' = [order EXCEPT !.kind = "done"]
             /\ exitSig' = [exitSig EXCEPT ![order.sym] = 0]
    <3>1. CASE s = order.sym
      BY <2>4, <3>1 DEF Attended, Order
    <3>2. CASE s # order.sym
      BY <2>1, <2>2, <2>4, <3>2 DEF Attended
    <3> QED
      BY <3>1, <3>2
  <2> QED
    BY <1>6, <2>3, <2>4, UnfilledOutcome
<1>7. CASE ExitGivenUp
  <2>1. Attended(s) /\ tracked' = tracked /\ covered' = covered
    BY <1>7 DEF ExitGivenUp, RollBackHalf, NoUnattendedPosition, trackers
  <2>2. abandoned \subseteq abandoned'
    BY <1>7 DEF ExitGivenUp
  <2>3. CASE s = order.sym
    BY <1>7, <2>1, <2>3 DEF ExitGivenUp, Attended
  <2>4. CASE s # order.sym
    BY <1>7, <2>1, <2>2, <2>4 DEF ExitGivenUp, Attended
  <2> QED
    BY <2>3, <2>4
<1> QED
  BY <1>1, <1>2, <1>3, <1>4, <1>5, <1>6, <1>7 DEF MainLoop

(* Whatever the two threads and the broker do, in whatever order, a symbol  *)
(* the portfolio shows open is monitored or about to be.                    *)
THEOREM Attendance == Safety => []NoUnattendedPosition
<1>1. Init => NoUnattendedPosition
  BY DEF Init, NoUnattendedPosition, Nothing
<1>2. IInv /\ NoUnattendedPosition /\ Next => NoUnattendedPosition'
  BY AttendedBroker, AttendedRefresh, AttendedMainLoop DEF Next
<1>3. NoUnattendedPosition /\ UNCHANGED vars => NoUnattendedPosition'
  BY DEF NoUnattendedPosition, Attended, vars, threading, ordering, trackers, history
<1> QED
  BY <1>1, <1>2, <1>3, Inductive, PTL DEF Safety

=============================================================================
