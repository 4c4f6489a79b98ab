--------------------------- MODULE MoverBoardProofs ---------------------------
(***************************************************************************)
(* The hot watch and the bar pool, for any symbols, snapshots and bounds:   *)
(* the watch outgrows its maximum by no more symbols than prunes put back   *)
(* entries that had been dropped since they were read, the pool by no more  *)
(* than the worker appended after it had filled up.                         *)
(***************************************************************************)
EXTENDS MoverBoard, FiniteSetTheorems, SequenceTheorems, TLAPS

(* The worker is a record of these fields, whatever values they have. *)
Fields == {"pc", "batch", "seen", "load", "room"}
IsWorker(c) == \E T : c \in [Fields -> T]

Shapes ==
  /\ IsFiniteSet(DOMAIN hot)
  /\ races \in [revived : Nat, appended : Nat]
  /\ IsWorker(cand)

(* The inductive invariant behind HotOverflowExplained: between eviction and *)
(* promotion the watch has a place for the worker's mover, whatever the      *)
(* other thread prunes meanwhile.                                            *)
Bounded == Cardinality(DOMAIN hot) <= HotMax + races.revived
PlaceKept ==
  cand.pc = "add" /\ Mover.sym \notin DOMAIN hot
    => Cardinality(DOMAIN hot) < HotMax + races.revived

IInv == Shapes /\ Bounded /\ PlaceKept

-----------------------------------------------------------------------------
(* Updates of the worker's record. *)
LEMMA WorkerOf ==
  ASSUME NEW a, NEW b, NEW d, NEW e, NEW f
  PROVE  LET r == [pc |-> a, batch |-> b, seen |-> d, load |-> e, room |-> f]
         IN IsWorker(r) /\ r.pc = a
<1> DEFINE r == [pc |-> a, batch |-> b, seen |-> d, load |-> e, room |-> f]
           T == {a, b, d, e, f}
<1>1. DOMAIN r = Fields
  BY DEF Fields
<1>2. \A x \in Fields : r[x] \in T
  BY DEF Fields
<1>3. r = [x \in Fields |-> r[x]]
  BY <1>1
<1>4. r \in [Fields -> T]
  BY <1>1, <1>2, <1>3
<1> QED
  BY <1>4 DEF IsWorker

LEMMA PcSet ==
  ASSUME NEW c, IsWorker(c), NEW v
  PROVE  /\ IsWorker([c EXCEPT !.pc = v])
         /\ [c EXCEPT !.pc = v].pc = v
<1>1. PICK T : c \in [Fields -> T]
  BY DEF IsWorker
<1>2. [c EXCEPT !.pc = v] \in [Fields -> T \cup {v}]
  BY <1>1 DEF Fields
<1>3. [c EXCEPT !.pc = v].pc = v
  BY <1>1 DEF Fields
<1> QED
  BY <1>2, <1>3 DEF IsWorker

LEMMA LoadSet ==
  ASSUME NEW c, IsWorker(c), NEW v
  PROVE  /\ IsWorker([c EXCEPT !.load = v])
         /\ [c EXCEPT !.load = v].pc = c.pc
<1>1. PICK T : c \in [Fields -> T]
  BY DEF IsWorker
<1>2. [c EXCEPT !.load = v] \in [Fields -> T \cup {v}]
  BY <1>1 DEF Fields
<1>3. [c EXCEPT !.load = v].pc = c.pc
  BY <1>1 DEF Fields
<1> QED
  BY <1>2, <1>3 DEF IsWorker

LEMMA SeenAndLoadSet ==
  ASSUME NEW c, IsWorker(c), NEW u, NEW v
  PROVE  /\ IsWorker([c EXCEPT !.seen = u, !.load = v])
         /\ [c EXCEPT !.seen = u, !.load = v].pc = c.pc
<1>1. PICK T : c \in [Fields -> T]
  BY DEF IsWorker
<1>2. [c EXCEPT !.seen = u, !.load = v] \in [Fields -> T \cup {u, v}]
  BY <1>1 DEF Fields
<1>3. [c EXCEPT !.seen = u, !.load = v].pc = c.pc
  BY <1>1 DEF Fields
<1> QED
  BY <1>2, <1>3 DEF IsWorker

LEMMA CountIsNat ==
  ASSUME Shapes
  PROVE  Cardinality(DOMAIN hot) \in Nat /\ races.revived \in Nat /\ HotMax \in Nat \ {0}
  BY FS_CardinalityType, HotWatchAssumption DEF Shapes

LEMMA Dropping ==
  ASSUME NEW s, hot' = Drop(hot, s), Shapes
  PROVE  /\ DOMAIN hot' = DOMAIN hot \ {s}
         /\ IsFiniteSet(DOMAIN hot')
         /\ Cardinality(DOMAIN hot') =
              IF s \in DOMAIN hot THEN Cardinality(DOMAIN hot) - 1
              ELSE Cardinality(DOMAIN hot)
<1>1. DOMAIN hot' = DOMAIN hot \ {s}
  BY DEF Drop
<1> QED
  BY <1>1, FS_RemoveElement DEF Shapes

LEMMA Putting ==
  ASSUME NEW s, NEW e, hot' = Put(hot, s, e), Shapes
  PROVE  /\ DOMAIN hot' = DOMAIN hot \cup {s}
         /\ IsFiniteSet(DOMAIN hot')
         /\ Cardinality(DOMAIN hot') =
              IF s \in DOMAIN hot THEN Cardinality(DOMAIN hot)
              ELSE Cardinality(DOMAIN hot) + 1
<1>1. DOMAIN hot' = DOMAIN hot \cup {s}
  BY DEF Put
<1> QED
  BY <1>1, FS_AddElement DEF Shapes

LEMMA InitHolds == Init => IInv
<1> SUFFICES ASSUME Init PROVE IInv
  OBVIOUS
<1>1. DOMAIN hot = {}
  BY DEF Init, NoEntries
<1>2. Cardinality(DOMAIN hot) = 0 /\ IsFiniteSet(DOMAIN hot)
  BY <1>1, FS_EmptySet
<1>3. races \in [revived : Nat, appended : Nat] /\ races.revived = 0
  BY DEF Init
<1>4. IsWorker(cand) /\ cand.pc = "idle"
  BY WorkerOf DEF Init, Idle
<1> QED
  BY <1>2, <1>3, <1>4, HotWatchAssumption DEF IInv, Shapes, Bounded, PlaceKept

(* Steps that leave the watch, its count of races and the worker alone. *)
LEMMA Quiet ==
  ASSUME IInv, UNCHANGED <<hot, cand, races>>
  PROVE  IInv'
  BY DEF IInv, Shapes, Bounded, PlaceKept, Mover

(* Steps of the worker that bring it nowhere near a promotion. *)
LEMMA WorkerElsewhere ==
  ASSUME IInv, IsWorker(cand'), cand'.pc # "add", DOMAIN hot' = DOMAIN hot,
         races' \in [revived : Nat, appended : Nat], races'.revived = races.revived
  PROVE  IInv'
  BY DEF IInv, Shapes, Bounded, PlaceKept

-----------------------------------------------------------------------------
LEMMA PruneHolds ==
  ASSUME IInv, NEW t, PruneOne(t)
  PROVE  IInv'
<1>1. PICK s :
        \/ hot' = Drop(hot, s) /\ races' = races
        \/ /\ hot' = Put(hot, s, [pruning[t][s] EXCEPT !.age = 0])
           /\ races' = IF s \in DOMAIN hot THEN races
                       ELSE [races EXCEPT !.revived = @ + 1]
  BY DEF PruneOne
<1>2. cand' = cand
  BY DEF PruneOne
<1>3. Shapes /\ Bounded /\ PlaceKept
  BY DEF IInv
<1>4. CASE hot' = Drop(hot, s) /\ races' = races
  <2>1. /\ DOMAIN hot' = DOMAIN hot \ {s}
        /\ IsFiniteSet(DOMAIN hot')
        /\ Cardinality(DOMAIN hot') =
              IF s \in DOMAIN hot THEN Cardinality(DOMAIN hot) - 1
              ELSE Cardinality(DOMAIN hot)
    BY <1>3, <1>4, Dropping
  <2>2. races' = races
    BY <1>4
  <2> QED
    BY <1>2, <1>3, <2>1, <2>2, CountIsNat DEF IInv, Shapes, Bounded, PlaceKept, Mover
<1>5. CASE /\ hot' = Put(hot, s, [pruning[t][s] EXCEPT !.age = 0])
           /\ races' = IF s \in DOMAIN hot THEN races
                       ELSE [races EXCEPT !.revived = @ + 1]
  <2>1. /\ races' \in [revived : Nat, appended : Nat]
        /\ races'.revived = IF s \in DOMAIN hot THEN races.revived ELSE races.revived + 1
    BY <1>3, <1>5 DEF Shapes
  <2>2. /\ DOMAIN hot' = DOMAIN hot \cup {s}
        /\ IsFiniteSet(DOMAIN hot')
        /\ Cardinality(DOMAIN hot') =
              IF s \in DOMAIN hot THEN Cardinality(DOMAIN hot)
              ELSE Cardinality(DOMAIN hot) + 1
    BY <1>3, <1>5, Putting
  <2> QED
    BY <1>2, <1>3, <2>1, <2>2, CountIsNat DEF IInv, Shapes, Bounded, PlaceKept, Mover
<1> QED
  BY <1>1, <1>4, <1>5

LEMMA EvictHolds == IInv /\ CandEvict => IInv'
<1> SUFFICES ASSUME IInv, CandEvict PROVE IInv'
  OBVIOUS
<1>2. Shapes /\ Bounded
  BY DEF IInv
<1>1. IsWorker(cand') /\ Mover' = Mover /\ races' = races
  <2>1. PICK T : cand \in [Fields -> T]
    BY <1>2 DEF Shapes, IsWorker
  <2>2. cand' = [cand EXCEPT !.pc = "add"]
    BY DEF CandEvict
  <2>3. cand'.batch = cand.batch
    BY <2>1, <2>2 DEF Fields
  <2> QED
    BY <1>2, <2>2, <2>3, PcSet DEF Shapes, Mover, CandEvict
<1>3. CASE Mover.sym \notin DOMAIN hot /\ Cardinality(DOMAIN hot) >= HotMax
  <2>1. PICK s : s \in DOMAIN hot /\ hot' = Drop(hot, s)
    BY <1>3 DEF CandEvict, Oldest
  <2>2. /\ IsFiniteSet(DOMAIN hot')
        /\ Cardinality(DOMAIN hot') = Cardinality(DOMAIN hot) - 1
    BY <1>2, <2>1, Dropping
  <2> QED
    BY <1>1, <1>2, <2>2, CountIsNat DEF IInv, Shapes, Bounded, PlaceKept
<1>4. CASE ~(Mover.sym \notin DOMAIN hot /\ Cardinality(DOMAIN hot) >= HotMax)
  <2>1. hot' = hot
    BY <1>4 DEF CandEvict
  <2> QED
    BY <1>1, <1>2, <1>4, <2>1, CountIsNat DEF IInv, Shapes, Bounded, PlaceKept
<1> QED
  BY <1>3, <1>4

LEMMA PromoteHolds == IInv /\ CandPromote => IInv'
<1> SUFFICES ASSUME IInv, CandPromote PROVE IInv'
  OBVIOUS
<1>1. IsWorker(cand') /\ cand'.pc = "check" /\ races' = races /\ cand.pc = "add"
  BY PcSet DEF CandPromote, IInv, Shapes
<1>2. Shapes /\ Bounded /\ PlaceKept
  BY DEF IInv
<1>3. hot' = Put(hot, Mover.sym, Promoted(hot, Mover))
  BY DEF CandPromote
<1>4. /\ IsFiniteSet(DOMAIN hot')
      /\ Cardinality(DOMAIN hot') =
            IF Mover.sym \in DOMAIN hot THEN Cardinality(DOMAIN hot)
            ELSE Cardinality(DOMAIN hot) + 1
  BY <1>2, <1>3, Putting
<1> QED
  BY <1>1, <1>2, <1>4, CountIsNat DEF IInv, Shapes, Bounded, PlaceKept

LEMMA GradeHolds == IInv /\ CandGrade => IInv'
<1> SUFFICES ASSUME IInv, CandGrade PROVE IInv'
  OBVIOUS
<1>1. \E u \in {"prune", "check"} : cand' = [cand EXCEPT !.pc = u]
  BY DEF CandGrade
<1>2. IsWorker(cand') /\ cand'.pc # "add"
  BY <1>1, PcSet DEF IInv, Shapes
<1> QED
  BY <1>2, WorkerElsewhere DEF CandGrade, IInv, Shapes

LEMMA NextMoverMoves ==
  ASSUME NEW c, IsWorker(c)
  PROVE  IsWorker(NextMover(c)) /\ NextMover(c).pc \in {"grade", "post"}
<1>1. PICK u, w : /\ NextMover(c) = [c EXCEPT !.batch = u, !.room = FALSE, !.pc = w]
                  /\ w \in {"grade", "post"}
  BY DEF NextMover
<1>2. PICK T : c \in [Fields -> T]
  BY DEF IsWorker
<1>3. [c EXCEPT !.batch = u, !.room = FALSE, !.pc = w]
        \in [Fields -> T \cup {u, FALSE, w}]
  BY <1>2 DEF Fields
<1>4. [c EXCEPT !.batch = u, !.room = FALSE, !.pc = w].pc = w
  BY <1>2 DEF Fields
<1>5. NextMover(c) \in [Fields -> T \cup {u, FALSE, w}]
  BY <1>1, <1>3
<1>6. NextMover(c).pc = w
  BY <1>1, <1>4
<1> QED
  BY <1>1, <1>5, <1>6 DEF IsWorker

LEMMA CheckHolds == IInv /\ CandCheck => IInv'
<1> SUFFICES ASSUME IInv, CandCheck PROVE IInv'
  OBVIOUS
<1>1. IsWorker(cand)
  BY DEF IInv, Shapes
<1>2. \/ \E v : cand' = NextMover([cand EXCEPT !.load = v])
      \/ cand' = [cand EXCEPT !.pc = "post", !.batch = <<>>]
      \/ cand' = NextMover(cand)
      \/ \E v : cand' = [cand EXCEPT !.pc = "append", !.room = v]
  BY DEF CandCheck
<1>3. IsWorker(cand') /\ cand'.pc # "add"
  <2>1. CASE \E v : cand' = NextMover([cand EXCEPT !.load = v])
    BY <1>1, <2>1, LoadSet, NextMoverMoves
  <2>2. CASE cand' = [cand EXCEPT !.pc = "post", !.batch = <<>>]
    <3>1. PICK T : cand \in [Fields -> T]
      BY <1>1 DEF IsWorker
    <3>2. cand' \in [Fields -> T \cup {"post", <<>>}] /\ cand'.pc = "post"
      BY <2>2, <3>1 DEF Fields
    <3> QED
      BY <3>2 DEF IsWorker
  <2>3. CASE cand' = NextMover(cand)
    BY <1>1, <2>3, NextMoverMoves
  <2>4. CASE \E v : cand' = [cand EXCEPT !.pc = "append", !.room = v]
    <3>1. PICK T : cand \in [Fields -> T]
      BY <1>1 DEF IsWorker
    <3>2. PICK v : cand' = [cand EXCEPT !.pc = "append", !.room = v]
      BY <2>4
    <3>3. cand' \in [Fields -> T \cup {"append", v}] /\ cand'.pc = "append"
      BY <3>1, <3>2 DEF Fields
    <3> QED
      BY <3>3 DEF IsWorker
  <2> QED
    BY <1>2, <2>1, <2>2, <2>3, <2>4
<1> QED
  BY <1>3, WorkerElsewhere DEF CandCheck, IInv, Shapes

LEMMA AppendHolds == IInv /\ CandAppend => IInv'
<1> SUFFICES ASSUME IInv, CandAppend PROVE IInv'
  OBVIOUS
<1>1. \E u, v : cand' = NextMover([cand EXCEPT !.seen = u, !.load = v])
  BY DEF CandAppend
<1>2. \A u, v : IsWorker([cand EXCEPT !.seen = u, !.load = v])
  BY SeenAndLoadSet DEF IInv, Shapes
<1>3. IsWorker(cand') /\ cand'.pc # "add"
  BY <1>1, <1>2, NextMoverMoves
<1>4. races' \in [revived : Nat, appended : Nat] /\ races'.revived = races.revived
  BY DEF CandAppend, IInv, Shapes
<1> QED
  BY <1>3, <1>4, WorkerElsewhere DEF CandAppend

LEMMA PullHolds == IInv /\ CandPull => IInv'
<1> SUFFICES ASSUME IInv, CandPull PROVE IInv'
  OBVIOUS
<1>1. IsWorker(cand') /\ cand'.pc # "add"
  BY WorkerOf DEF CandPull
<1> QED
  BY <1>1, WorkerElsewhere DEF CandPull, IInv, Shapes

LEMMA DoneHolds == IInv /\ CandDone => IInv'
<1> SUFFICES ASSUME IInv, CandDone PROVE IInv'
  OBVIOUS
<1>1. IsWorker(cand') /\ cand'.pc # "add"
  BY WorkerOf DEF CandDone, Idle
<1> QED
  BY <1>1, WorkerElsewhere DEF CandDone, IInv, Shapes

LEMMA TimeHolds == IInv /\ Time => IInv'
<1> SUFFICES ASSUME IInv, Time PROVE IInv'
  OBVIOUS
<1>1. DOMAIN hot' = DOMAIN hot /\ cand' = cand /\ races' = races
  BY DEF Time, Ageing
<1> QED
  BY <1>1 DEF IInv, Shapes, Bounded, PlaceKept, Mover

LEMMA StepHolds == IInv /\ [Next]_vars => IInv'
<1> SUFFICES ASSUME IInv, [Next]_vars PROVE IInv'
  OBVIOUS
<1>1. CASE RefreshMerge \/ RefreshStore \/ RefreshPost \/ FastScan \/ MainPrunes
  BY <1>1, Quiet DEF RefreshMerge, RefreshStore, RefreshPost, FastScan, MainPrunes
<1>2. CASE DrainPool \/ DrainDeferred \/ DrainScan \/ AlertCycle \/ EntryPending
  BY <1>2, Quiet DEF DrainPool, DrainDeferred, DrainScan, AlertCycle, EntryPending
<1>3. CASE PruneOne("main") \/ PruneOne("cand")
  BY <1>3, PruneHolds
<1>4. CASE CandPull \/ CandGrade \/ CandEvict \/ CandPromote
  BY <1>4, PullHolds, GradeHolds, EvictHolds, PromoteHolds
<1>5. CASE CandCheck \/ CandAppend \/ CandDone \/ Time
  BY <1>5, CheckHolds, AppendHolds, DoneHolds, TimeHolds
<1>6. CASE UNCHANGED vars
  BY <1>6, Quiet DEF vars
<1> QED
  BY <1>1, <1>2, <1>3, <1>4, <1>5, <1>6 DEF Next

(* The hot watch exceeds its maximum by the entries that prunes put back and *)
(* by nothing else (_prune_hot_watch, _promote_hot_watch).                   *)
THEOREM HotBounded == Spec => []HotOverflowExplained
<1>1. Spec => []IInv
  BY InitHolds, StepHolds, PTL DEF Spec
<1>2. IInv => HotOverflowExplained
  BY DEF IInv, Bounded, HotOverflowExplained
<1> QED
  BY <1>1, <1>2, PTL

-----------------------------------------------------------------------------
(* The bar pool. A list is a sequence, whatever its elements. *)
IsList(l) == \E T : l \in Seq(T)

LEMMA ListOf ==
  ASSUME NEW n \in Nat, NEW f, f = [k \in 1..n |-> f[k]]
  PROVE  IsList(f) /\ Len(f) = n
<1> DEFINE T == {f[k] : k \in 1..n}
<1>1. f \in [1..n -> T]
  BY Zenon
<1>2. f \in Seq(T)
  BY <1>1
<1>3. Len(f) = n
  BY <1>1
<1> QED
  BY <1>2, <1>3 DEF IsList

LEMMA SelectedIsList ==
  ASSUME NEW s, IsList(s), NEW I, I \subseteq DOMAIN s
  PROVE  IsList(AtIndices(s, I)) /\ Len(AtIndices(s, I)) <= Len(s)
<1>1. DOMAIN s = 1..Len(s) /\ Len(s) \in Nat
  BY DEF IsList
<1>2. IsFiniteSet(1..Len(s)) /\ Cardinality(1..Len(s)) = Len(s)
  BY <1>1, FS_Interval
<1>3. IsFiniteSet(I) /\ Cardinality(I) <= Len(s)
  BY <1>1, <1>2, FS_Subset
<1>4. Cardinality(I) \in Nat
  BY <1>3, FS_CardinalityType
<1> DEFINE f == AtIndices(s, I)
<1>5. f = [k \in 1..Cardinality(I) |-> f[k]]
  BY DEF AtIndices
<1>6. IsList(f) /\ Len(f) = Cardinality(I)
  BY <1>4, <1>5, ListOf
<1> QED
  BY <1>3, <1>6

LEMMA JoinIsList ==
  ASSUME NEW s, IsList(s), NEW t, IsList(t)
  PROVE  IsList(s \o t)
<1>1. PICK S : s \in Seq(S)
  BY DEF IsList
<1>2. PICK T : t \in Seq(T)
  BY DEF IsList
<1>3. s \in Seq(S \cup T) /\ t \in Seq(S \cup T)
  BY <1>1, <1>2
<1> QED
  BY <1>3 DEF IsList

LEMMA CutIsList ==
  ASSUME NEW s, IsList(s), NEW n \in Nat
  PROVE  LET c == SubSeq(s, 1, IF Len(s) > n THEN n ELSE Len(s))
         IN  IsList(c) /\ Len(c) <= n
<1>1. PICK S : s \in Seq(S)
  BY DEF IsList
<1> DEFINE k == IF Len(s) > n THEN n ELSE Len(s)
<1>2. k \in 0..Len(s) /\ k <= n /\ Len(s) \in Nat
  BY <1>1
<1> HIDE DEF k
<1>3. SubSeq(s, 1, k) \in Seq(S) /\ Len(SubSeq(s, 1, k)) = k
  BY <1>1, <1>2, SubSeqProperties
<1>4. IsList(SubSeq(s, 1, k))
  BY <1>3 DEF IsList
<1> QED
  BY <1>2, <1>3, <1>4 DEF k

LEMMA AppendIsList ==
  ASSUME NEW s, IsList(s), NEW e
  PROVE  /\ IsList(Append(s, e)) /\ Len(Append(s, e)) = Len(s) + 1
         /\ Len(s) \in Nat
         /\ \A i \in 1..Len(s) : Append(s, e)[i] = s[i]
         /\ Append(s, e)[Len(s) + 1] = e
<1>1. PICK S : s \in Seq(S)
  BY DEF IsList
<1>2. s \in Seq(S \cup {e})
  BY <1>1
<1> QED
  BY <1>2 DEF IsList

LEMMA TailIsList ==
  ASSUME NEW s, IsList(s), s # <<>>
  PROVE  /\ IsList(Tail(s)) /\ Len(Tail(s)) = Len(s) - 1 /\ Len(s) \in Nat \ {0}
         /\ \A i \in 1..Len(Tail(s)) : Tail(s)[i] = s[i + 1]
         /\ Head(s) = s[1]
<1>1. PICK S : s \in Seq(S)
  BY DEF IsList
<1> QED
  BY <1>1 DEF IsList

LEMMA BandIsList ==
  ASSUME NEW l, IsList(l), NEW band
  PROVE  IsList(InBandOnly(l, band)) /\ Len(InBandOnly(l, band)) <= Len(l)
<1>1. {i \in DOMAIN l : l[i] \in band} \subseteq DOMAIN l
  OBVIOUS
<1>2. InBandOnly(l, band) = AtIndices(l, {i \in DOMAIN l : l[i] \in band})
  BY DEF InBandOnly, Where
<1> QED
  BY <1>1, <1>2, SelectedIsList

LEMMA MergeIsShort ==
  ASSUME NEW old, IsList(old), NEW ranked, IsList(ranked), NEW band
  PROVE  LET m == Merged(old, ranked, band, PoolMax)
         IN  IsList(m) /\ Len(m) <= PoolMax
<1> DEFINE all == ranked \o InBandOnly(old, band)
           firsts == {i \in DOMAIN all : \A j \in 1..(i - 1) : all[j] # all[i]}
           once == AtIndices(all, firsts)
<1>1. IsList(all)
  BY BandIsList, JoinIsList
<1>2. firsts \subseteq DOMAIN all
  OBVIOUS
<1>3. IsList(once)
  BY <1>1, <1>2, SelectedIsList
<1>4. PoolMax \in Nat
  BY BoardAssumption
<1> HIDE DEF once
<1>5. LET c == SubSeq(once, 1, IF Len(once) > PoolMax THEN PoolMax ELSE Len(once))
      IN  IsList(c) /\ Len(c) <= PoolMax
  BY <1>3, <1>4, CutIsList
<1> QED
  BY <1>5 DEF Merged, once

LEMMA RankedIsList ==
  ASSUME NEW rows, IsList(rows), NEW looked
  PROVE  IsList(FloatPool(rows, looked, PoolMax))
<1> DEFINE eligible == Where(rows, PoolEligible)
           leading(m) == m.change >= 30 /\ m.vol >= 100
           trailing(m) == ~leading(m)
           ranked == Where(eligible, leading) \o Where(eligible, trailing)
           cached(m) == FloatOf[m.sym] # Unknown
           absurd(m) == cached(m) /\ FloatOf[m.sym] * m.price > 10000
           small1(m) == cached(m) /\ ~absurd(m) /\ FloatOf[m.sym] <= FloatLimit(m)
           asked(m) == ~cached(m) \/ (absurd(m) /\ FloatOf[m.sym] < 1000)
           small2(m) == looked[m.sym] # Unknown /\ looked[m.sym] <= FloatLimit(m)
           passing(m) == asked(m) /\ small2(m)
           all == Where(ranked, small1) \o Where(ranked, passing)
<1>1. IsList(eligible)
  BY SelectedIsList DEF Where
<1>2. IsList(Where(eligible, leading)) /\ IsList(Where(eligible, trailing))
  <2> HIDE DEF eligible
  <2> QED
    BY <1>1, SelectedIsList DEF Where
<1>3. IsList(ranked)
  <2> HIDE DEF eligible
  <2> QED
    BY <1>2, JoinIsList
<1>4. IsList(Where(ranked, small1)) /\ IsList(Where(ranked, passing))
  <2> HIDE DEF ranked
  <2> QED
    BY <1>3, SelectedIsList DEF Where
<1>5. IsList(all)
  <2> HIDE DEF ranked
  <2> QED
    BY <1>4, JoinIsList
<1> DEFINE n == IF Len(all) > PoolMax THEN PoolMax ELSE Len(all)
           f == [i \in 1..n |-> all[i].sym]
<1>6. FloatPool(rows, looked, PoolMax) = f
  BY DEF FloatPool
<1> HIDE DEF all
<1>7. n \in Nat
  BY <1>5, BoardAssumption DEF IsList
<1> HIDE DEF n
<1>8. IsList(f)
  BY <1>7, ListOf
<1> QED
  BY <1>6, <1>8

-----------------------------------------------------------------------------
(* The inductive invariant behind PoolOverflowExplained: whatever list may     *)
(* become the pool is as short as the pool may be, the ones that wait in the   *)
(* event queue included; and the worker appends after it saw room.             *)
Short(l) == IsList(l) /\ Len(l) <= PoolMax + races.appended
PostsShort ==
  /\ IsList(events)
  /\ \A i \in 1..Len(events) : events[i].kind = "pool" => Short(events[i].list)
Carries == \E T : refresh \in [{"pc", "list"} -> T]
RoomSeen == cand.pc = "append" => cand.room = TRUE
PInv ==
  /\ IInv
  /\ Short(pool) /\ Short(refresh.list) /\ PostsShort
  /\ Carries /\ RoomSeen

LEMMA PoolInit == Init => PInv
<1> SUFFICES ASSUME Init PROVE PInv
  OBVIOUS
<1>1. IsList(<<>>) /\ Len(<<>>) = 0
  BY ListOf DEF IsList
<1>2. races.appended = 0 /\ PoolMax \in Nat
  BY BoardAssumption DEF Init
<1>3. Short(<<>>)
  BY <1>1, <1>2 DEF Short
<1>4. refresh.list = <<>> /\ Carries
  <2>1. refresh = [pc |-> "idle", list |-> <<>>]
    BY DEF Init
  <2>2. refresh \in [{"pc", "list"} -> {"idle", <<>>}]
    BY <2>1
  <2> QED
    BY <2>1, <2>2 DEF Carries
<1>5. cand.pc = "idle"
  BY DEF Init, Idle
<1> QED
  BY <1>1, <1>3, <1>4, <1>5, InitHolds DEF PInv, Init, PostsShort, RoomSeen

(* Lists stay short when the count of races does not fall. *)
LEMMA StillShort ==
  ASSUME PInv, NEW l, Short(l), races' = races \/ races'.appended = races.appended + 1
  PROVE  Short(l)'
  BY BoardAssumption DEF PInv, IInv, Shapes, Short, IsList

LEMMA PoolQuiet ==
  ASSUME PInv, IInv', UNCHANGED <<pool, events, refresh>>, RoomSeen',
         races'.appended = races.appended
  PROVE  PInv'
  BY DEF PInv, Short, PostsShort, Carries

(* Steps that post no pool and leave the worker behind alone. *)
LEMMA PostShort ==
  ASSUME PInv, NEW k, NEW l, k = "pool" => Short(l), races' = races,
         Post([kind |-> k, list |-> l])
  PROVE  PostsShort'
<1> DEFINE e == [kind |-> k, list |-> l]
<1>1. IsList(events) /\ \A i \in 1..Len(events) : events[i].kind = "pool" => Short(events[i].list)
  BY DEF PInv, PostsShort
<1>2. \A m : Short(m)' <=> Short(m)
  BY DEF Short
<1>3. e.kind = k /\ e.list = l
  OBVIOUS
<1>4. CASE events' = events
  BY <1>1, <1>2, <1>4 DEF PostsShort
<1>5. CASE events' = Append(events, e)
  <2> HIDE DEF e
  <2>1. /\ IsList(events') /\ Len(events') = Len(events) + 1 /\ Len(events) \in Nat
        /\ \A i \in 1..Len(events) : events'[i] = events[i]
        /\ events'[Len(events) + 1] = e
    BY <1>1, <1>5, AppendIsList
  <2>2. ASSUME NEW i \in 1..Len(events'), events'[i].kind = "pool" PROVE Short(events'[i].list)
    <3>1. i \in 1..Len(events) \/ i = Len(events) + 1
      BY <2>1
    <3> QED
      BY <1>1, <1>3, <2>1, <2>2, <3>1
  <2> QED
    BY <1>2, <2>1, <2>2 DEF PostsShort
<1> QED
  BY <1>4, <1>5 DEF Post

LEMMA DrainShort ==
  ASSUME PInv, events # <<>>, events' = Tail(events), races' = races
  PROVE  PostsShort'
<1>1. IsList(events) /\ \A i \in 1..Len(events) : events[i].kind = "pool" => Short(events[i].list)
  BY DEF PInv, PostsShort
<1>2. \A m : Short(m)' <=> Short(m)
  BY DEF Short
<1>3. /\ IsList(events') /\ Len(events') = Len(events) - 1 /\ Len(events) \in Nat \ {0}
      /\ \A i \in 1..Len(events') : events'[i] = events[i + 1]
  BY <1>1, TailIsList
<1> QED
  BY <1>1, <1>2, <1>3 DEF PostsShort

LEMMA HeadShort ==
  ASSUME PInv, events # <<>>, Head(events).kind = "pool"
  PROVE  Short(Head(events).list)
<1>1. IsList(events) /\ \A i \in 1..Len(events) : events[i].kind = "pool" => Short(events[i].list)
  BY DEF PInv, PostsShort
<1>2. Len(events) \in Nat \ {0} /\ Head(events) = events[1]
  BY <1>1, TailIsList
<1> QED
  BY <1>1, <1>2

LEMMA EmptyShort == PInv => Short(<<>>)
  BY ListOf, BoardAssumption DEF PInv, IInv, Shapes, Short, IsList

LEMMA BandShort ==
  ASSUME NEW l, Short(l), PInv, NEW band
  PROVE  Short(InBandOnly(l, band))
<1>1. IsList(l) /\ Len(l) <= PoolMax + races.appended
  BY DEF Short
<1>2. IsList(InBandOnly(l, band)) /\ Len(InBandOnly(l, band)) <= Len(l)
  BY <1>1, BandIsList
<1>3. Len(l) \in Nat /\ Len(InBandOnly(l, band)) \in Nat
  BY <1>1, <1>2 DEF IsList
<1>4. PoolMax \in Nat /\ races.appended \in Nat
  BY BoardAssumption DEF PInv, IInv, Shapes
<1> QED
  BY <1>1, <1>2, <1>3, <1>4 DEF Short

LEMMA CarriesOf ==
  ASSUME NEW a, NEW l, refresh' = [pc |-> a, list |-> l]
  PROVE  Carries' /\ refresh'.list = l
<1>1. refresh' \in [{"pc", "list"} -> {a, l}]
  OBVIOUS
<1> QED
  BY <1>1 DEF Carries

(* Steps that change the pool, the lists or the worker's place, each part of  *)
(* the invariant by itself.                                                   *)
LEMMA RefreshMergeShort == PInv /\ IInv' /\ RefreshMerge => PInv'
<1> SUFFICES ASSUME PInv, IInv', RefreshMerge PROVE PInv'
  OBVIOUS
<1>1. PICK S \in SUBSET Symbols, k \in Kinds, band \in {Symbols, {}} :
        \E rows \in SetToSeqs({MoverOf(k, s) : s \in S}) :
          \E looked \in Lookups :
            refresh' = [pc |-> "merged",
                        list |-> Merged(pool, FloatPool(rows, looked, PoolMax), band, PoolMax)]
  BY DEF RefreshMerge
<1> DEFINE R == {MoverOf(k, s) : s \in S}
<1>2. PICK rows \in SetToSeqs(R), looked \in Lookups :
            refresh' = [pc |-> "merged",
                        list |-> Merged(pool, FloatPool(rows, looked, PoolMax), band, PoolMax)]
  BY <1>1
<1>3. IsList(rows)
  <2>1. IsFiniteSet(S)
    BY HotWatchAssumption, FS_Subset
  <2>2. IsFiniteSet(R)
    <3> DEFINE f == [s \in S |-> MoverOf(k, s)]
    <3>1. f \in Surjection(S, R)
      BY DEF Surjection
    <3> QED
      BY <2>1, <3>1, FS_Surjection
  <2>3. Cardinality(R) \in Nat
    BY <2>2, FS_CardinalityType
  <2> HIDE DEF R
  <2>4. rows \in [1..Cardinality(R) -> R]
    BY DEF SetToSeqs
  <2>5. rows \in Seq(R)
    BY <2>3, <2>4
  <2> QED
    BY <2>5 DEF IsList
<1>4. IsList(pool)
  BY DEF PInv, Short
<1> DEFINE m == Merged(pool, FloatPool(rows, looked, PoolMax), band, PoolMax)
<1>5. IsList(m) /\ Len(m) <= PoolMax
  BY <1>3, <1>4, RankedIsList, MergeIsShort
<1> HIDE DEF m
<1>6. Short(m)
  BY <1>5, BoardAssumption DEF Short, PInv, IInv, Shapes, IsList
<1>7. refresh'.list = m /\ Carries'
  BY <1>2, CarriesOf DEF m
<1>8. UNCHANGED <<pool, events, cand, races>>
  BY DEF RefreshMerge
<1> QED
  BY <1>6, <1>7, <1>8 DEF PInv, Short, PostsShort, RoomSeen

LEMMA RefreshStoreShort == PInv /\ IInv' /\ RefreshStore => PInv'
<1> SUFFICES ASSUME PInv, IInv', RefreshStore PROVE PInv'
  OBVIOUS
<1>1. PICK band : pool' = InBandOnly(refresh.list, band)
  BY DEF RefreshStore
<1>2. Short(pool') /\ Short(<<>>)
  BY <1>1, BandShort, EmptyShort DEF PInv
<1>3. refresh'.list = <<>> /\ Carries'
  BY CarriesOf DEF RefreshStore
<1>4. UNCHANGED <<events, cand, races>>
  BY DEF RefreshStore
<1> QED
  BY <1>2, <1>3, <1>4 DEF PInv, Short, PostsShort, RoomSeen

LEMMA RefreshPostShort == PInv /\ IInv' /\ RefreshPost => PInv'
<1> SUFFICES ASSUME PInv, IInv', RefreshPost PROVE PInv'
  OBVIOUS
<1>1. UNCHANGED <<pool, cand, races>> /\ Post([kind |-> "pool", list |-> pool])
  BY DEF RefreshPost
<1>2. PostsShort'
  BY <1>1, PostShort DEF PInv
<1>3. Carries' /\ refresh'.list = refresh.list
  <2>1. PICK T : refresh \in [{"pc", "list"} -> T]
    BY DEF PInv, Carries
  <2>2. refresh' = [refresh EXCEPT !.pc = "idle"]
    BY DEF RefreshPost
  <2>3. refresh' \in [{"pc", "list"} -> T \cup {"idle"}] /\ refresh'.list = refresh.list
    BY <2>1, <2>2
  <2> QED
    BY <2>3 DEF Carries
<1> QED
  BY <1>1, <1>2, <1>3 DEF PInv, Short, RoomSeen

LEMMA FastScanShort == PInv /\ IInv' /\ FastScan => PInv'
<1> SUFFICES ASSUME PInv, IInv', FastScan PROVE PInv'
  OBVIOUS
<1>1. UNCHANGED <<pool, cand, races, refresh>>
  BY DEF FastScan
<1>2. \E l : Post([kind |-> "scan", list |-> l])
  BY DEF FastScan
<1>3. PostsShort'
  BY <1>1, <1>2, PostShort
<1> QED
  BY <1>1, <1>3 DEF PInv, Short, Carries, RoomSeen

LEMMA DrainsShort ==
  PInv /\ IInv' /\ (DrainPool \/ DrainDeferred \/ DrainScan) => PInv'
<1> SUFFICES ASSUME PInv, IInv', DrainPool \/ DrainDeferred \/ DrainScan PROVE PInv'
  OBVIOUS
<1>1. UNCHANGED <<cand, races, refresh>> /\ events # <<>> /\ events' = Tail(events)
  BY DEF DrainPool, DrainDeferred, DrainScan
<1>2. PostsShort'
  BY <1>1, DrainShort
<1>3. Short(pool')
  BY HeadShort DEF DrainPool, DrainDeferred, DrainScan, PInv
<1> QED
  BY <1>1, <1>2, <1>3 DEF PInv, Short, Carries, RoomSeen

LEMMA AlertShort == PInv /\ IInv' /\ AlertCycle => PInv'
<1> SUFFICES ASSUME PInv, IInv', AlertCycle PROVE PInv'
  OBVIOUS
<1>1. PICK out : pool' = InBandOnly(pool, Symbols \ out)
  BY DEF AlertCycle
<1>2. Short(pool')
  BY <1>1, BandShort DEF PInv
<1>3. UNCHANGED <<events, refresh, cand, races>>
  BY DEF AlertCycle
<1> QED
  BY <1>2, <1>3 DEF PInv, Short, PostsShort, Carries, RoomSeen

(* The worker enters its append after a look at the pool that found room. *)
LEMMA CheckShort == PInv /\ IInv' /\ CandCheck => PInv'
<1> SUFFICES ASSUME PInv, IInv', CandCheck PROVE PInv'
  OBVIOUS
<1>1. IsWorker(cand)
  BY DEF PInv, IInv, Shapes
<1>2. \/ \E v : cand' = NextMover([cand EXCEPT !.load = v])
      \/ cand' = [cand EXCEPT !.pc = "post", !.batch = <<>>]
      \/ cand' = NextMover(cand)
      \/ HasRoom /\ cand' = [cand EXCEPT !.pc = "append", !.room = Len(pool) < PoolMax]
  BY DEF CandCheck
<1>3. RoomSeen'
  <2>1. CASE \E v : cand' = NextMover([cand EXCEPT !.load = v])
    BY <1>1, <2>1, LoadSet, NextMoverMoves DEF RoomSeen
  <2>2. CASE cand' = [cand EXCEPT !.pc = "post", !.batch = <<>>]
    <3>1. PICK T : cand \in [Fields -> T]
      BY <1>1 DEF IsWorker
    <3>2. cand'.pc = "post"
      BY <2>2, <3>1 DEF Fields
    <3> QED
      BY <3>2 DEF RoomSeen
  <2>3. CASE cand' = NextMover(cand)
    BY <1>1, <2>3, NextMoverMoves DEF RoomSeen
  <2>4. CASE HasRoom /\ cand' = [cand EXCEPT !.pc = "append", !.room = Len(pool) < PoolMax]
    <3>1. PICK T : cand \in [Fields -> T]
      BY <1>1 DEF IsWorker
    <3>2. (Len(pool) < PoolMax) = TRUE
      BY <2>4 DEF HasRoom
    <3>3. cand' = [cand EXCEPT !.pc = "append", !.room = TRUE]
      BY <2>4, <3>2
    <3>4. cand'.room = TRUE
      BY <3>1, <3>3 DEF Fields
    <3> QED
      BY <3>4 DEF RoomSeen
  <2> QED
    BY <1>2, <2>1, <2>2, <2>3, <2>4
<1> QED
  BY <1>3, PoolQuiet DEF CandCheck

LEMMA AppendShort == PInv /\ IInv' /\ CandAppend => PInv'
<1> SUFFICES ASSUME PInv, IInv', CandAppend PROVE PInv'
  OBVIOUS
<1>1. cand.room = TRUE /\ UNCHANGED <<events, refresh>> /\ pool' = Append(pool, Mover.sym)
  BY DEF CandAppend, PInv, RoomSeen
<1>2. /\ IsList(pool) /\ Len(pool) <= PoolMax + races.appended /\ Len(pool) \in Nat
      /\ PoolMax \in Nat /\ races \in [revived : Nat, appended : Nat]
  BY BoardAssumption DEF PInv, IInv, Shapes, Short, IsList
<1>3. races' = IF Len(pool) >= PoolMax THEN [races EXCEPT !.appended = @ + 1] ELSE races
  BY <1>1 DEF CandAppend
<1>4. IsList(pool') /\ Len(pool') = Len(pool) + 1
  BY <1>1, <1>2, AppendIsList
<1>5. Len(pool') <= PoolMax + races'.appended
  BY <1>2, <1>3, <1>4
<1>6. Short(pool)' /\ (races' = races \/ races'.appended = races.appended + 1)
  BY <1>2, <1>3, <1>4, <1>5 DEF Short
<1>7. \A l : Short(l) => Short(l)'
  BY <1>6, StillShort
<1>8. RoomSeen'
  <2>1. \E u, v : cand' = NextMover([cand EXCEPT !.seen = u, !.load = v])
    BY DEF CandAppend
  <2>2. \A u, v : IsWorker([cand EXCEPT !.seen = u, !.load = v])
    BY SeenAndLoadSet DEF PInv, IInv, Shapes
  <2> QED
    BY <2>1, <2>2, NextMoverMoves DEF RoomSeen
<1>9. PostsShort' /\ Short(refresh.list)'
  BY <1>1, <1>7 DEF PInv, PostsShort
<1> QED
  BY <1>1, <1>6, <1>8, <1>9 DEF PInv, Carries

LEMMA PoolStep == PInv /\ [Next]_vars => PInv'
<1> SUFFICES ASSUME PInv, [Next]_vars PROVE PInv'
  OBVIOUS
<1>1. IInv'
  BY StepHolds DEF PInv
<1>2. IsWorker(cand)
  BY DEF PInv, IInv, Shapes
<1>3. CASE MainPrunes \/ EntryPending \/ Time \/ UNCHANGED vars
  BY <1>1, <1>3, PoolQuiet DEF MainPrunes, EntryPending, Time, vars, PInv, RoomSeen
<1>4. CASE PruneOne("main") \/ PruneOne("cand")
  <2>1. races'.appended = races.appended
    BY <1>4 DEF PruneOne, PInv, IInv, Shapes
  <2> QED
    BY <1>1, <1>4, <2>1, PoolQuiet DEF PruneOne, PInv, RoomSeen
<1>5. CASE CandPull \/ CandDone
  <2>1. cand'.pc # "append"
    BY <1>5 DEF CandPull, CandDone, Idle
  <2> QED
    BY <1>1, <1>5, <2>1, PoolQuiet DEF CandPull, CandDone, RoomSeen
<1>6. CASE CandGrade \/ CandEvict \/ CandPromote
  <2>1. \E u \in {"prune", "check", "add"} : cand' = [cand EXCEPT !.pc = u]
    BY <1>6 DEF CandGrade, CandEvict, CandPromote
  <2>2. cand'.pc # "append"
    BY <1>2, <2>1, PcSet
  <2> QED
    BY <1>1, <1>6, <2>2, PoolQuiet DEF CandGrade, CandEvict, CandPromote, RoomSeen
<1> QED
  BY <1>1, <1>3, <1>4, <1>5, <1>6, RefreshMergeShort, RefreshStoreShort, RefreshPostShort,
     FastScanShort, DrainsShort, AlertShort, CheckShort, AppendShort DEF Next

(* The bar pool exceeds its maximum by the symbols appended after it had      *)
(* filled up since the candidate worker looked, and by nothing else: neither  *)
(* a merge nor a list that waited in the event queue makes it longer          *)
(* (_merge_hod_bar_pool, _drain_events, _handle_fast_scan_movers).   *)
THEOREM PoolBounded == Spec => []PoolOverflowExplained
<1>1. Spec => []PInv
  BY PoolInit, PoolStep, PTL DEF Spec
<1>2. PInv => PoolOverflowExplained
  BY DEF PInv, Short, PoolOverflowExplained
<1> QED
  BY <1>1, <1>2, PTL
=============================================================================
