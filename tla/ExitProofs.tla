----------------------------- MODULE ExitProofs -----------------------------
(***************************************************************************)
(* Exits: the stop ladder keeps its promises for every size of its rungs    *)
(* (ExitLadder), and the books of the sales are proved for any number of    *)
(* sales and any limits of the order lists (ExitAccounting).                *)
(***************************************************************************)
EXTENDS ExitLadder, ExitAccounting, TLAPS

-----------------------------------------------------------------------------
(* The stop ladder.                                                         *)

(* Before the partial nothing above the entry has been locked and the first  *)
(* target is still ahead; a rollback finds the position as it was then.      *)
Rungs ==
  /\ open /\ ~soldHalf => step = 0 /\ adds = 0 /\ stop <= entry
  /\ open /\ adds = 0 => target > entry
  /\ open /\ soldHalf => locked
  /\ open /\ soldHalf /\ selling # "none" => selling = "part" /\ step = 0 /\ adds = 0

IInv == TypeOK /\ RiskBounded /\ OneLadder /\ Rungs

(* The typing of the flags and that of the numbers, which the provers take    *)
(* in separate steps.                                                         *)
FlagTypes ==
  /\ open \in BOOLEAN
  /\ candidate \in BOOLEAN
  /\ soldHalf \in BOOLEAN
  /\ locked \in BOOLEAN
  /\ confirmed \in BOOLEAN

NumberTypes ==
  /\ kind \in Kinds
  /\ entry \in Price
  /\ stop \in Int
  /\ risk \in 1..MaxRisk
  /\ target \in Nat
  /\ high \in Price
  /\ remaining \in 0..MaxQty
  /\ step \in Nat
  /\ selling \in {"none", "part", "all"}
  /\ asked \in 0..MaxQty
  /\ readd \in 0..MaxPrice
  /\ scaled \in 0..MaxScaleUps
  /\ adds \in 0..MaxScaleUps

LEMMA TypeParts == TypeOK <=> FlagTypes /\ NumberTypes /\ (open => remaining > 0)
BY Zenon DEF TypeOK, FlagTypes, NumberTypes

LEMMA Bounds ==
  /\ 1 \in Price /\ 1 \in 1..MaxRisk /\ "target" \in Kinds
  /\ 0 \in 0..MaxQty /\ 0 \in 0..MaxPrice /\ 0 \in 0..MaxScaleUps
BY LadderAssumption DEF Price, Kinds

LEMMA InitIInv == Init => IInv
<1> SUFFICES ASSUME Init PROVE IInv
  OBVIOUS
<1>1. TypeOK
  <2>1. FlagTypes
    BY Zenon DEF Init, FlagTypes
  <2>2. NumberTypes
    BY Bounds DEF Init, NumberTypes
  <2> QED
    BY <2>1, <2>2, TypeParts DEF Init
<1> QED
  BY <1>1 DEF Init, IInv, RiskBounded, OneLadder, Rungs

(* A step the price has reached is above the entry. *)
LEMMA ReachedStep ==
  ASSUME NEW e \in Int, NEW p \in Int, NEW k \in Nat, p >= e + (k + 1) * StepGap
  PROVE  /\ (p - e) \div StepGap \in Nat
         /\ (p - e) \div StepGap > k
         /\ e + ((p - e) \div StepGap) * StepGap \in Int
         /\ e + ((p - e) \div StepGap) * StepGap >= e
<1>1. StepGap \in Nat /\ StepGap > 0
  BY LadderAssumption
<1> DEFINE d == (p - e) \div StepGap
           r == (p - e) % StepGap
<1>2. p - e \in Int /\ p - e >= (k + 1) * StepGap
  BY <1>1
<1>3. d \in Int /\ r \in Int /\ 0 <= r /\ r < StepGap /\ p - e = StepGap * d + r
  BY <1>1, <1>2
<1> HIDE DEF d, r
<1>4. (d + 1) * StepGap > (k + 1) * StepGap
  BY <1>1, <1>2, <1>3
<1>5. d > k
  BY <1>1, <1>3, <1>4
<1>6. d * StepGap \in Int /\ d * StepGap >= 0
  BY <1>1, <1>3, <1>5
<1> QED
  BY <1>3, <1>5, <1>6 DEF d

-----------------------------------------------------------------------------
(* One lemma per group of actions: the invariant is preserved.              *)

LEMMA FreshIInv ==
  ASSUME NEW k \in Kinds, NEW c \in BOOLEAN, NEW e \in Price, NEW r \in 1..MaxRisk,
         NEW t \in Nat, NEW q \in Shares, t > e,
         Fresh(k, c, e, r, t, q), open' = TRUE, IInv, UNCHANGED <<orders, scaling>>
  PROVE  IInv'
<1>1. e \in Int /\ r \in Int /\ r > 0 /\ t \in Int /\ q \in 0..MaxQty /\ q > 0
  BY LadderAssumption DEF Price, Shares
<1>2. TypeOK'
  <2>1. FlagTypes'
    BY Zenon DEF FlagTypes, Fresh
  <2>2. NumberTypes'
    BY <1>1, Bounds DEF IInv, TypeOK, NumberTypes, Fresh, orders, scaling
  <2>3. remaining' > 0
    BY <1>1 DEF Fresh
  <2> QED
    BY <2>1, <2>2, <2>3, Zenon DEF TypeOK, FlagTypes, NumberTypes
<1> QED
  BY <1>1, <1>2 DEF IInv, RiskBounded, OneLadder, Rungs, Fresh

LEMMA UntrackedIInv ==
  ASSUME IInv, Untracked, selling' \in {"none", "part", "all"}, asked' \in 0..MaxQty,
         readd' \in 0..MaxPrice, scaled' \in 0..MaxScaleUps
  PROVE  IInv'
<1>1. TypeOK'
  <2>1. FlagTypes'
    BY Zenon DEF FlagTypes, Untracked, Fresh
  <2>2. NumberTypes'
    BY Bounds DEF NumberTypes, Untracked, Fresh
  <2> QED
    BY <2>1, <2>2, Zenon DEF TypeOK, FlagTypes, NumberTypes, Untracked
<1> QED
  BY <1>1 DEF IInv, RiskBounded, OneLadder, Rungs, Untracked, Fresh

LEMMA EnterIInv == ASSUME IInv, Enter PROVE IInv'
<1>1. PICK e \in Price, r \in 1..MaxRisk, q \in Shares :
        \/ Adopt(e, r, q)
        \/ \E k \in Kinds, c \in BOOLEAN, t \in Price : Register(k, c, e, r, t, q)
  BY DEF Enter
<1>2. CASE Adopt(e, r, q)
  <2>1. e + r \in Nat /\ e + r > e /\ "target" \in Kinds
    BY LadderAssumption DEF Price, Kinds
  <2> QED
    BY <1>2, <2>1, FreshIInv DEF Adopt
<1>3. CASE \E k \in Kinds, c \in BOOLEAN, t \in Price : Register(k, c, e, r, t, q)
  <2>1. PICK k \in Kinds, c \in BOOLEAN, t \in Price : Register(k, c, e, r, t, q)
    BY <1>3
  <2>2. t \in Nat /\ t > e
    BY <2>1, LadderAssumption DEF Register, Price
  <2> QED
    BY <2>1, <2>2, FreshIInv DEF Register
<1> QED
  BY <1>1, <1>2, <1>3

LEMMA SyncIInv == ASSUME IInv, NEW q \in Shares, SyncQty(q) PROVE IInv'
BY LadderAssumption
   DEF IInv, TypeOK, RiskBounded, OneLadder, Rungs, SyncQty, Shares, setup, levels, flags,
       orders, scaling

LEMMA VanishIInv == ASSUME IInv, Vanish PROVE IInv'
BY UntrackedIInv DEF Vanish, IInv, TypeOK, orders, scaling

LEMMA SellsAllIInv == ASSUME IInv, NEW p \in Price, CheckSellsAll(p) PROVE IInv'
BY UntrackedIInv DEF CheckSellsAll, Ask, IInv, TypeOK, scaling

LEMMA PartialIInv == ASSUME IInv, NEW p \in Price, CheckPartial(p) PROVE IInv'
<1>1. FirstPartialQty \in Nat /\ (FirstPartialQty # remaining => FirstPartialQty < remaining)
  <2>1. remaining \in Nat /\ remaining > 0
    BY LadderAssumption DEF IInv, TypeOK, CheckPartial, Checked
  <2>2. /\ remaining \div 2 \in Nat /\ remaining \div 2 <= remaining
        /\ remaining \div 3 \in Nat /\ remaining \div 3 <= remaining
    BY <2>1
  <2> QED
    BY <2>1, <2>2 DEF FirstPartialQty, Higher, IInv, TypeOK
<1>2. CASE FirstPartialQty = remaining
  BY <1>2, UntrackedIInv DEF CheckPartial, Ask, IInv, TypeOK, scaling
<1>3. CASE FirstPartialQty # remaining
  <2>1. /\ selling' = "part" /\ asked' = FirstPartialQty
        /\ remaining' = remaining - FirstPartialQty
        /\ soldHalf' = TRUE /\ locked' = TRUE /\ stop' = entry /\ high' = Seen(p)
        /\ confirmed' \in BOOLEAN
        /\ UNCHANGED <<open, setup, entry, step, adds, scaling>>
        /\ open /\ ~soldHalf
    BY <1>3 DEF CheckPartial, Ask, PostPartialStop, MaybeConfirmRunner, PartialDue,
                Checked, IInv, TypeOK
  <2>2. high' \in Price
    BY <2>1 DEF Seen, Higher, IInv, TypeOK
  <2>3. remaining' \in 0..MaxQty /\ remaining' > 0 /\ asked' \in 0..MaxQty
    BY <1>1, <1>3, <2>1, LadderAssumption DEF IInv, TypeOK
  <2> QED
    BY <2>1, <2>2, <2>3, LadderAssumption
       DEF IInv, TypeOK, RiskBounded, OneLadder, Rungs, setup, scaling, Price
<1> QED
  BY <1>2, <1>3

LEMMA WaitsIInv == ASSUME IInv, NEW p \in Price, CheckWaits(p) PROVE IInv'
<1>1. high' \in Price /\ locked' \in BOOLEAN /\ (stop' = entry \/ UNCHANGED <<stop, locked>>)
  BY DEF CheckWaits, Seen, Higher, IInv, TypeOK
<1> QED
  BY <1>1, LadderAssumption
     DEF CheckWaits, Checked, IInv, TypeOK, RiskBounded, OneLadder, Rungs, setup, orders,
         scaling, Price

LEMMA TrailsIInv == ASSUME IInv, NEW p \in Price, CheckTrails(p) PROVE IInv'
<1>1. high' \in Price /\ stop' \in Int /\ stop' >= stop
  BY LadderAssumption DEF CheckTrails, Seen, Higher, IInv, TypeOK, Price
<1> QED
  BY <1>1, LadderAssumption
     DEF CheckTrails, Checked, IInv, TypeOK, RiskBounded, OneLadder, Rungs, setup, flags,
         orders, scaling, Price

LEMMA StepsIInv == ASSUME IInv, NEW p \in Price, CheckSteps(p) PROVE IInv'
<1>1. entry \in Int /\ p \in Int /\ step \in Nat
  BY LadderAssumption DEF IInv, TypeOK, Price
<1>2. \/ UNCHANGED <<stop, step>>
      \/ step' \in Nat /\ stop' \in Int /\ stop' >= entry
  <2>1. CASE p < Level(step + 1)
    BY <2>1 DEF CheckSteps
  <2>2. CASE ~(p < Level(step + 1))
    <3>1. p >= entry + (step + 1) * StepGap
      BY <1>1, <2>2, LadderAssumption DEF Level
    <3>2. step' = (p - entry) \div StepGap /\ stop' = entry + step' * StepGap
      BY <2>2 DEF CheckSteps, Level
    <3> QED
      BY <1>1, <3>1, <3>2, ReachedStep
  <2> QED
    BY <2>1, <2>2
<1>3. high' \in Price
  BY DEF CheckSteps, Seen, Higher, IInv, TypeOK
<1> QED
  BY <1>2, <1>3, LadderAssumption
     DEF CheckSteps, Checked, IInv, TypeOK, RiskBounded, OneLadder, Rungs, setup, orders,
         scaling, Price

LEMMA CheckIInv == ASSUME IInv, Check PROVE IInv'
BY SellsAllIInv, PartialIInv, WaitsIInv, TrailsIInv, StepsIInv DEF Check

LEMMA FillsIInv == ASSUME IInv, ExitFills PROVE IInv'
<1>1. /\ selling' = "none" /\ asked' = 0 /\ readd' = 0 /\ scaled' \in 0..MaxScaleUps
      /\ asked' \in 0..MaxQty /\ readd' \in 0..MaxPrice
  BY LadderAssumption DEF ExitFills, Ask, IInv, TypeOK
<1>2. CASE Untracked
  BY <1>1, <1>2, UntrackedIInv
<1>3. CASE UNCHANGED tracker
  BY <1>1, <1>3, LadderAssumption
     DEF IInv, TypeOK, RiskBounded, OneLadder, Rungs, tracker, setup, levels, flags
<1> QED
  BY <1>2, <1>3 DEF ExitFills

LEMMA UnfilledIInv == ASSUME IInv, ExitUnfilled PROVE IInv'
<1>1. selling' = "none" /\ asked' = 0 /\ UNCHANGED scaling /\ asked' \in 0..MaxQty
  BY LadderAssumption DEF ExitUnfilled, Ask
<1>2. CASE open /\ soldHalf
  <2>1. selling # "none"
    BY DEF ExitUnfilled
  <2>2. remaining' \in 0..MaxQty /\ remaining' > 0
    BY <1>2, LadderAssumption DEF ExitUnfilled, Lower, IInv, TypeOK
  <2>3. step = 0 /\ adds = 0
    BY <1>2, <2>1 DEF IInv, Rungs
  <2>4. /\ soldHalf' = FALSE /\ locked' = FALSE /\ stop' = entry - risk
        /\ UNCHANGED <<open, setup, entry, high, confirmed, step, adds>>
    BY <1>2 DEF ExitUnfilled
  <2>5. entry \in Int /\ risk \in Int /\ risk > 0
    BY LadderAssumption DEF IInv, TypeOK, Price
  <2>6. TypeOK'
    <3>1. FlagTypes'
      BY <1>2, <2>4, TypeParts, Zenon DEF IInv, FlagTypes, setup
    <3>2. NumberTypes'
      BY <1>1, <2>2, <2>4, <2>5 DEF IInv, TypeOK, NumberTypes, setup, scaling
    <3> QED
      BY <2>2, <3>1, <3>2, Zenon DEF TypeOK, FlagTypes, NumberTypes
  <2> QED
    BY <1>1, <1>2, <2>3, <2>4, <2>5, <2>6
       DEF IInv, RiskBounded, OneLadder, Rungs, setup
<1>3. CASE ~(open /\ soldHalf)
  BY <1>1, <1>3, LadderAssumption
     DEF ExitUnfilled, IInv, TypeOK, RiskBounded, OneLadder, Rungs, tracker, setup, levels,
         flags, scaling
<1> QED
  BY <1>2, <1>3

LEMMA TickIInv == ASSUME IInv, NEW p \in Price, TickFollows(p) PROVE IInv'
<1>1. high' \in Price /\ stop' \in Int /\ stop' >= stop
      /\ (~soldHalf => stop' = stop)
  BY LadderAssumption DEF TickFollows, TickStop, Seen, Higher, IInv, TypeOK, Price
<1> QED
  BY <1>1, LadderAssumption
     DEF TickFollows, Checked, IInv, TypeOK, RiskBounded, OneLadder, Rungs, setup, flags,
         orders, scaling, Price

LEMMA TickExitsIInv == ASSUME IInv, TickExits PROVE IInv'
BY UntrackedIInv, LadderAssumption DEF TickExits, IInv, TypeOK, orders

LEMMA ScaleUpIInv == ASSUME IInv, ScaleUp PROVE IInv'
<1>1. ASSUME NEW p \in Price, NEW s \in Price, QueueReadd(p, s) PROVE IInv'
  BY <1>1, LadderAssumption
     DEF QueueReadd, IInv, TypeOK, RiskBounded, OneLadder, Rungs, tracker, setup, levels,
         flags, orders, Price
<1>2. ASSUME NEW p \in Price, NEW e \in Price, NEW q \in Shares, ReaddFills(p, q, e)
      PROVE IInv'
  BY <1>2, LadderAssumption
     DEF ReaddFills, IInv, TypeOK, RiskBounded, OneLadder, Rungs, setup, flags, orders,
         Price, Shares
<1>3. ASSUME ReaddDropped PROVE IInv'
  BY <1>3, LadderAssumption
     DEF ReaddDropped, IInv, TypeOK, RiskBounded, OneLadder, Rungs, tracker, setup, levels,
         flags, orders
<1> QED
  BY <1>1, <1>2, <1>3 DEF ScaleUp

-----------------------------------------------------------------------------
(* The inductive invariant of the ladder: the two promises, and what holds   *)
(* of a position before and after its first partial.                         *)
THEOREM Inductive == Spec => []IInv
<1>1. IInv /\ [Next]_vars => IInv'
  <2>1. ASSUME IInv, UNCHANGED vars PROVE IInv'
    BY <2>1
       DEF IInv, TypeOK, RiskBounded, OneLadder, Rungs, vars, tracker, setup, levels, flags,
           orders, scaling
  <2> QED
    BY <2>1, EnterIInv, SyncIInv, VanishIInv, CheckIInv, FillsIInv, UnfilledIInv, TickIInv,
       TickExitsIInv, ScaleUpIInv DEF Next
<1> QED
  BY <1>1, InitIInv, PTL DEF Spec

(* Every reachable state is well typed: no tracker without shares.           *)
THEOREM TypeCorrect == Spec => []TypeOK
BY Inductive, PTL DEF IInv

(* The planned risk bounds the loss, and a locked or halved position rides   *)
(* for free, until shares are added to it.                                   *)
THEOREM BoundedRisk == Spec => []RiskBounded
BY Inductive, PTL DEF IInv

(* No position is on both ladders.                                           *)
THEOREM SingleLadder == Spec => []OneLadder
BY Inductive, PTL DEF IInv

(* A stop once earned is kept by every rung but a new step, whatever the     *)
(* sizes of the rungs.                                                       *)
THEOREM KeptStop == Spec => StopKept
<1> DEFINE Kept == open /\ open' /\ adds' = adds /\ step' = step /\ (soldHalf => soldHalf')
                   => stop' >= stop
<1>1. ASSUME IInv, Next PROVE Kept
  <2> USE DEF IInv, TypeOK
  <2>0. stop \in Int /\ entry \in Int
    BY LadderAssumption, <1>1 DEF Price
  <2>1. ASSUME UNCHANGED stop PROVE Kept
    BY <2>0, <2>1
  <2>2. ASSUME ~open \/ ~open' PROVE Kept
    BY <2>2
  <2>3. CASE Enter
    BY <2>2, <2>3 DEF Enter, Register, Adopt
  <2>4. CASE \E q \in Shares : SyncQty(q)
    BY <2>1, <2>4 DEF SyncQty, levels
  <2>5. CASE Vanish \/ TickExits
    BY <2>2, <2>5 DEF Vanish, TickExits, Untracked
  <2>6. ASSUME NEW p \in Price, CheckSellsAll(p) \/ CheckPartial(p) PROVE Kept
    BY <1>1, <2>0, <2>2, <2>6
       DEF CheckSellsAll, CheckPartial, PartialDue, Untracked, PostPartialStop, Rungs
  <2>7. ASSUME NEW p \in Price, CheckWaits(p) PROVE Kept
    BY <1>1, <2>0, <2>7 DEF CheckWaits, Rungs
  <2>8. ASSUME NEW p \in Price, CheckTrails(p) \/ TickFollows(p) PROVE Kept
    BY <1>1, <2>0, <2>8, LadderAssumption
       DEF CheckTrails, TickFollows, TickStop, Higher, Seen, Price
  <2>9. ASSUME NEW p \in Price, CheckSteps(p) PROVE Kept
    <3>1. CASE UNCHANGED stop
      BY <2>1, <3>1
    <3>2. CASE ~UNCHANGED stop
      <4>1. p >= entry + (step + 1) * StepGap /\ step' = (p - entry) \div StepGap
        BY <2>0, <2>9, <3>2, <1>1, LadderAssumption DEF CheckSteps, Level, Price
      <4>2. step' > step
        BY <4>1, <2>0, <1>1, ReachedStep DEF Price
      <4> QED
        BY <4>2, <1>1
    <3> QED
      BY <3>1, <3>2
  <2>10. CASE ExitFills
    BY <2>1, <2>2, <2>10 DEF ExitFills, tracker, levels, Untracked
  <2>11. CASE ExitUnfilled
    BY <2>1, <2>11 DEF ExitUnfilled, tracker, levels
  <2>12. CASE ScaleUp
    BY <1>1, <2>1, <2>12 DEF ScaleUp, QueueReadd, ReaddFills, ReaddDropped, tracker, levels
  <2> QED
    BY <1>1, <2>3, <2>4, <2>5, <2>6, <2>7, <2>8, <2>9, <2>10, <2>11, <2>12 DEF Next, Check
<1>2. IInv /\ [Next]_vars => [Kept]_vars
  BY <1>1
<1> QED
  BY <1>2, Inductive, PTL DEF Spec, StopKept

-----------------------------------------------------------------------------
(* The books.                                                               *)

(* A sale the poll has recorded is filled for good and has its key; the one  *)
(* it is about to record is filled and was never recorded by it.             *)
Entered ==
  \A i \in Sales :
    /\ polled[i] <= 1
    /\ polled[i] = 1 => sale[i].status = "filled" /\ Recorded(i)
    /\ booking = i => sale[i].status = "filled" /\ polled[i] = 0

(* Lots are executed up to the size of the sale. *)
Executed ==
  \A i \in Sales : /\ sale[i].filled <= sale[i].size
                   /\ sale[i].status = "filled" => sale[i].filled > 0

(* The main loop looks a fill up and records it only when it was told shares. *)
Told == doing \in {"checking", "recording"} => fill.qty \in Lots

BooksInv == AccountingTypeOK /\ Executed /\ Entered /\ Told

LEMMA InitBooks == AccountingInit => BooksInv
<1> SUFFICES ASSUME AccountingInit PROVE BooksInv
  OBVIOUS
<1>1. 0 \in 0..MaxLot /\ 0 \in 0..MaxSales
  BY AccountingAssumption
<1> QED
  BY <1>1 DEF AccountingInit, BooksInv, AccountingTypeOK, Executed, Entered, Told, Unused, NoFill, Sales

(* What is closed stays as it is; only the sales of the exchange move. *)
LEMMA OpenedBooks ==
  ASSUME BooksInv, NEW i \in Sales, NEW n \in Lots, Opened(i, n), UNCHANGED <<books, poll>>,
         doing' \in {"idle", "waiting", "checking", "recording", "seeding"},
         fill' \in [sale : 0..MaxSales, qty : 0..MaxLot],
         doing' \in {"waiting", "checking", "recording"} => fill'.sale \in Sales,
         Told'
  PROVE  BooksInv'
<1>1. n \in 0..MaxLot /\ 0 \in 0..MaxLot /\ n > 0
  BY AccountingAssumption DEF Lots
<1>2. sale[i].status = "unused"
  BY DEF Opened, FirstUnused, Sales
<1>3. /\ sale'[i] = [status |-> "open", size |-> n, filled |-> 0]
      /\ \A j \in Sales \ {i} : sale'[j] = sale[j]
      /\ sale' \in [Sales -> [status : {"unused", "open", "filled", "canceled"},
                              size : 0..MaxLot, filled : 0..MaxLot]]
  BY <1>1 DEF BooksInv, AccountingTypeOK, Opened
<1>4. AccountingTypeOK'
  BY <1>3 DEF BooksInv, AccountingTypeOK, books, poll
<1>5. Executed'
  BY <1>1, <1>3 DEF BooksInv, Executed
<1>6. Entered'
  BY <1>2, <1>3 DEF BooksInv, Entered, Recorded, Key, books, poll
<1> QED
  BY <1>4, <1>5, <1>6 DEF BooksInv

LEMMA ExecutesBooks ==
  ASSUME BooksInv, NEW i \in Sales, NEW n \in Lots, Executes(i, n)
  PROVE  BooksInv'
<1> DEFINE filled == sale[i].filled + n
<1>1. /\ sale[i] \in [status : {"unused", "open", "filled", "canceled"},
                      size : 0..MaxLot, filled : 0..MaxLot]
      /\ n \in Nat /\ n > 0 /\ n <= sale[i].size - sale[i].filled
  BY AccountingAssumption DEF BooksInv, AccountingTypeOK, Executes, Lots
<1>2. filled \in 0..MaxLot /\ filled <= sale[i].size /\ filled > 0
  BY <1>1, AccountingAssumption
<1>3. /\ sale'[i].filled = filled
      /\ sale'[i].size = sale[i].size
      /\ sale'[i].status \in {"open", "filled"}
      /\ \A j \in Sales \ {i} : sale'[j] = sale[j]
      /\ sale' \in [Sales -> [status : {"unused", "open", "filled", "canceled"},
                              size : 0..MaxLot, filled : 0..MaxLot]]
  BY <1>1, <1>2 DEF BooksInv, AccountingTypeOK, Executes
<1>4. AccountingTypeOK'
  BY <1>3 DEF BooksInv, AccountingTypeOK, Executes, main, books, poll
<1>5. Executed'
  BY <1>2, <1>3 DEF BooksInv, Executed
<1>6. Entered'
  BY <1>3 DEF BooksInv, Entered, Recorded, Key, Executes, books, poll
<1> QED
  BY <1>4, <1>5, <1>6 DEF BooksInv, Told, Executes, main

LEMMA EndsBooks == ASSUME BooksInv, NEW i \in Sales, Ends(i) PROVE BooksInv'
<1>1. /\ sale'[i].filled = sale[i].filled /\ sale'[i].size = sale[i].size
      /\ sale'[i].status = "canceled"
      /\ \A j \in Sales \ {i} : sale'[j] = sale[j]
      /\ sale' \in [Sales -> [status : {"unused", "open", "filled", "canceled"},
                              size : 0..MaxLot, filled : 0..MaxLot]]
  BY DEF BooksInv, AccountingTypeOK, Ends
<1>2. AccountingTypeOK'
  BY <1>1 DEF BooksInv, AccountingTypeOK, Ends, main, books, poll
<1>3. Executed'
  BY <1>1 DEF BooksInv, Executed
<1>4. Entered'
  BY <1>1 DEF BooksInv, Entered, Recorded, Key, Ends, books, poll
<1> QED
  BY <1>2, <1>3, <1>4 DEF BooksInv, Told, Ends, main

LEMMA ExchangeBooks == ASSUME BooksInv, Exchange PROVE BooksInv'
<1>1. ASSUME NEW i \in Sales, NEW n \in Lots, OtherSale(i, n) PROVE BooksInv'
  BY <1>1, OpenedBooks DEF OtherSale, main, BooksInv, AccountingTypeOK, Told
<1> QED
  BY <1>1, ExecutesBooks, EndsBooks DEF Exchange

LEMMA MainLoopBooks == ASSUME BooksInv, MainLoop PROVE BooksInv'
<1> USE DEF BooksInv, AccountingTypeOK, Executed, Entered, Recorded, Told, poll, books
<1>1. ASSUME NEW i \in Sales, NEW n \in Lots, Sell(i, n) PROVE BooksInv'
  <2>1. i \in 0..MaxSales /\ 0 \in 0..MaxLot
    BY AccountingAssumption DEF Sales
  <2> QED
    BY <1>1, <2>1, OpenedBooks DEF Sell
<1>2. ASSUME NEW n \in Lots, Reported(n) PROVE BooksInv'
  <2>1. n \in 0..MaxLot
    BY AccountingAssumption DEF Lots
  <2> QED
    BY <1>2, <2>1 DEF Reported
<1>3. ASSUME Unreported PROVE BooksInv'
  <2>1. 0 \in 0..MaxSales /\ 0 \in 0..MaxLot
    BY AccountingAssumption
  <2> QED
    BY <1>3, <2>1 DEF Unreported, NoFill
<1>4. ASSUME CheckKey PROVE BooksInv'
  BY <1>4 DEF CheckKey
<1>5. ASSUME Record PROVE BooksInv'
  <2>1. Key(fill.sale, fill.qty) \in [sale : Sales, qty : Lots]
    BY <1>5 DEF Record, Key
  <2> QED
    BY <1>5, <2>1 DEF Record
<1>6. ASSUME Seed PROVE BooksInv'
  <2>1. 0 \in 0..MaxSales /\ 0 \in 0..MaxLot
    BY AccountingAssumption
  <2> QED
    BY <1>6, <2>1 DEF Seed, NoFill, Newest, Closed
<1> QED
  BY <1>1, <1>2, <1>3, <1>4, <1>5, <1>6 DEF MainLoop

LEMMA PollBooks == ASSUME BooksInv, Poll PROVE BooksInv'
<1> USE DEF BooksInv, AccountingTypeOK, Executed, Entered, Told, main, books
<1>1. ASSUME PollLists PROVE BooksInv'
  BY <1>1 DEF PollLists, Newest, Closed, Sales, Recorded
<1>2. ASSUME NEW i \in Sales, PollSkips(i) PROVE BooksInv'
  BY <1>2 DEF PollSkips, NextOf, Recorded, Sales
<1>3. ASSUME NEW i \in Sales, PollTakes(i) PROVE BooksInv'
  <2>1. i \in todo /\ polled[i] = 0 /\ sale[i].status = "filled"
    BY <1>3 DEF PollTakes, NextOf
  <2> QED
    BY <1>3, <2>1 DEF PollTakes, Recorded
<1>4. ASSUME NEW done \in BOOLEAN, PollRecords(done) PROVE BooksInv'
  <2>1. booking \in Sales /\ polled[booking] = 0 /\ sale[booking].status = "filled"
    BY <1>4 DEF PollRecords
  <2>2. sale[booking].filled \in Lots
    BY <2>1, AccountingAssumption DEF Lots
  <2>3. Key(booking, sale[booking].filled) \in [sale : Sales, qty : Lots]
    BY <2>1, <2>2 DEF Key
  <2>4. polled' = [polled EXCEPT ![booking] = 1] /\ booking' = 0
    BY <1>4, <2>1 DEF PollRecords
  <2>5. AccountingTypeOK'
    <3>1. polled' \in [Sales -> Nat]
      BY <2>1, <2>4
    <3>2. keys' \subseteq [sale : Sales, qty : Lots]
      BY <1>4, <2>3 DEF PollRecords
    <3>3. synced' \subseteq Sales /\ todo' \subseteq Sales
      BY <1>4, <2>1 DEF PollRecords
    <3> QED
      BY <1>4, <2>4, <3>1, <3>2, <3>3 DEF PollRecords
  <2>6. Entered'
    BY <1>4, <2>1, <2>4 DEF PollRecords, Recorded, Sales
  <2> QED
    BY <1>4, <2>5, <2>6 DEF PollRecords
<1> QED
  BY <1>1, <1>2, <1>3, <1>4 DEF Poll

THEOREM BooksInductive == Safety => []BooksInv
<1>1. BooksInv /\ [AccountingNext]_accountingVars => BooksInv'
  <2> SUFFICES ASSUME BooksInv, [AccountingNext]_accountingVars PROVE BooksInv'
    OBVIOUS
  <2>1. CASE UNCHANGED accountingVars
    BY <2>1 DEF BooksInv, AccountingTypeOK, Executed, Entered, Told, Recorded, accountingVars, main, books, poll
  <2> QED
    BY <2>1, ExchangeBooks, MainLoopBooks, PollBooks DEF AccountingNext
<1> QED
  BY <1>1, InitBooks, PTL DEF Safety

(* Every reachable state is well typed.                                      *)
THEOREM AccountingTyped == Safety => []AccountingTypeOK
BY BooksInductive, PTL DEF BooksInv

(* The poll of closed orders records no sale twice, whatever interrupts it   *)
(* (_check_new_fills).                                                       *)
THEOREM PolledOnce == Safety => []PollsOnce
<1>1. BooksInv => PollsOnce
  BY DEF BooksInv, Entered, PollsOnce
<1> QED
  BY <1>1, BooksInductive, PTL

=============================================================================
