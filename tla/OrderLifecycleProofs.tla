------------------------ MODULE OrderLifecycleProofs ------------------------
(***************************************************************************)
(* OrderLifecycle implements OrderContract: machine-checked for any set of *)
(* callers, any number of orders and any order size.                       *)
(***************************************************************************)
EXTENDS OrderLifecycle, TLAPS

(* What is known of an order from its status and from its answer. *)
OrderFacts ==
  \A i \in Ids :
    /\ order[i].filled <= order[i].qty
    /\ order[i].status = "unused" => /\ order[i].filled = 0
                                     /\ answer[i] = "none"
    /\ answer[i] = "none" => told[i] = 0
    /\ answer[i] = "sure" => order[i].status \in Over /\ told[i] = order[i].filled
    /\ told[i] <= order[i].filled

(* A caller that is about to place an order knows how many shares. *)
Wanted ==
  \A c \in Callers : pc[c] \in {"sweep", "settle", "place"} => want[c].qty > 0

(* A late fill is remembered only while the caller waits for it. *)
NoLate == \A c \in Callers : pc[c] # "grace" => late[c] = 0

IInv == TypeOK /\ OneWatcher /\ OrderFacts /\ Wanted /\ NoLate

LEMMA InitIInv == Init => IInv
<1> SUFFICES ASSUME Init PROVE IInv
  OBVIOUS
<1>1. 0 \in 0..MaxQty /\ 0 \in 0..MaxOrders
  BY LifecycleAssumption
<1>2. TypeOK
  BY <1>1 DEF Init, TypeOK, OrderRecord, Sides, Nothing
<1> QED
  BY <1>2 DEF IInv, Init, OneWatcher, OrderFacts, Wanted, NoLate

-----------------------------------------------------------------------------
(* What the steps do to the order of the exchange, one order at a time.     *)

(* Executing n shares of order i changes its filled quantity and perhaps    *)
(* its status, which stays a live one or becomes "filled".                  *)
LEMMA ExecutesEffect ==
  ASSUME IInv, NEW i \in Ids, NEW n \in 1..MaxQty, Executes(i, n)
  PROVE  /\ order' \in [Ids -> OrderRecord]
         /\ order'[i].filled = order[i].filled + n
         /\ order'[i].filled <= order[i].qty
         /\ order'[i].status \in {"open", "cancelling", "filled"}
         /\ order'[i].qty = order[i].qty /\ order'[i].kind = order[i].kind
         /\ \A j \in Ids \ {i} : order'[j] = order[j]
<1>1. order[i] \in OrderRecord /\ order[i].filled + n <= order[i].qty
  BY LifecycleAssumption DEF IInv, TypeOK, Executes, OrderRecord
<1>2. order[i].filled + n \in 0..MaxQty
  BY <1>1, LifecycleAssumption DEF OrderRecord
<1>3. PICK s \in {order[i].status, "filled"} :
        order' = [order EXCEPT ![i] = [kind |-> order[i].kind, side |-> order[i].side,
                                       qty |-> order[i].qty,
                                       filled |-> order[i].filled + n, status |-> s]]
  BY <1>1 DEF Executes, OrderRecord
<1>4. s \in {"open", "cancelling", "filled"}
  BY <1>3 DEF Executes, Live
<1>5. [kind |-> order[i].kind, side |-> order[i].side, qty |-> order[i].qty,
       filled |-> order[i].filled + n, status |-> s] \in OrderRecord
  BY <1>1, <1>2, <1>4 DEF OrderRecord, Over
<1> QED
  BY <1>1, <1>3, <1>4, <1>5 DEF IInv, TypeOK

(* A step is quiet for the orders when it changes at most the status of     *)
(* some, neither starting one nor reviving one that is over.                *)
Quiet ==
  /\ order' \in [Ids -> OrderRecord]
  /\ \A i \in Ids : /\ order'[i].filled = order[i].filled
                    /\ order'[i].qty = order[i].qty
                    /\ order'[i].kind = order[i].kind
                    /\ order'[i].status = "unused" <=> order[i].status = "unused"
                    /\ order[i].status \in Over => order'[i].status \in Over

LEMMA UnchangedQuiet == ASSUME TypeOK, order' = order PROVE Quiet
BY DEF TypeOK, Quiet

LEMMA EndsQuiet == ASSUME TypeOK, NEW i \in Ids, Ends(i) PROVE Quiet
<1>1. order[i] \in OrderRecord /\ order[i].status \in {"open", "cancelling"}
  BY DEF TypeOK, Ends, Live
<1>2. order' = [order EXCEPT ![i] = [order[i] EXCEPT !.status = "canceled"]]
  BY DEF Ends
<1>3. [order[i] EXCEPT !.status = "canceled"] \in OrderRecord
  BY <1>1 DEF OrderRecord, Over
<1>4. \A j \in Ids : j # i => order'[j] = order[j]
  BY <1>2 DEF TypeOK
<1>5. order'[i] = [order[i] EXCEPT !.status = "canceled"]
  BY <1>2 DEF TypeOK
<1> QED
  BY <1>1, <1>2, <1>3, <1>4, <1>5 DEF TypeOK, Quiet, Over, OrderRecord

LEMMA CancelQuiet ==
  ASSUME TypeOK, NEW S, order' = CancelRequested(S)
  PROVE  Quiet
<1>1. ASSUME NEW i \in Ids
      PROVE  /\ order'[i] \in OrderRecord
             /\ order'[i].filled = order[i].filled
             /\ order'[i].qty = order[i].qty
             /\ order'[i].kind = order[i].kind
             /\ order'[i].status = "unused" <=> order[i].status = "unused"
             /\ order[i].status \in Over => order'[i].status \in Over
  <2>1. order[i] \in OrderRecord
    BY DEF TypeOK
  <2>2. CASE i \in S \cap Live
    <3>1. order'[i] = [order[i] EXCEPT !.status = "cancelling"]
      BY <2>2 DEF CancelRequested
    <3>2. order[i].status \in {"open", "cancelling"}
      BY <2>2 DEF Live
    <3> QED
      BY <2>1, <3>1, <3>2 DEF OrderRecord, Over
  <2>3. CASE i \notin S \cap Live
    BY <2>1, <2>3 DEF CancelRequested
  <2> QED
    BY <2>2, <2>3
<1>2. order' \in [Ids -> OrderRecord]
  BY <1>1 DEF CancelRequested
<1> QED
  BY <1>1, <1>2 DEF Quiet

(* What accepting order i of n shares does. *)
LEMMA AcceptedEffect ==
  ASSUME TypeOK, NEW i \in Ids, NEW k \in {"limit", "stop"}, NEW d \in Sides,
         NEW n \in 1..MaxQty, Fresh(i), order' = Accepted(i, k, d, n)
  PROVE  /\ order' \in [Ids -> OrderRecord]
         /\ order[i].status = "unused"
         /\ order'[i].status = "open" /\ order'[i].kind = k
         /\ order'[i].qty = n /\ order'[i].filled = 0
         /\ \A j \in Ids \ {i} : order'[j] = order[j]
<1>1. n \in 0..MaxQty /\ 0 \in 0..MaxQty
  BY LifecycleAssumption
<1>2. [kind |-> k, side |-> d, qty |-> n, filled |-> 0, status |-> "open"] \in OrderRecord
  BY <1>1 DEF OrderRecord
<1>3. order[i].status = "unused"
  BY DEF Fresh, Ids
<1> QED
  BY <1>2, <1>3 DEF TypeOK, Accepted

-----------------------------------------------------------------------------
(* The invariant is preserved.                                              *)

(* Answers are untouched and the orders stay quiet. *)
LEMMA FactsQuiet ==
  ASSUME IInv, Quiet, UNCHANGED answers
  PROVE  OrderFacts'
BY DEF IInv, OrderFacts, Quiet, answers

LEMMA WatchersQuiet ==
  ASSUME IInv, Quiet, UNCHANGED <<cur, late, answers>>,
         \A c \in Callers : pc'[c] \in {"poll", "grace"} <=> pc[c] \in {"poll", "grace"}
  PROVE  OneWatcher'
<1> SUFFICES ASSUME NEW c \in Callers
             PROVE  /\ pc'[c] \in {"poll", "grace"} <=> cur[c] # 0
                    /\ cur[c] # 0 => /\ order'[cur[c]].kind = "limit"
                                     /\ order'[cur[c]].status # "unused"
                                     /\ answer[cur[c]] = "none"
                                     /\ late[c] <= order'[cur[c]].filled
                    /\ \A d \in Callers \ {c} : cur[c] # 0 => cur[c] # cur[d]
  BY DEF OneWatcher, answers
<1>1. cur[c] # 0 => cur[c] \in Ids
  BY LifecycleAssumption DEF IInv, TypeOK, Ids
<1> QED
  BY <1>1 DEF IInv, OneWatcher, Quiet

LEMMA ExchangeStep ==
  ASSUME IInv, Exchange
  PROVE  IInv'
<1>1. ASSUME NEW i \in Ids, NEW n \in 1..MaxQty, Executes(i, n) PROVE IInv'
  <2>1. /\ order' \in [Ids -> OrderRecord]
        /\ order'[i].filled = order[i].filled + n
        /\ order'[i].filled <= order[i].qty
        /\ order'[i].status \in {"open", "cancelling", "filled"}
        /\ order'[i].qty = order[i].qty /\ order'[i].kind = order[i].kind
        /\ \A j \in Ids \ {i} : order'[j] = order[j]
    BY <1>1, ExecutesEffect
  <2>2. UNCHANGED <<asking, answers>> /\ order[i].status \in {"open", "cancelling"}
    BY <1>1 DEF Executes, Live
  <2>3. TypeOK'
    BY <2>1, <2>2 DEF IInv, TypeOK, asking, answers
  <2>4. order[i].filled \in Int /\ n > 0 /\ n \in Int
    BY LifecycleAssumption DEF IInv, TypeOK, OrderRecord
  <2>5. OrderFacts'
    <3> SUFFICES ASSUME NEW j \in Ids
                 PROVE  /\ order'[j].filled <= order'[j].qty
                        /\ order'[j].status = "unused" => /\ order'[j].filled = 0
                                                          /\ answer[j] = "none"
                        /\ answer[j] = "none" => told[j] = 0
                        /\ answer[j] = "sure" => /\ order'[j].status \in Over
                                                 /\ told[j] = order'[j].filled
                        /\ told[j] <= order'[j].filled
      BY <2>2 DEF OrderFacts, answers
    <3>1. CASE j = i
      <4>1. answer[i] # "sure" /\ told[i] <= order[i].filled
        BY <2>2 DEF IInv, OrderFacts, Over
      <4>2. told[i] <= order[i].filled + n
        BY <2>4, <4>1, LifecycleAssumption DEF IInv, TypeOK
      <4> QED
        BY <2>1, <2>2, <3>1, <4>1, <4>2 DEF IInv, OrderFacts
    <3>2. CASE j # i
      BY <2>1, <3>2 DEF IInv, OrderFacts
    <3> QED
      BY <3>1, <3>2
  <2>6. OneWatcher'
    <3> SUFFICES ASSUME NEW c \in Callers
                 PROVE  /\ pc[c] \in {"poll", "grace"} <=> cur[c] # 0
                        /\ cur[c] # 0 => /\ order'[cur[c]].kind = "limit"
                                         /\ order'[cur[c]].status # "unused"
                                         /\ answer[cur[c]] = "none"
                                         /\ late[c] <= order'[cur[c]].filled
                        /\ \A d \in Callers \ {c} : cur[c] # 0 => cur[c] # cur[d]
      BY <2>2 DEF OneWatcher, asking, answers
    <3>1. cur[c] # 0 => cur[c] \in Ids
      BY LifecycleAssumption DEF IInv, TypeOK, Ids
    <3>2. late[c] \in Int
      BY LifecycleAssumption DEF IInv, TypeOK
    <3>3. CASE cur[c] = i
      <4>1. late[c] <= order[i].filled + n
        BY <2>4, <3>1, <3>2, <3>3 DEF IInv, OneWatcher, Ids
      <4> QED
        BY <2>1, <3>1, <3>3, <4>1 DEF IInv, OneWatcher
    <3>4. CASE cur[c] # i
      BY <2>1, <3>1, <3>4 DEF IInv, OneWatcher
    <3> QED
      BY <3>3, <3>4
  <2> QED
    BY <2>2, <2>3, <2>5, <2>6 DEF IInv, Wanted, NoLate, asking
<1>2. ASSUME NEW i \in Ids, NEW n \in 1..MaxQty, PlaceProtectiveStop(i, n) PROVE IInv'
  <2>1. /\ order' \in [Ids -> OrderRecord]
        /\ order[i].status = "unused"
        /\ order'[i].status = "open" /\ order'[i].qty = n /\ order'[i].filled = 0
        /\ \A j \in Ids \ {i} : order'[j] = order[j]
    BY <1>2, AcceptedEffect DEF PlaceProtectiveStop, IInv, Sides
  <2>2. UNCHANGED <<asking, answers>>
    BY <1>2 DEF PlaceProtectiveStop
  <2>3. TypeOK'
    BY <2>1, <2>2 DEF IInv, TypeOK, asking, answers
  <2>4. OrderFacts'
    BY <2>1, <2>2, LifecycleAssumption DEF IInv, TypeOK, OrderRecord, OrderFacts, answers
  <2>5. \A c \in Callers : cur[c] # i
    BY <2>1, LifecycleAssumption DEF IInv, OneWatcher, Ids
  <2>6. OneWatcher'
    <3>1. \A c \in Callers : cur[c] # 0 => cur[c] \in Ids \ {i}
      BY <2>5, LifecycleAssumption DEF IInv, TypeOK, Ids
    <3> QED
      BY <2>1, <2>2, <3>1 DEF IInv, OneWatcher, asking, answers
  <2> QED
    BY <2>2, <2>3, <2>4, <2>6 DEF IInv, Wanted, NoLate, asking
<1>3. ASSUME NEW i \in Ids, Ends(i) \/ CancelStop(i) PROVE IInv'
  <2>1. Quiet
    BY <1>3, EndsQuiet, CancelQuiet DEF IInv, CancelStop
  <2>2. UNCHANGED <<asking, answers>>
    BY <1>3 DEF Ends, CancelStop
  <2>3. TypeOK'
    BY <2>1, <2>2 DEF IInv, TypeOK, Quiet, asking, answers
  <2> QED
    BY <2>1, <2>2, <2>3, FactsQuiet, WatchersQuiet DEF IInv, Wanted, NoLate, asking
<1> QED
  BY <1>1, <1>2, <1>3 DEF Exchange

(* Who watches an order: an order of the exchange that is not answered. *)
LEMMA Watched ==
  ASSUME IInv, NEW c \in Callers, pc[c] \in {"poll", "grace"}
  PROVE  /\ cur[c] \in Ids
         /\ order[cur[c]] \in OrderRecord
         /\ order[cur[c]].status # "unused"
         /\ answer[cur[c]] = "none"
         /\ late[c] \in 0..order[cur[c]].filled
         /\ order[cur[c]].filled \in 0..MaxQty
<1>1. cur[c] \in Ids
  BY LifecycleAssumption DEF IInv, TypeOK, OneWatcher, Ids
<1>2. order[cur[c]] \in OrderRecord /\ late[c] \in 0..MaxQty
  BY <1>1 DEF IInv, TypeOK
<1> QED
  BY <1>1, <1>2, LifecycleAssumption DEF IInv, OneWatcher, OrderRecord, Ids

(* Returning an answer that is exact if it claims to be. *)
LEMMA ReturnStep ==
  ASSUME IInv, NEW c \in Callers, pc[c] \in {"poll", "grace"},
         NEW n \in 0..order[cur[c]].filled, NEW certainty \in {"sure", "unsure"},
         certainty = "sure" => order[cur[c]].status \in Over /\ n = order[cur[c]].filled,
         Return(c, n, certainty)
  PROVE  IInv'
<1>1. /\ cur[c] \in Ids
      /\ order[cur[c]].status # "unused"
      /\ order[cur[c]].filled \in 0..MaxQty
  BY Watched
<1>2. n \in 0..MaxQty /\ n \in Int
  BY <1>1, LifecycleAssumption
<1>3. 0 \in 0..MaxOrders /\ 0 \in 0..MaxQty
  BY LifecycleAssumption
<1>4. TypeOK'
  <2>1. told' \in [Ids -> 0..MaxQty] /\ answer' \in [Ids -> {"none", "sure", "unsure"}]
    BY <1>1, <1>2 DEF IInv, TypeOK, Return
  <2>2. /\ cur' \in [Callers -> 0..MaxOrders]
        /\ late' \in [Callers -> 0..MaxQty]
    BY <1>3 DEF IInv, TypeOK, Return
  <2>3. pc' \in [Callers -> {"idle", "sweep", "settle", "place", "poll", "grace"}]
    BY DEF IInv, TypeOK, Return
  <2> QED
    BY <2>1, <2>2, <2>3 DEF IInv, TypeOK, Return
<1>5. OrderFacts'
  <2> SUFFICES ASSUME NEW j \in Ids
               PROVE  /\ order[j].filled <= order[j].qty
                      /\ order[j].status = "unused" => /\ order[j].filled = 0
                                                       /\ answer'[j] = "none"
                      /\ answer'[j] = "none" => told'[j] = 0
                      /\ answer'[j] = "sure" => /\ order[j].status \in Over
                                                /\ told'[j] = order[j].filled
                      /\ told'[j] <= order[j].filled
    BY DEF OrderFacts, Return
  <2>1. CASE j = cur[c]
    <3>1. told'[j] = n /\ answer'[j] = certainty
      BY <1>1, <2>1 DEF IInv, TypeOK, Return
    <3> QED
      BY <1>1, <1>2, <2>1, <3>1 DEF IInv, OrderFacts
  <2>2. CASE j # cur[c]
    <3>1. told'[j] = told[j] /\ answer'[j] = answer[j]
      BY <2>2 DEF IInv, TypeOK, Return
    <3> QED
      BY <3>1 DEF IInv, OrderFacts
  <2> QED
    BY <2>1, <2>2
<1>6. OneWatcher'
  <2> SUFFICES ASSUME NEW d \in Callers
               PROVE  /\ pc'[d] \in {"poll", "grace"} <=> cur'[d] # 0
                      /\ cur'[d] # 0 => /\ order[cur'[d]].kind = "limit"
                                        /\ order[cur'[d]].status # "unused"
                                        /\ answer'[cur'[d]] = "none"
                                        /\ late'[d] <= order[cur'[d]].filled
                      /\ \A e \in Callers \ {d} : cur'[d] # 0 => cur'[d] # cur'[e]
    BY DEF OneWatcher, Return
  <2>1. cur' = [cur EXCEPT ![c] = 0] /\ cur'[c] = 0 /\ pc'[c] = "idle"
    BY DEF IInv, TypeOK, Return
  <2>2. CASE d = c
    BY <2>1, <2>2
  <2>3. CASE d # c
    <3>1. cur'[d] = cur[d] /\ late'[d] = late[d] /\ pc'[d] = pc[d]
      BY <2>3 DEF IInv, TypeOK, Return
    <3>2. cur[d] # 0 => cur[d] # cur[c]
      BY <2>3 DEF IInv, OneWatcher
    <3>3. cur[d] # 0 => answer'[cur[d]] = answer[cur[d]]
      BY <3>2 DEF IInv, TypeOK, Return
    <3>4. \A e \in Callers \ {d} : cur[d] # 0 => cur[d] # cur'[e]
      BY <2>1 DEF IInv, TypeOK, OneWatcher
    <3> QED
      BY <3>1, <3>3, <3>4 DEF IInv, OneWatcher
  <2> QED
    BY <2>2, <2>3
<1>7. Wanted' /\ NoLate'
  BY DEF IInv, TypeOK, Wanted, NoLate, Return
<1> QED
  BY <1>4, <1>5, <1>6, <1>7 DEF IInv

(* The steps of submit before an order exists. *)
LEMMA BeforeOrderStep ==
  ASSUME IInv, NEW c \in Callers,
         \/ \E d \in Sides, n \in 1..MaxQty : Submit(c, d, n)
         \/ \E S \in SUBSET Ids : Sweep(c, S)
         \/ Settle(c)
         \/ PlaceRefused(c)
  PROVE  IInv'
<1> USE DEF IInv
<1>1. Quiet
  BY UnchangedQuiet, CancelQuiet DEF Submit, Sweep, Settle, PlaceRefused
<1>2. UNCHANGED <<cur, late, answers>>
  BY DEF Submit, Sweep, Settle, PlaceRefused
<1>3. /\ pc[c] \in {"idle", "sweep", "settle", "place"}
      /\ \E p \in {"idle", "sweep", "settle", "place"} : pc' = [pc EXCEPT ![c] = p]
  BY DEF Submit, Sweep, Settle, PlaceRefused
<1>4. want' \in [Callers -> [side : Sides, qty : 0..MaxQty]] /\ Wanted'
  <2>1. ASSUME NEW d \in Sides, NEW n \in 1..MaxQty, Submit(c, d, n)
        PROVE  want' \in [Callers -> [side : Sides, qty : 0..MaxQty]] /\ Wanted'
    <3>1. n \in 0..MaxQty /\ n > 0
      BY LifecycleAssumption
    <3> QED
      BY <2>1, <3>1 DEF TypeOK, Wanted, Submit
  <2>2. CASE (\E S \in SUBSET Ids : Sweep(c, S)) \/ Settle(c)
    BY <2>2 DEF TypeOK, Wanted, Sweep, Settle
  <2>3. CASE PlaceRefused(c)
    BY <2>3, LifecycleAssumption DEF TypeOK, Wanted, PlaceRefused, Nothing, Sides
  <2> QED
    BY <2>1, <2>2, <2>3
<1>5. TypeOK'
  BY <1>1, <1>2, <1>3, <1>4 DEF TypeOK, Quiet, answers
<1>6. \A d \in Callers : pc'[d] \in {"poll", "grace"} <=> pc[d] \in {"poll", "grace"}
  BY <1>3 DEF TypeOK
<1> QED
  BY <1>1, <1>2, <1>3, <1>4, <1>5, <1>6, FactsQuiet, WatchersQuiet DEF TypeOK, NoLate, answers

(* An order is accepted, whether or not its caller learns of it. *)
LEMMA PlaceStep ==
  ASSUME IInv, NEW c \in Callers, NEW i \in Ids,
         PlaceAccepted(c, i) \/ PlaceReplyLost(c, i)
  PROVE  IInv'
<1> USE DEF IInv
<1>1. want[c].qty \in 1..MaxQty /\ want[c].side \in Sides /\ pc[c] = "place"
  BY LifecycleAssumption DEF TypeOK, Wanted, PlaceAccepted, PlaceReplyLost
<1>2. Fresh(i) /\ order' = Accepted(i, "limit", want[c].side, want[c].qty)
  BY DEF PlaceAccepted, PlaceReplyLost
<1>3. /\ order' \in [Ids -> OrderRecord]
      /\ order[i].status = "unused"
      /\ order'[i].status = "open" /\ order'[i].kind = "limit"
      /\ order'[i].qty = want[c].qty /\ order'[i].filled = 0
      /\ \A j \in Ids \ {i} : order'[j] = order[j]
  BY <1>1, <1>2, AcceptedEffect
<1>4. \A d \in Callers : cur[d] # i /\ (cur[d] # 0 => cur[d] \in Ids \ {i})
  BY <1>3, LifecycleAssumption DEF TypeOK, OneWatcher, Ids
<1>5. /\ answer[i] = "none" /\ told[i] = 0
      /\ i # 0 /\ i \in 0..MaxOrders
  BY <1>3, LifecycleAssumption DEF OrderFacts, Ids
<1>6. cur[c] = 0
  BY <1>1 DEF OneWatcher
<1>7. want' \in [Callers -> [side : Sides, qty : 0..MaxQty]] /\ told' = told /\ late' = late
  BY LifecycleAssumption
     DEF TypeOK, PlaceAccepted, PlaceReplyLost, Nothing, Sides, answers
<1>8. CASE PlaceAccepted(c, i)
  <2>1. /\ cur' = [cur EXCEPT ![c] = i]
        /\ pc' = [pc EXCEPT ![c] = "poll"]
        /\ want' = [want EXCEPT ![c] = Nothing]
        /\ answer' = answer
    BY <1>8 DEF PlaceAccepted, answers
  <2>2. TypeOK'
    BY <1>3, <1>5, <1>7, <2>1 DEF TypeOK
  <2>3. OrderFacts'
    BY <1>3, <1>5, <1>7, <2>1, LifecycleAssumption DEF TypeOK, OrderRecord, OrderFacts
  <2>4. OneWatcher'
    <3> SUFFICES ASSUME NEW d \in Callers
                 PROVE  /\ pc'[d] \in {"poll", "grace"} <=> cur'[d] # 0
                        /\ cur'[d] # 0 => /\ order'[cur'[d]].kind = "limit"
                                          /\ order'[cur'[d]].status # "unused"
                                          /\ answer[cur'[d]] = "none"
                                          /\ late[d] <= order'[cur'[d]].filled
                        /\ \A e \in Callers \ {d} : cur'[d] # 0 => cur'[d] # cur'[e]
      BY <1>7, <2>1 DEF OneWatcher
    <3>1. CASE d = c
      <4>1. late[c] = 0
        BY <1>1 DEF NoLate
      <4> QED
        BY <1>3, <1>4, <1>5, <2>1, <3>1, <4>1 DEF TypeOK
    <3>2. CASE d # c
      BY <1>3, <1>4, <1>5, <2>1, <3>2 DEF TypeOK, OneWatcher
    <3> QED
      BY <3>1, <3>2
  <2>5. Wanted' /\ NoLate'
    BY <1>1, <1>7, <2>1 DEF TypeOK, Wanted, NoLate
  <2> QED
    BY <1>7, <2>1, <2>2, <2>3, <2>4, <2>5
<1>9. CASE PlaceReplyLost(c, i)
  <2>1. /\ cur' = cur
        /\ pc' = [pc EXCEPT ![c] = "idle"]
        /\ want' = [want EXCEPT ![c] = Nothing]
        /\ answer' = [answer EXCEPT ![i] = "unsure"]
    BY <1>9 DEF PlaceReplyLost
  <2>2. TypeOK'
    BY <1>3, <1>5, <1>7, <2>1 DEF TypeOK
  <2>3. OrderFacts'
    BY <1>3, <1>5, <1>7, <2>1, LifecycleAssumption DEF TypeOK, OrderRecord, OrderFacts
  <2>4. OneWatcher'
    BY <1>1, <1>3, <1>4, <1>7, <2>1 DEF TypeOK, OneWatcher
  <2>5. Wanted' /\ NoLate'
    BY <1>1, <1>7, <2>1 DEF TypeOK, Wanted, NoLate
  <2> QED
    BY <1>7, <2>1, <2>2, <2>3, <2>4, <2>5
<1> QED
  BY <1>8, <1>9

(* The deadline of the polls, and the polls of the grace. *)
LEMMA WaitingStep ==
  ASSUME IInv, NEW c \in Callers,
         (\E S \in SUBSET Ids : PollTimesOut(c, S)) \/ GraceWaits(c)
  PROVE  IInv'
<1> USE DEF IInv
<1>1. Quiet
  BY UnchangedQuiet, CancelQuiet DEF PollTimesOut, GraceWaits
<1>2. CASE \E S \in SUBSET Ids : PollTimesOut(c, S)
  <2>1. /\ pc[c] = "poll" /\ pc' = [pc EXCEPT ![c] = "grace"]
        /\ UNCHANGED <<want, cur, late, answers>>
    BY <1>2 DEF PollTimesOut
  <2>2. TypeOK'
    BY <1>1, <2>1 DEF TypeOK, Quiet, answers
  <2>3. \A d \in Callers : pc'[d] \in {"poll", "grace"} <=> pc[d] \in {"poll", "grace"}
    BY <2>1 DEF TypeOK
  <2>4. Wanted' /\ NoLate'
    BY <2>1 DEF TypeOK, Wanted, NoLate
  <2> QED
    BY <1>1, <2>1, <2>2, <2>3, <2>4, FactsQuiet, WatchersQuiet
<1>3. CASE GraceWaits(c)
  <2>1. /\ pc[c] = "grace"
        /\ late' = [late EXCEPT ![c] = order[cur[c]].filled]
        /\ UNCHANGED <<order, pc, want, cur, answers>>
    BY <1>3 DEF GraceWaits, FilledOf
  <2>2. order[cur[c]].filled \in 0..MaxQty
    BY <2>1, Watched
  <2>3. TypeOK'
    BY <2>1, <2>2 DEF TypeOK, answers
  <2>4. OneWatcher'
    <3> SUFFICES ASSUME NEW d \in Callers, cur[d] # 0
                 PROVE  late'[d] <= order[cur[d]].filled
      BY <2>1 DEF OneWatcher, answers
    <3>1. CASE d = c
      BY <2>1, <2>2, <3>1, LifecycleAssumption DEF TypeOK
    <3>2. CASE d # c
      BY <2>1, <3>2 DEF TypeOK, OneWatcher
    <3> QED
      BY <3>1, <3>2
  <2>5. Wanted' /\ NoLate'
    BY <2>1 DEF TypeOK, Wanted, NoLate
  <2> QED
    BY <1>1, <2>1, <2>3, <2>4, <2>5, FactsQuiet
<1> QED
  BY <1>2, <1>3

(* Every way submit returns answers within what was executed, and calls    *)
(* itself sure only of an order that is over.                              *)
LEMMA ReturnsHonestly ==
  ASSUME IInv, NEW c \in Callers,
         PollSeesEnd(c) \/ PollFails(c) \/ GraceSeesEnd(c) \/ GraceEnds(c)
  PROVE  /\ pc[c] \in {"poll", "grace"}
         /\ \E n \in 0..order[cur[c]].filled, certainty \in {"sure", "unsure"} :
              /\ Return(c, n, certainty)
              /\ certainty = "sure" => /\ order[cur[c]].status \in Over
                                       /\ n = order[cur[c]].filled
<1>1. pc[c] \in {"poll", "grace"}
  BY DEF PollSeesEnd, PollFails, GraceSeesEnd, GraceEnds
<1>2. /\ 0 \in 0..order[cur[c]].filled
      /\ late[c] \in 0..order[cur[c]].filled
      /\ order[cur[c]].filled \in 0..order[cur[c]].filled
  BY <1>1, Watched, LifecycleAssumption
<1> QED
  BY <1>1, <1>2 DEF PollSeesEnd, PollFails, GraceSeesEnd, GraceEnds, FilledOf

LEMMA CallStep ==
  ASSUME IInv, NEW c \in Callers, Call(c)
  PROVE  IInv'
<1>1. CASE PollSeesEnd(c) \/ PollFails(c) \/ GraceSeesEnd(c) \/ GraceEnds(c)
  BY <1>1, ReturnsHonestly, ReturnStep
<1> QED
  BY <1>1, BeforeOrderStep, PlaceStep, WaitingStep DEF Call

(* The inductive invariant: each order's fate is known exactly where the    *)
(* answers say so, and is watched by at most one caller.                    *)
THEOREM Inductive == Safety => []IInv
<1>1. IInv /\ Next => IInv'
  BY ExchangeStep, CallStep DEF Next
<1>2. IInv /\ UNCHANGED vars => IInv'
  BY DEF IInv, TypeOK, OneWatcher, OrderFacts, Wanted, NoLate, vars, asking, answers
<1> QED
  BY <1>1, <1>2, InitIInv, PTL DEF Safety

THEOREM TypeCorrect == Safety => []TypeOK
<1>1. IInv => TypeOK
  BY DEF IInv
<1> QED
  BY <1>1, Inductive, PTL

(* Each order's fate is reported to exactly one caller. *)
THEOREM SingleWatcher == Safety => []OneWatcher
<1>1. IInv => OneWatcher
  BY DEF IInv
<1> QED
  BY <1>1, Inductive, PTL

-----------------------------------------------------------------------------
(* Refinement: every step is a step of OrderContract or leaves it alone.    *)

LEMMA QuietMaps ==
  ASSUME IInv, Quiet, UNCHANGED answers
  PROVE  UNCHANGED Contract!vars
<1>1. Size' = Size /\ Executed' = Executed
  BY DEF Quiet, Size, Executed
<1>2. Stage' = Stage
  BY DEF Quiet, Stage, answers
<1> QED
  BY <1>1, <1>2 DEF Contract!vars, answers

LEMMA AcceptedMaps ==
  ASSUME IInv, NEW i \in Ids, NEW k \in {"limit", "stop"}, NEW d \in Sides,
         NEW n \in 1..MaxQty, Fresh(i), order' = Accepted(i, k, d, n),
         NEW s \in {"none", "unsure"}, answer' = [answer EXCEPT ![i] = s], told' = told
  PROVE  Contract!Next
<1> DEFINE g == IF s = "none" THEN "working" ELSE "unsure"
<1>1. /\ order[i].status = "unused"
      /\ order'[i].status = "open" /\ order'[i].qty = n /\ order'[i].filled = 0
      /\ \A j \in Ids \ {i} : order'[j] = order[j]
  BY AcceptedEffect DEF IInv
<1>2. order[i].filled = 0 /\ Stage[i] = "new"
  BY <1>1 DEF IInv, OrderFacts, Stage
<1>3. Size' = [Size EXCEPT ![i] = n]
  BY <1>1 DEF Size
<1>4. Executed' = Executed
  BY <1>1, <1>2 DEF Executed
<1>5. Stage' = [Stage EXCEPT ![i] = g]
  BY <1>1 DEF IInv, TypeOK, Stage
<1>6. Contract!Open(i, n, g)
  BY <1>2, <1>3, <1>4, <1>5 DEF Contract!Open
<1> QED
  BY <1>6 DEF Contract!Next

LEMMA ExecutesMaps ==
  ASSUME IInv, NEW i \in Ids, NEW n \in 1..MaxQty, Executes(i, n)
  PROVE  Contract!Next
<1>1. /\ order'[i].filled = order[i].filled + n
      /\ order'[i].filled <= order[i].qty
      /\ order'[i].status \in {"open", "cancelling", "filled"}
      /\ order'[i].qty = order[i].qty
      /\ \A j \in Ids \ {i} : order'[j] = order[j]
  BY ExecutesEffect
<1>2. /\ order[i].status \in {"open", "cancelling"}
      /\ told' = told /\ answer' = answer
  BY DEF Executes, Live, answers
<1>3. Size' = Size
  BY <1>1 DEF Size
<1>4. Executed' = [Executed EXCEPT ![i] = @ + n]
  BY <1>1 DEF Executed
<1>5. Stage' = Stage
  BY <1>1, <1>2 DEF Stage
<1>6. Stage[i] \in {"working", "unsure"}
  BY <1>2 DEF IInv, TypeOK, OrderFacts, Stage, Over
<1>7. n \in 1..(Size[i] - Executed[i])
  BY <1>1, LifecycleAssumption DEF IInv, TypeOK, OrderRecord, Size, Executed
<1>8. Contract!Execute(i, n)
  BY <1>2, <1>3, <1>4, <1>5, <1>6, <1>7 DEF Contract!Execute
<1> QED
  BY <1>8 DEF Contract!Next

LEMMA ReturnMaps ==
  ASSUME IInv, NEW c \in Callers, pc[c] \in {"poll", "grace"},
         NEW n \in 0..order[cur[c]].filled, NEW certainty \in {"sure", "unsure"},
         certainty = "sure" => order[cur[c]].status \in Over /\ n = order[cur[c]].filled,
         Return(c, n, certainty)
  PROVE  Contract!Next
<1> DEFINE i == cur[c]
<1>1. /\ i \in Ids
      /\ order[i].status # "unused" /\ answer[i] = "none"
      /\ order[i].filled \in 0..MaxQty
  BY Watched
<1>2. Size' = Size /\ Executed' = Executed
  BY DEF Return, Size, Executed
<1>3. Stage[i] = "working" /\ Executed[i] = order[i].filled
  BY <1>1 DEF Stage, Executed
<1>4. Stage' = [Stage EXCEPT ![i] = certainty]
  BY <1>1 DEF IInv, TypeOK, Return, Stage
<1>5. told' = [told EXCEPT ![i] = n]
  BY DEF Return
<1>6. CASE certainty = "sure"
  <2>1. Contract!AnswerSure(i)
    BY <1>2, <1>3, <1>4, <1>5, <1>6 DEF Contract!AnswerSure
  <2> QED
    BY <1>1, <2>1 DEF Contract!Next
<1>7. CASE certainty = "unsure"
  <2>1. Contract!AnswerUnsure(i, n)
    BY <1>2, <1>3, <1>4, <1>5, <1>7 DEF Contract!AnswerUnsure
  <2>2. n \in 0..MaxQty
    BY <1>1, LifecycleAssumption
  <2> QED
    BY <1>1, <2>1, <2>2 DEF Contract!Next
<1> QED
  BY <1>6, <1>7

LEMMA StepMaps ==
  ASSUME IInv, Next
  PROVE  Contract!Next \/ UNCHANGED Contract!vars
<1>1. ASSUME NEW i \in Ids, NEW n \in 1..MaxQty, Executes(i, n)
      PROVE  Contract!Next
  BY <1>1, ExecutesMaps
<1>2. ASSUME NEW i \in Ids, NEW n \in 1..MaxQty, PlaceProtectiveStop(i, n)
      PROVE  Contract!Next
  <2>1. answer' = [answer EXCEPT ![i] = "none"]
    <3>1. answer[i] = "none" /\ answer' = answer
      BY <1>2 DEF IInv, OrderFacts, PlaceProtectiveStop, Fresh, Ids, answers
    <3> QED
      BY <3>1 DEF IInv, TypeOK
  <2> QED
    BY <1>2, <2>1, AcceptedMaps DEF PlaceProtectiveStop, Sides, answers
<1>3. ASSUME NEW i \in Ids, Ends(i) \/ CancelStop(i)
      PROVE  UNCHANGED Contract!vars
  <2>1. Quiet /\ UNCHANGED answers
    BY <1>3, EndsQuiet, CancelQuiet DEF IInv, Ends, CancelStop
  <2> QED
    BY <2>1, QuietMaps
<1>4. ASSUME NEW c \in Callers,
             \/ \E d \in Sides, n \in 1..MaxQty : Submit(c, d, n)
             \/ \E S \in SUBSET Ids : Sweep(c, S) \/ PollTimesOut(c, S)
             \/ Settle(c)
             \/ PlaceRefused(c)
             \/ GraceWaits(c)
      PROVE  UNCHANGED Contract!vars
  <2>1. Quiet
    BY <1>4, UnchangedQuiet, CancelQuiet
       DEF IInv, Submit, Sweep, PollTimesOut, Settle, PlaceRefused, GraceWaits
  <2>2. UNCHANGED answers
    BY <1>4 DEF Submit, Sweep, PollTimesOut, Settle, PlaceRefused, GraceWaits
  <2> QED
    BY <2>1, <2>2, QuietMaps
<1>5. ASSUME NEW c \in Callers, NEW i \in Ids, PlaceAccepted(c, i) \/ PlaceReplyLost(c, i)
      PROVE  Contract!Next
  <2>1. want[c].qty \in 1..MaxQty /\ want[c].side \in Sides
    BY <1>5, LifecycleAssumption DEF IInv, TypeOK, Wanted, PlaceAccepted, PlaceReplyLost
  <2>2. /\ Fresh(i) /\ order' = Accepted(i, "limit", want[c].side, want[c].qty)
        /\ told' = told
    BY <1>5 DEF PlaceAccepted, PlaceReplyLost, answers
  <2>3. answer[i] = "none"
    BY <2>2 DEF IInv, OrderFacts, Fresh, Ids
  <2>4. PICK s \in {"none", "unsure"} : answer' = [answer EXCEPT ![i] = s]
    BY <1>5, <2>3 DEF IInv, TypeOK, PlaceAccepted, PlaceReplyLost, answers
  <2> QED
    BY <2>1, <2>2, <2>4, AcceptedMaps
<1>6. ASSUME NEW c \in Callers,
             PollSeesEnd(c) \/ PollFails(c) \/ GraceSeesEnd(c) \/ GraceEnds(c)
      PROVE  Contract!Next
  BY <1>6, ReturnsHonestly, ReturnMaps
<1> QED
  BY <1>1, <1>2, <1>3, <1>4, <1>5, <1>6 DEF Next, Exchange, Call

(* The adapter implements the contract of an order service.                 *)
THEOREM Implements == Safety => ImplementsContract
<1>1. Init => Contract!Init
  BY DEF Init, Contract!Init, Size, Executed, Stage
<1>2. IInv /\ [Next]_vars => [Contract!Next]_Contract!vars
  <2>1. ASSUME IInv, UNCHANGED vars PROVE UNCHANGED Contract!vars
    BY <2>1, UnchangedQuiet, QuietMaps DEF IInv, vars, answers
  <2> QED
    BY <2>1, StepMaps
<1> QED
  BY <1>1, <1>2, Inductive, PTL DEF Safety, ImplementsContract, Contract!Spec

(* No phantom shares, and no share hidden behind a sure answer.             *)
THEOREM Honesty == Safety => []AnswersHonest
<1>1. IInv => AnswersHonest
  BY LifecycleAssumption
     DEF IInv, TypeOK, OrderRecord, OrderFacts, AnswersHonest, Contract!Honest, Size,
         Executed, Stage, Over
<1> QED
  BY <1>1, Inductive, PTL

=============================================================================
