--------------------------- MODULE OrderLifecycle ---------------------------
(***************************************************************************)
(* AlpacaBroker (execution/alpaca_broker.py) for one symbol: how submit    *)
(* and submit_urgent_exit clear the symbol's open orders, place a          *)
(* marketable limit order, poll it, cancel it at the deadline and wait for *)
(* a late fill, while the exchange works every order on its own, while     *)
(* other threads do the same, and while any call may fail.                 *)
(*                                                                         *)
(* Prices are left out (an order priced out of its slippage window is a    *)
(* refusal), and so is the position cache, which PositionReconciler        *)
(* models. Deadlines may expire at any time.                               *)
(***************************************************************************)
EXTENDS Integers, FiniteSets

CONSTANTS
  Callers,    \* threads that submit orders
  MaxOrders,  \* bound on the orders of a behaviour
  MaxQty      \* bound on the shares of an order

ASSUME LifecycleAssumption ==
  /\ MaxOrders \in Nat
  /\ MaxQty \in Nat \ {0}

Ids == 1..MaxOrders

VARIABLES
  order,   \* the exchange's orders (external)
  pc,      \* per caller: where it is in submit
  want,    \* per caller: side and quantity to order, Nothing once ordered
  cur,     \* per caller: the order it placed, 0 if none
  late,    \* per caller: last_fill of _wait_for_cancel_fill, 0 for None
  told,    \* per order: the filled quantity submit returned
  answer   \* per order: "none" yet, "sure" after a terminal status was seen,
           \*   "unsure" otherwise

asking == <<pc, want, cur, late>>
answers == <<told, answer>>
vars == <<order, asking, answers>>

Sides == {"BUY", "SELL"}
Nothing == [side |-> "BUY", qty |-> 0]
Over == {"filled", "canceled"}   \* canceled, cancelled, expired, rejected
Live == {i \in Ids : order[i].status \in {"open", "cancelling"}}

(* The exchange numbers its orders one after the other. *)
Fresh(i) == \A j \in Ids : order[j].status = "unused" <=> j >= i

OrderRecord ==
  [kind : {"limit", "stop"}, side : Sides, qty : 0..MaxQty, filled : 0..MaxQty,
   status : {"unused", "open", "cancelling"} \cup Over]

TypeOK ==
  /\ order \in [Ids -> OrderRecord]
  /\ pc \in [Callers -> {"idle", "sweep", "settle", "place", "poll", "grace"}]
  /\ want \in [Callers -> [side : Sides, qty : 0..MaxQty]]
  /\ cur \in [Callers -> 0..MaxOrders]
  /\ late \in [Callers -> 0..MaxQty]
  /\ told \in [Ids -> 0..MaxQty]
  /\ answer \in [Ids -> {"none", "sure", "unsure"}]

Init ==
  /\ order = [i \in Ids |-> [kind |-> "limit", side |-> "BUY", qty |-> 0, filled |-> 0,
                             status |-> "unused"]]
  /\ pc = [c \in Callers |-> "idle"]
  /\ want = [c \in Callers |-> Nothing]
  /\ cur = [c \in Callers |-> 0]
  /\ late = [c \in Callers |-> 0]
  /\ told = [i \in Ids |-> 0]
  /\ answer = [i \in Ids |-> "none"]

-----------------------------------------------------------------------------
(* The exchange.                                                           *)

(* A live order executes, even while its cancellation is on the way. *)
Executes(i, n) ==
  /\ i \in Live
  /\ n \in 1..(order[i].qty - order[i].filled)
  /\ LET filled == order[i].filled + n IN
       order' = [order EXCEPT ![i] =
                   [kind |-> @.kind, side |-> @.side, qty |-> @.qty, filled |-> filled,
                    status |-> IF filled = @.qty THEN "filled" ELSE @.status]]
  /\ UNCHANGED <<asking, answers>>

(* A requested cancellation takes effect, or the order expires. *)
Ends(i) ==
  /\ i \in Live
  /\ order' = [order EXCEPT ![i].status = "canceled"]
  /\ UNCHANGED <<asking, answers>>

(* The orders after cancel requests for those of S arrived. *)
CancelRequested(S) ==
  [i \in Ids |-> IF i \in S \cap Live THEN [order[i] EXCEPT !.status = "cancelling"]
                 ELSE order[i]]

(* The orders after a new one of n shares was accepted. *)
Accepted(i, k, d, n) ==
  [order EXCEPT ![i] = [kind |-> k, side |-> d, qty |-> n, filled |-> 0,
                        status |-> "open"]]

-----------------------------------------------------------------------------
(* Protective stops, placed and cancelled by whichever thread.             *)

PlaceProtectiveStop(i, n) ==
  /\ Fresh(i)
  /\ order' = Accepted(i, "stop", "SELL", n)
  /\ UNCHANGED <<asking, answers>>

(* cancel_order_by_id, as _clear_broker_stop and replace_protective_stop    *)
(* use it.                                                                  *)
CancelStop(i) ==
  /\ i \in Live
  /\ order[i].kind = "stop"
  /\ order' = CancelRequested({i})
  /\ UNCHANGED <<asking, answers>>

-----------------------------------------------------------------------------
(* submit and submit_urgent_exit.                                          *)

Submit(c, d, n) ==
  /\ pc[c] = "idle"
  /\ pc' = [pc EXCEPT ![c] = "sweep"]
  /\ want' = [want EXCEPT ![c] = [side |-> d, qty |-> n]]
  /\ UNCHANGED <<order, cur, late, answers>>

(* _cancel_open_orders_for: the requests for the orders of S arrive; the    *)
(* listing or some of the requests may fail. Only when something was        *)
(* cancelled does it wait for the orders to go.                             *)
Sweep(c, S) ==
  /\ pc[c] = "sweep"
  /\ S \subseteq Live
  /\ order' = CancelRequested(S)
  /\ pc' = [pc EXCEPT ![c] = IF S = {} THEN "place" ELSE "settle"]
  /\ UNCHANGED <<want, cur, late, answers>>

(* The wait ends: no open order is left, or it lasted two seconds, or the   *)
(* open orders could not be counted, which counts as none.                  *)
Settle(c) ==
  /\ pc[c] = "settle"
  /\ pc' = [pc EXCEPT ![c] = "place"]
  /\ UNCHANGED <<order, want, cur, late, answers>>

PlaceAccepted(c, i) ==
  /\ pc[c] = "place"
  /\ Fresh(i)
  /\ order' = Accepted(i, "limit", want[c].side, want[c].qty)
  /\ cur' = [cur EXCEPT ![c] = i]
  /\ want' = [want EXCEPT ![c] = Nothing]
  /\ pc' = [pc EXCEPT ![c] = "poll"]
  /\ UNCHANGED <<late, answers>>

(* Refused by the broker, by the slippage window or for want of a price. *)
PlaceRefused(c) ==
  /\ pc[c] = "place"
  /\ want' = [want EXCEPT ![c] = Nothing]
  /\ pc' = [pc EXCEPT ![c] = "idle"]
  /\ UNCHANGED <<order, cur, late, answers>>

(* The order was accepted but the call raised: submit returns REJECTED. *)
PlaceReplyLost(c, i) ==
  /\ pc[c] = "place"
  /\ Fresh(i)
  /\ order' = Accepted(i, "limit", want[c].side, want[c].qty)
  /\ answer' = [answer EXCEPT ![i] = "unsure"]
  /\ want' = [want EXCEPT ![c] = Nothing]
  /\ pc' = [pc EXCEPT ![c] = "idle"]
  /\ UNCHANGED <<cur, late, told>>

(* Fault: the late fill of one submission is still there in the next. *)
ReturnKeepsLateFill(c, n, certainty) ==
  /\ told' = [told EXCEPT ![cur[c]] = n]
  /\ answer' = [answer EXCEPT ![cur[c]] = certainty]
  /\ cur' = [cur EXCEPT ![c] = 0]
  /\ pc' = [pc EXCEPT ![c] = "idle"]
  /\ UNCHANGED <<order, want, late>>

(* submit returns to caller c that n shares of its order were filled. *)
Return(c, n, certainty) ==
  /\ told' = [told EXCEPT ![cur[c]] = n]
  /\ answer' = [answer EXCEPT ![cur[c]] = certainty]
  /\ cur' = [cur EXCEPT ![c] = 0]
  /\ late' = [late EXCEPT ![c] = 0]
  /\ pc' = [pc EXCEPT ![c] = "idle"]
  /\ UNCHANGED <<order, want>>

(* Fault: a canceled order is taken to be unfilled. *)
FilledOfFullOnly(i) == IF order[i].status = "canceled" THEN 0 ELSE order[i].filled

(* _fill_from_alpaca_order: whatever was executed counts, in any status. *)
FilledOf(i) == order[i].filled

(* A poll sees a terminal status. *)
PollSeesEnd(c) ==
  /\ pc[c] = "poll"
  /\ order[cur[c]].status \in Over
  /\ Return(c, FilledOf(cur[c]), "sure")

(* A status check raises: REJECTED, with the order left as it is. *)
PollFails(c) ==
  /\ pc[c] = "poll"
  /\ Return(c, 0, "unsure")

(* The deadline passes; the cancel request may not arrive. *)
PollTimesOut(c, S) ==
  /\ pc[c] = "poll"
  /\ S \subseteq {cur[c]}
  /\ order' = CancelRequested(S)
  /\ pc' = [pc EXCEPT ![c] = "grace"]
  /\ UNCHANGED <<want, cur, late, answers>>

(* Fault: the executed quantity is added up over the polls. *)
GraceAddsUp(c) ==
  /\ pc[c] = "grace"
  /\ order[cur[c]].status \notin Over
  /\ late' = [late EXCEPT ![c] = @ + FilledOf(cur[c])]
  /\ UNCHANGED <<order, pc, want, cur, answers>>

(* _wait_for_cancel_fill sees the order still working and remembers what    *)
(* was executed so far.                                                     *)
GraceWaits(c) ==
  /\ pc[c] = "grace"
  /\ order[cur[c]].status \notin Over
  /\ late' = [late EXCEPT ![c] = FilledOf(cur[c])]
  /\ UNCHANGED <<order, pc, want, cur, answers>>

GraceSeesEnd(c) ==
  /\ pc[c] = "grace"
  /\ order[cur[c]].status \in Over
  /\ Return(c, FilledOf(cur[c]), "sure")

(* Fault: the grace only ends once it has seen a fill. *)
GraceEndsOnFill(c) ==
  /\ pc[c] = "grace"
  /\ late[c] > 0
  /\ Return(c, late[c], "unsure")

(* The grace runs out, or a status check raises. *)
GraceEnds(c) ==
  /\ pc[c] = "grace"
  /\ Return(c, late[c], "unsure")

-----------------------------------------------------------------------------
Exchange ==
  \E i \in Ids :
    \/ \E n \in 1..MaxQty : Executes(i, n) \/ PlaceProtectiveStop(i, n)
    \/ Ends(i)
    \/ CancelStop(i)

Call(c) ==
  \/ \E d \in Sides, n \in 1..MaxQty : Submit(c, d, n)
  \/ \E S \in SUBSET Ids : Sweep(c, S)
  \/ Settle(c)
  \/ \E i \in Ids : PlaceAccepted(c, i) \/ PlaceReplyLost(c, i)
  \/ PlaceRefused(c)
  \/ PollSeesEnd(c)
  \/ PollFails(c)
  \/ \E S \in SUBSET Ids : PollTimesOut(c, S)
  \/ GraceWaits(c)
  \/ GraceSeesEnd(c)
  \/ GraceEnds(c)

Next == Exchange \/ \E c \in Callers : Call(c)

Safety == Init /\ [][Next]_vars

(* Every wait inside submit has a deadline of its own: five seconds to       *)
(* fill, two for open orders to go, two for a late fill.                     *)
Fairness ==
  \A c \in Callers :
    /\ WF_vars(\E S \in SUBSET Ids : Sweep(c, S))
    /\ WF_vars(Settle(c))
    /\ WF_vars(PlaceRefused(c) \/ \E i \in Ids : PlaceAccepted(c, i))
    /\ WF_vars(PollSeesEnd(c) \/ PollFails(c) \/ \E S \in SUBSET Ids : PollTimesOut(c, S))
    /\ WF_vars(GraceSeesEnd(c) \/ GraceEnds(c))

Spec == Safety /\ Fairness

-----------------------------------------------------------------------------
(* Properties                                                               *)

Size == [i \in Ids |-> order[i].qty]
Executed == [i \in Ids |-> order[i].filled]
Stage ==
  [i \in Ids |-> IF order[i].status = "unused" THEN "new"
                 ELSE IF answer[i] = "none" THEN "working"
                 ELSE answer[i]]

Contract == INSTANCE OrderContract WITH
  MaxSize <- MaxQty,
  size <- Size,
  executed <- Executed,
  stage <- Stage

(* submit keeps the contract of an order service: what it returns was       *)
(* executed, it answers an order once, and after an answer that rests on a  *)
(* terminal status not one more share is executed, however the callers,     *)
(* their sweeps, the stops and the exchange interleave.                     *)
ImplementsContract == Contract!Spec

(* The consequence a caller counts on: no phantom shares, and no share      *)
(* hidden behind a sure answer.                                             *)
AnswersHonest == Contract!Honest

(* Two callers never watch the same order, and whoever watches one has not  *)
(* answered it yet: each order's fate is reported to exactly one caller.    *)
OneWatcher ==
  \A c \in Callers :
    /\ pc[c] \in {"poll", "grace"} <=> cur[c] # 0
    /\ cur[c] # 0 => /\ order[cur[c]].kind = "limit"
                     /\ order[cur[c]].status # "unused"
                     /\ answer[cur[c]] = "none"
                     /\ late[c] <= order[cur[c]].filled
    /\ \A d \in Callers \ {c} : cur[c] # 0 => cur[c] # cur[d]

(* submit returns, whatever the exchange does with the order. *)
SubmitReturns == \A c \in Callers : pc[c] = "sweep" ~> pc[c] = "idle"

=============================================================================
