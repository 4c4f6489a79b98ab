--------------------------- MODULE ExitAccounting ---------------------------
(***************************************************************************)
(* How a sale gets into the books (runner.py). The main loop records the    *)
(* fills its own exit orders report (_record_trade_exit) and then marks the *)
(* recently closed orders as known (_seed_recent_order_ids). The            *)
(* position-sync thread polls the closed orders and records every filled    *)
(* sale it does not know (_check_new_fills): a protective stop, an order    *)
(* whose fill was never reported, a sale by hand. A set of fill keys is to  *)
(* keep the two from recording one fill twice.                              *)
(*                                                                         *)
(* Sales are numbered in the order they are submitted. What a recorded exit *)
(* sets off is left out: its profit, and what EntryGate models. Keys are not *)
(* forgotten: a day has fewer exits than the 500 keys the code keeps.       *)
(***************************************************************************)
EXTENDS Integers, FiniteSets

CONSTANTS
  MaxSales,   \* bound on the sales of a day
  MaxLot,     \* bound on the shares of a sale
  PollLimit,  \* closed orders the poll asks for
  SeedLimit   \* closed orders the seeding asks for

ASSUME AccountingAssumption ==
  /\ MaxSales \in Nat
  /\ MaxLot \in Nat \ {0}
  /\ PollLimit \in Nat
  /\ SeedLimit \in Nat

Sales == 1..MaxSales
Lots == 1..MaxLot

VARIABLES
  sale,      \* the exchange's sell orders (external)
  doing,     \* what the main loop is doing
  fill,      \* its order and the shares it was told, 0 before the answer
  keys,      \* _recorded_exit_fill_keys
  synced,    \* _last_synced_order_ids
  todo,      \* closed orders the poll has still to look at
  booking,   \* the sale the poll is about to record, 0 if none
  polled     \* history: how often the poll has recorded a sale

main == <<doing, fill>>
books == <<keys, synced>>
poll == <<todo, booking, polled>>
accountingVars == <<sale, main, books, poll>>

Unused == [status |-> "unused", size |-> 0, filled |-> 0]
NoFill == [sale |-> 0, qty |-> 0]

AccountingTypeOK ==
  /\ sale \in [Sales -> [status : {"unused", "open", "filled", "canceled"},
                         size : 0..MaxLot, filled : 0..MaxLot]]
  /\ doing \in {"idle", "waiting", "checking", "recording", "seeding"}
  /\ fill \in [sale : 0..MaxSales, qty : 0..MaxLot]
  /\ doing \in {"waiting", "checking", "recording"} => fill.sale \in Sales
  /\ keys \subseteq [sale : Sales, qty : Lots]
  /\ synced \subseteq Sales
  /\ todo \subseteq Sales
  /\ booking \in {0} \cup todo
  /\ polled \in [Sales -> Nat]

AccountingInit ==
  /\ sale = [i \in Sales |-> Unused]
  /\ doing = "idle"
  /\ fill = NoFill
  /\ keys = {}
  /\ synced = {}
  /\ todo = {}
  /\ booking = 0
  /\ polled = [i \in Sales |-> 0]

-----------------------------------------------------------------------------
(* The exchange.                                                            *)

(* The exchange numbers its orders one after the other. *)
FirstUnused(i) == \A j \in Sales : sale[j].status = "unused" <=> j >= i

Opened(i, n) ==
  /\ FirstUnused(i)
  /\ sale' = [sale EXCEPT ![i] = [status |-> "open", size |-> n, filled |-> 0]]

(* A protective stop, or a sale by hand. *)
OtherSale(i, n) ==
  /\ Opened(i, n)
  /\ UNCHANGED <<main, books, poll>>

Executes(i, n) ==
  /\ sale[i].status = "open"
  /\ n \in 1..(sale[i].size - sale[i].filled)
  /\ LET filled == sale[i].filled + n IN
       sale' = [sale EXCEPT ![i].filled = filled,
                            ![i].status = IF filled = sale[i].size THEN "filled"
                                          ELSE "open"]
  /\ UNCHANGED <<main, books, poll>>

(* Canceled or expired. *)
Ends(i) ==
  /\ sale[i].status = "open"
  /\ sale' = [sale EXCEPT ![i].status = "canceled"]
  /\ UNCHANGED <<main, books, poll>>

Closed == {i \in Sales : sale[i].status \in {"filled", "canceled"}}

(* The list of closed orders is limited and starts with the newest. *)
Newest(limit) == {i \in Closed : Cardinality({j \in Closed : j > i}) < limit}

-----------------------------------------------------------------------------
(* The main loop.                                                           *)

Sell(i, n) ==
  /\ doing = "idle"
  /\ Opened(i, n)
  /\ doing' = "waiting"
  /\ fill' = [sale |-> i, qty |-> 0]
  /\ UNCHANGED <<books, poll>>

(* submit reports shares that were executed, perhaps not the last of them   *)
(* (OrderContract).                                                         *)
Reported(n) ==
  /\ doing = "waiting"
  /\ n \in 1..sale[fill.sale].filled
  /\ doing' = "checking"
  /\ fill' = [fill EXCEPT !.qty = n]
  /\ UNCHANGED <<sale, books, poll>>

(* submit reports no fill, whatever was executed. *)
Unreported ==
  /\ doing = "waiting"
  /\ doing' = "idle"
  /\ fill' = NoFill
  /\ UNCHANGED <<sale, books, poll>>

(* The key of a recorded fill. Its price and time are those of the order    *)
(* and add nothing to its identity; a part has a key of its own.            *)
Key(i, n) == [sale |-> i, qty |-> n]

(* _record_trade_exit looks its key up... *)
CheckKey ==
  /\ doing = "checking"
  /\ doing' = IF Key(fill.sale, fill.qty) \in keys THEN "seeding" ELSE "recording"
  /\ UNCHANGED <<sale, fill, books, poll>>

(* ...and records the fill, in a step that another thread may precede. *)
Record ==
  /\ doing = "recording"
  /\ doing' = "seeding"
  /\ keys' = keys \cup {Key(fill.sale, fill.qty)}
  /\ UNCHANGED <<sale, fill, synced, poll>>

(* _seed_recent_order_ids: all recently closed orders become known, after an *)
(* exit and after a purchase. Reading them may fail; an exception while      *)
(* recording skips it.                                                       *)
Seed ==
  /\ doing \in {"seeding", "idle"}
  /\ doing' = "idle"
  /\ fill' = NoFill
  /\ synced' \in {synced, synced \cup Newest(SeedLimit)}
  /\ UNCHANGED <<sale, keys, poll>>

-----------------------------------------------------------------------------
(* The poll of the position-sync thread.                                    *)

PollLists ==
  /\ todo = {}
  /\ todo' = Newest(PollLimit)
  /\ UNCHANGED <<sale, main, books, booking, polled>>

(* The poll takes the orders of its list one by one, the newest first. *)
NextOf(i) == booking = 0 /\ i \in todo /\ \A j \in todo : j <= i

Recorded(i) == Key(i, sale[i].filled) \in keys

(* Fault: an order found recorded is passed over without being marked. *)
PollSkipsUnmarked(i) ==
  /\ NextOf(i)
  /\ i \in synced \/ sale[i].status # "filled" \/ Recorded(i)
  /\ todo' = todo \ {i}
  /\ synced' = IF sale[i].status = "filled" THEN synced ELSE synced \cup {i}
  /\ UNCHANGED <<sale, main, keys, booking, polled>>

(* Known, not filled completely, or recorded under its key already. *)
PollSkips(i) ==
  /\ NextOf(i)
  /\ i \in synced \/ sale[i].status # "filled" \/ Recorded(i)
  /\ todo' = todo \ {i}
  /\ synced' = synced \cup {i}
  /\ UNCHANGED <<sale, main, keys, booking, polled>>

PollTakes(i) ==
  /\ NextOf(i)
  /\ i \notin synced
  /\ sale[i].status = "filled"
  /\ ~Recorded(i)
  /\ booking' = i
  /\ UNCHANGED <<sale, main, books, todo, polled>>

(* Fault: the key is noted at the end, with the id of the order. *)
PollRecordsKeyLast(done) ==
  /\ booking # 0
  /\ booking' = 0
  /\ keys' = IF done THEN keys \cup {Key(booking, sale[booking].filled)} ELSE keys
  /\ polled' = [polled EXCEPT ![booking] = @ + 1]
  /\ IF done
       THEN todo' = todo \ {booking} /\ synced' = synced \cup {booking}
       ELSE todo' = {} /\ UNCHANGED synced
  /\ UNCHANGED <<sale, main>>

(* Fault: after an exception the next poll goes on with the same order. *)
PollRecordsHalf(done) ==
  /\ booking # 0
  /\ booking' = IF done THEN 0 ELSE booking
  /\ keys' = keys \cup {Key(booking, sale[booking].filled)}
  /\ polled' = [polled EXCEPT ![booking] = @ + 1]
  /\ IF done
       THEN todo' = todo \ {booking} /\ synced' = synced \cup {booking}
       ELSE todo' = {} /\ UNCHANGED synced
  /\ UNCHANGED <<sale, main>>

(* An exception on the way, for instance from the queue of released signals *)
(* that the main loop is changing, ends the poll before the order is marked  *)
(* as known.                                                                *)
PollRecords(done) ==
  /\ booking # 0
  /\ booking' = 0
  /\ keys' = keys \cup {Key(booking, sale[booking].filled)}
  /\ polled' = [polled EXCEPT ![booking] = @ + 1]
  /\ IF done
       THEN todo' = todo \ {booking} /\ synced' = synced \cup {booking}
       ELSE todo' = {} /\ UNCHANGED synced
  /\ UNCHANGED <<sale, main>>

-----------------------------------------------------------------------------
Exchange ==
  \E i \in Sales :
    \/ \E n \in Lots : OtherSale(i, n) \/ Executes(i, n)
    \/ Ends(i)

MainLoop ==
  \/ \E i \in Sales, n \in Lots : Sell(i, n)
  \/ \E n \in Lots : Reported(n)
  \/ Unreported
  \/ CheckKey
  \/ Record
  \/ Seed

Poll ==
  \/ PollLists
  \/ \E i \in Sales : PollSkips(i) \/ PollTakes(i)
  \/ \E done \in BOOLEAN : PollRecords(done)

AccountingNext == Exchange \/ MainLoop \/ Poll

Safety == AccountingInit /\ [][AccountingNext]_accountingVars

(* The sync thread polls for ever: an exception ends one poll, not the loop. *)
AccountingSpec == Safety /\ WF_accountingVars(Poll)

-----------------------------------------------------------------------------
(* The poll records a sale once at most, also when an exception makes it    *)
(* come back to an order it has recorded but not marked (_check_new_fills,  *)
(* _record_trade_exit).                                                     *)
PollsOnce == \A i \in Sales : polled[i] <= 1

(* The poll comes to every sale that is executed: none is left behind by an *)
(* exception that ends a poll early (_check_new_fills). The list must be    *)
(* long enough for the sales of the day.                                    *)
EverySaleSeen == \A i \in Sales : sale[i].status = "filled" ~> i \in synced

(* "Check Alpaca for recently filled orders not yet in the dashboard": an   *)
(* executed sale is marked as known only when it has been recorded.         *)
KnownMeansRecorded ==
  \A i \in synced : sale[i].status = "filled" => \E n \in Lots : Key(i, n) \in keys
=============================================================================
