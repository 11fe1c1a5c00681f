------------------------------- MODULE Basket -------------------------------
(***************************************************************************)
(* Menu and basket: what may be ordered (catalog/availability.ts, the      *)
(* stock view, the line check and the pricing of placeOrder), what the     *)
(* stall's manager changes meanwhile (catalog/inventory.controller.ts),    *)
(* the diners who wait for a dish (catalog/stock-watch.repository.ts) and  *)
(* the books an order and its refund leave behind.  An order is placed in  *)
(* one transaction that holds the stall's row; what happens to it before   *)
(* and after is the subject of Placement, Payments, Dispatch and Refunds.  *)
(***************************************************************************)
EXTENDS Pricing, Sequences, FiniteSets, Functions

CONSTANTS
  Items, Orders, Sessions, Workers,
  Steady,         \* the replica of Workers that keeps running
  Price, FoodTax, \* menu_item.base_price_paise and tax_rate_bps, by item
  Baskets,        \* the baskets customers send: sequences of lines
  Terms,          \* the fee rules in force, resolved by party, one after the other
  Marks,          \* what the cook marks a dish as: availability and available_from
  MaxStock        \* bound: a day's count

ASSUME BasketAssumption ==
  /\ Price \in [Items -> Nat \ {0}] /\ FoodTax \in [Items -> Rate]
  /\ MaxStock \in Nat /\ Steady \in Workers
  /\ Terms \in Seq(FeeTerms) /\ Terms # <<>>
  /\ \A b \in Baskets : b \in Seq([item : Items, quantity : 1..50])

NotCounted == -1

VARIABLES
  item,   \* menu_item: status, availability, available_from, inventory_mode
  stock,  \* menu_item_stock.daily_stock of the service date, by item
  order,  \* orders: what their history says, their lines, their quote, their books
  terms,  \* fee_rule: which of Terms is in force
  watch,  \* stock_watch by session and item
  sweep,  \* what each replica's stock sweep has read
  raced   \* history: items two unpaid orders or two lines claim, or a manager cut

vars == <<item, stock, order, terms, watch, sweep, raced>>

-----------------------------------------------------------------------------
(* Stock is computed from what orders were: confirmed once, and never      *)
(* rejected or cancelled.                                                  *)
Quantity(lines, i) ==
  SumFunctionOnSet([n \in DOMAIN lines |-> lines[n].quantity],
                   {n \in DOMAIN lines : lines[n].item = i})

Taken(i) == [o \in Orders |-> Quantity(order[o].lines, i)]
Sold == {o \in Orders : order[o].today /\ order[o].paid /\ ~order[o].released}
Consumed(i) == SumFunctionOnSet(Taken(i), Sold)

(* What waits for its payment may be consumed later.                       *)
PaidOrWaiting == {o \in Orders : order[o].today /\ ~order[o].released
                            /\ (order[o].paid \/ order[o].status = "waiting")}
Claimed(i) == SumFunctionOnSet(Taken(i), PaidOrWaiting)

(* The view has no row for a day nobody counted.                           *)
Remaining(i) == IF stock[i] = NotCounted THEN 0 ELSE stock[i] - Consumed(i)

(* Mutant: one portion left is enough for any quantity.                    *)
Orderable_AnyQuantity(i, quantity) ==
  /\ item[i].status = "ACTIVE"
  /\ item[i].availability = "AVAILABLE" \/ item[i].from = "past"
  /\ item[i].mode = "TRACKED" => Remaining(i) > 0

(* itemState, for so many portions.                                        *)
Orderable(i, quantity) ==
  /\ item[i].status = "ACTIVE"
  /\ item[i].availability = "AVAILABLE" \/ item[i].from = "past"
  /\ item[i].mode = "TRACKED" => Remaining(i) - quantity + 1 > 0

-----------------------------------------------------------------------------
(* Orders.                                                                 *)

NoOrderYet ==
  [status |-> "none", lines |-> <<>>, today |-> FALSE, paid |-> FALSE, released |-> FALSE,
   terms |-> Terms[1], quote |-> Quote(0, 0, Terms[1]),
   placed |-> NoEntries, refunded |-> NoEntries]

LineTotal(line) == Price[line.item] * line.quantity
LineTax(line) == ApplyBps(LineTotal(line), FoodTax[line.item])
Subtotal(lines) == SumFunction([n \in DOMAIN lines |-> LineTotal(lines[n])])
FoodTaxOf(lines) == SumFunction([n \in DOMAIN lines |-> LineTax(lines[n])])
QuoteOf(lines, t) == Quote(Subtotal(lines), FoodTaxOf(lines), t)

InBasket(lines) == {lines[n].item : n \in DOMAIN lines}

(* resolve and the insert: every line passes by itself, the prices are the *)
(* menu's and the fees those in force.                                     *)
Place(o, lines) ==
  LET quote == QuoteOf(lines, Terms[terms])
      rivals == {p \in Orders : order[p].status = "waiting" /\ order[p].today}
  IN /\ order[o].status = "none"
     /\ \A n \in DOMAIN lines : Orderable(lines[n].item, lines[n].quantity)
     /\ Priceable(quote) /\ ~SplitRefused(quote, Terms[terms])
     /\ order' = [order EXCEPT ![o] =
          [status |-> "waiting", lines |-> lines, today |-> TRUE, paid |-> FALSE,
           released |-> FALSE, terms |-> Terms[terms], quote |-> quote,
           placed |-> PlacementEntries(quote), refunded |-> NoEntries]]
     /\ raced' = raced \cup
          {i \in InBasket(lines) : \/ \E p \in rivals : i \in InBasket(order[p].lines)
                                  \/ Cardinality({n \in DOMAIN lines : lines[n].item = i}) > 1}
     /\ UNCHANGED <<item, stock, terms, watch, sweep>>

MoveOrder(o, from, to) ==
  /\ order[o].status \in from
  /\ order' = [order EXCEPT ![o].status = to,
                            ![o].paid = @ \/ to = "confirmed",
                            ![o].released = @ \/ to = "released"]
  /\ UNCHANGED <<item, stock, terms, watch, sweep, raced>>

Pay(o) == MoveOrder(o, {"waiting"}, "confirmed")
Lapse(o) == MoveOrder(o, {"waiting"}, "over")
FailDispatch(o) == MoveOrder(o, {"confirmed"}, "undelivered")
Redispatch(o) == MoveOrder(o, {"undelivered"}, "confirmed")
Release(o) == MoveOrder(o, {"confirmed", "undelivered"}, "released")

(* Mutant: the refund is priced by the terms of the day.                   *)
Refund_CurrentTerms(o) ==
  /\ order[o].status \in {"released", "undelivered"}
  /\ order' = [order EXCEPT ![o].status = "refunded",
                            ![o].refunded = RefundEntries(QuoteOf(order[o].lines, Terms[terms]))]
  /\ UNCHANGED <<item, stock, terms, watch, sweep, raced>>

(* initiate: priced again from the snapshot.                               *)
Refund(o) ==
  /\ order[o].status \in {"released", "undelivered"}
  /\ order' = [order EXCEPT ![o].status = "refunded",
                            ![o].refunded = RefundEntries(QuoteOf(order[o].lines, order[o].terms))]
  /\ UNCHANGED <<item, stock, terms, watch, sweep, raced>>

-----------------------------------------------------------------------------
(* The stall's manager, and the clock.                                     *)

(* setStock counts the item from now on; a count below what was sold is    *)
(* accepted.                                                               *)
SetStock(i, n) ==
  /\ n # stock[i]
  /\ stock' = [stock EXCEPT ![i] = n]
  /\ item' = [item EXCEPT ![i].mode = "TRACKED"]
  /\ raced' = IF n < Claimed(i) THEN raced \cup {i} ELSE raced
  /\ UNCHANGED <<order, terms, watch, sweep>>

(* setAvailability: an available item has no date it comes back on.        *)
SetAvailability(i, mark) ==
  /\ item' = [item EXCEPT ![i].availability = mark.availability,
                          ![i].from = IF mark.availability = "AVAILABLE" THEN "none" ELSE mark.from]
  /\ item' # item
  /\ UNCHANGED <<stock, order, terms, watch, sweep, raced>>

AvailableFromPasses(i) ==
  /\ item[i].from = "ahead"
  /\ item' = [item EXCEPT ![i].from = "past"]
  /\ UNCHANGED <<stock, order, terms, watch, sweep, raced>>

(* The next service date: nothing is counted yet, and what was sold so far *)
(* belongs to the day before.                                              *)
Midnight ==
  /\ stock' = [i \in Items |-> NotCounted]
  /\ order' = [o \in Orders |-> [order[o] EXCEPT !.today = FALSE]]
  /\ raced' = {}
  /\ UNCHANGED <<item, terms, watch, sweep>>

ChangeFees ==
  /\ terms < Len(Terms)
  /\ terms' = terms + 1
  /\ UNCHANGED <<item, stock, order, watch, sweep, raced>>

-----------------------------------------------------------------------------
(* Diners who wait for a dish.  A row is open until a sweep marked it      *)
(* restocked.                                                              *)

NoWatch == [state |-> "none", expired |-> FALSE]

(* watch: refused for an item on sale and for one that only starts later;  *)
(* asking again extends the row that is there and changes nothing else.    *)
Watch(s, i) ==
  /\ ~Orderable(i, 1)
  /\ ~(item[i].availability = "TEMPORARILY_UNAVAILABLE" /\ item[i].from = "ahead")
  /\ watch' = [watch EXCEPT ![s][i] =
       IF @.state = "none" THEN [NoWatch EXCEPT !.state = "open"] ELSE [@ EXCEPT !.expired = FALSE]]
  /\ watch' # watch
  /\ UNCHANGED <<item, stock, order, terms, sweep, raced>>

Unwatch(s, i) ==
  /\ watch[s][i].state # "none"
  /\ watch' = [watch EXCEPT ![s][i] = NoWatch]
  /\ UNCHANGED <<item, stock, order, terms, sweep, raced>>

WatchExpires(s, i) ==
  /\ watch[s][i].state # "none" /\ ~watch[s][i].expired
  /\ watch' = [watch EXCEPT ![s][i].expired = TRUE]
  /\ UNCHANGED <<item, stock, order, terms, sweep, raced>>

(* Mutant: the sweep looks at items nobody counts only.                    *)
SweepReads_Untracked(w) ==
  LET kept == [s \in Sessions |-> [i \in Items |->
                 IF watch[s][i].state = "open" /\ watch[s][i].expired THEN NoWatch ELSE watch[s][i]]]
      back == {i \in Items : item[i].mode = "UNTRACKED" /\ Orderable(i, 1)
                             /\ \E s \in Sessions : kept[s][i].state = "open"}
  IN /\ sweep[w] = {}
     /\ watch' = kept
     /\ sweep' = [sweep EXCEPT ![w] = back]
     /\ <<watch', sweep'>> # <<watch, sweep>>
     /\ UNCHANGED <<item, stock, order, terms, raced>>

(* sweep: rows that expired unanswered go, then the items still waited for *)
(* are looked at ...                                                       *)
SweepReads(w) ==
  LET kept == [s \in Sessions |-> [i \in Items |->
                 IF watch[s][i].state = "open" /\ watch[s][i].expired THEN NoWatch ELSE watch[s][i]]]
      back == {i \in Items : Orderable(i, 1) /\ \E s \in Sessions : kept[s][i].state = "open"}
  IN /\ sweep[w] = {}
     /\ watch' = kept
     /\ sweep' = [sweep EXCEPT ![w] = back]
     /\ <<watch', sweep'>> # <<watch, sweep>>
     /\ UNCHANGED <<item, stock, order, terms, raced>>

(* ... and the rows of those on sale again are marked, by one statement    *)
(* that takes open rows only.                                              *)
Markable(row) == row.state = "open" /\ ~row.expired

SweepMarks(w) ==
  /\ sweep[w] # {}
  /\ watch' = [s \in Sessions |-> [i \in Items |->
       IF i \in sweep[w] /\ Markable(watch[s][i])
       THEN [watch[s][i] EXCEPT !.state = "told"]
       ELSE watch[s][i]]]
  /\ sweep' = [sweep EXCEPT ![w] = {}]
  /\ UNCHANGED <<item, stock, order, terms, raced>>

SweepDies(w) ==
  /\ sweep[w] # {}
  /\ sweep' = [sweep EXCEPT ![w] = {}]
  /\ UNCHANGED <<item, stock, order, terms, watch, raced>>

-----------------------------------------------------------------------------
Init ==
  /\ item = [i \in Items |-> [status |-> "ACTIVE", availability |-> "AVAILABLE",
                              from |-> "none", mode |-> "UNTRACKED"]]
  /\ stock = [i \in Items |-> NotCounted]
  /\ order = [o \in Orders |-> NoOrderYet]
  /\ terms = 1
  /\ watch = [s \in Sessions |-> [i \in Items |-> NoWatch]]
  /\ sweep = [w \in Workers |-> {}]
  /\ raced = {}

Next ==
  \/ \E o \in Orders :
       \/ \E lines \in Baskets : Place(o, lines)
       \/ Pay(o) \/ Lapse(o) \/ FailDispatch(o) \/ Redispatch(o) \/ Release(o) \/ Refund(o)
  \/ \E i \in Items :
       \/ \E n \in 0..MaxStock : SetStock(i, n)
       \/ \E mark \in Marks : SetAvailability(i, mark)
       \/ AvailableFromPasses(i)
       \/ \E s \in Sessions : Watch(s, i) \/ Unwatch(s, i) \/ WatchExpires(s, i)
  \/ \E w \in Workers : SweepReads(w) \/ SweepMarks(w) \/ SweepDies(w)
  \/ Midnight \/ ChangeFees

Spec == Init /\ [][Next]_vars

(* One replica's sweep comes round and gets to its end again and again.    *)
LiveSpec == Spec /\ WF_vars(SweepReads(Steady)) /\ SF_vars(SweepMarks(Steady))

-----------------------------------------------------------------------------
(* Properties.                                                             *)

(* PRD 6.1: the gate at placement sells no portion twice by itself.  A     *)
(* negative count is owed to two baskets that were both waiting for their  *)
(* payment, which the comment at order.repository.ts:573 accepts, to two   *)
(* lines of one basket, each checked alone, or to a manager who set the    *)
(* count below what was already taken.                                     *)
OversoldOnlyByRace == \A i \in Items : Remaining(i) < 0 => i \in raced

(* entries.ts and refund.repository.ts: an order's books balance, and a    *)
(* refund takes back from every party what the placement gave it, whatever *)
(* fees are in force by then.                                              *)
BooksClose == \A o \in Orders :
  /\ order[o].status # "none" => Balanced(order[o].placed, order[o].quote)
  /\ order[o].status = "refunded" =>
       \A p \in DOMAIN NoEntries : order[o].placed[p] + order[o].refunded[p] = 0

(* stock-watch.repository.ts:1: whichever way a dish comes back, the diner *)
(* whose watch is open is told while it is there.                          *)
WatchIsTold == \A s \in Sessions, i \in Items :
  watch[s][i].state = "open" /\ Orderable(i, 1) ~>
    watch[s][i].state # "open" \/ ~Orderable(i, 1) \/ watch[s][i].expired
=============================================================================
