----------------------------- MODULE OrderBook -----------------------------
(***************************************************************************)
(* The matching engine: add_order, cancel_order and modify_order of        *)
(* src/engine/order_book.rs with the matching loops of                     *)
(* src/engine/matching.rs.                                                 *)
(*                                                                         *)
(* A command takes `&mut self`, so commands never overlap.  A command that *)
(* matches is nevertheless several steps here: it starts, each iteration   *)
(* of the inner loop of match_at_level is a FillStep, and FinishCall is    *)
(* everything after the loops.  `call` holds the local variables of the    *)
(* command in progress (None between commands).                            *)
(***************************************************************************)
EXTENDS RestingBook

CONSTANT MaxEvents  \* commands are issued only while the log is shorter

ASSUME MaxEventsAssumption == MaxEvents \in Nat

VARIABLES
    book,            \* bids, asks, arena and order_slots
    seen_order_ids,  \* every identifier ever accepted
    events,          \* the event log
    call,            \* the command being matched, or None
    result,          \* what the last finished command returned
    older            \* history: pairs <<a, b>>, a came to rest before b

vars == <<book, seen_order_ids, events, call, result, older>>

Call == [kind: {"Add", "Modify"}, order: Order, incoming: Order, trades: Seq(Trade)]

ASSUME CallAssumption == None \notin Call

StartMatching(kind, order) ==
    [kind |-> kind, order |-> order, incoming |-> order, trades |-> << >>]

-----------------------------------------------------------------------------
(* Event recording, by mode: record_order_accepted and its siblings.       *)

Logged(modes, event) == IF EventMode \in modes THEN <<event>> ELSE << >>

AcceptedEvents(order) ==
    Logged({"Full"}, [kind |-> "OrderAccepted", order |-> order])

\* A bug: cancellations are not recorded.
CancelledEvents_None(id) == << >>

CancelledEvents(id) ==
    Logged({"Full"}, [kind |-> "OrderCancelled", order_id |-> id])
ModifiedEvents(order) ==
    Logged({"Full"}, [kind |-> "OrderModified", order_id |-> order.id,
                      new_price |-> order.price,
                      new_quantity |-> order.remaining_qty])
TradeEvents(trades) ==
    IF EventMode \in {"Full", "TradesOnly"}
      THEN [i \in DOMAIN trades |-> [kind |-> "TradeExecuted", trade |-> trades[i]]]
      ELSE << >>

\* A bug: the trades of a modification are recorded before it.
FinishEvents_TradesFirst(c) ==
    TradeEvents(c.trades)
        \o (IF c.kind = "Modify" THEN ModifiedEvents(c.order) ELSE << >>)

\* What is recorded after matching: a modification, then the trades.
FinishEvents(c) ==
    (IF c.kind = "Modify" THEN ModifiedEvents(c.order) ELSE << >>)
        \o TradeEvents(c.trades)

(* History of arrival: who stands behind whom, whatever the level.         *)
Arrives(id) == older \cup (RestingIds(book) \X {id})
Leaves(id) == {pair \in older : pair[1] # id /\ pair[2] # id}

-----------------------------------------------------------------------------
Init ==
    /\ book = EmptyBook
    /\ seen_order_ids = {}
    /\ events = << >>
    /\ call = None
    /\ result = "Ok"
    /\ older = {}

\* The caller may issue a command: no other is in progress.
Idle == call = None /\ Len(events) < MaxEvents

Reject(error) ==
    /\ result' = error
    /\ UNCHANGED <<book, seen_order_ids, events, call, older>>

\* The quantity is checked before the identifier is consumed.
AddZeroQuantity(order) ==
    /\ Idle
    /\ order.remaining_qty = 0
    /\ Reject("ZeroQuantity")

AddDuplicate(order) ==
    /\ Idle
    /\ order.remaining_qty # 0
    /\ order.id \in seen_order_ids
    /\ Reject("DuplicateOrderId")

\* A bug: a used identifier is accepted once its order has left the book.
AddOrder_ReusesIds(order) ==
    /\ Idle
    /\ order.remaining_qty # 0
    /\ order.id \notin RestingIds(book)
    /\ seen_order_ids' = seen_order_ids \cup {order.id}
    /\ events' = events \o AcceptedEvents(order)
    /\ call' = StartMatching("Add", order)
    /\ UNCHANGED <<book, result, older>>

AddOrder(order) ==
    /\ Idle
    /\ order.remaining_qty # 0
    /\ order.id \notin seen_order_ids
    /\ seen_order_ids' = seen_order_ids \cup {order.id}
    /\ events' = events \o AcceptedEvents(order)
    /\ call' = StartMatching("Add", order)
    /\ UNCHANGED <<book, result, older>>

CancelUnknown(id) ==
    /\ Idle
    /\ id \notin RestingIds(book)
    /\ Reject("UnknownOrderId")

CancelOrder(id) ==
    /\ Idle
    /\ id \in RestingIds(book)
    /\ book' = RemoveOrderById(book, id)
    /\ events' = events \o CancelledEvents(id)
    /\ result' = "Ok"
    /\ older' = Leaves(id)
    /\ UNCHANGED <<seen_order_ids, call>>

\* Here too the quantity is checked first, and a rejected modification leaves
\* the resting order where it is.
ModifyZeroQuantity(id, quantity) ==
    /\ Idle
    /\ quantity = 0
    /\ Reject("ZeroQuantity")

ModifyUnknown(id, quantity) ==
    /\ Idle
    /\ quantity # 0
    /\ id \notin RestingIds(book)
    /\ Reject("UnknownOrderId")

\* The order leaves the book, gives up its place in the queue, and is matched
\* like a new one with the side it had.
ModifyOrder(id, price, quantity) ==
    /\ Idle
    /\ quantity # 0
    /\ id \in RestingIds(book)
    /\ LET old_order == OrderAt(book, book.order_slots[id])
       IN  call' = StartMatching("Modify", NewOrder(id, old_order.side, price, quantity))
    /\ book' = RemoveOrderById(book, id)
    /\ older' = Leaves(id)
    /\ UNCHANGED <<seen_order_ids, events, result>>

\* The loops of match_buy_order / match_sell_order have something to trade with.
CanTrade(incoming) ==
    /\ ~ IsFilled(incoming)
    /\ \E p \in PricesOf(book, Opposite(incoming.side)) :
          IsBestPrice(book, Opposite(incoming.side), p) /\ Crosses(incoming, p)

\* One iteration of the inner loop.  A level that is in the map is never empty
\* (LevelsOK in OrderBookProperties.tla), so that the best level has a head.
FillStep ==
    /\ call # None
    /\ CanTrade(call.incoming)
    /\ BestMakerSlot(book, call.incoming) # None
    /\ LET incoming == call.incoming
           price == BestPrice(book, Opposite(incoming.side))
           slot == BestMakerSlot(book, incoming)
           resting == OrderAt(book, slot)
           traded_qty == Lesser(incoming.remaining_qty, resting.remaining_qty)
       IN  /\ book' = ConsumeMaker(book, slot, traded_qty)
           /\ call' = [call EXCEPT
                 !.incoming.remaining_qty = @ - traded_qty,
                 !.trades = Append(@, NewTrade(resting.id, incoming.id,
                                               price, traded_qty))]
           /\ older' = IF traded_qty = resting.remaining_qty
                         THEN Leaves(resting.id) ELSE older
    /\ UNCHANGED <<seen_order_ids, events, result>>

\* What remains rests, and the outcome is recorded and returned.
FinishCall ==
    /\ call # None
    /\ ~ CanTrade(call.incoming)
    /\ IF IsFilled(call.incoming)
         THEN UNCHANGED <<book, older>>
         ELSE /\ book' = RestOrder(book, call.incoming)
              /\ older' = Arrives(call.incoming.id)
    /\ events' = events \o FinishEvents(call)
    /\ call' = None
    /\ result' = "Ok"
    /\ UNCHANGED seen_order_ids

Command ==
    \/ \E order \in Order :
          AddZeroQuantity(order) \/ AddDuplicate(order) \/ AddOrder(order)
    \/ \E id \in OrderIds : CancelUnknown(id) \/ CancelOrder(id)
    \/ \E id \in OrderIds, quantity \in Quantities :
          ModifyZeroQuantity(id, quantity) \/ ModifyUnknown(id, quantity)
    \/ \E id \in OrderIds, price \in Prices, quantity \in Quantities :
          ModifyOrder(id, price, quantity)

Next == Command \/ FillStep \/ FinishCall

Spec == Init /\ [][Next]_vars
=============================================================================
