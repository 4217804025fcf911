------------------------- MODULE PriceTimePriority -------------------------
(***************************************************************************)
(* What the matching engine promises while it works: a bag of resting      *)
(* orders in which every trade is with the order that has priority, first  *)
(* by price, then by time.  There are no levels, slots or lists here;      *)
(* OrderBook.tla implements this specification (OrderBookRefinement.tla).  *)
(***************************************************************************)
EXTENDS OrderTypes

VARIABLES
    resting,         \* the set of resting orders
    older,           \* pairs <<a, b>> of resting identifiers, a came first
    seen_order_ids,  \* identifiers that cannot be used for a new order
    call             \* the order being matched, as in OrderBook, or None

vars == <<resting, older, seen_order_ids, call>>

Ids == {o.id : o \in resting}
RestingOrder(id) == CHOOSE o \in resting : o.id = id
Without(id) == {pair \in older : pair[1] # id /\ pair[2] # id}

Start(kind, order) ==
    [kind |-> kind, order |-> order, incoming |-> order, trades |-> << >>]

\* o is served before every other order of its side.
HasPriority(o) ==
    \A other \in resting \ {o} :
        other.side = o.side =>
            \/ Outranks(o.side, o.price, other.price)
            \/ o.price = other.price /\ <<o.id, other.id>> \in older

Makers(incoming) ==
    {o \in resting : o.side = Opposite(incoming.side) /\ Crosses(incoming, o.price)}

Init ==
    /\ resting = {}
    /\ older = {}
    /\ seen_order_ids = {}
    /\ call = None

Accept(order) ==
    /\ call = None
    /\ order.remaining_qty > 0
    /\ order.id \notin seen_order_ids
    /\ seen_order_ids' = seen_order_ids \cup {order.id}
    /\ call' = Start("Add", order)
    /\ UNCHANGED <<resting, older>>

Cancel(o) ==
    /\ call = None
    /\ resting' = resting \ {o}
    /\ older' = Without(o.id)
    /\ UNCHANGED <<seen_order_ids, call>>

Modify(o, price, quantity) ==
    /\ call = None
    /\ quantity > 0
    /\ resting' = resting \ {o}
    /\ older' = Without(o.id)
    /\ call' = Start("Modify", NewOrder(o.id, o.side, price, quantity))
    /\ UNCHANGED seen_order_ids

TradeWith(maker) ==
    /\ call # None
    /\ ~ IsFilled(call.incoming)
    /\ maker \in Makers(call.incoming)
    /\ HasPriority(maker)
    /\ LET traded == Lesser(call.incoming.remaining_qty, maker.remaining_qty)
           left == [maker EXCEPT !.remaining_qty = @ - traded]
       IN  /\ resting' = (resting \ {maker})
                            \cup (IF IsFilled(left) THEN {} ELSE {left})
           /\ older' = IF IsFilled(left) THEN Without(maker.id) ELSE older
           /\ call' = [call EXCEPT
                 !.incoming.remaining_qty = @ - traded,
                 !.trades = Append(@, NewTrade(maker.id, call.incoming.id,
                                               maker.price, traded))]
    /\ UNCHANGED seen_order_ids

\* Only an order that nobody can serve any more rests, behind everybody.
Settle ==
    /\ call # None
    /\ IsFilled(call.incoming) \/ Makers(call.incoming) = {}
    /\ IF IsFilled(call.incoming)
         THEN UNCHANGED <<resting, older>>
         ELSE /\ resting' = resting \cup {call.incoming}
              /\ older' = older \cup (Ids \X {call.incoming.id})
    /\ call' = None
    /\ UNCHANGED seen_order_ids

Next ==
    \/ \E order \in Order : Accept(order)
    \/ \E o \in resting :
          \/ Cancel(o)
          \/ \E price \in Prices, quantity \in Quantities : Modify(o, price, quantity)
          \/ TradeWith(o)
    \/ Settle

Spec == Init /\ [][Next]_vars
=============================================================================
