----------------------------- MODULE OrderTypes -----------------------------
(***************************************************************************)
(* The values that every part of the engine exchanges: src/domain/ and     *)
(* src/engine/config.rs.  Identifiers are opaque; prices keep their order; *)
(* a quantity is a machine word of QtySpace values (2^64 in the code).     *)
(***************************************************************************)
EXTENDS Integers, Sequences, FiniteSets

CONSTANTS
    OrderIds,   \* the order identifiers callers may use (u64 in the code)
    Prices,     \* the limit prices callers may use (u64 in the code)
    QtySpace,   \* number of values of a Quantity; arithmetic on it wraps here
    SlotSpace,  \* number of values of a Slot (u32 in the code)
    None,       \* Option::None
    EventMode   \* OrderBookConfig::event_mode, fixed when the book is built

EventModes == {"Full", "TradesOnly", "Disabled"}

ASSUME PriceAssumption == Prices \subseteq Nat
ASSUME QtyAssumption == QtySpace \in Nat \ {0}
ASSUME NoneAssumption == None \notin Nat
ASSUME EventModeAssumption == EventMode \in EventModes
\* Slot numbers are never truncated while a book holds fewer than SlotSpace
\* orders; a book over OrderIds can hold at most one order per identifier.
ASSUME SlotAssumption ==
    /\ SlotSpace \in Nat
    /\ IsFiniteSet(OrderIds)
    /\ Cardinality(OrderIds) <= SlotSpace

Sides == {"Buy", "Sell"}
Opposite(side) == IF side = "Buy" THEN "Sell" ELSE "Buy"

Quantities == 0 .. (QtySpace - 1)

Order == [id: OrderIds, side: Sides, price: Prices, remaining_qty: Quantities]

NewOrder(id, side, price, quantity) ==
    [id |-> id, side |-> side, price |-> price, remaining_qty |-> quantity]

IsFilled(order) == order.remaining_qty = 0

\* Price p is served before price q among the resting orders of a side.
Outranks(side, p, q) == IF side = "Buy" THEN p > q ELSE p < q

\* A bug: a price equal to the limit is refused.
Crosses_Strictly(incoming, p) ==
    IF incoming.side = "Buy" THEN p < incoming.price ELSE p > incoming.price

\* The incoming order may trade at the resting price p of the other side.
Crosses(incoming, p) ==
    IF incoming.side = "Buy" THEN p <= incoming.price ELSE p >= incoming.price

Trade == [maker_order_id: OrderIds, taker_order_id: OrderIds,
          price: Prices, quantity: Quantities]

\* A bug: maker and taker are swapped.
NewTrade_Swapped(maker, taker, price, quantity) ==
    [maker_order_id |-> taker, taker_order_id |-> maker,
     price |-> price, quantity |-> quantity]

NewTrade(maker, taker, price, quantity) ==
    [maker_order_id |-> maker, taker_order_id |-> taker,
     price |-> price, quantity |-> quantity]

BookEvent ==
         [kind: {"OrderAccepted"}, order: Order]
    \cup [kind: {"OrderCancelled"}, order_id: OrderIds]
    \cup [kind: {"OrderModified"}, order_id: OrderIds,
          new_price: Prices, new_quantity: Quantities]
    \cup [kind: {"TradeExecuted"}, trade: Trade]

Errors == {"ZeroQuantity", "DuplicateOrderId", "UnknownOrderId"}

\* A bug: the incoming quantity is traded whatever the maker has left.
Lesser_First(x, y) == x

Lesser(x, y) == IF x <= y THEN x ELSE y
=============================================================================
