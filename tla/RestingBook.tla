---------------------------- MODULE RestingBook ----------------------------
(***************************************************************************)
(* The part of `struct OrderBook` (src/engine/order_book.rs) that holds    *)
(* resting orders, as one record                                           *)
(*     levels[side]  the BTreeMap of the side: bids is levels["Buy"], asks *)
(*                   is levels["Sell"], functions from price to PriceLevel *)
(*     arena         the OrderArena                                        *)
(*     order_slots   order id -> slot, for the resting orders              *)
(* and the operations on it that order_book.rs and matching.rs share.      *)
(***************************************************************************)
EXTENDS PriceLevel, Functions

EmptyMap == [key \in {} |-> None]

EmptyBook ==
    [levels |-> [side \in Sides |-> EmptyMap],
     arena |-> EmptyArena,
     order_slots |-> EmptyMap]

PricesOf(book, side) == DOMAIN book.levels[side]
OrderAt(book, slot) == book.arena.entries[slot].order
RestingIds(book) == DOMAIN book.order_slots
RestingOrders(book) ==
    {OrderAt(book, s) : s \in OccupiedSlots(book.arena)}

\* A bug: the first key is taken on both sides.
IsBestPrice_FirstKey(book, side, p) ==
    p \in PricesOf(book, side) /\ \A q \in PricesOf(book, side) : p <= q

\* best_bid and best_ask: the last key of bids, the first key of asks.
IsBestPrice(book, side, p) ==
    /\ p \in PricesOf(book, side)
    /\ \A q \in PricesOf(book, side) : ~ Outranks(side, q, p)
BestPrice(book, side) == CHOOSE p \in PricesOf(book, side) : IsBestPrice(book, side, p)

\* BTreeMap insert (or overwrite) and remove on the map of one side.
PutLevel(levels, side, price, level) ==
    [levels EXCEPT ![side] =
        [p \in DOMAIN @ \cup {price} |-> IF p = price THEN level ELSE @[p]]]
DropLevel(levels, side, price) ==
    [levels EXCEPT ![side] = Restrict(@, DOMAIN @ \ {price})]

\* levels.entry(price).or_default()
LevelOrDefault(book, side, price) ==
    IF price \in PricesOf(book, side) THEN book.levels[side][price] ELSE EmptyLevel

RestOrder(book, order) ==
    LET slot == InsertSlot(book.arena)
        pushed == PushBack(LevelOrDefault(book, order.side, order.price),
                           Insert(book.arena, order), slot)
    IN  [levels |-> PutLevel(book.levels, order.side, order.price, pushed.level),
         arena |-> pushed.arena,
         order_slots |-> [id \in RestingIds(book) \cup {order.id} |->
                            IF id = order.id THEN slot ELSE book.order_slots[id]]]

\* A bug: an order that leaves keeps its index entry.
Unindexed_Not(book, id) == book.order_slots

\* order_slots.remove(&id)
Unindexed(book, id) == Restrict(book.order_slots, RestingIds(book) \ {id})

\* Unlink an order from its level, drop the level when that empties it, free
\* the slot and forget the order's index entry.  Both remove_order_by_id and
\* the full-fill branch of match_at_level do exactly this.
Detach(book, slot) ==
    LET order == OrderAt(book, slot)
        unlinked == Unlink(book.levels[order.side][order.price], book.arena, slot)
    IN  [levels |->
            IF IsEmptyLevel(unlinked.level)
              THEN DropLevel(book.levels, order.side, order.price)
              ELSE PutLevel(book.levels, order.side, order.price, unlinked.level),
         arena |-> Remove(unlinked.arena, slot),
         order_slots |-> Unindexed(book, order.id)]

RemoveOrderById(book, id) == Detach(book, book.order_slots[id])

\* The head of the best level of the side `incoming` trades against.
BestMakerSlot(book, incoming) ==
    LET contra == Opposite(incoming.side)
    IN  book.levels[contra][BestPrice(book, contra)].head

\* A bug: a partial fill leaves the level's cached total alone.
ConsumeMaker_StaleDepth(book, slot, traded) ==
    IF traded = OrderAt(book, slot).remaining_qty
      THEN Detach(book, slot)
      ELSE [book EXCEPT !.arena.entries[slot].order.remaining_qty = @ - traded]

\* The book after `traded` units of the order in `slot` have been consumed.
ConsumeMaker(book, slot, traded) ==
    LET order == OrderAt(book, slot)
    IN  IF traded = order.remaining_qty
          THEN Detach(book, slot)
          ELSE [book EXCEPT
                  !.arena.entries[slot].order.remaining_qty = @ - traded,
                  !.levels[order.side][order.price].total_quantity =
                        (@ - traded) % QtySpace]

(***************************************************************************)
(* snapshot and level_orders: the orders of each level in queue order.     *)
(* The cursor walk is a function of the number of steps taken; the vector  *)
(* of levels, which the BTreeMap sorts by price, is a function of price.   *)
(***************************************************************************)
LevelSlots(book, level) ==
    LET n == Len(book.arena.entries)
        cursor[i \in 1 .. n] ==
            IF i = 1 THEN level.head
            ELSE IF cursor[i - 1] = None THEN None
            ELSE book.arena.entries[cursor[i - 1]].next
    IN  [i \in {j \in 1 .. n : cursor[j] # None} |-> cursor[i]]

LevelOrders(book, level) ==
    LET slots == LevelSlots(book, level)
    IN  [i \in DOMAIN slots |-> OrderAt(book, slots[i])]

Snapshot(book) ==
    [side \in Sides |->
        [p \in PricesOf(book, side) |-> LevelOrders(book, book.levels[side][p])]]
=============================================================================
