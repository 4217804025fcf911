------------------------ MODULE OrderBookProperties ------------------------
(***************************************************************************)
(* What the matching engine guarantees: the invariants of its linked data  *)
(* structures, and what a step may never do.  The invariants of the data   *)
(* structures are stated of a book b, so that lemmas about the operations  *)
(* on books can use them.                                                  *)
(***************************************************************************)
EXTENDS OrderBook, FiniteSetsExt

Slot == Nat \ {0}
Option(S) == S \cup {None}

OccupiedEntry ==
    [kind: {"Occupied"}, order: Order, prev: Option(Slot), next: Option(Slot)]
VacantEntry == [kind: {"Vacant"}, next_free: Option(Slot)]
Entry == OccupiedEntry \cup VacantEntry
Arena == [entries: Seq(Entry), free_head: Option(Slot), len: Int]
Level == [head: Option(Slot), tail: Option(Slot), total_quantity: Quantities]

IsPartialMap(f, S, T) == DOMAIN f \subseteq S /\ f \in [DOMAIN f -> T]

IsBook(b) ==
    /\ b = [levels |-> b.levels, arena |-> b.arena, order_slots |-> b.order_slots]
    /\ b.levels = [side \in Sides |-> b.levels[side]]
    /\ \A side \in Sides : IsPartialMap(b.levels[side], Prices, Level)
    /\ b.arena \in Arena
    /\ IsPartialMap(b.order_slots, OrderIds, Slot)

\* The type invariant: every field of the book and of the command in progress.
TypeOK ==
    /\ IsBook(book)
    /\ seen_order_ids \subseteq OrderIds
    /\ events \in Seq(BookEvent)
    /\ call \in Call \cup {None}
    /\ result \in Errors \cup {"Ok"}
    /\ older \subseteq OrderIds \X OrderIds

-----------------------------------------------------------------------------
(* The index and the free list.                                            *)

Occupied(b) == OccupiedSlots(b.arena)
IdAt(b, s) == OrderAt(b, s).id

\* order_slots and the occupied slots are the two directions of a bijection
\* between the resting identifiers and the slots in use, and every resting
\* order has quantity left.
IndexOK(b) ==
    /\ \A s \in Occupied(b) :
          /\ OrderAt(b, s).remaining_qty > 0
          /\ IdAt(b, s) \in RestingIds(b)
          /\ b.order_slots[IdAt(b, s)] = s
    /\ \A id \in RestingIds(b) :
          /\ b.order_slots[id] \in Occupied(b)
          /\ IdAt(b, b.order_slots[id]) = id

\* The free list of arena a is chain[1], chain[2], ..., chain[free].
IsFreeChain(a, free, chain) ==
    /\ a.free_head = IF free = 0 THEN None ELSE chain[1]
    /\ \A i \in 1 .. free :
          a.entries[chain[i]].next_free = IF i = free THEN None ELSE chain[i + 1]

\* The free list visits every vacant slot once, and no other slot.
IsFreeList(a, free) ==
    /\ free >= 0
    /\ \E chain \in [1 .. free -> VacantSlots(a)] :
          /\ IsFreeChain(a, free, chain)
          /\ \A i, j \in 1 .. free : chain[i] = chain[j] => i = j
          /\ \A s \in VacantSlots(a) : \E i \in 1 .. free : chain[i] = s

FreeListOK(b) == IsFreeList(b.arena, Len(b.arena.entries) - b.arena.len)

\* A command neither reads a vacant slot nor meets the unreachable! of the
\* arena, the index finds exactly the resting orders, and identifiers are
\* single-use: the order being matched is seen and does not rest.
IndexMatchesArena ==
    /\ IndexOK(book)
    /\ RestingIds(book) \subseteq seen_order_ids
    /\ call # None =>
          /\ call.incoming.id \in seen_order_ids \ RestingIds(book)
          /\ call.incoming.id = call.order.id

\* Slots are recycled without being lost, duplicated or handed out while in
\* use, and the cached count `len` is the number of resting orders: of books
\* that stay within the slot numbers, which SlotAssumption asks of the model
\* and nothing enforces in the code.
FreeListWellFormed ==
    /\ FreeListOK(book)
    /\ book.arena.len = Cardinality(RestingIds(book))

-----------------------------------------------------------------------------
(* The queues.                                                             *)

Stands(b, s, side, price) ==
    /\ s \in Occupied(b)
    /\ OrderAt(b, s).side = side
    /\ OrderAt(b, s).price = price
SameLevel(b, s, t) == Stands(b, t, OrderAt(b, s).side, OrderAt(b, s).price)

\* The resting orders are totally ordered by the time they came to rest.
ArrivalOrder(b, before) ==
    LET ids == RestingIds(b)
    IN  /\ before \subseteq ids \X ids
        /\ \A x \in ids : <<x, x>> \notin before
        /\ \A x, y \in ids : x = y \/ <<x, y>> \in before \/ <<y, x>> \in before
        /\ \A x, y, z \in ids :
              <<x, y>> \in before /\ <<y, z>> \in before => <<x, z>> \in before

\* A level exists exactly where orders stand, and its ends are ends of a queue.
LevelsOK(b) ==
    /\ \A side \in Sides : \A p \in PricesOf(b, side) :
          LET level == b.levels[side][p]
          IN  /\ Stands(b, level.head, side, p)
              /\ Stands(b, level.tail, side, p)
              /\ b.arena.entries[level.head].prev = None
              /\ b.arena.entries[level.tail].next = None
    /\ \A s \in Occupied(b) : OrderAt(b, s).price \in PricesOf(b, OrderAt(b, s).side)

\* Neighbours point at each other, stand at one level in order of arrival,
\* and nobody at that level stands between them, before the first or behind
\* the last.
LinksOK(b, before) ==
    \A s \in Occupied(b) :
        LET node == b.arena.entries[s]
            Precedes(x, y) == <<IdAt(b, x), IdAt(b, y)>> \in before
        IN  /\ IF node.prev = None
                 THEN \A u \in Occupied(b) :
                        SameLevel(b, s, u) => u = s \/ Precedes(s, u)
                 ELSE /\ SameLevel(b, s, node.prev)
                      /\ b.arena.entries[node.prev].next = s
            /\ IF node.next = None
                 THEN \A u \in Occupied(b) :
                        SameLevel(b, s, u) => u = s \/ Precedes(u, s)
                 ELSE /\ SameLevel(b, s, node.next)
                      /\ b.arena.entries[node.next].prev = s
                      /\ Precedes(s, node.next)
                      /\ \A u \in Occupied(b) :
                            SameLevel(b, s, u) =>
                               \/ u = s \/ u = node.next
                               \/ Precedes(u, s) \/ Precedes(node.next, u)

\* Each price level is one doubly linked list that holds its orders and no
\* other, oldest first.
QueuesWellFormed ==
    /\ ArrivalOrder(book, older)
    /\ LevelsOK(book)
    /\ LinksOK(book, older)

OrdersAt(b, side, price) ==
    {x \in RestingOrders(b) : x.side = side /\ x.price = price}

\* snapshot(), which walks the lists, shows every resting order exactly once,
\* at its side and price, in the order of arrival.
SnapshotIsArrivalOrder ==
    \A side \in Sides :
        /\ PricesOf(book, side) =
              {o.price : o \in {x \in RestingOrders(book) : x.side = side}}
        /\ \A p \in PricesOf(book, side) :
              LET queue == Snapshot(book)[side][p]
              IN  /\ {queue[i] : i \in DOMAIN queue} = OrdersAt(book, side, p)
                  /\ \A i, j \in DOMAIN queue :
                        i < j => <<queue[i].id, queue[j].id>> \in older

UnitsOf(orders) == MapThenSumSet(LAMBDA o : o.remaining_qty, orders)

DepthOK(b) ==
    \A side \in Sides : \A p \in PricesOf(b, side) :
        b.levels[side][p].total_quantity = UnitsOf(OrdersAt(b, side, p)) % QtySpace

\* The quantity cached in a level is the sum over its queue (as a machine word).
CachedDepth == DepthOK(book)

\* What an event makes of the quantity q that order id had.
QuantityAfter(e, id, q) ==
    CASE e.kind = "OrderAccepted" /\ e.order.id = id -> e.order.remaining_qty
      [] e.kind = "OrderModified" /\ e.order_id = id -> e.new_quantity
      [] e.kind = "OrderCancelled" /\ e.order_id = id -> 0
      [] e.kind = "TradeExecuted"
           /\ id \in {e.trade.maker_order_id, e.trade.taker_order_id}
           -> q - e.trade.quantity
      [] OTHER -> q

\* The quantity the log gives an order: what it was accepted or last modified
\* with, less its trades since, and nothing once it is cancelled.
QuantityInLog(log, id) ==
    LET after[i \in 0 .. Len(log)] ==
          IF i = 0 THEN 0 ELSE QuantityAfter(log[i], id, after[i - 1])
    IN  after[Len(log)]

Remaining(b, id) ==
    IF id \in RestingIds(b) THEN OrderAt(b, b.order_slots[id]).remaining_qty ELSE 0

\* Between commands the log of a book in Full mode accounts for every unit of
\* every order: a reader who adds it up in order finds what rests.
LogAccountsForBook ==
    EventMode = "Full" /\ call = None =>
        \A id \in OrderIds : QuantityInLog(events, id) = Remaining(book, id)

\* No resting bid reaches a resting ask, not even halfway through a command.
Uncrossed ==
    \A bid \in PricesOf(book, "Buy"), ask \in PricesOf(book, "Sell") : bid < ask

-----------------------------------------------------------------------------
(* What a step may never do.                                               *)

\* An order loses quantity, or leaves, during matching only if no order of
\* its side has a better price and none of its price came earlier.
FillsRespectPriority ==
    [][ \A o \in RestingOrders(book) :
          call # None /\ o \notin RestingOrders(book') =>
             \A other \in RestingOrders(book) :
                other.side = o.side =>
                   /\ ~ Outranks(o.side, other.price, o.price)
                   /\ other.price = o.price => <<other.id, o.id>> \notin older
      ]_vars

\* Quantity is conserved: what one resting order of the other side, the maker,
\* loses in a fill is what the incoming order, the taker, loses and what the
\* new trade records.  The trade names the two, and its price is the maker's
\* own, which the taker's limit admits.
FillsConserveQuantity ==
    [][ call # None /\ call' # None =>
          LET trade == call'.trades[Len(call'.trades)]
          IN  /\ trade.quantity > 0
              /\ call'.incoming.remaining_qty + trade.quantity
                    = call.incoming.remaining_qty
              /\ trade.taker_order_id = call.incoming.id
              /\ Remaining(book', trade.maker_order_id) + trade.quantity
                    = Remaining(book, trade.maker_order_id)
              /\ \A id \in OrderIds \ {trade.maker_order_id} :
                    Remaining(book', id) = Remaining(book, id)
              /\ \E maker \in OrdersAt(book, Opposite(call.order.side), trade.price) :
                    maker.id = trade.maker_order_id
              /\ Crosses(call.order, trade.price)
      ]_vars

Gone(id) ==
    /\ id \in seen_order_ids \ RestingIds(book)
    /\ call # None => call.incoming.id # id

\* An identifier whose order has left the book (filled or cancelled) stays out
\* of it for ever, although cancel, modify and add all accept identifiers.
IdsAreSingleUse == [][ \A id \in OrderIds : Gone(id) => Gone(id)' ]_vars
=============================================================================
