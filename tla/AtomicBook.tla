----------------------------- MODULE AtomicBook -----------------------------
(***************************************************************************)
(* What a caller of the engine sees: one command is one step, and its      *)
(* whole outcome is a formula over the book before it.  An incoming        *)
(* quantity is given to the orders that cross it in priority order, so an  *)
(* order is filled by what is left after everything ahead of it, and the   *)
(* rest of the incoming order joins the book behind everybody.             *)
(***************************************************************************)
EXTENDS OrderTypes, FiniteSetsExt

VARIABLES
    resting,         \* the set of resting orders
    older,           \* pairs <<a, b>> of resting identifiers, a came first
    seen_order_ids,  \* identifiers that cannot be used for a new order
    returned         \* the trades returned by the last command that matched

vars == <<resting, older, seen_order_ids, returned>>

Quantity(orders) == MapThenSumSet(LAMBDA o : o.remaining_qty, orders)
Among(pairs, orders) ==
    {pair \in pairs : \A i \in 1 .. 2 : \E o \in orders : o.id = pair[i]}

\* The outcome of matching `order` against the orders of `others`, of which
\* `before` tells the order of arrival.
Outcome(order, others, before) ==
    LET makers == {o \in others : o.side = Opposite(order.side)
                                     /\ Crosses(order, o.price)}
        Ahead(m) == {o \in makers : \/ Outranks(m.side, o.price, m.price)
                                    \/ o.price = m.price /\ <<o.id, m.id>> \in before}
        Left(q, taken) == IF q <= taken THEN 0 ELSE q - taken
        Fill(m) == Lesser(m.remaining_qty,
                          Left(order.remaining_qty, Quantity(Ahead(m))))
        After(m) == IF m \in makers THEN [m EXCEPT !.remaining_qty = @ - Fill(m)] ELSE m
        survivors == {o \in {After(m) : m \in others} : ~ IsFilled(o)}
        remainder == [order EXCEPT !.remaining_qty = Left(@, Quantity(makers))]
    IN  [resting |-> survivors
                        \cup (IF IsFilled(remainder) THEN {} ELSE {remainder}),
         older |-> Among(before, survivors)
                        \cup (IF IsFilled(remainder) THEN {}
                              ELSE {o.id : o \in survivors} \X {order.id}),
         trades |-> {NewTrade(m.id, order.id, m.price, Fill(m)) :
                        m \in {x \in makers : Fill(x) > 0}}]

Place(order, others) ==
    LET outcome == Outcome(order, others, Among(older, others))
    IN  /\ resting' = outcome.resting
        /\ older' = outcome.older
        /\ returned' = outcome.trades

Init ==
    /\ resting = {}
    /\ older = {}
    /\ seen_order_ids = {}
    /\ returned = {}

Add(order) ==
    /\ order.remaining_qty > 0
    /\ order.id \notin seen_order_ids
    /\ seen_order_ids' = seen_order_ids \cup {order.id}
    /\ Place(order, resting)

Cancel(o) ==
    /\ resting' = resting \ {o}
    /\ older' = Among(older, resting \ {o})
    /\ UNCHANGED <<seen_order_ids, returned>>

Modify(o, price, quantity) ==
    /\ quantity > 0
    /\ Place(NewOrder(o.id, o.side, price, quantity), resting \ {o})
    /\ UNCHANGED seen_order_ids

Next ==
    \/ \E order \in Order : Add(order)
    \/ \E o \in resting :
          \/ Cancel(o)
          \/ \E price \in Prices, quantity \in Quantities : Modify(o, price, quantity)

Spec == Init /\ [][Next]_vars
=============================================================================
