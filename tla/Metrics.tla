------------------------------ MODULE Metrics ------------------------------
(***************************************************************************)
(* src/metrics/: what is reported of a snapshot and of a list of trades.   *)
(* Sums of quantities are machine words, which wrap in a release build (a  *)
(* debug build panics instead); the notional has twice the width, like the *)
(* u128 of the code.  Mid price, imbalance and average price are f64.      *)
(***************************************************************************)
EXTENDS RestingBook, FloatingPoint

\* No result overflows: an f64 reaches beyond every u128, and the double of an
\* f64 in the range of a word is another one.
ASSUME RangeAssumption ==
    /\ {QtySpace * Fine, QtySpace * QtySpace * Fine} \subseteq Floats
    /\ \A f \in Floats : f <= QtySpace * Fine => 2 * f \in Floats

\* A bug: the levels of both sides are listed in the order of the map.
BestOf_FirstKey(snapshot, side) ==
    IF snapshot[side] = EmptyMap THEN None
    ELSE CHOOSE p \in DOMAIN snapshot[side] :
            \A q \in DOMAIN snapshot[side] : p <= q

\* The first level a snapshot lists of a side is its best one.
BestOf(snapshot, side) ==
    IF snapshot[side] = EmptyMap THEN None
    ELSE CHOOSE p \in DOMAIN snapshot[side] :
            \A q \in DOMAIN snapshot[side] : ~ Outranks(side, q, p)

QuantityOf(queue) ==
    FoldFunction(LAMBDA order, sum : (sum + order.remaining_qty) % QtySpace, 0, queue)

TotalQuantity(snapshot, side) ==
    FoldFunction(LAMBDA queue, sum : (sum + QuantityOf(queue)) % QtySpace,
                 0, snapshot[side])

BookMetrics(snapshot) ==
    LET bid == BestOf(snapshot, "Buy")
        ask == BestOf(snapshot, "Sell")
        bids == TotalQuantity(snapshot, "Buy")
        asks == TotalQuantity(snapshot, "Sell")
        total == (bids + asks) % QtySpace
    IN  [best_bid |-> bid,
         best_ask |-> ask,
         spread |-> IF None \notin {bid, ask} /\ ask >= bid THEN ask - bid ELSE None,
         mid_price |-> IF None \notin {bid, ask}
                         THEN FloatHalf(FloatSum(AsFloat(bid), AsFloat(ask))) ELSE None,
         total_bid_quantity |-> bids,
         total_ask_quantity |-> asks,
         bid_price_levels |-> Cardinality(DOMAIN snapshot["Buy"]),
         ask_price_levels |-> Cardinality(DOMAIN snapshot["Sell"]),
         imbalance |-> IF total = 0 THEN None
                       ELSE FloatQuotient(AsFloat(bids), AsFloat(total))]

Traded(trades) ==
    FoldFunction(LAMBDA trade, sum : (sum + trade.quantity) % QtySpace, 0, trades)
Notional(trades) ==
    FoldFunction(LAMBDA trade, sum : (sum + trade.price * trade.quantity)
                                        % (QtySpace * QtySpace),
                 0, trades)

TradeMetrics(trades) ==
    [trade_count |-> Len(trades),
     total_traded_quantity |-> Traded(trades),
     total_notional |-> Notional(trades),
     last_trade_price |-> IF trades = << >> THEN None ELSE trades[Len(trades)].price,
     vwap |-> IF Traded(trades) = 0 THEN None
              ELSE FloatQuotient(AsFloat(Notional(trades)), AsFloat(Traded(trades)))]
=============================================================================
