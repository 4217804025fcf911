---------------------------- MODULE MCSimulator ----------------------------
(* Configurations and command lists for checking the simulator with TLC. *)
EXTENDS Simulator

Words == 0 .. QtySpace - 1

\* Floats of four significant bits, the smallest of which is 1/16: of the words
\* up to 127, those above 16 are rounded.
MCFloats == {m * 2^e : m \in 0 .. Exact, e \in 0 .. 14}

\* Zero ticks, levels and quantities, prices next to both ends of the range,
\* products that wrap, identifiers that wrap.
MCConfigs ==
    [order_count: {0, 1, 2, 5, 8}, start_order_id: {1, 126}, base_price: {0, 1, 3, 50, 120},
     tick_size: {0, 1, 2, 64}, price_levels: 0 .. 3, quantity: {0, 1, 5, 100}]

\* Two orders of 100 do not fit in a word of 128 values.
MCCommands ==
    {Add(1, "Sell", 2, 3), Add(1, "Buy", 2, 2), Add(2, "Buy", 3, 100),
     Add(2, "Sell", 3, 0), Add(3, "Sell", 3, 100), Add(3, "Buy", 1, 100),
     Cancel(1), Cancel(2), Modify(1, 3, 60), Modify(2, 2, 1), Modify(3, 2, 100),
     Modify(2, 1, 0)}
MCGiven == UNION {[1 .. n -> MCCommands] : n \in 0 .. 4}
=============================================================================
