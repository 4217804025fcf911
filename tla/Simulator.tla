----------------------------- MODULE Simulator -----------------------------
(***************************************************************************)
(* src/simulator/ as main.rs drives it: a scenario is chosen or generated, *)
(* run_scenario feeds its commands to a new book, and the metrics of the   *)
(* final book and of the collected trades are reported.                    *)
(*                                                                         *)
(* Identifiers, prices and quantities are machine words of one width (u64  *)
(* in the code); the generators' arithmetic wraps as in a release build.   *)
(* OrderIds are the identifiers that the scenarios considered use.         *)
(***************************************************************************)
EXTENDS OrderBookProperties, Metrics

CONSTANTS
    Configs,  \* the generator configurations callers may use
    Given     \* the command lists callers may pass to run_scenario

\* Wide enough for the literals of scenarios.rs.
ASSUME WordAssumption ==
    /\ OrderIds \subseteq Quantities /\ Prices = Quantities
    /\ QtySpace > 110

\* run_scenario makes its book with OrderBook::new().
ASSUME ScenarioModeAssumption == EventMode = "Full"

ASSUME OutcomeAssumption == None \notin {"Ok", "Failed"}

GeneratorConfig ==
    [order_count: Quantities, start_order_id: Quantities, base_price: Quantities,
     tick_size: Quantities, price_levels: Quantities, quantity: Quantities]
ScenarioCommand ==
         [kind: {"Add"}, order: Order]
    \cup [kind: {"Cancel"}, order_id: OrderIds]
    \cup [kind: {"Modify"}, order_id: OrderIds, new_price: Prices, new_quantity: Quantities]

\* Callers can pass whatever the types allow.
ASSUME ConfigAssumption == Configs \subseteq GeneratorConfig
ASSUME GivenAssumption == Given \subseteq Seq(ScenarioCommand)

VARIABLES
    job,      \* the scenario that was asked for
    next,     \* the command run_scenario looks at
    trades,   \* all_trades
    outcome,  \* "Ok" or "Failed", None while the scenario runs
    entered   \* history: quantity brought into the book, less what was withdrawn

runVars == <<job, next, trades, outcome, entered>>
simVars == <<vars, runVars>>

-----------------------------------------------------------------------------
(* Commands and predefined scenarios.                                      *)

Add(id, side, price, quantity) ==
    [kind |-> "Add", order |-> NewOrder(id, side, price, quantity)]
Cancel(id) == [kind |-> "Cancel", order_id |-> id]
Modify(id, price, quantity) ==
    [kind |-> "Modify", order_id |-> id, new_price |-> price, new_quantity |-> quantity]

SimpleCross == <<Add(1, "Sell", 100, 5), Add(2, "Buy", 100, 2)>>
BuySweepsAsks ==
    <<Add(1, "Sell", 100, 5), Add(2, "Sell", 101, 5), Add(3, "Sell", 102, 5),
      Add(4, "Buy", 102, 12)>>
TwoSidedBook ==
    <<Add(1, "Buy", 100, 10), Add(2, "Buy", 99, 5),
      Add(3, "Sell", 105, 7), Add(4, "Sell", 106, 3)>>
CancelAndModifyFlow ==
    <<Add(1, "Buy", 100, 10), Add(2, "Buy", 101, 5), Cancel(1), Modify(2, 103, 4)>>

-----------------------------------------------------------------------------
(* The generators.  `index` counts from 0, sequences from 1.               *)

Word(x) == x % QtySpace
SaturatingSub(x, y) == IF x < y THEN 0 ELSE x - y
PriceLevels(config) == IF config.price_levels = 0 THEN 1 ELSE config.price_levels
OrderIdAt(config, index) == Word(config.start_order_id + index)

\* A bug: levels count from zero, so that both sides reach the base price.
DistanceAt_FromZero(config, index) ==
    Word((index % PriceLevels(config)) * config.tick_size)

DistanceAt(config, index) ==
    Word(((index % PriceLevels(config)) + 1) * config.tick_size)

GenerateTwoSidedOrders(config) ==
    [i \in 1 .. config.order_count |->
        LET index == i - 1
            side == IF index % 2 = 0 THEN "Buy" ELSE "Sell"
            distance == DistanceAt(config, index)
            price == IF side = "Buy" THEN SaturatingSub(config.base_price, distance)
                     ELSE Word(config.base_price + distance)
        IN  Add(OrderIdAt(config, index), side, price, config.quantity)]

GenerateCrossingOrders(config) ==
    LET split == config.order_count \div 2
        limit == Word(config.base_price + PriceLevels(config) * config.tick_size)
    IN  [i \in 1 .. config.order_count |->
            LET index == i - 1
            IN  IF index < split
                  THEN Add(OrderIdAt(config, index), "Sell",
                           Word(config.base_price + DistanceAt(config, index)),
                           config.quantity)
                  ELSE Add(OrderIdAt(config, index), "Buy", limit, config.quantity)]

-----------------------------------------------------------------------------
(* A job is a scenario of the command line, a generator called with some   *)
(* configuration, or a list of commands.                                   *)

DefaultGeneratorConfig(order_count) ==
    [order_count |-> order_count, start_order_id |-> 1, base_price |-> 100,
     tick_size |-> 1, price_levels |-> 10, quantity |-> 5]

Configurations == Configs \cup {DefaultGeneratorConfig(n) : n \in 0 .. 24}
IdentifiersOf(config) ==
    {OrderIdAt(config, index) : index \in 0 .. config.order_count - 1}

ASSUME IdentifierAssumption ==
    /\ 1 .. 4 \subseteq OrderIds
    /\ \A config \in Configurations : IdentifiersOf(config) \subseteq OrderIds

Named == [kind: {"simple-cross", "buy-sweeps-asks", "cancel-and-modify",
                 "two-sided-book", "unknown"}]
Generated == [kind: {"synthetic", "synthetic-crossing"}, config: Configurations]
Jobs == Named \cup Generated \cup [kind: {"given"}, commands: Given]

CommandsFor(j) ==
    CASE j.kind = "simple-cross" -> SimpleCross
      [] j.kind = "buy-sweeps-asks" -> BuySweepsAsks
      [] j.kind = "cancel-and-modify" -> CancelAndModifyFlow
      [] j.kind = "two-sided-book" -> TwoSidedBook
      [] j.kind = "synthetic" -> GenerateTwoSidedOrders(j.config)
      [] j.kind = "synthetic-crossing" -> GenerateCrossingOrders(j.config)
      [] j.kind = "given" -> j.commands
      [] OTHER -> << >>

-----------------------------------------------------------------------------
SimInit ==
    /\ Init
    /\ job \in Jobs
    /\ next = 1
    /\ trades = << >>
    /\ outcome = None
    /\ entered = 0

\* exit_unknown_scenario
RejectName ==
    /\ job.kind = "unknown" /\ outcome = None
    /\ outcome' = "Failed"
    /\ UNCHANGED <<vars, job, next, trades, entered>>

Running == outcome = None /\ job.kind # "unknown" /\ call = None
Looking(kind) ==
    /\ Running
    /\ next <= Len(CommandsFor(job))
    /\ CommandsFor(job)[next].kind = kind
Current == CommandsFor(job)[next]

\* A command that the book rejects ends the scenario (`?`).
Run(accepted, rejected, quantity) ==
    /\ \/ /\ accepted
          /\ entered' = entered + quantity
          /\ UNCHANGED outcome
       \/ /\ rejected
          /\ outcome' = "Failed"
          /\ UNCHANGED entered
    /\ next' = next + 1
    /\ UNCHANGED <<job, trades>>

RunAdd ==
    /\ Looking("Add")
    /\ Run(AddOrder(Current.order),
           AddZeroQuantity(Current.order) \/ AddDuplicate(Current.order),
           Current.order.remaining_qty)

RunCancel ==
    /\ Looking("Cancel")
    /\ Run(CancelOrder(Current.order_id), CancelUnknown(Current.order_id),
           - Remaining(book, Current.order_id))

RunModify ==
    /\ Looking("Modify")
    /\ Run(ModifyOrder(Current.order_id, Current.new_price, Current.new_quantity),
           \/ ModifyZeroQuantity(Current.order_id, Current.new_quantity)
           \/ ModifyUnknown(Current.order_id, Current.new_quantity),
           Current.new_quantity - Remaining(book, Current.order_id))

Matching == FillStep /\ UNCHANGED runVars

\* A bug: only the trades of new orders are collected.
Collected_OfAdds(c) == IF c.kind = "Add" THEN c.trades ELSE << >>

Collected(c) == c.trades

\* The command returns its trades: all_trades.extend(trades).
Collect ==
    /\ FinishCall
    /\ trades' = trades \o Collected(call)
    /\ UNCHANGED <<job, next, outcome, entered>>

Return ==
    /\ Running
    /\ next > Len(CommandsFor(job))
    /\ outcome' = "Ok"
    /\ UNCHANGED <<vars, job, next, trades, entered>>

SimNext ==
    \/ RejectName
    \/ RunAdd
    \/ RunCancel
    \/ RunModify
    \/ Matching
    \/ Collect
    \/ Return

\* One thread, which never waits.
SimSpec == SimInit /\ [][SimNext]_simVars /\ WF_simVars(SimNext)

\* What the replay mode of main.rs reads back: the trades in an event log.
TradesFromEvents(log) ==
    LET found[i \in 0 .. Len(log)] ==
          IF i = 0 THEN << >>
          ELSE IF log[i].kind = "TradeExecuted" THEN Append(found[i - 1], log[i].trade)
          ELSE found[i - 1]
    IN  found[Len(log)]

-----------------------------------------------------------------------------
BetweenCommands == call = None /\ outcome # "Failed"
Depth == BookMetrics(Snapshot(book))
Execution == TradeMetrics(trades)

\* The books balance over a whole scenario, whatever the commands and wherever
\* words wrap: what entered is either visible in the totals of the snapshot or
\* was traded, once by a maker and once by a taker.  The trades that are
\* collected are those in the log, so that replaying the log reports the same.
ScenarioBalances ==
    BetweenCommands =>
        /\ Word(entered) = Word(Depth.total_bid_quantity + Depth.total_ask_quantity
                                  + 2 * Execution.total_traded_quantity)
        /\ trades = TradesFromEvents(events)

\* Sums without a width, to say when a total did not wrap.
TrueTraded == FoldFunction(LAMBDA trade, sum : sum + trade.quantity, 0, trades)
RestingOf(side) == {o \in RestingOrders(book) : o.side = side}

\* Mid prices in an f64 lie between the touch as an f64, and strictly inside
\* while the sum of bid and ask is exact.
MidInside(bid, ask, mid) ==
    /\ AsFloat(bid) <= mid /\ mid <= AsFloat(ask)
    /\ bid + ask <= Exact => bid * Fine < mid /\ mid < ask * Fine

\* While the depth fits in a word the imbalance is a share of it, absent only
\* of an empty book, all for bids alone and nothing for asks alone; while the
\* depth is exact in an f64 the larger side has at least one half.
ImbalanceTells(imbalance) ==
    LET depth == UnitsOf(RestingOrders(book))
        bids == UnitsOf(RestingOf("Buy"))
        asks == UnitsOf(RestingOf("Sell"))
    IN  depth < QtySpace =>
          /\ imbalance = None <=> RestingOrders(book) = {}
          /\ imbalance # None =>
                /\ imbalance \in 0 .. Fine
                /\ RestingOf("Sell") = {} => imbalance = Fine
                /\ RestingOf("Buy") = {} => imbalance = 0
                /\ depth <= Exact =>
                      /\ bids >= asks => 2 * imbalance >= Fine
                      /\ bids <= asks => 2 * imbalance <= Fine

\* While the traded quantity fits in a word the average price is absent only
\* without a trade; while the sums and prices are exact in an f64 it lies
\* between the lowest and the highest price paid.
AverageTells(vwap) ==
    LET paid == {trades[i].price : i \in DOMAIN trades}
    IN  TrueTraded < QtySpace =>
          /\ vwap = None <=> trades = << >>
          /\ vwap # None /\ {TrueTraded, Notional(trades)} \cup paid \subseteq 0 .. Exact =>
                Min(paid) * Fine <= vwap /\ vwap <= Max(paid) * Fine

\* The reported prices are those of the book: the touch is the best price of
\* each side, a spread and a mid price exist exactly when both sides do, and
\* what is computed in f64 says of book and trades what it should, as far as
\* neither words wrap nor conversions round.
MetricsInRange ==
    BetweenCommands =>
        LET bids == {o.price : o \in RestingOf("Buy")}
            asks == {o.price : o \in RestingOf("Sell")}
            m == Depth
        IN  /\ m.best_bid = IF bids = {} THEN None ELSE Max(bids)
            /\ m.best_ask = IF asks = {} THEN None ELSE Min(asks)
            /\ IF bids = {} \/ asks = {}
                 THEN m.spread = None /\ m.mid_price = None
                 ELSE /\ m.spread = m.best_ask - m.best_bid /\ m.spread > 0
                      /\ MidInside(m.best_bid, m.best_ask, m.mid_price)
            /\ ImbalanceTells(m.imbalance)
            /\ AverageTells(Execution.vwap)

\* A configuration whose prices fit, with a tick and a quantity.
Sane(config) ==
    /\ config.tick_size > 0 /\ config.quantity > 0
    /\ config.base_price + PriceLevels(config) * config.tick_size < QtySpace

\* "This avoids accidental crossing and builds a visible two-sided book";
\* "Second half sends buy orders that cross those asks and create trades".
\* A sane configuration gives a scenario that runs to its end: of the first
\* kind every order rests, buys below the base price and sells above it; of
\* the second every ask above the base price is taken by one buy, the cheapest
\* first, and at most one buy is left over.
GeneratedAsPromised ==
    job.kind \in {"synthetic", "synthetic-crossing"} /\ Sane(job.config) =>
        LET config == job.config
            pairs == config.order_count \div 2
        IN  /\ outcome # "Failed"
            /\ outcome = "Ok" /\ job.kind = "synthetic" =>
                  /\ trades = << >>
                  /\ Cardinality(RestingOf("Sell")) = pairs
                  /\ Cardinality(RestingOf("Buy")) = config.order_count - pairs
                  /\ \A o \in RestingOf("Sell") : o.price > config.base_price
                  /\ \A o \in RestingOf("Buy") :
                        o.price < config.base_price \/ config.base_price = 0
            /\ outcome = "Ok" /\ job.kind = "synthetic-crossing" =>
                  /\ Len(trades) = pairs
                  /\ \A i \in 1 .. pairs : trades[i].price > config.base_price
                  /\ \A i \in 2 .. pairs : trades[i - 1].price <= trades[i].price
                  /\ RestingOf("Sell") = {}
                  /\ Cardinality(RestingOf("Buy")) = config.order_count - 2 * pairs

\* Every scenario ends, whatever its commands: each loop of the matching engine
\* terminates, and so does the loop over the commands.
ScenarioEnds == <>(outcome # None)
=============================================================================
