-------------------------- MODULE SimulatorProofs --------------------------
(***************************************************************************)
(* A scenario is a behaviour of the matching engine, whose invariants      *)
(* therefore hold throughout, and what is reported of it is right: the     *)
(* quantities balance, the metrics are those of the book, and generated    *)
(* orders do what the generators promise.  All this for every width of a   *)
(* machine word and every list of commands that the types allow.           *)
(***************************************************************************)
EXTENDS Simulator, OrderBookProofs

-----------------------------------------------------------------------------
(* The commands of a job.                                                  *)

LEMMA Literals ==
    /\ \A n \in 1 .. 110 : n \in Quantities
    /\ \A x \in Int : Word(x) \in Quantities
    /\ \A x, y \in Quantities : SaturatingSub(x, y) \in Quantities
    /\ Quantities \subseteq Nat
    /\ "Buy" \in Sides /\ "Sell" \in Sides
<1>1. QtySpace \in Nat /\ QtySpace > 110
  BY WordAssumption, QtyAssumption
<1>2. \A n \in 1 .. 110 : n \in Quantities
  BY <1>1 DEF Quantities
<1>3. \A x \in Int : Word(x) \in Quantities
  BY WrapFacts DEF Word
<1>4. \A x, y \in Quantities : SaturatingSub(x, y) \in Quantities
  BY <1>1 DEF Quantities, SaturatingSub
<1>5. Quantities \subseteq Nat
  BY <1>1 DEF Quantities
<1> QED
  BY <1>2, <1>3, <1>4, <1>5 DEF Sides

LEMMA CommandTypes ==
    /\ \A id \in OrderIds, price, quantity \in Quantities, side \in Sides :
          Add(id, side, price, quantity) \in ScenarioCommand
    /\ \A id \in OrderIds : Cancel(id) \in ScenarioCommand
    /\ \A id \in OrderIds, price, quantity \in Quantities :
          Modify(id, price, quantity) \in ScenarioCommand
<1>1. \A id \in OrderIds, price, quantity \in Quantities, side \in Sides :
        NewOrder(id, side, price, quantity) \in Order
  BY WordAssumption DEF NewOrder, Order
<1>2. \A order \in Order : [kind |-> "Add", order |-> order] \in ScenarioCommand
  BY DEF ScenarioCommand
<1>3. \A id \in OrderIds : Cancel(id) \in ScenarioCommand
  BY DEF Cancel, ScenarioCommand
<1>4. \A id \in OrderIds, price, quantity \in Quantities :
        Modify(id, price, quantity) \in ScenarioCommand
  BY WordAssumption DEF Modify, ScenarioCommand
<1> QED
  BY <1>1, <1>2, <1>3, <1>4 DEF Add

LEMMA PredefinedTypes ==
    /\ SimpleCross \in Seq(ScenarioCommand)
    /\ BuySweepsAsks \in Seq(ScenarioCommand)
    /\ TwoSidedBook \in Seq(ScenarioCommand)
    /\ CancelAndModifyFlow \in Seq(ScenarioCommand)
<1>1. /\ 1 \in Quantities /\ 2 \in Quantities /\ 3 \in Quantities /\ 4 \in Quantities
      /\ 5 \in Quantities /\ 7 \in Quantities /\ 10 \in Quantities /\ 12 \in Quantities
      /\ 99 \in Quantities /\ 100 \in Quantities /\ 101 \in Quantities
      /\ 102 \in Quantities /\ 103 \in Quantities /\ 105 \in Quantities
      /\ 106 \in Quantities /\ "Buy" \in Sides /\ "Sell" \in Sides
      /\ 1 \in OrderIds /\ 2 \in OrderIds /\ 3 \in OrderIds /\ 4 \in OrderIds
  BY Literals, IdentifierAssumption
<1>2. \A a, b, c, d \in ScenarioCommand :
        /\ <<a, b>> \in Seq(ScenarioCommand)
        /\ <<a, b, c, d>> \in Seq(ScenarioCommand)
  OBVIOUS
<1>3. SimpleCross \in Seq(ScenarioCommand)
  <2>1. Add(1, "Sell", 100, 5) \in ScenarioCommand /\ Add(2, "Buy", 100, 2) \in ScenarioCommand
    BY <1>1, CommandTypes, Zenon
  <2> QED
    BY <1>2, <2>1 DEF SimpleCross
<1>4. BuySweepsAsks \in Seq(ScenarioCommand)
  <2>1. /\ Add(1, "Sell", 100, 5) \in ScenarioCommand
        /\ Add(2, "Sell", 101, 5) \in ScenarioCommand
        /\ Add(3, "Sell", 102, 5) \in ScenarioCommand
        /\ Add(4, "Buy", 102, 12) \in ScenarioCommand
    BY <1>1, CommandTypes, Zenon
  <2> QED
    BY <1>2, <2>1 DEF BuySweepsAsks
<1>5. TwoSidedBook \in Seq(ScenarioCommand)
  <2>1. /\ Add(1, "Buy", 100, 10) \in ScenarioCommand
        /\ Add(2, "Buy", 99, 5) \in ScenarioCommand
        /\ Add(3, "Sell", 105, 7) \in ScenarioCommand
        /\ Add(4, "Sell", 106, 3) \in ScenarioCommand
    BY <1>1, CommandTypes, Zenon
  <2> QED
    BY <1>2, <2>1 DEF TwoSidedBook
<1>6. CancelAndModifyFlow \in Seq(ScenarioCommand)
  <2>1. /\ Add(1, "Buy", 100, 10) \in ScenarioCommand
        /\ Add(2, "Buy", 101, 5) \in ScenarioCommand
        /\ Cancel(1) \in ScenarioCommand
        /\ Modify(2, 103, 4) \in ScenarioCommand
    BY <1>1, CommandTypes, Zenon
  <2> QED
    BY <1>2, <2>1 DEF CancelAndModifyFlow
<1> QED
  BY <1>3, <1>4, <1>5, <1>6

\* What the generators compute are words, whatever the configuration.
LEMMA GeneratorFacts ==
    ASSUME NEW config \in GeneratorConfig
    PROVE  /\ PriceLevels(config) \in Nat \ {0}
           /\ \A index \in Nat : DistanceAt(config, index) \in Quantities
           /\ IdentifiersOf(config) \subseteq OrderIds =>
                 /\ GenerateTwoSidedOrders(config) \in Seq(ScenarioCommand)
                 /\ GenerateCrossingOrders(config) \in Seq(ScenarioCommand)
<1>0. /\ config.order_count \in Nat /\ config.start_order_id \in Nat
      /\ config.base_price \in Nat /\ config.tick_size \in Nat
      /\ config.price_levels \in Nat
      /\ config.base_price \in Quantities /\ config.quantity \in Quantities
  BY Literals DEF GeneratorConfig
<1>1. PriceLevels(config) \in Nat \ {0}
  BY <1>0 DEF PriceLevels
<1>3. \A index \in Nat : DistanceAt(config, index) \in Quantities
  <2> SUFFICES ASSUME NEW index \in Nat PROVE DistanceAt(config, index) \in Quantities
    OBVIOUS
  <2>1. (index % PriceLevels(config)) + 1 \in Int
    BY <1>1
  <2>2. ((index % PriceLevels(config)) + 1) * config.tick_size \in Int
    BY <1>0, <2>1
  <2> QED
    BY <2>2, Literals DEF DistanceAt
<1>4. \A index \in Nat :
        /\ SaturatingSub(config.base_price, DistanceAt(config, index)) \in Quantities
        /\ Word(config.base_price + DistanceAt(config, index)) \in Quantities
  <2> TAKE index \in Nat
  <2>1. DistanceAt(config, index) \in Quantities /\ DistanceAt(config, index) \in Nat
    BY <1>3, Literals
  <2>2. config.base_price + DistanceAt(config, index) \in Int
    BY <1>0, <2>1
  <2> QED
    BY <1>0, <2>1, <2>2, Literals
<1>5. Word(config.base_price + PriceLevels(config) * config.tick_size) \in Quantities
  <2>1. PriceLevels(config) * config.tick_size \in Int
    BY <1>0, <1>1
  <2>2. config.base_price + PriceLevels(config) * config.tick_size \in Int
    BY <1>0, <2>1
  <2> QED
    BY <2>2, Literals
<1>2. ASSUME IdentifiersOf(config) \subseteq OrderIds, NEW i \in 1 .. config.order_count
      PROVE  OrderIdAt(config, i - 1) \in OrderIds
  <2>1. i - 1 \in 0 .. config.order_count - 1
    BY <1>0
  <2> QED
    BY <1>2, <2>1 DEF IdentifiersOf
<1>6. ASSUME IdentifiersOf(config) \subseteq OrderIds
      PROVE  GenerateTwoSidedOrders(config) \in Seq(ScenarioCommand)
  <2> DEFINE C(i) ==
        LET index == i - 1
            side == IF index % 2 = 0 THEN "Buy" ELSE "Sell"
            distance == DistanceAt(config, index)
            price == IF side = "Buy" THEN SaturatingSub(config.base_price, distance)
                     ELSE Word(config.base_price + distance)
        IN  Add(OrderIdAt(config, index), side, price, config.quantity)
  <2>1. \A i \in 1 .. config.order_count : C(i) \in ScenarioCommand
    <3> TAKE i \in 1 .. config.order_count
    <3>1. i - 1 \in Nat
      BY <1>0
    <3>2. OrderIdAt(config, i - 1) \in OrderIds
      BY <1>2, <1>6
    <3> QED
      BY <1>0, <1>4, <3>1, <3>2, CommandTypes, Literals
  <2>2. GenerateTwoSidedOrders(config) = [i \in 1 .. config.order_count |-> C(i)]
    BY DEF GenerateTwoSidedOrders
  <2> HIDE DEF C
  <2> QED
    BY <1>0, <2>1, <2>2
<1>7. ASSUME IdentifiersOf(config) \subseteq OrderIds
      PROVE  GenerateCrossingOrders(config) \in Seq(ScenarioCommand)
  <2> DEFINE split == config.order_count \div 2
             limit == Word(config.base_price + PriceLevels(config) * config.tick_size)
             C(i) ==
               LET index == i - 1
               IN  IF index < split
                     THEN Add(OrderIdAt(config, index), "Sell",
                              Word(config.base_price + DistanceAt(config, index)),
                              config.quantity)
                     ELSE Add(OrderIdAt(config, index), "Buy", limit, config.quantity)
  <2>1. \A i \in 1 .. config.order_count : C(i) \in ScenarioCommand
    <3> HIDE DEF limit, split
    <3> TAKE i \in 1 .. config.order_count
    <3>1. i - 1 \in Nat
      BY <1>0
    <3>2. OrderIdAt(config, i - 1) \in OrderIds /\ limit \in Quantities
      BY <1>2, <1>5, <1>7 DEF limit
    <3> QED
      BY <1>0, <1>4, <3>1, <3>2, CommandTypes, Literals
  <2>2. GenerateCrossingOrders(config) = [i \in 1 .. config.order_count |-> C(i)]
    BY DEF GenerateCrossingOrders
  <2> HIDE DEF C
  <2> QED
    BY <1>0, <2>1, <2>2
<1> QED
  BY <1>1, <1>3, <1>6, <1>7

LEMMA JobConfigs ==
    \A j \in Jobs : j.kind \in {"synthetic", "synthetic-crossing"} =>
                       /\ j.config \in GeneratorConfig
                       /\ IdentifiersOf(j.config) \subseteq OrderIds
<1>1. \A n \in 0 .. 24 : DefaultGeneratorConfig(n) \in GeneratorConfig
  <2>1. \A n \in 0 .. 24 : n \in Quantities
    BY WordAssumption, QtyAssumption DEF Quantities
  <2> QED
    BY <2>1, Literals DEF DefaultGeneratorConfig, GeneratorConfig
<1> QED
  BY <1>1, ConfigAssumption, IdentifierAssumption DEF Jobs, Named, Generated, Configurations

\* Whatever the job, the commands are of the types that run_scenario takes.
LEMMA JobCommands ==
    ASSUME NEW j \in Jobs
    PROVE  CommandsFor(j) \in Seq(ScenarioCommand)
<1>1. CASE j \in Named
  BY <1>1, PredefinedTypes DEF Named, CommandsFor
<1>2. CASE j \in Generated
  <2>1. /\ j.config \in GeneratorConfig /\ j.kind \in {"synthetic", "synthetic-crossing"}
        /\ IdentifiersOf(j.config) \subseteq OrderIds
    BY <1>2, JobConfigs DEF Generated, Jobs
  <2> QED
    BY <2>1, GeneratorFacts DEF CommandsFor
<1>3. CASE j \in [kind : {"given"}, commands : Given]
  BY <1>3, GivenAssumption DEF CommandsFor
<1> QED
  BY <1>1, <1>2, <1>3 DEF Jobs

\* The command that is looked at.
LEMMA CurrentTypes ==
    ASSUME job \in Jobs, next \in Nat \ {0}, next <= Len(CommandsFor(job))
    PROVE  /\ Current.kind \in {"Add", "Cancel", "Modify"}
           /\ Current.kind = "Add" => Current.order \in Order
           /\ Current.kind = "Cancel" => Current.order_id \in OrderIds
           /\ Current.kind = "Modify" => /\ Current.order_id \in OrderIds
                                         /\ Current.new_price \in Prices
                                         /\ Current.new_quantity \in Quantities
<1>1. CommandsFor(job) \in Seq(ScenarioCommand)
  BY JobCommands
<1>2. Current \in ScenarioCommand
  BY <1>1 DEF Current
<1> QED
  BY <1>2 DEF ScenarioCommand

-----------------------------------------------------------------------------
(* A scenario is a behaviour of the engine.                                *)

ScenarioTypes ==
    /\ job \in Jobs
    /\ next \in Nat \ {0}
    /\ trades \in Seq(Trade)
    /\ outcome \in {None, "Ok", "Failed"}
    /\ entered \in Int
    /\ outcome # None \/ job.kind = "unknown" => call = None

\* Each command is one that some caller may issue, with its own arguments.
LEMMA StepOfEngine == ScenarioTypes /\ [SimNext]_simVars => [Next]_vars
<1> SUFFICES ASSUME ScenarioTypes, [SimNext]_simVars PROVE [Next]_vars
  OBVIOUS
<1> USE DEF ScenarioTypes
<1>1. CASE RejectName
  BY <1>1 DEF RejectName, vars
<1>2. CASE RunAdd
  <2>1. Current.order \in Order
    BY <1>2, CurrentTypes DEF RunAdd, Looking, Current
  <2>2. \/ AddOrder(Current.order)
        \/ AddZeroQuantity(Current.order) \/ AddDuplicate(Current.order)
    BY <1>2 DEF RunAdd, Run
  <2> QED
    BY <2>1, <2>2 DEF Next, Command
<1>3. CASE RunCancel
  <2>1. Current.order_id \in OrderIds
    BY <1>3, CurrentTypes DEF RunCancel, Looking, Current
  <2>2. CancelOrder(Current.order_id) \/ CancelUnknown(Current.order_id)
    BY <1>3 DEF RunCancel, Run
  <2> QED
    BY <2>1, <2>2 DEF Next, Command
<1>4. CASE RunModify
  <2>1. /\ Current.order_id \in OrderIds
        /\ Current.new_price \in Prices
        /\ Current.new_quantity \in Quantities
    BY <1>4, CurrentTypes DEF RunModify, Looking, Current
  <2>2. \/ ModifyOrder(Current.order_id, Current.new_price, Current.new_quantity)
        \/ ModifyZeroQuantity(Current.order_id, Current.new_quantity)
        \/ ModifyUnknown(Current.order_id, Current.new_quantity)
    BY <1>4 DEF RunModify, Run
  <2> QED
    BY <2>1, <2>2 DEF Next, Command
<1>5. CASE Matching
  BY <1>5 DEF Matching, Next
<1>6. CASE Collect
  BY <1>6 DEF Collect, Next
<1>7. CASE Return
  BY <1>7 DEF Return, vars
<1>8. CASE UNCHANGED simVars
  BY <1>8 DEF simVars
<1> QED
  BY <1>1, <1>2, <1>3, <1>4, <1>5, <1>6, <1>7, <1>8 DEF SimNext

LEMMA TypesStep ==
    ASSUME ScenarioTypes, Inductive, [SimNext]_simVars
    PROVE  ScenarioTypes'
<1> USE DEF ScenarioTypes
<1>0. \A q \in Quantities : q \in Nat
  BY Literals
<1>1. CASE RejectName
  BY <1>1 DEF RejectName, vars
<1>2. CASE RunAdd
  <2>1. Current.order.remaining_qty \in Nat
    BY <1>0, <1>2, CurrentTypes DEF RunAdd, Looking, Current, Order
  <2> QED
    BY <1>2, <2>1 DEF RunAdd, Run, Looking, Running, AddZeroQuantity, AddDuplicate, Reject
<1>3. CASE RunCancel
  <2>1. Current.order_id \in OrderIds
    BY <1>3, CurrentTypes DEF RunCancel, Looking, Current
  <2>2. Remaining(book, Current.order_id) \in Nat
    BY <2>1, HeldType
  <2> QED
    BY <1>3, <2>2 DEF RunCancel, Run, Looking, Running, CancelUnknown, Reject
<1>4. CASE RunModify
  <2>1. Current.order_id \in OrderIds /\ Current.new_quantity \in Nat
    BY <1>0, <1>4, CurrentTypes DEF RunModify, Looking, Current
  <2>2. Remaining(book, Current.order_id) \in Nat
    BY <2>1, HeldType
  <2> QED
    BY <1>4, <2>1, <2>2
    DEF RunModify, Run, Looking, Running, ModifyZeroQuantity, ModifyUnknown, Reject
<1>5. CASE Matching
  BY <1>5 DEF Matching, runVars, FillStep
<1>6. CASE Collect
  <2>1. call.trades \in Seq(Trade)
    BY <1>6 DEF Collect, FinishCall, Inductive, TypeOK, Call
  <2> QED
    BY <1>6, <2>1 DEF Collect, Collected, FinishCall
<1>7. CASE Return
  BY <1>7 DEF Return, vars, Running
<1>8. CASE UNCHANGED simVars
  BY <1>8 DEF simVars, runVars, vars
<1> QED
  BY <1>1, <1>2, <1>3, <1>4, <1>5, <1>6, <1>7, <1>8 DEF SimNext

LEMMA ScenarioTypesAlways == SimSpec => [](ScenarioTypes /\ Inductive)
<1>1. SimInit => ScenarioTypes /\ Inductive
  BY InitInductive DEF SimInit, ScenarioTypes, Init
<1>2. (ScenarioTypes /\ Inductive) /\ [SimNext]_simVars => (ScenarioTypes /\ Inductive)'
  BY TypesStep, StepOfEngine, StepInductive
<1> QED
  BY <1>1, <1>2, PTL DEF SimSpec

\* run_scenario is a caller of the matching engine like any other: every step of
\* a scenario is a step of OrderBook or changes nothing there, so that all that
\* is proved of OrderBook holds of the book of a scenario.
THEOREM ScenariosRunTheEngine == SimSpec => Spec
<1>1. SimInit => Init
  BY DEF SimInit
<1>2. (ScenarioTypes /\ Inductive) /\ [SimNext]_simVars => [Next]_vars
  BY StepOfEngine
<1> QED
  BY <1>1, <1>2, ScenarioTypesAlways, PTL DEF SimSpec, Spec

-----------------------------------------------------------------------------
(* Totals: sums of weights over a finite set, and the folds that the       *)
(* metrics are written with.                                               *)

\* Induction over the subsets of a finite set.
LEMMA SubsetInduction ==
    ASSUME NEW S, IsFiniteSet(S), NEW P, {} \in P,
           \A T \in SUBSET S : T # {} /\ (\A x \in T : T \ {x} \in P) => T \in P
    PROVE  \A T \in SUBSET S : T \in P
<1> DEFINE N == {n \in Nat : \A T \in SUBSET S : Cardinality(T) = n => T \in P}
<1>0. \A T \in SUBSET S : IsFiniteSet(T) /\ Cardinality(T) \in Nat
  BY FS_Subset, FS_CardinalityType
<1>1. 0 \in N
  BY <1>0, FS_EmptySet
<1>2. ASSUME NEW n \in Nat, n \in N PROVE n + 1 \in N
  <2> SUFFICES ASSUME NEW T \in SUBSET S, Cardinality(T) = n + 1 PROVE T \in P
    OBVIOUS
  <2>1. T # {}
    BY <1>0, FS_EmptySet
  <2>2. \A x \in T : T \ {x} \in SUBSET S /\ Cardinality(T \ {x}) = n
    <3> TAKE x \in T
    <3>1. Cardinality(T \ {x}) = Cardinality(T) - 1
      BY <1>0, FS_RemoveElement
    <3> QED
      BY <3>1
  <2> QED
    BY <1>2, <2>1, <2>2
<1> HIDE DEF N
<1>3. \A n \in Nat : n \in N
  BY <1>1, <1>2, SetInduction
<1> QED
  BY <1>0, <1>3 DEF N

\* The total of the weights w[x] of the elements x of S.
Weighed(w, S) == {[key |-> x, remaining_qty |-> w[x]] : x \in S}
Total(w, S) == UnitsOf(Weighed(w, S))

LEMMA WeighedFacts ==
    ASSUME NEW S, IsFiniteSet(S), NEW w, \A x \in S : w[x] \in Nat
    PROVE  /\ IsFiniteSet(Weighed(w, S))
           /\ \A o \in Weighed(w, S) : o.remaining_qty \in Nat
<1> DEFINE f == [x \in S |-> [key |-> x, remaining_qty |-> w[x]]]
<1>1. f \in Surjection(S, Weighed(w, S))
  BY DEF Surjection, Weighed
<1> HIDE DEF f
<1> QED
  BY <1>1, FS_Surjection DEF Weighed

LEMMA TotalFacts ==
    ASSUME NEW S, IsFiniteSet(S), NEW w, \A x \in S : w[x] \in Nat
    PROVE  /\ Total(w, S) \in Nat
           /\ Total(w, {}) = 0
           /\ \A x \in S : Total(w, S) = Total(w, S \ {x}) + w[x]
<1>1. Total(w, S) \in Nat
  BY WeighedFacts, TallyStep DEF Total
<1>2. Total(w, {}) = 0
  <2>1. Weighed(w, {}) = {}
    BY DEF Weighed
  <2>2. IsFiniteSet({})
    BY FS_EmptySet
  <2> QED
    BY <2>1, <2>2, TallyStep DEF Total
<1>3. ASSUME NEW x \in S PROVE Total(w, S) = Total(w, S \ {x}) + w[x]
  <2> DEFINE W == Weighed(w, S \ {x})
             o == [key |-> x, remaining_qty |-> w[x]]
  <2>1. IsFiniteSet(S \ {x})
    BY FS_Subset
  <2>2. IsFiniteSet(W) /\ \A y \in W : y.remaining_qty \in Nat
    BY <2>1, WeighedFacts
  <2>3. o \notin W /\ o.remaining_qty = w[x] /\ o.remaining_qty \in Nat
    BY DEF Weighed
  <2>4. Weighed(w, S) = W \cup {o}
    BY DEF Weighed
  <2> HIDE DEF o, W
  <2>5. UnitsOf(W \cup {o}) = UnitsOf(W) + o.remaining_qty
    BY <2>2, <2>3, TallyWith
  <2> QED
    BY <2>3, <2>4, <2>5 DEF Total, W
<1> QED
  BY <1>1, <1>2, <1>3

LEMMA TotalAgrees ==
    ASSUME NEW S, NEW v, NEW w, \A x \in S : v[x] = w[x]
    PROVE  Total(v, S) = Total(w, S)
<1>1. Weighed(v, S) = Weighed(w, S)
  BY DEF Weighed
<1> QED
  BY <1>1 DEF Total

\* A fold that adds weights and wraps at M, or not at all if M is 0, as a
\* function of the set that is folded over.
Wrapped(x, M) == IF M = 0 THEN x ELSE x % M
FoldOf(f, v, M, T) ==
    IF T = {} THEN 0
    ELSE LET x == CHOOSE y \in T : TRUE IN Wrapped(f[T \ {x}] + v[x], M)
IsFold(f, v, M, S) == f = [T \in SUBSET S |-> FoldOf(f, v, M, T)]

\* Adding weights that wrap is adding weights and wrapping once.
LEMMA WrapBoth ==
    ASSUME NEW M \in Nat, NEW a \in Int, NEW b \in Int, NEW c \in Int,
           Wrapped(b, M) = Wrapped(c, M)
    PROVE  Wrapped(Wrapped(a, M) + b, M) = Wrapped(a + c, M)
<1>1. CASE M = 0
  BY <1>1 DEF Wrapped
<1>2. CASE M # 0
  <2>0. M \in Nat \ {0} /\ b % M = c % M
    BY <1>2 DEF Wrapped
  <2>1. ((a % M) + b) % M = (a + b) % M
    BY <2>0, WrapAt
  <2>2. a + b = b + a /\ a + c = c + a
    OBVIOUS
  <2>3. ((b % M) + a) % M = (b + a) % M /\ ((c % M) + a) % M = (c + a) % M
    BY <2>0, WrapAt
  <2> QED
    BY <1>2, <2>0, <2>1, <2>2, <2>3 DEF Wrapped
<1> QED
  BY <1>1, <1>2

LEMMA FoldExists ==
    ASSUME NEW S, IsFiniteSet(S), NEW M \in Nat, NEW v, NEW w,
           \A x \in S : v[x] \in Nat /\ w[x] \in Nat /\ Wrapped(v[x], M) = Wrapped(w[x], M)
    PROVE  IsFold([T \in SUBSET S |-> Wrapped(Total(w, T), M)], v, M, S)
<1> DEFINE h == [T \in SUBSET S |-> Wrapped(Total(w, T), M)]
<1>1. ASSUME NEW T \in SUBSET S PROVE h[T] = FoldOf(h, v, M, T)
  <2>0. /\ IsFiniteSet(T)
        /\ \A x \in T : v[x] \in Nat /\ w[x] \in Nat /\ Wrapped(v[x], M) = Wrapped(w[x], M)
    BY FS_Subset
  <2>1. CASE T = {}
    <3>1. Total(w, {}) = 0
      BY <2>0, TotalFacts
    <3>2. Wrapped(0, M) = 0
      BY DEF Wrapped
    <3> QED
      BY <2>1, <3>1, <3>2 DEF FoldOf
  <2>2. CASE T # {}
    <3> DEFINE x == CHOOSE y \in T : TRUE
    <3>1. x \in T
      BY <2>2
    <3>2. FoldOf(h, v, M, T) = Wrapped(h[T \ {x}] + v[x], M)
      BY <2>2 DEF FoldOf
    <3> HIDE DEF x
    <3>3. T \ {x} \in SUBSET S /\ IsFiniteSet(T \ {x})
      BY <2>0, FS_Subset
    <3>4. Total(w, T) = Total(w, T \ {x}) + w[x] /\ Total(w, T \ {x}) \in Nat
      BY <2>0, <3>1, <3>3, TotalFacts
    <3>5. h[T \ {x}] = Wrapped(Total(w, T \ {x}), M)
      BY <3>3
    <3>6. Wrapped(Wrapped(Total(w, T \ {x}), M) + v[x], M) = Wrapped(Total(w, T \ {x}) + w[x], M)
      <4>1. /\ v[x] \in Int /\ w[x] \in Int /\ Wrapped(v[x], M) = Wrapped(w[x], M)
            /\ Total(w, T \ {x}) \in Int
        BY <2>0, <3>1, <3>4
      <4> QED
        BY <4>1, WrapBoth
    <3> QED
      BY <3>2, <3>4, <3>5, <3>6
  <2> QED
    BY <2>1, <2>2
<1> HIDE DEF h
<1>2. h = [T \in SUBSET S |-> h[T]]
  BY DEF h
<1>3. h = [T \in SUBSET S |-> FoldOf(h, v, M, T)]
  BY <1>1, <1>2
<1> QED
  BY <1>3 DEF IsFold, h

LEMMA FoldsAgree ==
    ASSUME NEW S, IsFiniteSet(S), NEW M, NEW v, NEW f, NEW g,
           IsFold(f, v, M, S), IsFold(g, v, M, S)
    PROVE  f[S] = g[S]
<1> DEFINE P == {T \in SUBSET S : f[T] = g[T]}
<1>1. \A T \in SUBSET S : f[T] = FoldOf(f, v, M, T)
  BY Zenon DEF IsFold
<1>2. \A T \in SUBSET S : g[T] = FoldOf(g, v, M, T)
  BY Zenon DEF IsFold
<1>3. {} \in P
  BY <1>1, <1>2 DEF FoldOf
<1>4. ASSUME NEW T \in SUBSET S, T # {}, \A x \in T : T \ {x} \in P
      PROVE  T \in P
  <2> DEFINE x == CHOOSE y \in T : TRUE
  <2>1. x \in T
    BY <1>4
  <2>2. f[T \ {x}] = g[T \ {x}]
    BY <1>4, <2>1
  <2>3. FoldOf(f, v, M, T) = FoldOf(g, v, M, T)
    BY <2>2 DEF FoldOf
  <2> QED
    BY <1>1, <1>2, <2>3
<1> HIDE DEF P
<1>5. \A T \in SUBSET S : T \in P
  BY <1>3, <1>4, SubsetInduction
<1> QED
  BY <1>5 DEF P

\* A fold over S is the total of its weights, wrapped once.
LEMMA FoldIsTotal ==
    ASSUME NEW S, IsFiniteSet(S), NEW M \in Nat, NEW v, NEW w,
           \A x \in S : v[x] \in Nat /\ w[x] \in Nat /\ Wrapped(v[x], M) = Wrapped(w[x], M),
           NEW f, IsFold(f, v, M, S)
    PROVE  f[S] = Wrapped(Total(w, S), M)
<1> DEFINE h == [T \in SUBSET S |-> Wrapped(Total(w, T), M)]
<1>1. IsFold(h, v, M, S)
  BY FoldExists
<1>2. h[S] = Wrapped(Total(w, S), M)
  OBVIOUS
<1> HIDE DEF h
<1> QED
  BY <1>1, <1>2, FoldsAgree

-----------------------------------------------------------------------------
(* What is summed over trades.                                             *)

QuantityAt(s) == [i \in DOMAIN s |-> s[i].quantity]
ValueAt(s) == [i \in DOMAIN s |-> s[i].price * s[i].quantity]
TradedSum(s) == Total(QuantityAt(s), DOMAIN s)
NotionalSum(s) == Total(ValueAt(s), DOMAIN s)

LEMMA TradeValues ==
    ASSUME NEW s \in Seq(Trade)
    PROVE  /\ IsFiniteSet(DOMAIN s) /\ DOMAIN s = 1 .. Len(s)
           /\ \A i \in DOMAIN s : /\ s[i] \in Trade
                                  /\ s[i].quantity \in Nat /\ s[i].price \in Nat
                                  /\ QuantityAt(s)[i] = s[i].quantity
                                  /\ ValueAt(s)[i] = s[i].price * s[i].quantity
                                  /\ ValueAt(s)[i] \in Nat
<1>1. DOMAIN s = 1 .. Len(s) /\ Len(s) \in Nat
  OBVIOUS
<1>2. IsFiniteSet(DOMAIN s)
  BY <1>1, FS_Interval
<1>3. \A i \in DOMAIN s : s[i] \in Trade
  OBVIOUS
<1>4. \A t \in Trade : t.quantity \in Nat /\ t.price \in Nat
  BY Literals, PriceAssumption DEF Trade
<1>5. \A m, n \in Nat : m * n \in Nat
  OBVIOUS
<1> QED
  BY <1>1, <1>2, <1>3, <1>4, <1>5 DEF QuantityAt, ValueAt

LEMMA TradedIsTotal ==
    ASSUME NEW s \in Seq(Trade)
    PROVE  Traded(s) = TradedSum(s) % QtySpace
<1> DEFINE S == DOMAIN s
           v == QuantityAt(s)
           G(f) == f = [T \in SUBSET S |->
                          IF T = {} THEN 0
                          ELSE LET x == CHOOSE y \in T : TRUE
                               IN  (f[T \ {x}] + s[x].quantity) % QtySpace]
           F == CHOOSE f : G(f)
<1>1. Traded(s) = F[S]
  BY DEF Traded, FoldFunction, FoldFunctionOnSet, MapThenFoldSet
<1>2. \A f : G(f) <=> IsFold(f, v, QtySpace, S)
  <2> TAKE f
  <2>1. ASSUME NEW T \in SUBSET S, T # {}
        PROVE  LET x == CHOOSE y \in T : TRUE
               IN  (f[T \ {x}] + s[x].quantity) % QtySpace
                     = Wrapped(f[T \ {x}] + v[x], QtySpace)
    BY <2>1, TradeValues, QtyAssumption DEF Wrapped
  <2> QED
    BY <2>1 DEF IsFold, FoldOf
<1> HIDE DEF G
<1>3. IsFiniteSet(S) /\ \A x \in S : v[x] \in Nat
  BY TradeValues
<1>4. IsFold(F, v, QtySpace, S)
  BY <1>2, <1>3, FoldExists, QtyAssumption
<1> HIDE DEF F, v, S
<1>5. F[S] = Wrapped(Total(v, S), QtySpace)
  BY <1>3, <1>4, FoldIsTotal, QtyAssumption
<1> QED
  BY <1>1, <1>5, QtyAssumption DEF Wrapped, TradedSum, v, S

LEMMA Squares == QtySpace * QtySpace \in Nat \ {0}
<1>1. QtySpace \in Nat /\ QtySpace >= 1
  BY QtyAssumption
<1>2. \A m, n \in Nat : m >= 1 /\ n >= 1 => m * n \in Nat /\ m * n >= 1
  <2> SUFFICES ASSUME NEW m \in Nat, NEW n \in Nat, m >= 1, n >= 1
               PROVE  m * n \in Nat /\ m * n >= 1
    OBVIOUS
  <2>1. m * n = (m - 1) * n + n /\ (m - 1) * n \in Nat
    OBVIOUS
  <2> QED
    BY <2>1
<1> QED
  BY <1>1, <1>2

LEMMA NotionalIsTotal ==
    ASSUME NEW s \in Seq(Trade)
    PROVE  Notional(s) = NotionalSum(s) % (QtySpace * QtySpace)
<1> DEFINE S == DOMAIN s
           v == ValueAt(s)
           M == QtySpace * QtySpace
           G(f) == f = [T \in SUBSET S |->
                          IF T = {} THEN 0
                          ELSE LET x == CHOOSE y \in T : TRUE
                               IN  (f[T \ {x}] + s[x].price * s[x].quantity) % M]
           F == CHOOSE f : G(f)
<1>1. Notional(s) = F[S]
  BY DEF Notional, FoldFunction, FoldFunctionOnSet, MapThenFoldSet
<1>0. M \in Nat \ {0}
  BY Squares
<1> HIDE DEF M
<1>2. \A f : G(f) <=> IsFold(f, v, M, S)
  <2> TAKE f
  <2>1. ASSUME NEW T \in SUBSET S, T # {}
        PROVE  LET x == CHOOSE y \in T : TRUE
               IN  (f[T \ {x}] + s[x].price * s[x].quantity) % M
                     = Wrapped(f[T \ {x}] + v[x], M)
    <3> DEFINE x == CHOOSE y \in T : TRUE
    <3>1. x \in S
      BY <2>1
    <3> HIDE DEF x
    <3>2. v[x] = s[x].price * s[x].quantity
      BY <3>1, TradeValues
    <3> HIDE DEF v
    <3>3. (f[T \ {x}] + s[x].price * s[x].quantity) % M = Wrapped(f[T \ {x}] + v[x], M)
      BY <1>0, <3>2 DEF Wrapped
    <3> QED
      BY <3>3 DEF x
  <2> HIDE DEF v
  <2> QED
    BY <2>1 DEF IsFold, FoldOf
<1> HIDE DEF G
<1>3. IsFiniteSet(S) /\ \A x \in S : v[x] \in Nat
  BY TradeValues
<1>4. IsFold(F, v, M, S)
  BY <1>0, <1>2, <1>3, FoldExists
<1> HIDE DEF F, v, S
<1>5. F[S] = Wrapped(Total(v, S), M)
  BY <1>0, <1>3, <1>4, FoldIsTotal
<1> QED
  BY <1>0, <1>1, <1>5 DEF Wrapped, NotionalSum, v, S, M

LEMMA TrueTradedIsTotal ==
    ASSUME trades \in Seq(Trade)
    PROVE  TrueTraded = TradedSum(trades)
<1> DEFINE S == DOMAIN trades
           v == QuantityAt(trades)
           G(f) == f = [T \in SUBSET S |->
                          IF T = {} THEN 0
                          ELSE LET x == CHOOSE y \in T : TRUE
                               IN  f[T \ {x}] + trades[x].quantity]
           F == CHOOSE f : G(f)
<1>1. TrueTraded = F[S]
  BY DEF TrueTraded, FoldFunction, FoldFunctionOnSet, MapThenFoldSet
<1>2. \A f : G(f) <=> IsFold(f, v, 0, S)
  <2> TAKE f
  <2>1. ASSUME NEW T \in SUBSET S, T # {}
        PROVE  LET x == CHOOSE y \in T : TRUE
               IN  f[T \ {x}] + trades[x].quantity = Wrapped(f[T \ {x}] + v[x], 0)
    BY <2>1, TradeValues DEF Wrapped
  <2> QED
    BY <2>1 DEF IsFold, FoldOf
<1> HIDE DEF G
<1>3. IsFiniteSet(S) /\ \A x \in S : v[x] \in Nat
  BY TradeValues
<1>4. IsFold(F, v, 0, S)
  BY <1>2, <1>3, FoldExists
<1> HIDE DEF F, v, S
<1>5. F[S] = Wrapped(Total(v, S), 0)
  BY <1>3, <1>4, FoldIsTotal
<1> QED
  BY <1>1, <1>5 DEF Wrapped, TradedSum, v, S

LEMMA TradesEmpty == TradedSum(<< >>) = 0
<1>1. << >> \in Seq(Trade) /\ DOMAIN << >> = {}
  OBVIOUS
<1> QED
  BY <1>1, TradeValues, TotalFacts DEF TradedSum

\* One trade more.
LEMMA TradedAppend ==
    ASSUME NEW s \in Seq(Trade), NEW t \in Trade
    PROVE  /\ TradedSum(s) \in Nat
           /\ TradedSum(Append(s, t)) = TradedSum(s) + t.quantity
<1> DEFINE r == Append(s, t)
           n == Len(s) + 1
<1>1. /\ r \in Seq(Trade) /\ n \in DOMAIN r /\ DOMAIN r \ {n} = DOMAIN s
      /\ r[n] = t /\ \A i \in DOMAIN s : r[i] = s[i]
  <2>1. /\ r \in Seq(Trade) /\ Len(r) = n /\ r[n] = t
        /\ \A i \in 1 .. Len(s) : r[i] = s[i]
    BY AppendProperties
  <2>2. DOMAIN s = 1 .. Len(s) /\ DOMAIN r = 1 .. n /\ Len(s) \in Nat
    BY <2>1
  <2> HIDE DEF r
  <2> QED
    BY <2>1, <2>2
<1> HIDE DEF r, n
<1>2. Total(QuantityAt(r), DOMAIN r) = Total(QuantityAt(r), DOMAIN r \ {n}) + QuantityAt(r)[n]
  <2>1. IsFiniteSet(DOMAIN r) /\ \A i \in DOMAIN r : QuantityAt(r)[i] \in Nat
    BY <1>1, TradeValues
  <2> QED
    BY <1>1, <2>1, TotalFacts
<1>3. QuantityAt(r)[n] = t.quantity
  BY <1>1 DEF QuantityAt
<1>4. \A i \in DOMAIN s : QuantityAt(r)[i] = QuantityAt(s)[i]
  BY <1>1 DEF QuantityAt
<1>5. Total(QuantityAt(r), DOMAIN s) = Total(QuantityAt(s), DOMAIN s)
  BY <1>4, TotalAgrees
<1>6. TradedSum(s) \in Nat
  BY TradeValues, TotalFacts DEF TradedSum
<1> QED
  BY <1>1, <1>2, <1>3, <1>5, <1>6 DEF TradedSum, r

-----------------------------------------------------------------------------
(* What is summed over a snapshot.                                         *)

UnitsAt(queue) == [i \in DOMAIN queue |-> queue[i].remaining_qty]

LEMMA QueueIsTotal ==
    ASSUME NEW queue, IsFiniteSet(DOMAIN queue),
           \A i \in DOMAIN queue : queue[i].remaining_qty \in Nat
    PROVE  QuantityOf(queue) = Total(UnitsAt(queue), DOMAIN queue) % QtySpace
<1> DEFINE S == DOMAIN queue
           v == UnitsAt(queue)
           G(f) == f = [T \in SUBSET S |->
                          IF T = {} THEN 0
                          ELSE LET x == CHOOSE y \in T : TRUE
                               IN  (f[T \ {x}] + queue[x].remaining_qty) % QtySpace]
           F == CHOOSE f : G(f)
<1>1. QuantityOf(queue) = F[S]
  BY DEF QuantityOf, FoldFunction, FoldFunctionOnSet, MapThenFoldSet
<1>0. \A i \in S : v[i] = queue[i].remaining_qty
  BY DEF UnitsAt
<1>2. \A f : G(f) <=> IsFold(f, v, QtySpace, S)
  <2> TAKE f
  <2>1. ASSUME NEW T \in SUBSET S, T # {}
        PROVE  LET x == CHOOSE y \in T : TRUE
               IN  (f[T \ {x}] + queue[x].remaining_qty) % QtySpace
                     = Wrapped(f[T \ {x}] + v[x], QtySpace)
    BY <1>0, <2>1, QtyAssumption DEF Wrapped
  <2> QED
    BY <2>1 DEF IsFold, FoldOf
<1> HIDE DEF G
<1>3. IsFiniteSet(S) /\ \A x \in S : v[x] \in Nat
  BY <1>0
<1>4. IsFold(F, v, QtySpace, S)
  BY <1>2, <1>3, FoldExists, QtyAssumption
<1> HIDE DEF F, v, S
<1>5. F[S] = Wrapped(Total(v, S), QtySpace)
  BY <1>3, <1>4, FoldIsTotal, QtyAssumption
<1> QED
  BY <1>1, <1>5, QtyAssumption DEF Wrapped, v, S

LEMMA SideIsTotal ==
    ASSUME NEW snapshot, NEW side, IsFiniteSet(DOMAIN snapshot[side]), NEW w,
           \A p \in DOMAIN snapshot[side] :
              w[p] \in Nat /\ QuantityOf(snapshot[side][p]) = w[p] % QtySpace
    PROVE  TotalQuantity(snapshot, side) = Total(w, DOMAIN snapshot[side]) % QtySpace
<1> DEFINE queues == snapshot[side]
           S == DOMAIN queues
           v == [p \in S |-> QuantityOf(queues[p])]
           G(f) == f = [T \in SUBSET S |->
                          IF T = {} THEN 0
                          ELSE LET x == CHOOSE y \in T : TRUE
                               IN  (f[T \ {x}] + QuantityOf(queues[x])) % QtySpace]
           F == CHOOSE f : G(f)
<1>1. TotalQuantity(snapshot, side) = F[S]
  BY DEF TotalQuantity, FoldFunction, FoldFunctionOnSet, MapThenFoldSet
<1> HIDE DEF queues
<1>2. \A f : G(f) <=> IsFold(f, v, QtySpace, S)
  <2> TAKE f
  <2>1. ASSUME NEW T \in SUBSET S, T # {}
        PROVE  LET x == CHOOSE y \in T : TRUE
               IN  (f[T \ {x}] + QuantityOf(queues[x])) % QtySpace
                     = Wrapped(f[T \ {x}] + v[x], QtySpace)
    BY <2>1, QtyAssumption DEF Wrapped
  <2> QED
    BY <2>1 DEF IsFold, FoldOf
<1> HIDE DEF G
<1>3. /\ IsFiniteSet(S)
      /\ \A p \in S : /\ v[p] \in Nat /\ w[p] \in Nat
                      /\ Wrapped(v[p], QtySpace) = Wrapped(w[p], QtySpace)
  <2>1. IsFiniteSet(S)
    BY DEF queues
  <2>2. ASSUME NEW p \in S
        PROVE  /\ v[p] \in Nat /\ w[p] \in Nat
               /\ Wrapped(v[p], QtySpace) = Wrapped(w[p], QtySpace)
    <3>1. v[p] = w[p] % QtySpace /\ w[p] \in Nat
      BY DEF queues
    <3>2. ((w[p] % QtySpace) + 0) % QtySpace = (w[p] + 0) % QtySpace
      BY <3>1, WrapSum
    <3>3. (w[p] % QtySpace) \in Nat
      BY <3>1, QtyAssumption
    <3> QED
      BY <3>1, <3>2, <3>3, QtyAssumption DEF Wrapped
  <2> QED
    BY <2>1, <2>2
<1>4. IsFold(F, v, QtySpace, S)
  BY <1>2, <1>3, FoldExists, QtyAssumption
<1> HIDE DEF F, v, S
<1>5. F[S] = Wrapped(Total(w, S), QtySpace)
  BY <1>3, <1>4, FoldIsTotal, QtyAssumption
<1> QED
  BY <1>1, <1>5, QtyAssumption DEF Wrapped, S, queues

\* Orders that are listed once each have the sum of their list.
LEMMA ListedOnce ==
    ASSUME NEW queue, IsFiniteSet(DOMAIN queue), \A i \in DOMAIN queue : queue[i] \in Order,
           \A i, j \in DOMAIN queue : i # j => queue[i] # queue[j]
    PROVE  Total(UnitsAt(queue), DOMAIN queue) = UnitsOf({queue[i] : i \in DOMAIN queue})
<1> DEFINE S == DOMAIN queue
           u == UnitsAt(queue)
           R(T) == {queue[i] : i \in T}
           P == {T \in SUBSET S : IsFiniteSet(R(T)) /\ Total(u, T) = UnitsOf(R(T))}
<1>0. \A i \in S : u[i] = queue[i].remaining_qty /\ u[i] \in Nat
  BY Literals DEF UnitsAt, Order
<1>00. \A T \in SUBSET S : R(T) \in SUBSET Order
  OBVIOUS
<1> HIDE DEF u
<1>1. {} \in P
  <2>1. R({}) = {} /\ IsFiniteSet({})
    BY FS_EmptySet
  <2>2. Total(u, {}) = 0 /\ UnitsOf({}) = 0
    BY <2>1, TotalFacts, SumStep
  <2> QED
    BY <2>1, <2>2
<1>2. ASSUME NEW T \in SUBSET S, T # {}, \A x \in T : T \ {x} \in P
      PROVE  T \in P
  <2>1. PICK x \in T : TRUE
    BY <1>2
  <2> DEFINE V == T \ {x}
  <2>2. IsFiniteSet(R(V)) /\ Total(u, V) = UnitsOf(R(V)) /\ R(V) \in SUBSET Order
    BY <1>00, <1>2, <2>1
  <2>3. R(T) = R(V) \cup {queue[x]} /\ queue[x] \in Order \ R(V)
    BY <2>1
  <2>4. Total(u, T) = Total(u, V) + u[x]
    <3>1. IsFiniteSet(T) /\ \A i \in T : u[i] \in Nat
      BY <1>0, FS_Subset
    <3> QED
      BY <2>1, <3>1, TotalFacts
  <2> HIDE DEF R, V
  <2>5. UnitsOf(R(T)) = UnitsOf(R(V)) + queue[x].remaining_qty
    BY <2>2, <2>3, SumWith
  <2>6. IsFiniteSet(R(T))
    BY <2>2, <2>3, FS_AddElement
  <2> QED
    BY <1>0, <2>1, <2>2, <2>4, <2>5, <2>6
<1> HIDE DEF P
<1>3. \A T \in SUBSET S : T \in P
  BY <1>1, <1>2, SubsetInduction
<1>4. S \in P
  BY <1>3
<1> QED
  BY <1>4 DEF P, u

LEMMA SumOfBoth ==
    ASSUME NEW A \in SUBSET Order, NEW B \in SUBSET Order,
           IsFiniteSet(A), IsFiniteSet(B), A \cap B = {}
    PROVE  UnitsOf(A \cup B) = UnitsOf(A) + UnitsOf(B)
<1> DEFINE P == {T \in SUBSET B : UnitsOf(A \cup T) = UnitsOf(A) + UnitsOf(T)}
<1>1. {} \in P
  <2>1. A \cup {} = A /\ IsFiniteSet({})
    BY FS_EmptySet
  <2>2. UnitsOf({}) = 0 /\ UnitsOf(A) \in Nat
    BY <2>1, SumStep
  <2> QED
    BY <2>1, <2>2
<1>2. ASSUME NEW T \in SUBSET B, T # {}, \A x \in T : T \ {x} \in P
      PROVE  T \in P
  <2>1. PICK x \in T : TRUE
    BY <1>2
  <2> DEFINE V == T \ {x}
             W == A \cup V
  <2>2. UnitsOf(W) = UnitsOf(A) + UnitsOf(V)
    BY <1>2, <2>1
  <2>3. /\ V \in SUBSET Order /\ IsFiniteSet(V) /\ x \in Order \ V /\ T = V \cup {x}
        /\ W \in SUBSET Order /\ IsFiniteSet(W) /\ x \in Order \ W /\ A \cup T = W \cup {x}
    BY <2>1, FS_Subset, FS_Union
  <2> HIDE DEF V, W
  <2>4. UnitsOf(T) = UnitsOf(V) + x.remaining_qty
    <3>1. UnitsOf(V \cup {x}) = UnitsOf(V) + x.remaining_qty
      BY <2>3, SumWith
    <3> QED
      BY <2>3, <3>1, Zenon
  <2>5. UnitsOf(A \cup T) = UnitsOf(W) + x.remaining_qty
    <3>1. UnitsOf(W \cup {x}) = UnitsOf(W) + x.remaining_qty
      BY <2>3, SumWith
    <3> QED
      BY <2>3, <3>1, Zenon
  <2>6. UnitsOf(A) \in Nat /\ UnitsOf(V) \in Nat /\ x.remaining_qty \in Nat
    BY <2>3, SumStep, Literals DEF Order
  <2>7. UnitsOf(A \cup T) = UnitsOf(A) + UnitsOf(T)
    BY <2>2, <2>4, <2>5, <2>6
  <2> QED
    BY <2>7
<1> HIDE DEF P
<1>3. \A T \in SUBSET B : T \in P
  BY <1>1, <1>2, SubsetInduction
<1>4. B \in P
  BY <1>3
<1> QED
  BY <1>4 DEF P

\* Orders sorted into levels by price have the sum of their levels.
PricedAt(R, p) == {o \in R : o.price = p}
PricedIn(R, S) == {o \in R : o.price \in S}

LEMMA SumOfLevels ==
    ASSUME NEW R \in SUBSET Order, IsFiniteSet(R), NEW S, IsFiniteSet(S), NEW w,
           \A p \in S : w[p] = UnitsOf(PricedAt(R, p))
    PROVE  Total(w, S) = UnitsOf(PricedIn(R, S))
<1> DEFINE A(p) == PricedAt(R, p)
           B(T) == PricedIn(R, T)
           P == {T \in SUBSET S : Total(w, T) = UnitsOf(B(T))}
<1>0. /\ \A p \in S : A(p) \in SUBSET Order /\ IsFiniteSet(A(p)) /\ w[p] = UnitsOf(A(p))
      /\ \A T \in SUBSET S : B(T) \in SUBSET Order /\ IsFiniteSet(B(T))
  BY FS_Subset DEF PricedAt, PricedIn
<1>00. \A p \in S : w[p] \in Nat
  <2> HIDE DEF A
  <2> QED
    BY <1>0, SumStep
<1>1. {} \in P
  <2>1. B({}) = {} /\ IsFiniteSet({})
    BY FS_EmptySet DEF PricedIn
  <2>2. Total(w, {}) = 0 /\ UnitsOf({}) = 0
    BY <2>1, TotalFacts, SumStep
  <2> QED
    BY <2>1, <2>2
<1>2. ASSUME NEW T \in SUBSET S, T # {}, \A x \in T : T \ {x} \in P
      PROVE  T \in P
  <2>1. PICK x \in T : TRUE
    BY <1>2
  <2> DEFINE V == T \ {x}
  <2>2. Total(w, V) = UnitsOf(B(V)) /\ V \in SUBSET S
    BY <1>2, <2>1
  <2>3. B(T) = B(V) \cup A(x) /\ B(V) \cap A(x) = {}
    BY <2>1 DEF PricedAt, PricedIn
  <2>4. Total(w, T) = Total(w, V) + w[x]
    BY <1>00, <2>1, FS_Subset, TotalFacts
  <2> HIDE DEF A, B, V
  <2>5. UnitsOf(B(V) \cup A(x)) = UnitsOf(B(V)) + UnitsOf(A(x))
    BY <1>0, <2>1, <2>2, <2>3, SumOfBoth
  <2> QED
    BY <1>0, <2>1, <2>2, <2>3, <2>4, <2>5
<1> HIDE DEF P
<1>3. \A T \in SUBSET S : T \in P
  BY <1>1, <1>2, SubsetInduction
<1>4. S \in P
  BY <1>3
<1> QED
  BY <1>4 DEF P

LEMMA RestingOfSide ==
    ASSUME Inductive, NEW side \in Sides
    PROVE  /\ RestingOf(side) \in SUBSET Order /\ IsFiniteSet(RestingOf(side))
           /\ PricesOf(book, side) = {o.price : o \in RestingOf(side)}
           /\ \A p : PricedAt(RestingOf(side), p) = OrdersAt(book, side, p)
<1>1. BookInv(book, older)
  BY DEF Inductive
<1>2. RestingOrders(book) \subseteq Order /\ IsFiniteSet(RestingOrders(book))
  BY <1>1, RestingOrdersFinite
<1>3. RestingOf(side) \subseteq RestingOrders(book)
  BY DEF RestingOf
<1>4. IsFiniteSet(RestingOf(side))
  BY <1>2, <1>3, FS_Subset
<1>5. PricesOf(book, side) = {o.price : o \in RestingOf(side)}
  BY SnapshotFacts DEF SnapshotIsArrivalOrder, RestingOf
<1>6. \A p : PricedAt(RestingOf(side), p) = OrdersAt(book, side, p)
  BY DEF RestingOf, OrdersAt, PricedAt
<1> QED
  BY <1>2, <1>3, <1>4, <1>5, <1>6

\* A level of the snapshot sums up to what rests there.
LEMMA QueueDepth ==
    ASSUME Inductive, NEW side \in Sides, NEW p \in PricesOf(book, side)
    PROVE  QuantityOf(Snapshot(book)[side][p]) = UnitsOf(OrdersAt(book, side, p)) % QtySpace
<1> DEFINE queue == Snapshot(book)[side][p]
<1>1. BookInv(book, older)
  BY DEF Inductive
<1>2. queue = LevelOrders(book, book.levels[side][p])
  BY DEF Snapshot
<1>3. /\ DOMAIN queue \subseteq Nat /\ IsFiniteSet(DOMAIN queue)
      /\ {queue[i] : i \in DOMAIN queue} = OrdersAt(book, side, p)
      /\ \A i, j \in DOMAIN queue :
            i < j => <<queue[i].id, queue[j].id>> \in older
  BY <1>1, <1>2, LevelOrdersFacts
<1> HIDE DEF queue
<1>4. OrdersAt(book, side, p) \in SUBSET Order
  BY <1>1, RestingOrdersFinite DEF OrdersAt
<1>5. \A i \in DOMAIN queue : queue[i] \in Order /\ queue[i].remaining_qty \in Nat
  <2>1. \A o \in Order : o.remaining_qty \in Nat
    BY Literals DEF Order
  <2> QED
    BY <1>3, <1>4, <2>1
<1>6. \A i, j \in DOMAIN queue : i # j => queue[i] # queue[j]
  <2>1. \A id : <<id, id>> \notin older
    BY <1>1 DEF BookInv, ArrivalOrder
  <2>2. \A i, j \in DOMAIN queue : i < j => queue[i] # queue[j]
    BY <1>3, <2>1
  <2>3. \A i, j \in DOMAIN queue : i # j => i < j \/ j < i
    BY <1>3
  <2> QED
    BY <2>2, <2>3
<1>7. QuantityOf(queue) = Total(UnitsAt(queue), DOMAIN queue) % QtySpace
  BY <1>3, <1>5, QueueIsTotal
<1>8. Total(UnitsAt(queue), DOMAIN queue) = UnitsOf({queue[i] : i \in DOMAIN queue})
  BY <1>3, <1>5, <1>6, ListedOnce
<1> QED
  BY <1>3, <1>7, <1>8 DEF queue

\* The totals of a snapshot are sums over the book, as machine words.
LEMMA DepthIsTotal ==
    ASSUME Inductive, NEW side \in Sides
    PROVE  /\ UnitsOf(RestingOf(side)) \in Nat
           /\ TotalQuantity(Snapshot(book), side) = UnitsOf(RestingOf(side)) % QtySpace
<1> DEFINE R == RestingOf(side)
           S == PricesOf(book, side)
           w == [p \in S |-> UnitsOf(PricedAt(R, p))]
<1>1. R \in SUBSET Order /\ IsFiniteSet(R) /\ S = {o.price : o \in R}
  BY RestingOfSide
<1>2. IsFiniteSet(S)
  BY PricesFinite DEF Inductive
<1>3. DOMAIN Snapshot(book)[side] = S
  BY DEF Snapshot
<1>4. \A p \in S : /\ w[p] \in Nat
                   /\ QuantityOf(Snapshot(book)[side][p]) = w[p] % QtySpace
  <2> TAKE p \in S
  <2>1. IsFiniteSet(PricedAt(R, p)) /\ PricedAt(R, p) \in SUBSET Order
    BY <1>1, FS_Subset DEF PricedAt
  <2>2. UnitsOf(PricedAt(R, p)) \in Nat
    BY <2>1, SumStep
  <2>3. PricedAt(R, p) = OrdersAt(book, side, p)
    BY RestingOfSide
  <2> QED
    BY <2>2, <2>3, QueueDepth
<1>5. PricedIn(R, S) = R
  BY <1>1 DEF PricedIn
<1>6. \A p \in S : w[p] = UnitsOf(PricedAt(R, p))
  OBVIOUS
<1> HIDE DEF w, R, S
<1>7. Total(w, S) = UnitsOf(R)
  BY <1>1, <1>2, <1>5, <1>6, SumOfLevels
<1>8. TotalQuantity(Snapshot(book), side) = Total(w, S) % QtySpace
  BY <1>2, <1>3, <1>4, SideIsTotal
<1>9. UnitsOf(R) \in Nat
  BY <1>1, SumStep
<1> QED
  BY <1>7, <1>8, <1>9 DEF R

-----------------------------------------------------------------------------
(* The trades in a log, by induction over its length.                      *)

FoundAfter(e, found) ==
    IF e.kind = "TradeExecuted" THEN Append(found, e.trade) ELSE found
IsReading(f, past, n) ==
    f = [i \in 0 .. n |-> IF i = 0 THEN << >> ELSE FoundAfter(past[i], f[i - 1])]

LEMMA ReadingExists ==
    ASSUME NEW past, NEW n \in Nat
    PROVE  \E f : IsReading(f, past, n)
<1> DEFINE S == {m \in Nat : \E f : IsReading(f, past, m)}
<1>1. 0 \in S
  <2>1. IsReading([i \in 0 .. 0 |-> << >>], past, 0)
    BY DEF IsReading
  <2> QED
    BY <2>1
<1>2. ASSUME NEW m \in Nat, m \in S PROVE m + 1 \in S
  <2>1. PICK f : IsReading(f, past, m)
    BY <1>2
  <2> DEFINE g == [i \in 0 .. m + 1 |->
                     IF i = m + 1 THEN FoundAfter(past[i], f[m]) ELSE f[i]]
  <2>2. \A i \in 0 .. m : f[i] = IF i = 0 THEN << >> ELSE FoundAfter(past[i], f[i - 1])
    BY <2>1 DEF IsReading
  <2>3. \A i \in 0 .. m + 1 : g[i] = IF i = 0 THEN << >> ELSE FoundAfter(past[i], g[i - 1])
    BY <2>2
  <2>4. g = [i \in 0 .. m + 1 |-> g[i]]
    OBVIOUS
  <2> HIDE DEF g
  <2>5. IsReading(g, past, m + 1)
    BY <2>3, <2>4 DEF IsReading
  <2> QED
    BY <2>5
<1> HIDE DEF S
<1>3. n \in S
  BY <1>1, <1>2, SetInduction
<1> QED
  BY <1>3 DEF S

\* Two readings agree as far as their logs do.
LEMMA ReadingUnique ==
    ASSUME NEW past, NEW longer, NEW n \in Nat, \A i \in 1 .. n : past[i] = longer[i]
    PROVE  \A f, g : IsReading(f, past, n) /\ IsReading(g, longer, n + 1) => f[n] = g[n]
<1> SUFFICES ASSUME NEW f, NEW g, IsReading(f, past, n), IsReading(g, longer, n + 1)
             PROVE  f[n] = g[n]
  OBVIOUS
<1> DEFINE S == {i \in Nat : i <= n => f[i] = g[i]}
<1>1. \A i \in 0 .. n : f[i] = IF i = 0 THEN << >> ELSE FoundAfter(past[i], f[i - 1])
  BY DEF IsReading
<1>2. \A i \in 0 .. n : g[i] = IF i = 0 THEN << >> ELSE FoundAfter(longer[i], g[i - 1])
  BY DEF IsReading
<1>3. 0 \in S
  BY <1>1, <1>2
<1>4. ASSUME NEW i \in Nat, i \in S PROVE i + 1 \in S
  BY <1>1, <1>2, <1>4
<1> HIDE DEF S
<1>5. n \in S
  BY <1>3, <1>4, SetInduction
<1> QED
  BY <1>5 DEF S

LEMMA NothingFound == TradesFromEvents(<< >>) = << >>
<1> DEFINE f == CHOOSE f : IsReading(f, << >>, Len(<< >>))
<1>1. TradesFromEvents(<< >>) = f[Len(<< >>)]
  BY Zenon DEF TradesFromEvents, IsReading, FoundAfter
<1>2. IsReading(f, << >>, Len(<< >>)) /\ Len(<< >>) = 0
  BY ReadingExists
<1> HIDE DEF f
<1> QED
  BY <1>1, <1>2 DEF IsReading

LEMMA FoundNext ==
    ASSUME NEW past \in Seq(BookEvent), NEW e \in BookEvent
    PROVE  TradesFromEvents(Append(past, e)) = FoundAfter(e, TradesFromEvents(past))
<1> DEFINE n == Len(past)
           longer == Append(past, e)
           f == CHOOSE f : IsReading(f, past, n)
           g == CHOOSE g : IsReading(g, longer, Len(longer))
<1>1. /\ n \in Nat /\ Len(longer) = n + 1 /\ longer[n + 1] = e
      /\ \A i \in 1 .. n : past[i] = longer[i]
  OBVIOUS
<1>2. TradesFromEvents(past) = f[n] /\ TradesFromEvents(longer) = g[Len(longer)]
  BY Zenon DEF TradesFromEvents, IsReading, FoundAfter
<1>3. IsReading(f, past, n)
  BY <1>1, ReadingExists
<1>4. IsReading(g, longer, n + 1)
  <2> HIDE DEF longer
  <2>1. Len(longer) \in Nat
    BY <1>1
  <2>2. \E h : IsReading(h, longer, Len(longer))
    BY <2>1, ReadingExists
  <2>3. IsReading(g, longer, Len(longer))
    BY <2>2
  <2> QED
    BY <1>1, <2>3
<1> HIDE DEF f, g, longer, n
<1>5. /\ n \in Nat /\ n + 1 \in Nat /\ n <= n + 1
      /\ \A i \in 1 .. n : past[i] = longer[i]
  BY <1>1
<1>6. f[n] = g[n]
  <2>1. \A F, G : IsReading(F, past, n) /\ IsReading(G, longer, n + 1) => F[n] = G[n]
    BY <1>5, ReadingUnique
  <2> QED
    BY <1>3, <1>4, <2>1
<1>7. g[n + 1] = FoundAfter(longer[n + 1], g[n])
  BY <1>1, <1>4 DEF IsReading
<1> QED
  BY <1>1, <1>2, <1>6, <1>7 DEF longer

-----------------------------------------------------------------------------
(* The balance of a scenario, also halfway through a command.              *)

InHand == IF call = None THEN 0 ELSE call.incoming.remaining_qty
AllTrades == IF call = None THEN trades ELSE trades \o Collected(call)
Resting == UnitsOf(RestingOrders(book))

Balance ==
    /\ entered = Resting + InHand + 2 * TradedSum(AllTrades)
    /\ TradesFromEvents(FullLog) = AllTrades

LEMMA BalanceTypes ==
    ASSUME Inductive, ScenarioTypes
    PROVE  /\ Resting \in Nat /\ InHand \in Nat
           /\ AllTrades \in Seq(Trade) /\ TradedSum(AllTrades) \in Nat
           /\ FullLog \in Seq(BookEvent)
           /\ call # None => call \in Call /\ call.incoming \in Order
<1>1. RestingOrders(book) \in SUBSET Order /\ IsFiniteSet(RestingOrders(book))
  BY RestingOrdersFinite DEF Inductive
<1>2. call # None => /\ call \in Call /\ call.incoming \in Order /\ call.trades \in Seq(Trade)
                     /\ call.incoming.remaining_qty \in Nat
  BY Literals DEF Inductive, TypeOK, Call, Order
<1>3. AllTrades \in Seq(Trade)
  BY <1>2 DEF AllTrades, Collected, ScenarioTypes
<1>4. TradedSum(AllTrades) \in Nat
  BY <1>3, TradeValues, TotalFacts DEF TradedSum
<1>5. FullLog \in Seq(BookEvent)
  BY <1>2, FinishEventsType DEF FullLog, Inductive, TypeOK
<1> QED
  BY <1>1, <1>2, <1>3, <1>4, <1>5, SumStep DEF Resting, InHand

\* What a command takes out of the book.
LEMMA Withdrawn ==
    ASSUME Inductive, NEW id \in RestingIds(book), book' = RemoveOrderById(book, id)
    PROVE  /\ Remaining(book, id) \in Nat /\ Resting \in Nat
           /\ Resting' = Resting - Remaining(book, id)
<1> DEFINE o == OrderAt(book, book.order_slots[id])
<1>1. o \in RestingOrders(book) /\ RestingOrders(book') = RestingOrders(book) \ {o}
  BY OrderOfId
<1>2. Remaining(book, id) = o.remaining_qty
  BY DEF Remaining
<1>3. RestingOrders(book) \in SUBSET Order /\ IsFiniteSet(RestingOrders(book))
  BY RestingOrdersFinite DEF Inductive
<1> HIDE DEF o
<1>4. /\ UnitsOf(RestingOrders(book)) = UnitsOf(RestingOrders(book) \ {o}) + o.remaining_qty
      /\ UnitsOf(RestingOrders(book)) \in Nat /\ UnitsOf(RestingOrders(book) \ {o}) \in Nat
      /\ o.remaining_qty \in Nat
  BY <1>1, <1>3, SumAtLeast
<1> QED
  BY <1>1, <1>2, <1>4 DEF Resting

LEMMA AddBalances ==
    ASSUME Inductive, ScenarioTypes, Balance, NEW order \in Order, AddOrder(order),
           entered' = entered + order.remaining_qty, trades' = trades
    PROVE  Balance'
<1>1. /\ call = None /\ call' = StartMatching("Add", order) /\ book' = book
  BY DEF AddOrder, Idle
<1>2. call' # None /\ call'.incoming = order /\ call'.trades = << >>
  BY <1>1, StartType, CallAssumption DEF StartMatching
<1>3. Resting' = Resting /\ InHand' = order.remaining_qty /\ InHand = 0
  BY <1>1, <1>2 DEF Resting, InHand
<1>4. AllTrades' = AllTrades
  BY <1>1, <1>2 DEF AllTrades, Collected, ScenarioTypes
<1> DEFINE e == [kind |-> "OrderAccepted", order |-> order]
<1>5. FullLog' = Append(FullLog, e) /\ e \in BookEvent
  BY AddLogs, ScenarioModeAssumption DEF BookEvent
<1>6. TradesFromEvents(FullLog') = FoundAfter(e, TradesFromEvents(FullLog))
  BY <1>5, FoundNext, BalanceTypes
<1>7. TradesFromEvents(FullLog') = TradesFromEvents(FullLog)
  BY <1>6 DEF FoundAfter
<1>8. order.remaining_qty \in Nat
  BY Literals DEF Order
<1>9. entered' = Resting' + InHand' + 2 * TradedSum(AllTrades')
  BY <1>3, <1>4, <1>8, BalanceTypes DEF Balance
<1> QED
  BY <1>4, <1>7, <1>9 DEF Balance

LEMMA CancelBalances ==
    ASSUME Inductive, ScenarioTypes, Balance, NEW id \in OrderIds, CancelOrder(id),
           entered' = entered + (- Remaining(book, id)), trades' = trades
    PROVE  Balance'
<1>1. /\ call = None /\ call' = None /\ id \in RestingIds(book)
      /\ book' = RemoveOrderById(book, id)
  BY DEF CancelOrder, Idle
<1>2. /\ Remaining(book, id) \in Nat /\ Resting \in Nat
      /\ Resting' = Resting - Remaining(book, id)
  BY <1>1, Withdrawn
<1>3. InHand' = 0 /\ InHand = 0 /\ AllTrades' = AllTrades
  BY <1>1 DEF InHand, AllTrades
<1> DEFINE e == [kind |-> "OrderCancelled", order_id |-> id]
<1>4. FullLog' = Append(FullLog, e) /\ e \in BookEvent
  BY CancelLogs, ScenarioModeAssumption DEF BookEvent
<1>5. TradesFromEvents(FullLog') = FoundAfter(e, TradesFromEvents(FullLog))
  BY <1>4, FoundNext, BalanceTypes
<1>6. TradesFromEvents(FullLog') = TradesFromEvents(FullLog)
  BY <1>5 DEF FoundAfter
<1>7. entered' = Resting' + InHand' + 2 * TradedSum(AllTrades')
  BY <1>2, <1>3, BalanceTypes DEF Balance
<1> QED
  BY <1>3, <1>6, <1>7 DEF Balance

LEMMA ModifyBalances ==
    ASSUME Inductive, ScenarioTypes, Balance, NEW id \in OrderIds, NEW price \in Prices,
           NEW quantity \in Quantities, ModifyOrder(id, price, quantity),
           entered' = entered + (quantity - Remaining(book, id)), trades' = trades
    PROVE  Balance'
<1> DEFINE side == OrderAt(book, book.order_slots[id]).side
           order == NewOrder(id, side, price, quantity)
<1>1. /\ call = None /\ call' = StartMatching("Modify", order) /\ id \in RestingIds(book)
      /\ book' = RemoveOrderById(book, id)
  BY DEF ModifyOrder, Idle
<1>2. side \in Sides
  BY <1>1, RestingFacts DEF Inductive, BookInv, IndexOK
<1>3. order \in Order /\ order.remaining_qty = quantity
  BY <1>2 DEF NewOrder, Order
<1> HIDE DEF order
<1>4. call' # None /\ call'.incoming = order /\ call'.trades = << >>
  BY <1>1, <1>3, StartType, CallAssumption DEF StartMatching
<1>5. /\ Remaining(book, id) \in Nat /\ Resting \in Nat
      /\ Resting' = Resting - Remaining(book, id)
  BY <1>1, Withdrawn
<1>6. InHand' = quantity /\ InHand = 0
  BY <1>1, <1>3, <1>4 DEF InHand
<1>7. AllTrades' = AllTrades
  BY <1>1, <1>4 DEF AllTrades, Collected, ScenarioTypes
<1> DEFINE e == [kind |-> "OrderModified", order_id |-> id,
                 new_price |-> price, new_quantity |-> quantity]
<1>8. FullLog' = Append(FullLog, e) /\ e \in BookEvent
  BY ModifyLogs, ScenarioModeAssumption DEF BookEvent
<1>9. TradesFromEvents(FullLog') = FoundAfter(e, TradesFromEvents(FullLog))
  BY <1>8, FoundNext, BalanceTypes
<1>10. TradesFromEvents(FullLog') = TradesFromEvents(FullLog)
  BY <1>9 DEF FoundAfter
<1>11. quantity \in Nat
  BY Literals
<1>12. entered' = Resting' + InHand' + 2 * TradedSum(AllTrades')
  BY <1>5, <1>6, <1>7, <1>11, BalanceTypes DEF Balance
<1> QED
  BY <1>7, <1>10, <1>12 DEF Balance

\* What a fill takes out of the book.
LEMMA Consumed ==
    ASSUME Inductive, FillStep
    PROVE  LET s == BestMakerSlot(book, call.incoming)
               traded == Lesser(call.incoming.remaining_qty, OrderAt(book, s).remaining_qty)
           IN  /\ traded \in Nat /\ Resting \in Nat
               /\ Resting' = Resting - traded
<1> DEFINE s == BestMakerSlot(book, call.incoming)
           o == OrderAt(book, s)
           traded == Lesser(call.incoming.remaining_qty, o.remaining_qty)
           R == RestingOrders(book)
<1>1. /\ o \in Order /\ traded \in Nat /\ traded <= o.remaining_qty
      /\ traded \in Quantities /\ book' = ConsumeMaker(book, s, traded)
  BY FillFacts
<1>2. s \in Occupied(book)
  BY FilledBook
<1>3. BookInv(book, older)
  BY DEF Inductive
<1>4. R \in SUBSET Order /\ IsFiniteSet(R)
  BY <1>3, RestingOrdersFinite
<1>5. o \in R
  BY <1>2 DEF RestingOrders, Occupied
<1> HIDE DEF R, s, traded
<1>6. /\ UnitsOf(R) = UnitsOf(R \ {o}) + o.remaining_qty
      /\ UnitsOf(R) \in Nat /\ UnitsOf(R \ {o}) \in Nat /\ o.remaining_qty \in Nat
  <2> HIDE DEF o
  <2> QED
    BY <1>4, <1>5, SumAtLeast
<1>7. CASE traded = o.remaining_qty
  <2>1. book' = Detach(book, s)
    BY <1>1, <1>7 DEF ConsumeMaker
  <2>2. RestingOrders(book') = R \ {o}
    BY <1>2, <1>3, <2>1, DetachedSet DEF R
  <2>3. UnitsOf(RestingOrders(book')) = UnitsOf(R) - traded
    BY <1>6, <1>7, <2>2
  <2> QED
    BY <1>1, <1>6, <2>3 DEF Resting, R, traded, s
<1>8. CASE traded < o.remaining_qty
  <2> DEFINE left == Reduced(o, traded)
  <2>1. RestingOrders(book') = (R \ {o}) \cup {left}
    BY <1>1, <1>2, <1>3, <1>8, ReducedSet DEF R
  <2>2. left \in Order /\ left.remaining_qty = o.remaining_qty - traded /\ left.id = o.id
    <3>1. o.remaining_qty \in Quantities
      BY <1>1 DEF Order
    <3>2. o.remaining_qty - traded \in Quantities
      BY <1>1, <3>1, QuantityFacts
    <3> HIDE DEF o
    <3> QED
      BY <1>1, <3>2 DEF Reduced, Order
  <2>3. left \notin R \ {o}
    BY <1>3, <1>5, <2>2, RestingOrdersFinite DEF R
  <2> HIDE DEF o, left
  <2>4. R \ {o} \in SUBSET Order /\ IsFiniteSet(R \ {o})
    BY <1>4, FS_Subset
  <2>5. UnitsOf((R \ {o}) \cup {left}) = UnitsOf(R \ {o}) + left.remaining_qty
    BY <2>2, <2>3, <2>4, SumWith
  <2>6. UnitsOf(RestingOrders(book')) = UnitsOf(R) - traded
    BY <1>1, <1>6, <2>1, <2>2, <2>5
  <2> QED
    BY <1>1, <1>6, <2>6 DEF Resting, R, traded, s, o
<1>9. traded = o.remaining_qty \/ traded < o.remaining_qty
  BY <1>1, <1>6
<1> QED
  BY <1>7, <1>8, <1>9

\* What a fill adds to the trades.
LEMMA NextTrade ==
    ASSUME Inductive, ScenarioTypes, FillStep, trades' = trades
    PROVE  LET s == BestMakerSlot(book, call.incoming)
               traded == Lesser(call.incoming.remaining_qty, OrderAt(book, s).remaining_qty)
               trade == NewTrade(OrderAt(book, s).id, call.incoming.id,
                                 BestPrice(book, Opposite(call.incoming.side)), traded)
           IN  /\ trade \in Trade /\ trade.quantity = traded /\ traded > 0
               /\ call # None /\ call' # None
               /\ AllTrades' = Append(AllTrades, trade)
<1> DEFINE s == BestMakerSlot(book, call.incoming)
           traded == Lesser(call.incoming.remaining_qty, OrderAt(book, s).remaining_qty)
           trade == NewTrade(OrderAt(book, s).id, call.incoming.id,
                             BestPrice(book, Opposite(call.incoming.side)), traded)
<1>1. /\ call # None /\ call'.trades = Append(call.trades, trade)
  BY FilledCall
<1>2. /\ trade \in Trade /\ trade.quantity = traded /\ traded > 0 /\ call \in Call
  BY FillFacts DEF NewTrade, Trade, Order
<1>3. call' # None
  BY FillStepInductive, CallAssumption
<1> HIDE DEF trade
<1>4. call.trades \in Seq(Trade) /\ trades \in Seq(Trade)
  BY <1>2 DEF Call, ScenarioTypes
<1>5. trades \o Append(call.trades, trade) = Append(trades \o call.trades, trade)
  BY <1>2, <1>4
<1>6. AllTrades' = Append(AllTrades, trade)
  BY <1>1, <1>3, <1>5 DEF AllTrades, Collected
<1> QED
  BY <1>1, <1>2, <1>3, <1>6 DEF trade

LEMMA FillBalances ==
    ASSUME Inductive, ScenarioTypes, Balance, FillStep, UNCHANGED runVars
    PROVE  Balance'
<1> DEFINE s == BestMakerSlot(book, call.incoming)
           traded == Lesser(call.incoming.remaining_qty, OrderAt(book, s).remaining_qty)
           trade == NewTrade(OrderAt(book, s).id, call.incoming.id,
                             BestPrice(book, Opposite(call.incoming.side)), traded)
           e == [kind |-> "TradeExecuted", trade |-> trade]
<1>0. trades' = trades /\ entered' = entered
  BY DEF runVars
<1>1. /\ trade \in Trade /\ trade.quantity = traded /\ call # None /\ call' # None
      /\ AllTrades' = Append(AllTrades, trade)
  BY <1>0, NextTrade
<1>2. traded \in Nat /\ Resting' = Resting - traded
  BY Consumed
<1>3. call'.incoming = Reduced(call.incoming, traded)
  BY FilledCall
<1>4. FullLog' = Append(FullLog, e)
  BY FillLogs, ScenarioModeAssumption
<1> HIDE DEF trade, traded
<1>5. InHand' = InHand - traded
  BY <1>1, <1>3, BalanceTypes DEF InHand, Reduced, Order
<1>6. TradedSum(AllTrades') = TradedSum(AllTrades) + traded
  BY <1>1, TradedAppend, BalanceTypes
<1>7. e \in BookEvent
  BY <1>1 DEF BookEvent
<1>8. TradesFromEvents(FullLog') = FoundAfter(e, TradesFromEvents(FullLog))
  BY <1>4, <1>7, FoundNext, BalanceTypes
<1>9. TradesFromEvents(FullLog') = Append(TradesFromEvents(FullLog), trade)
  BY <1>8 DEF FoundAfter
<1>10. entered' = Resting' + InHand' + 2 * TradedSum(AllTrades')
  <2>1. /\ Resting \in Nat /\ InHand \in Nat /\ TradedSum(AllTrades) \in Nat
        /\ entered = Resting + InHand + 2 * TradedSum(AllTrades)
    BY BalanceTypes DEF Balance
  <2> QED
    BY <1>0, <1>2, <1>5, <1>6, <2>1
<1> QED
  BY <1>1, <1>9, <1>10 DEF Balance

LEMMA FinishBalances ==
    ASSUME Inductive, ScenarioTypes, Balance, Collect
    PROVE  Balance'
<1> DEFINE order == call.incoming
<1>1. /\ call # None /\ call' = None /\ events' = events \o FinishEvents(call)
      /\ order \in Order /\ order.id \notin RestingIds(book) /\ BookInv(book, older)
      /\ trades' = trades \o Collected(call) /\ entered' = entered
  BY DEF Collect, FinishCall, Inductive, TypeOK, IndexMatchesArena, Call
<1>2. FullLog' = FullLog /\ AllTrades' = AllTrades /\ InHand' = 0
  BY <1>1 DEF FullLog, AllTrades, InHand
<1>3. InHand = order.remaining_qty /\ InHand \in Nat /\ Resting \in Nat
  BY <1>1, BalanceTypes DEF InHand
<1>4. Resting' = Resting + InHand
  <2>1. CASE IsFilled(order)
    <3>1. book' = book /\ order.remaining_qty = 0
      BY <2>1 DEF Collect, FinishCall, IsFilled
    <3> QED
      BY <1>3, <3>1 DEF Resting
  <2>2. CASE ~ IsFilled(order)
    <3>1. book' = RestOrder(book, order)
      BY <2>2 DEF Collect, FinishCall
    <3>2. Restable(book, order)
      BY <1>1, <2>2, QuantityFacts DEF Restable, IsFilled, Order
    <3> DEFINE R == RestingOrders(book)
    <3> HIDE DEF order
    <3>3. RestingOrders(book') = R \cup {order}
      BY <1>1, <3>1, <3>2, RestedSet
    <3>4. R \in SUBSET Order /\ IsFiniteSet(R) /\ order \notin R
      BY <1>1, RestingOrdersFinite
    <3> HIDE DEF R
    <3>5. UnitsOf(R \cup {order}) = UnitsOf(R) + order.remaining_qty
      BY <1>1, <3>4, SumWith
    <3> QED
      BY <1>3, <3>3, <3>5 DEF Resting, R
  <2> QED
    BY <2>1, <2>2
<1> QED
  BY <1>1, <1>2, <1>3, <1>4, BalanceTypes DEF Balance

\* Whether a command is accepted or not, the balance is kept.
LEMMA RejectBalances ==
    ASSUME Balance, UNCHANGED <<book, call, events, trades, entered>>
    PROVE  Balance'
<1>1. /\ Resting' = Resting /\ InHand' = InHand /\ AllTrades' = AllTrades
      /\ FullLog' = FullLog
  BY DEF Resting, InHand, AllTrades, FullLog
<1> QED
  BY <1>1 DEF Balance

LEMMA BalanceStep ==
    ASSUME ScenarioTypes, Inductive, Balance, [SimNext]_simVars
    PROVE  Balance'
<1>1. CASE RejectName
  BY <1>1, RejectBalances DEF RejectName, vars
<1>2. CASE RunAdd
  <2>1. Current.order \in Order /\ trades' = trades
    BY <1>2, CurrentTypes DEF RunAdd, Looking, Current, ScenarioTypes, Run
  <2>2. CASE /\ AddOrder(Current.order)
             /\ entered' = entered + Current.order.remaining_qty
    BY <2>1, <2>2, AddBalances
  <2>3. CASE /\ AddZeroQuantity(Current.order) \/ AddDuplicate(Current.order)
             /\ entered' = entered
    BY <2>1, <2>3, RejectBalances DEF AddZeroQuantity, AddDuplicate, Reject
  <2> QED
    BY <1>2, <2>2, <2>3 DEF RunAdd, Run
<1>3. CASE RunCancel
  <2>1. Current.order_id \in OrderIds /\ trades' = trades
    BY <1>3, CurrentTypes DEF RunCancel, Looking, Current, ScenarioTypes, Run
  <2>2. CASE /\ CancelOrder(Current.order_id)
             /\ entered' = entered + (- Remaining(book, Current.order_id))
    BY <2>1, <2>2, CancelBalances
  <2>3. CASE CancelUnknown(Current.order_id) /\ entered' = entered
    BY <2>1, <2>3, RejectBalances DEF CancelUnknown, Reject
  <2> QED
    BY <1>3, <2>2, <2>3 DEF RunCancel, Run
<1>4. CASE RunModify
  <2>1. /\ Current.order_id \in OrderIds
        /\ Current.new_price \in Prices
        /\ Current.new_quantity \in Quantities
        /\ trades' = trades
    BY <1>4, CurrentTypes DEF RunModify, Looking, Current, ScenarioTypes, Run
  <2>2. CASE /\ ModifyOrder(Current.order_id, Current.new_price, Current.new_quantity)
             /\ entered' = entered + (Current.new_quantity - Remaining(book, Current.order_id))
    BY <2>1, <2>2, ModifyBalances
  <2>3. CASE /\ \/ ModifyZeroQuantity(Current.order_id, Current.new_quantity)
                \/ ModifyUnknown(Current.order_id, Current.new_quantity)
             /\ entered' = entered
    BY <2>1, <2>3, RejectBalances DEF ModifyZeroQuantity, ModifyUnknown, Reject
  <2> QED
    BY <1>4, <2>2, <2>3 DEF RunModify, Run
<1>5. CASE Matching
  BY <1>5, FillBalances DEF Matching
<1>6. CASE Collect
  BY <1>6, FinishBalances
<1>7. CASE Return
  BY <1>7, RejectBalances DEF Return, vars
<1>8. CASE UNCHANGED simVars
  BY <1>8, RejectBalances DEF simVars, runVars, vars
<1> QED
  BY <1>1, <1>2, <1>3, <1>4, <1>5, <1>6, <1>7, <1>8 DEF SimNext

\* The invariant of a scenario.
Balanced == ScenarioTypes /\ Inductive /\ Balance

LEMMA BalancedAlways == SimSpec => []Balanced
<1>1. SimInit => Balanced
  <2> SUFFICES ASSUME SimInit PROVE Balanced
    OBVIOUS
  <2>1. /\ call = None /\ trades = << >> /\ events = << >> /\ entered = 0
        /\ book = EmptyBook
    BY DEF SimInit, Init
  <2>2. ScenarioTypes /\ Inductive
    BY InitInductive DEF SimInit, ScenarioTypes, Init
  <2>3. RestingOrders(book) = {}
    BY <2>1 DEF RestingOrders, EmptyBook, EmptyArena, OccupiedSlots, SlotsOf
  <2>4. Resting = 0
    BY <2>3, FS_EmptySet, SumStep DEF Resting
  <2>5. InHand = 0 /\ AllTrades = << >> /\ FullLog = << >>
    BY <2>1 DEF InHand, AllTrades, FullLog
  <2>6. TradedSum(<< >>) = 0
    BY TradesEmpty
  <2> QED
    BY <2>1, <2>2, <2>4, <2>5, <2>6, NothingFound DEF Balanced, Balance
<1>2. Balanced /\ [SimNext]_simVars => Balanced'
  BY TypesStep, StepOfEngine, StepInductive, BalanceStep DEF Balanced
<1> QED
  BY <1>1, <1>2, PTL DEF SimSpec

\* Both sides together are the book.
LEMMA BothSides ==
    ASSUME Inductive
    PROVE  /\ UnitsOf(RestingOf("Buy")) \in Nat /\ UnitsOf(RestingOf("Sell")) \in Nat
           /\ RestingOrders(book) = RestingOf("Buy") \cup RestingOf("Sell")
           /\ Resting = UnitsOf(RestingOf("Buy")) + UnitsOf(RestingOf("Sell"))
<1> DEFINE B == RestingOf("Buy")
           A == RestingOf("Sell")
<1>1. /\ B \in SUBSET Order /\ IsFiniteSet(B)
      /\ A \in SUBSET Order /\ IsFiniteSet(A)
  BY RestingOfSide DEF Sides
<1>2. A \cap B = {}
  BY DEF RestingOf
<1>3. RestingOrders(book) = B \cup A
  <2>1. RestingOrders(book) \subseteq Order
    BY RestingOrdersFinite DEF Inductive
  <2> QED
    BY <2>1 DEF RestingOf, Order, Sides
<1>4. UnitsOf(B) \in Nat /\ UnitsOf(A) \in Nat
  BY DepthIsTotal DEF Sides
<1> HIDE DEF A, B
<1>5. UnitsOf(B \cup A) = UnitsOf(B) + UnitsOf(A)
  BY <1>1, <1>2, SumOfBoth
<1> QED
  BY <1>3, <1>4, <1>5 DEF Resting, A, B

\* Words that are added one by one.
LEMMA WordSum ==
    ASSUME NEW a \in Nat, NEW b \in Nat, NEW c \in Nat
    PROVE  Word((a % QtySpace) + (b % QtySpace) + 2 * (c % QtySpace)) = Word(a + b + 2 * c)
<1> DEFINE x == a % QtySpace
           y == b % QtySpace
           z == c % QtySpace
<1>1. x \in Int /\ y \in Int /\ z \in Int
  BY QtyAssumption
<1>2. \A n \in Int : Word(x + n) = Word(a + n)
  BY WrapSum DEF Word
<1>3. \A n \in Int : Word(y + n) = Word(b + n)
  BY WrapSum DEF Word
<1>4. \A n \in Int : Word(z + n) = Word(c + n)
  BY WrapSum DEF Word
<1> HIDE DEF x, y, z
<1>0. /\ y + 2 * z \in Int /\ a + 2 * z \in Int
      /\ a + b + z \in Int /\ a + b + c \in Int
  BY <1>1
<1>5. Word(x + (y + 2 * z)) = Word(a + (y + 2 * z))
  BY <1>0, <1>2, Zenon
<1>6. Word(y + (a + 2 * z)) = Word(b + (a + 2 * z))
  BY <1>0, <1>3, Zenon
<1>7. Word(z + (a + b + z)) = Word(c + (a + b + z))
  BY <1>0, <1>4, Zenon
<1>8. Word(z + (a + b + c)) = Word(c + (a + b + c))
  BY <1>0, <1>4, Zenon
<1>9. /\ x + (y + 2 * z) = x + y + 2 * z
      /\ a + (y + 2 * z) = y + (a + 2 * z)
      /\ b + (a + 2 * z) = z + (a + b + z)
      /\ c + (a + b + z) = z + (a + b + c)
      /\ c + (a + b + c) = a + b + 2 * c
  BY <1>1
<1> QED
  BY <1>5, <1>6, <1>7, <1>8, <1>9 DEF x, y, z

\* run_scenario loses nothing: whatever the commands, what they brought into the
\* book is in the totals that calculate_book_metrics shows of the final snapshot or
\* was traded, and the collected trades are those that the log has.
THEOREM ScenariosAlwaysBalance == SimSpec => []ScenarioBalances
<1>1. Balanced => ScenarioBalances
  <2> SUFFICES ASSUME Balanced, call = None
               PROVE  /\ Word(entered) = Word(Depth.total_bid_quantity + Depth.total_ask_quantity
                                                + 2 * Execution.total_traded_quantity)
                      /\ trades = TradesFromEvents(events)
    BY DEF ScenarioBalances, BetweenCommands
  <2> DEFINE a == UnitsOf(RestingOf("Buy"))
             b == UnitsOf(RestingOf("Sell"))
             c == TradedSum(trades)
  <2>1. /\ AllTrades = trades /\ InHand = 0 /\ FullLog = events
    BY DEF AllTrades, InHand, FullLog
  <2>2. /\ a \in Nat /\ b \in Nat /\ Resting = a + b /\ c \in Nat
    BY <2>1, BothSides, BalanceTypes DEF Balanced
  <2>3. entered = a + b + 2 * c
    BY <2>1, <2>2 DEF Balanced, Balance
  <2>4. /\ Depth.total_bid_quantity = a % QtySpace
        /\ Depth.total_ask_quantity = b % QtySpace
    BY DepthIsTotal DEF Depth, BookMetrics, Sides, Balanced
  <2>5. Execution.total_traded_quantity = c % QtySpace
    BY TradedIsTotal DEF Execution, TradeMetrics, Balanced, ScenarioTypes
  <2> HIDE DEF a, b, c
  <2>6. Word(entered) = Word(Depth.total_bid_quantity + Depth.total_ask_quantity
                               + 2 * Execution.total_traded_quantity)
    BY <2>2, <2>3, <2>4, <2>5, WordSum
  <2> QED
    BY <2>1, <2>6 DEF Balanced, Balance
<1> QED
  BY <1>1, BalancedAlways, PTL

-----------------------------------------------------------------------------
(* What the metrics report.                                                *)

LEMMA Extremes ==
    ASSUME NEW S, S \subseteq Nat, IsFiniteSet(S), S # {}
    PROVE  /\ Max(S) \in S /\ \A y \in S : y <= Max(S)
           /\ Min(S) \in S /\ \A y \in S : Min(S) <= y
<1>1. \E p \in S : \A y \in S : p >= y
  <2>1. PICK p \in S : \A q \in S : ~ Outranks("Buy", q, p)
    BY BestOfPrices DEF Sides
  <2> QED
    BY <2>1 DEF Outranks
<1>2. \E p \in S : \A y \in S : p =< y
  <2>1. PICK p \in S : \A q \in S : ~ Outranks("Sell", q, p)
    BY BestOfPrices DEF Sides
  <2> QED
    BY <2>1 DEF Outranks
<1>3. Max(S) \in S /\ \A y \in S : Max(S) >= y
  BY <1>1 DEF Max
<1>4. Min(S) \in S /\ \A y \in S : Min(S) =< y
  BY <1>2 DEF Min
<1> QED
  BY <1>3, <1>4

\* The touch of a side.
LEMMA Touch ==
    ASSUME Inductive, NEW side \in Sides
    PROVE  LET prices == {o.price : o \in RestingOf(side)}
           IN  /\ prices = PricesOf(book, side)
               /\ prices \subseteq Nat /\ IsFiniteSet(prices)
               /\ BestOf(Snapshot(book), side) =
                     IF prices = {} THEN None
                     ELSE IF side = "Buy" THEN Max(prices) ELSE Min(prices)
<1> DEFINE S == PricesOf(book, side)
           queues == Snapshot(book)[side]
<1>1. S = {o.price : o \in RestingOf(side)}
  BY RestingOfSide
<1>2. S \subseteq Nat /\ IsFiniteSet(S)
  BY PricesFinite DEF Inductive
<1>3. queues = [p \in S |-> LevelOrders(book, book.levels[side][p])]
  BY DEF Snapshot
<1>4. queues = EmptyMap <=> S = {}
  BY <1>3 DEF EmptyMap
<1>5. DOMAIN queues = S
  BY <1>3
<1>6. CASE S = {}
  BY <1>1, <1>2, <1>4, <1>6 DEF BestOf
<1>7. CASE S # {}
  <2>1. BestOf(Snapshot(book), side) =
           CHOOSE p \in S : \A q \in S : ~ Outranks(side, q, p)
    BY <1>4, <1>5, <1>7 DEF BestOf
  <2> HIDE DEF S, queues
  <2>2. PICK p \in S : \A q \in S : ~ Outranks(side, q, p)
    BY <1>2, <1>7, BestOfPrices
  <2> DEFINE best == CHOOSE x \in S : \A q \in S : ~ Outranks(side, q, x)
  <2>3. best \in S /\ \A q \in S : ~ Outranks(side, q, best)
    BY <2>2
  <2> HIDE DEF best
  <2>4. /\ Max(S) \in S /\ \A y \in S : y <= Max(S)
        /\ Min(S) \in S /\ \A y \in S : Min(S) <= y
    BY <1>2, <1>7, Extremes
  <2>5. /\ ~ Outranks(side, Max(S), best) /\ ~ Outranks(side, Min(S), best)
        /\ best <= Max(S) /\ Min(S) <= best
        /\ Max(S) \in Nat /\ Min(S) \in Nat /\ best \in Nat
    BY <1>2, <2>3, <2>4
  <2>6. best = IF side = "Buy" THEN Max(S) ELSE Min(S)
    BY <2>5 DEF Outranks
  <2>7. BestOf(Snapshot(book), side) = IF side = "Buy" THEN Max(S) ELSE Min(S)
    BY <2>1, <2>6 DEF best
  <2> HIDE DEF S
  <2>8. BestOf(Snapshot(book), side) =
           IF S = {} THEN None ELSE IF side = "Buy" THEN Max(S) ELSE Min(S)
    BY <1>7, <2>7
  <2> QED
    BY <1>1, <1>2, <2>8, Zenon DEF S
<1> QED
  BY <1>6, <1>7

\* Only an empty book has no depth.
LEMMA SomeDepth ==
    ASSUME Inductive
    PROVE  Resting = 0 <=> RestingOrders(book) = {}
<1>1. RestingOrders(book) \in SUBSET Order /\ IsFiniteSet(RestingOrders(book))
  BY RestingOrdersFinite DEF Inductive
<1>2. ASSUME NEW o \in RestingOrders(book) PROVE Resting > 0
  <2> DEFINE R == RestingOrders(book)
  <2>1. o.remaining_qty > 0
    BY DEF RestingOrders, Inductive, BookInv, IndexOK, Occupied
  <2> HIDE DEF R
  <2>2. /\ UnitsOf(R) = UnitsOf(R \ {o}) + o.remaining_qty
        /\ UnitsOf(R \ {o}) \in Nat /\ o.remaining_qty \in Nat
    BY <1>1, SumAtLeast DEF R
  <2> QED
    BY <2>1, <2>2 DEF Resting, R
<1>3. RestingOrders(book) = {} => Resting = 0
  BY <1>1, SumStep DEF Resting
<1>4. Resting \in Nat
  BY <1>1, SumStep DEF Resting
<1> QED
  BY <1>2, <1>3, <1>4

\* An average lies between what is averaged.
LEMMA Monotone ==
    ASSUME NEW a \in Nat, NEW b \in Nat, NEW q \in Nat, a <= b
    PROVE  a * q <= b * q /\ a * q \in Nat /\ b * q \in Nat
<1>1. b * q = a * q + (b - a) * q /\ (b - a) \in Nat
  OBVIOUS
<1>2. (b - a) * q \in Nat /\ a * q \in Nat /\ b * q \in Nat
  BY <1>1
<1> QED
  BY <1>1, <1>2

LEMMA Average ==
    ASSUME NEW s \in Seq(Trade), NEW lo \in Nat, NEW hi \in Nat,
           \A i \in DOMAIN s : lo <= s[i].price /\ s[i].price <= hi
    PROVE  /\ TradedSum(s) \in Nat /\ NotionalSum(s) \in Nat
           /\ lo * TradedSum(s) <= NotionalSum(s)
           /\ NotionalSum(s) <= hi * TradedSum(s)
<1> DEFINE S == DOMAIN s
           u == QuantityAt(s)
           v == ValueAt(s)
           P == {T \in SUBSET S : /\ lo * Total(u, T) <= Total(v, T)
                                  /\ Total(v, T) <= hi * Total(u, T)}
<1>1. /\ IsFiniteSet(S)
      /\ \A i \in S : u[i] \in Nat /\ v[i] \in Nat /\ v[i] = s[i].price * u[i]
                      /\ s[i].price \in Nat
  BY TradeValues
<1> HIDE DEF u, v, S
<1>2. \A T \in SUBSET S : IsFiniteSet(T) /\ Total(u, T) \in Nat /\ Total(v, T) \in Nat
  BY <1>1, FS_Subset, TotalFacts
<1>3. {} \in P
  <2>1. Total(u, {}) = 0 /\ Total(v, {}) = 0
    BY <1>1, TotalFacts
  <2> QED
    BY <2>1
<1>4. ASSUME NEW T \in SUBSET S, T # {}, \A x \in T : T \ {x} \in P
      PROVE  T \in P
  <2>1. PICK x \in T : TRUE
    BY <1>4
  <2> DEFINE a == Total(u, T \ {x})
             b == Total(v, T \ {x})
             q == u[x]
             p == s[x].price
  <2>2. lo * a <= b /\ b <= hi * a /\ a \in Nat /\ b \in Nat
    BY <1>2, <1>4, <2>1
  <2>3. Total(u, T) = a + q /\ Total(v, T) = b + p * q
    <3>1. IsFiniteSet(T) /\ \A i \in T : u[i] \in Nat /\ v[i] \in Nat
      BY <1>1, <1>2
    <3>2. Total(u, T) = a + u[x] /\ Total(v, T) = b + v[x]
      BY <2>1, <3>1, TotalFacts
    <3>3. v[x] = s[x].price * u[x]
      BY <1>1, <2>1
    <3> QED
      BY <3>2, <3>3
  <2>4. lo <= p /\ p <= hi /\ p \in Nat /\ q \in Nat
    BY <1>1, <2>1 DEF S
  <2> HIDE DEF a, b, p, q
  <2>5. lo * q <= p * q /\ p * q <= hi * q
    BY <2>4, Monotone
  <2>6. lo * (a + q) = lo * a + lo * q /\ hi * (a + q) = hi * a + hi * q
    BY <2>2, <2>4
  <2>7. lo * a \in Nat /\ lo * q \in Nat /\ hi * a \in Nat /\ hi * q \in Nat /\ p * q \in Nat
    BY <2>2, <2>4
  <2> QED
    BY <2>2, <2>3, <2>5, <2>6, <2>7
<1> HIDE DEF P
<1>5. \A T \in SUBSET S : T \in P
  BY <1>1, <1>3, <1>4, SubsetInduction
<1>6. S \in P
  BY <1>5
<1> QED
  BY <1>2, <1>6 DEF P, TradedSum, NotionalSum, u, v, S

\* Something was traded exactly if there is a trade.
LEMMA SomeTraded ==
    ASSUME NEW s \in Seq(Trade), \A i \in DOMAIN s : s[i].quantity > 0
    PROVE  TradedSum(s) = 0 <=> s = << >>
<1>1. /\ IsFiniteSet(DOMAIN s) /\ DOMAIN s = 1 .. Len(s)
      /\ \A i \in DOMAIN s : QuantityAt(s)[i] \in Nat /\ QuantityAt(s)[i] > 0
  BY TradeValues
<1>2. TradedSum(<< >>) = 0
  BY TradesEmpty
<1>3. ASSUME NEW i \in DOMAIN s PROVE TradedSum(s) > 0
  <2>1. TradedSum(s) = Total(QuantityAt(s), DOMAIN s \ {i}) + QuantityAt(s)[i]
    BY <1>1, TotalFacts DEF TradedSum
  <2>2. IsFiniteSet(DOMAIN s \ {i})
    BY <1>1, FS_Subset
  <2>3. Total(QuantityAt(s), DOMAIN s \ {i}) \in Nat
    BY <1>1, <2>2, TotalFacts
  <2> QED
    BY <1>1, <2>1, <2>3
<1>4. s # << >> => \E i \in DOMAIN s : TRUE
  <2> SUFFICES ASSUME s # << >> PROVE 1 \in DOMAIN s
    OBVIOUS
  <2> QED
    BY <1>1
<1> QED
  BY <1>2, <1>3, <1>4

\* The trades so far only grow, and only by fills.
LEMMA TradesGrow ==
    ASSUME ScenarioTypes, Inductive, [SimNext]_simVars
    PROVE  \/ FillStep /\ UNCHANGED runVars
           \/ AllTrades' = AllTrades
<1>1. CASE RejectName
  BY <1>1 DEF RejectName, vars, AllTrades
<1>2. CASE RunAdd
  <2>1. call = None /\ trades' = trades /\ Current.order \in Order
    BY <1>2, CurrentTypes DEF RunAdd, Looking, Current, ScenarioTypes, Run, Running
  <2>2. CASE AddOrder(Current.order)
    <3>1. call' # None /\ call'.trades = << >>
      BY <2>1, <2>2, StartType, CallAssumption DEF StartMatching, AddOrder
    <3> QED
      BY <2>1, <3>1 DEF AllTrades, Collected, ScenarioTypes
  <2>3. CASE AddZeroQuantity(Current.order) \/ AddDuplicate(Current.order)
    BY <2>1, <2>3 DEF AddZeroQuantity, AddDuplicate, Reject, AllTrades
  <2> QED
    BY <1>2, <2>2, <2>3 DEF RunAdd, Run
<1>3. CASE RunCancel
  BY <1>3 DEF RunCancel, Run, Looking, Running, CancelOrder, CancelUnknown, Reject, AllTrades
<1>4. CASE RunModify
  <2> DEFINE id == Current.order_id
             side == OrderAt(book, book.order_slots[id]).side
             order == NewOrder(id, side, Current.new_price, Current.new_quantity)
  <2>1. /\ id \in OrderIds /\ Current.new_price \in Prices
        /\ Current.new_quantity \in Quantities /\ call = None /\ trades' = trades
    BY <1>4, CurrentTypes DEF RunModify, Looking, Current, ScenarioTypes, Run, Running
  <2>2. CASE ModifyOrder(id, Current.new_price, Current.new_quantity)
    <3>1. call' = StartMatching("Modify", order) /\ id \in RestingIds(book)
      BY <2>2 DEF ModifyOrder
    <3>2. side \in Sides
      BY <3>1, RestingFacts DEF Inductive, BookInv, IndexOK
    <3>3. order \in Order
      BY <2>1, <3>2 DEF NewOrder, Order
    <3> HIDE DEF order
    <3>4. call' # None /\ call'.trades = << >>
      BY <3>1, <3>3, StartType, CallAssumption DEF StartMatching
    <3> QED
      BY <2>1, <3>4 DEF AllTrades, Collected, ScenarioTypes
  <2>3. CASE \/ ModifyZeroQuantity(id, Current.new_quantity)
             \/ ModifyUnknown(id, Current.new_quantity)
    BY <2>1, <2>3 DEF ModifyZeroQuantity, ModifyUnknown, Reject, AllTrades
  <2> QED
    BY <1>4, <2>2, <2>3 DEF RunModify, Run
<1>5. CASE Matching
  BY <1>5 DEF Matching
<1>6. CASE Collect
  BY <1>6 DEF Collect, FinishCall, AllTrades
<1>7. CASE Return
  BY <1>7 DEF Return, vars, AllTrades
<1>8. CASE UNCHANGED simVars
  BY <1>8 DEF simVars, runVars, vars, AllTrades
<1> QED
  BY <1>1, <1>2, <1>3, <1>4, <1>5, <1>6, <1>7, <1>8 DEF SimNext

\* Nothing is traded for nothing.
TradesPositive == \A i \in DOMAIN AllTrades : AllTrades[i].quantity > 0

LEMMA PositiveStep ==
    ASSUME ScenarioTypes, Inductive, TradesPositive, [SimNext]_simVars
    PROVE  TradesPositive'
<1>1. CASE FillStep /\ UNCHANGED runVars
  <2>1. PICK trade \in Trade : trade.quantity > 0 /\ AllTrades' = Append(AllTrades, trade)
    BY <1>1, NextTrade DEF runVars
  <2>2. AllTrades \in Seq(Trade)
    BY BalanceTypes
  <2>3. \A i \in DOMAIN Append(AllTrades, trade) :
           \/ Append(AllTrades, trade)[i] = trade
           \/ i \in DOMAIN AllTrades /\ Append(AllTrades, trade)[i] = AllTrades[i]
    BY <2>2
  <2> QED
    BY <2>1, <2>3 DEF TradesPositive
<1>2. CASE AllTrades' = AllTrades
  BY <1>2 DEF TradesPositive
<1> QED
  BY <1>1, <1>2, TradesGrow

LEMMA PositiveAlways == SimSpec => [](ScenarioTypes /\ Inductive /\ TradesPositive)
<1>1. SimInit => ScenarioTypes /\ Inductive /\ TradesPositive
  <2> SUFFICES ASSUME SimInit PROVE ScenarioTypes /\ Inductive /\ TradesPositive
    OBVIOUS
  <2>1. AllTrades = << >>
    BY DEF SimInit, Init, AllTrades
  <2> QED
    BY <2>1, InitInductive DEF SimInit, ScenarioTypes, Init, TradesPositive
<1>2. (ScenarioTypes /\ Inductive /\ TradesPositive) /\ [SimNext]_simVars
         => (ScenarioTypes /\ Inductive /\ TradesPositive)'
  BY TypesStep, StepOfEngine, StepInductive, PositiveStep
<1> QED
  BY <1>1, <1>2, PTL DEF SimSpec

-----------------------------------------------------------------------------
(* Rounding to an f64.                                                     *)

\* A common factor can be cancelled.
LEMMA CommonFactor ==
    ASSUME NEW a \in Nat, NEW b \in Nat, NEW q \in Nat \ {0}
    PROVE  /\ a * q <= b * q <=> a <= b
           /\ a * q < b * q <=> a < b
<1>1. a <= b => a * q <= b * q
  BY Monotone
<1>2. b <= a => b * q <= a * q
  BY Monotone
<1>3. ASSUME NEW x \in Nat, NEW y \in Nat, x < y PROVE x * q < y * q
  <2>1. (x + 1) * q = x * q + q /\ x * q \in Nat /\ y * q \in Nat
    OBVIOUS
  <2>2. (x + 1) * q <= y * q
    BY <1>3, Monotone
  <2> QED
    BY <2>1, <2>2
<1>4. (a < b => a * q < b * q) /\ (b < a => b * q < a * q)
  BY <1>3
<1>5. a * q \in Nat /\ b * q \in Nat
  OBVIOUS
<1> DEFINE x == a * q
           y == b * q
<1>6. x \in Nat /\ y \in Nat /\ (a <= b => x <= y) /\ (b <= a => y <= x)
      /\ (a < b => x < y) /\ (b < a => y < x)
  BY <1>1, <1>2, <1>4, <1>5
<1> HIDE DEF x, y
<1>7. (x <= y <=> a <= b) /\ (x < y <=> a < b)
  BY <1>6
<1> QED
  BY <1>7 DEF x, y

\* The neighbours of a fraction among the floats.
LEMMA Neighbours ==
    ASSUME NEW n \in Nat, NEW d \in Nat \ {0}, \E top \in Floats : n <= top * d
    PROVE  LET below == Max({f \in Floats : f * d <= n})
               above == Min({f \in Floats : f * d >= n})
           IN  /\ below \in Floats /\ above \in Floats
               /\ below * d <= n /\ n <= above * d
               /\ below <= above
               /\ \A f \in Floats : f * d <= n => f <= below
               /\ \A f \in Floats : n <= f * d => above <= f
<1> DEFINE S == {f \in Floats : f * d <= n}
           T == {f \in Floats : f * d >= n}
           below == Max(S)
           above == Min(T)
<1>1. Floats \subseteq Nat /\ IsFiniteSet(Floats)
  BY FloatAssumption
<1>2. S \subseteq Nat /\ T \subseteq Nat /\ IsFiniteSet(S) /\ IsFiniteSet(T)
  BY <1>1, FS_Subset
<1>3. 0 \in S
  <2>1. 0 * Fine \in Floats
    BY FloatAssumption
  <2> QED
    BY <2>1, FloatAssumption
<1>4. T # {}
  <2>1. PICK top \in Floats : n <= top * d
    OBVIOUS
  <2>2. top \in T
    BY <1>1, <2>1
  <2> QED
    BY <2>2
<1> HIDE DEF S, T
<1>5. /\ below \in S /\ \A f \in S : f <= below
      /\ above \in T /\ \A f \in T : above <= f
  BY <1>2, <1>3, <1>4, Extremes
<1> HIDE DEF below, above
<1>6. /\ below \in Floats /\ above \in Floats /\ below \in Nat /\ above \in Nat
      /\ below * d <= n /\ n <= above * d
      /\ \A f \in Floats : f * d <= n => f <= below
      /\ \A f \in Floats : n <= f * d => above <= f
  BY <1>1, <1>5 DEF S, T
<1>7. below <= above
  <2>1. below * d <= above * d
    <3>1. below * d \in Nat /\ above * d \in Nat
      BY <1>6
    <3> QED
      BY <1>6, <3>1
  <2>2. below * d <= above * d <=> below <= above
    BY <1>6, CommonFactor
  <2> QED
    BY <2>1, <2>2, Zenon
<1> QED
  BY <1>6, <1>7 DEF below, above, S, T

\* A rounded number passes no float that the exact one does not pass.
LEMMA Rounding ==
    ASSUME NEW n \in Nat, NEW d \in Nat \ {0}, \E top \in Floats : n <= top * d
    PROVE  /\ Nearest(n, d) \in Floats
           /\ \A f \in Floats : f * d <= n => f <= Nearest(n, d)
           /\ \A f \in Floats : n <= f * d => Nearest(n, d) <= f
<1> DEFINE below == Max({f \in Floats : f * d <= n})
           above == Min({f \in Floats : f * d >= n})
<1>1. /\ below \in Floats /\ above \in Floats /\ below <= above
      /\ \A f \in Floats : f * d <= n => f <= below
      /\ \A f \in Floats : n <= f * d => above <= f
  BY Neighbours
<1>2. Nearest(n, d) \in {below, above}
  BY DEF Nearest
<1> HIDE DEF below, above
<1>3. below \in Nat /\ above \in Nat /\ \A f \in Floats : f \in Nat
  BY <1>1, FloatAssumption
<1>4. ASSUME NEW f \in Floats, f * d <= n PROVE f <= Nearest(n, d)
  <2>1. f <= below
    BY <1>1, <1>4
  <2> QED
    BY <1>1, <1>2, <1>3, <2>1
<1>5. ASSUME NEW f \in Floats, n <= f * d PROVE Nearest(n, d) <= f
  <2>1. above <= f
    BY <1>1, <1>5
  <2> QED
    BY <1>1, <1>2, <1>3, <2>1
<1> QED
  BY <1>1, <1>2, <1>4, <1>5

\* A number that is a float is rounded to itself.
LEMMA RoundingExact ==
    ASSUME NEW f \in Floats, NEW d \in Nat \ {0}
    PROVE  Nearest(f * d, d) = f
<1> DEFINE r == Nearest(f * d, d)
<1>1. f \in Nat /\ f * d \in Nat /\ f * d <= f * d
  BY FloatAssumption
<1>2. r \in Floats /\ f <= r /\ r <= f
  BY <1>1, Rounding
<1> HIDE DEF r
<1>3. r \in Nat
  BY <1>2, FloatAssumption
<1>4. r = f
  BY <1>1, <1>2, <1>3
<1> QED
  BY <1>4 DEF r

\* Rounding keeps the order.
LEMMA RoundingMonotone ==
    ASSUME NEW m \in Nat, NEW n \in Nat, m <= n, NEW d \in Nat \ {0},
           \E top \in Floats : n <= top * d
    PROVE  Nearest(m, d) <= Nearest(n, d)
<1> DEFINE Below(k) == Max({f \in Floats : f * d <= k})
           Above(k) == Min({f \in Floats : f * d >= k})
           Middle(k) == (Below(k) + Above(k)) * d
<1>1. \A f \in Floats : f \in Nat /\ f * d \in Nat
  BY FloatAssumption
<1>2. \E top \in Floats : m <= top * d
  BY <1>1
<1>3. \A k \in {m, n} :
         /\ Below(k) \in Floats /\ Above(k) \in Floats /\ Below(k) <= Above(k)
         /\ Below(k) * d <= k /\ k <= Above(k) * d
         /\ \A f \in Floats : f * d <= k => f <= Below(k)
         /\ \A f \in Floats : k <= f * d => Above(k) <= f
  <2>1. ASSUME NEW k \in Nat, \E top \in Floats : k <= top * d
        PROVE  /\ Below(k) \in Floats /\ Above(k) \in Floats /\ Below(k) <= Above(k)
               /\ Below(k) * d <= k /\ k <= Above(k) * d
               /\ \A f \in Floats : f * d <= k => f <= Below(k)
               /\ \A f \in Floats : k <= f * d => Above(k) <= f
    BY <2>1, Neighbours
  <2> HIDE DEF Below, Above
  <2> QED
    BY <1>2, <2>1
<1>4. \A k \in {m, n} :
         Nearest(k, d) = IF \/ Below(k) = Above(k)
                            \/ 2 * k < Middle(k)
                            \/ 2 * k = Middle(k) /\ IsEven(Below(k), Above(k))
                           THEN Below(k) ELSE Above(k)
  BY DEF Nearest
<1> HIDE DEF Below, Above
<1>5. \A k \in {m, n} : Below(k) \in Nat /\ Above(k) \in Nat /\ Nearest(k, d) \in {Below(k), Above(k)}
  BY <1>3, <1>4, FloatAssumption
<1>6. CASE Above(m) <= Below(n)
  BY <1>3, <1>5, <1>6
<1>7. CASE Below(n) < Above(m)
  <2>1. Below(n) <= Below(m)
    <3>1. ~ (m <= Below(n) * d)
      BY <1>3, <1>5, <1>7
    <3>2. Below(n) * d <= m
      BY <1>1, <1>3, <3>1
    <3> QED
      BY <1>3, <3>2
  <2>2. Below(m) <= Below(n)
    BY <1>1, <1>3
  <2>3. Above(n) <= Above(m)
    <3>1. ~ (Above(m) * d <= n)
      BY <1>3, <1>5, <1>7
    <3>2. n <= Above(m) * d
      BY <1>1, <1>3, <3>1
    <3> QED
      BY <1>3, <3>2
  <2>4. Above(m) <= Above(n)
    BY <1>1, <1>3
  <2>5. Below(m) = Below(n) /\ Above(m) = Above(n)
    BY <1>5, <2>1, <2>2, <2>3, <2>4
  <2>6. Middle(m) = Middle(n) /\ Middle(n) \in Nat
    BY <1>5, <2>5
  <2> HIDE DEF Middle
  <2>7. ASSUME Nearest(m, d) # Below(n) PROVE Nearest(n, d) = Above(n)
    <3>1. /\ Below(n) # Above(n) /\ ~ (2 * m < Middle(n))
          /\ ~ (2 * m = Middle(n) /\ IsEven(Below(n), Above(n)))
      BY <1>4, <2>5, <2>6, <2>7
    <3>2. ~ (2 * n < Middle(n)) /\ (2 * n = Middle(n) => 2 * m = Middle(n))
      BY <2>6, <3>1
    <3> QED
      BY <1>4, <3>1, <3>2
  <2>8. Nearest(m, d) = Below(n) \/ Nearest(m, d) = Above(n)
    BY <1>5, <2>5
  <2> QED
    BY <1>3, <1>5, <2>7, <2>8
<1> QED
  BY <1>5, <1>6, <1>7

\* The conversion of an integer that is at most the square of a word.
LEMMA Conversion ==
    ASSUME NEW n \in Nat, n <= QtySpace * QtySpace
    PROVE  /\ AsFloat(n) \in Floats /\ AsFloat(n) \in Nat
           /\ n <= Exact => AsFloat(n) = n * Fine
           /\ n > 0 => AsFloat(n) >= Fine
           /\ AsFloat(n) <= QtySpace * QtySpace * Fine
           /\ n <= QtySpace => AsFloat(n) <= QtySpace * Fine
           /\ \A m \in Nat : m <= n => AsFloat(m) <= AsFloat(n)
<1> DEFINE Q == QtySpace * QtySpace
           q == QtySpace
           r == AsFloat(n)
<1>1. /\ Q \in Nat /\ q \in Nat /\ Fine \in Nat \ {0} /\ Floats \subseteq Nat
      /\ Q * Fine \in Floats /\ q * Fine \in Floats /\ Fine \in Floats
  <2>1. 1 \in 0 .. Exact /\ 1 * Fine = Fine
    BY FloatAssumption
  <2>2. Fine \in Floats
    BY <2>1, FloatAssumption
  <2> QED
    BY <2>2, Squares, QtyAssumption, FloatAssumption, RangeAssumption
<1> HIDE DEF Q, q
<1>2. \A k \in Nat : k * Fine \in Nat /\ (k * Fine) * 1 = k * Fine
  BY <1>1
<1>3. \A k \in Nat : k <= n => k * Fine <= n * Fine
  BY <1>1, Monotone
<1>4. n * Fine <= (Q * Fine) * 1
  <2>1. n * Fine <= Q * Fine
    BY <1>1, Monotone DEF Q
  <2> QED
    BY <1>1, <1>2, <2>1
<1>5. \E top \in Floats : n * Fine <= top * 1
  BY <1>1, <1>4
<1>6. /\ r \in Floats
      /\ \A f \in Floats : f * 1 <= n * Fine => f <= r
      /\ \A f \in Floats : n * Fine <= f * 1 => r <= f
  BY <1>2, <1>5, Rounding DEF AsFloat
<1> HIDE DEF r
<1>7. ASSUME n <= Exact PROVE r = n * Fine
  <2>1. n * Fine \in Floats
    BY <1>7, FloatAssumption
  <2>2. Nearest((n * Fine) * 1, 1) = n * Fine
    BY <2>1, RoundingExact
  <2> QED
    BY <1>2, <2>2 DEF r, AsFloat
<1>8. ASSUME n > 0 PROVE r >= Fine
  <2>1. 1 * Fine <= n * Fine /\ 1 * Fine = Fine * 1 /\ Fine * 1 \in Nat
    BY <1>1, <1>3, <1>8
  <2>2. Fine * 1 <= n * Fine
    BY <2>1
  <2> QED
    BY <1>1, <1>6, <2>2
<1>9. r <= Q * Fine
  BY <1>1, <1>4, <1>6
<1>10. ASSUME n <= q PROVE r <= q * Fine
  <2>1. n * Fine <= q * Fine
    BY <1>1, <1>10, Monotone
  <2>2. n * Fine <= (q * Fine) * 1
    BY <1>1, <1>2, <2>1
  <2> QED
    BY <1>1, <1>6, <2>2
<1>11. ASSUME NEW m \in Nat, m <= n PROVE AsFloat(m) <= r
  <2>1. m * Fine \in Nat /\ n * Fine \in Nat /\ m * Fine <= n * Fine
    BY <1>2, <1>3, <1>11
  <2> QED
    BY <1>5, <2>1, RoundingMonotone DEF AsFloat, r
<1> QED
  BY <1>1, <1>6, <1>7, <1>8, <1>9, <1>10, <1>11 DEF r, Q, q

\* The mid price of two prices.
LEMMA MidPrice ==
    ASSUME NEW bid \in Quantities, NEW ask \in Quantities, bid < ask
    PROVE  MidInside(bid, ask, FloatHalf(FloatSum(AsFloat(bid), AsFloat(ask))))
<1> DEFINE b == AsFloat(bid)
           a == AsFloat(ask)
           sum == Nearest(b + a, 1)
           mid == Nearest(sum, 2)
           h == Fine \div 2
<1>1. /\ bid \in Nat /\ ask \in Nat /\ bid <= QtySpace /\ ask <= QtySpace
      /\ QtySpace \in Nat /\ QtySpace <= QtySpace * QtySpace
      /\ bid <= QtySpace * QtySpace /\ ask <= QtySpace * QtySpace
  <2>1. QtySpace \in Nat /\ 1 <= QtySpace
    BY QtyAssumption
  <2>2. 1 * QtySpace <= QtySpace * QtySpace /\ 1 * QtySpace = QtySpace
    BY <2>1, Monotone
  <2>3. QtySpace * QtySpace \in Nat
    BY Squares
  <2> QED
    BY <2>1, <2>2, <2>3 DEF Quantities
<1>2. /\ b \in Floats /\ a \in Floats /\ b \in Nat /\ a \in Nat /\ b <= a
      /\ b <= QtySpace * Fine /\ a <= QtySpace * Fine
      /\ bid <= Exact => b = bid * Fine
      /\ ask <= Exact => a = ask * Fine
  BY <1>1, Conversion
<1>3. 2 * b \in Floats /\ 2 * a \in Floats /\ Floats \subseteq Nat
  BY <1>2, RangeAssumption, FloatAssumption
<1> HIDE DEF b, a
<1>4. sum \in Floats /\ sum \in Nat /\ 2 * b <= sum /\ sum <= 2 * a
  <2>1. (2 * b) * 1 <= b + a /\ b + a <= (2 * a) * 1 /\ b + a \in Nat
    BY <1>2
  <2>0. \E top \in Floats : b + a <= top * 1
    BY <1>3, <2>1
  <2>2. /\ sum \in Floats
        /\ \A f \in Floats : f * 1 <= b + a => f <= sum
        /\ \A f \in Floats : b + a <= f * 1 => sum <= f
    BY <2>0, <2>1, Rounding
  <2> QED
    BY <1>3, <2>1, <2>2
<1>5. mid \in Floats /\ mid \in Nat /\ b <= mid /\ mid <= a
  <2> HIDE DEF sum
  <2>1. b * 2 <= sum /\ sum <= a * 2
    BY <1>2, <1>4
  <2>2. /\ mid \in Floats
        /\ \A f \in Floats : f * 2 <= sum => f <= mid
        /\ \A f \in Floats : sum <= f * 2 => mid <= f
    BY <1>2, <1>4, <2>1, Rounding
  <2> QED
    BY <1>2, <1>3, <2>1, <2>2
<1>6. ASSUME bid + ask <= Exact PROVE bid * Fine < mid /\ mid < ask * Fine
  <2> DEFINE s == bid + ask
  <2>1. h \in Nat \ {0} /\ Fine = 2 * h /\ Fine \in Nat \ {0} /\ Exact \in Nat
    BY FloatAssumption
  <2>2. s \in Nat /\ bid <= Exact /\ ask <= Exact /\ s \in 0 .. Exact
    BY <1>1, <1>6, <2>1
  <2>3. s * Fine \in Floats /\ s * h \in Floats
    BY <2>2, FloatAssumption
  <2>4. b + a = (s * Fine) * 1
    BY <1>1, <1>2, <2>1, <2>2
  <2>5. sum = s * Fine
    BY <2>3, <2>4, RoundingExact
  <2> HIDE DEF sum, h, s
  <2>6. sum = (s * h) * 2
    BY <2>1, <2>2, <2>5
  <2>7. mid = s * h
    BY <2>3, <2>6, RoundingExact
  <2>8. 2 * bid < s /\ s < 2 * ask /\ 2 * bid \in Nat /\ 2 * ask \in Nat
    BY <1>1 DEF s
  <2>9. (2 * bid) * h < s * h /\ s * h < (2 * ask) * h
    BY <2>1, <2>2, <2>8, CommonFactor
  <2>10. bid * Fine = (2 * bid) * h /\ ask * Fine = (2 * ask) * h
    BY <1>1, <2>1
  <2> QED
    BY <2>7, <2>9, <2>10
<1> QED
  BY <1>5, <1>6 DEF MidInside, FloatHalf, FloatSum, b, a

\* A quotient of two sums that fit.
LEMMA Quotients ==
    ASSUME NEW n \in Nat, NEW q \in Nat \ {0},
           n <= QtySpace * QtySpace, q <= QtySpace * QtySpace
    PROVE  LET r == FloatQuotient(AsFloat(n), AsFloat(q))
           IN  /\ r \in Floats /\ r \in Nat
               /\ \A f \in Floats : f * AsFloat(q) <= AsFloat(n) * Fine => f <= r
               /\ \A f \in Floats : AsFloat(n) * Fine <= f * AsFloat(q) => r <= f
<1> DEFINE x == AsFloat(n)
           y == AsFloat(q)
           Q == QtySpace * QtySpace
           r == Nearest(x * Fine, y)
<1>1. /\ Fine \in Nat \ {0} /\ Floats \subseteq Nat /\ Q \in Nat /\ Q * Fine \in Floats
  BY Squares, FloatAssumption, RangeAssumption
<1>2. x \in Nat /\ y \in Nat /\ x <= Q * Fine /\ y >= Fine
  BY Conversion
<1> HIDE DEF x, y, Q, r
<1>3. x * Fine \in Nat /\ y \in Nat \ {0} /\ Q * Fine \in Nat
  BY <1>1, <1>2
<1>4. \E top \in Floats : x * Fine <= top * y
  <2>1. x * Fine <= (Q * Fine) * Fine
    BY <1>1, <1>2, <1>3, Monotone
  <2>2. Fine * (Q * Fine) <= y * (Q * Fine)
    BY <1>1, <1>2, <1>3, Monotone
  <2>3. x * Fine <= (Q * Fine) * y
    <3> DEFINE w == Q * Fine
    <3>1. w \in Nat /\ x * Fine <= w * Fine /\ Fine * w <= y * w
      BY <1>3, <2>1, <2>2
    <3> HIDE DEF w
    <3>2. w * Fine = Fine * w /\ y * w = w * y /\ w * y \in Nat /\ w * Fine \in Nat
      BY <1>1, <1>2, <3>1
    <3>3. x * Fine <= w * y
      BY <1>3, <3>1, <3>2
    <3> QED
      BY <3>3 DEF w
  <2> QED
    BY <1>1, <2>3
<1>5. /\ r \in Floats
      /\ \A f \in Floats : f * y <= x * Fine => f <= r
      /\ \A f \in Floats : x * Fine <= f * y => r <= f
  BY <1>3, <1>4, Rounding DEF r
<1>6. r \in Nat
  BY <1>1, <1>5
<1> QED
  BY <1>5, <1>6 DEF FloatQuotient, r, x, y

\* The metrics of a snapshot.
LEMMA BookMetricsRight ==
    ASSUME Inductive, Prices = Quantities
    PROVE  LET bids == {o.price : o \in RestingOf("Buy")}
               asks == {o.price : o \in RestingOf("Sell")}
               m == Depth
           IN  /\ m.best_bid = IF bids = {} THEN None ELSE Max(bids)
               /\ m.best_ask = IF asks = {} THEN None ELSE Min(asks)
               /\ IF bids = {} \/ asks = {}
                    THEN m.spread = None /\ m.mid_price = None
                    ELSE /\ m.spread = m.best_ask - m.best_bid /\ m.spread > 0
                         /\ MidInside(m.best_bid, m.best_ask, m.mid_price)
<1> DEFINE bids == {o.price : o \in RestingOf("Buy")}
           asks == {o.price : o \in RestingOf("Sell")}
           m == Depth
<1>1. /\ m.best_bid = BestOf(Snapshot(book), "Buy")
      /\ m.best_ask = BestOf(Snapshot(book), "Sell")
      /\ m.spread = IF None \notin {m.best_bid, m.best_ask} /\ m.best_ask >= m.best_bid
                      THEN m.best_ask - m.best_bid ELSE None
      /\ m.mid_price = IF None \notin {m.best_bid, m.best_ask}
                         THEN FloatHalf(FloatSum(AsFloat(m.best_bid), AsFloat(m.best_ask)))
                         ELSE None
  BY DEF Depth, BookMetrics
<1>2. /\ bids = PricesOf(book, "Buy") /\ bids \subseteq Nat /\ IsFiniteSet(bids)
      /\ m.best_bid = IF bids = {} THEN None ELSE Max(bids)
  BY <1>1, Touch DEF Sides
<1>3. /\ asks = PricesOf(book, "Sell") /\ asks \subseteq Nat /\ IsFiniteSet(asks)
      /\ m.best_ask = IF asks = {} THEN None ELSE Min(asks)
  BY <1>1, Touch DEF Sides
<1> HIDE DEF m, bids, asks
<1>4. CASE bids = {} \/ asks = {}
  <2>1. None \in {m.best_bid, m.best_ask}
    BY <1>2, <1>3, <1>4
  <2>2. m.spread = None /\ m.mid_price = None
    BY <1>1, <2>1
  <2> QED
    BY <1>2, <1>3, <1>4, <2>2 DEF m, bids, asks
<1>5. CASE bids # {} /\ asks # {}
  <2>1. m.best_bid \in bids /\ m.best_ask \in asks
    BY <1>2, <1>3, <1>5, Extremes
  <2>2. m.best_bid \in Nat /\ m.best_ask \in Nat /\ m.best_bid < m.best_ask
    BY <1>2, <1>3, <2>1 DEF Inductive, Uncrossed
  <2>3. None \notin {m.best_bid, m.best_ask}
    BY <2>2, NoneAssumption
  <2>4. /\ m.spread = m.best_ask - m.best_bid
        /\ m.mid_price = FloatHalf(FloatSum(AsFloat(m.best_bid), AsFloat(m.best_ask)))
    BY <1>1, <2>2, <2>3
  <2>5. m.best_bid \in Quantities /\ m.best_ask \in Quantities
    BY <1>2, <1>3, <2>1 DEF Inductive, BookInv, IsBook, IsPartialMap, PricesOf, Sides
  <2>6. m.spread > 0 /\ MidInside(m.best_bid, m.best_ask, m.mid_price)
    BY <2>2, <2>4, <2>5, MidPrice
  <2> QED
    BY <1>2, <1>3, <1>5, <2>4, <2>6 DEF m, bids, asks
<1> QED
  BY <1>4, <1>5

\* A side without orders has no quantity.
LEMMA NothingOf == \A side \in Sides : RestingOf(side) = {} => UnitsOf(RestingOf(side)) = 0
BY FS_EmptySet, SumStep

LEMMA ImbalanceRight ==
    ASSUME Inductive
    PROVE  ImbalanceTells(Depth.imbalance)
<1> DEFINE a == UnitsOf(RestingOf("Buy"))
           b == UnitsOf(RestingOf("Sell"))
           bids == TotalQuantity(Snapshot(book), "Buy")
           asks == TotalQuantity(Snapshot(book), "Sell")
           total == (bids + asks) % QtySpace
           x == AsFloat(a)
           y == AsFloat(a + b)
           r == FloatQuotient(x, y)
           imbalance == Depth.imbalance
<1> SUFFICES ASSUME Resting < QtySpace
             PROVE  ImbalanceTells(imbalance)
  BY DEF ImbalanceTells, Resting
<1>1. imbalance = IF total = 0 THEN None
                  ELSE FloatQuotient(AsFloat(bids), AsFloat(total))
  BY DEF Depth, BookMetrics
<1>2. a \in Nat /\ b \in Nat /\ Resting = a + b /\ a + b \in Nat
  BY BothSides
<1>3. bids = a % QtySpace /\ asks = b % QtySpace
  BY DepthIsTotal DEF Sides
<1>0. (RestingOf("Buy") = {} => a = 0) /\ (RestingOf("Sell") = {} => b = 0)
  BY NothingOf DEF Sides
<1> HIDE DEF a, b, bids, asks, imbalance
<1>4. \A n \in Nat : n < QtySpace => n % QtySpace = n
  BY QtyAssumption
<1>5. bids = a /\ asks = b /\ total = a + b
  <2>1. a < QtySpace /\ b < QtySpace
    BY <1>2, QtyAssumption
  <2>2. bids = a /\ asks = b
    BY <1>2, <1>3, <1>4, <2>1
  <2> QED
    BY <1>2, <1>4, <2>2
<1>6. imbalance = IF a + b = 0 THEN None ELSE r
  BY <1>1, <1>5
<1> HIDE DEF total
<1>7. CASE a + b = 0
  BY <1>2, <1>6, <1>7, SomeDepth DEF ImbalanceTells, Resting
<1>8. CASE a + b # 0
  <2> DEFINE q == a + b
             Q == QtySpace * QtySpace
             h == Fine \div 2
  <2>1. /\ q \in Nat \ {0} /\ a <= q /\ a <= Q /\ q <= Q
    <3>1. QtySpace \in Nat /\ 1 <= QtySpace
      BY QtyAssumption
    <3>2. 1 * QtySpace <= QtySpace * QtySpace /\ 1 * QtySpace = QtySpace
      BY <3>1, Monotone
    <3>3. Q \in Nat /\ QtySpace <= Q
      BY <3>2, Squares
    <3> HIDE DEF Q
    <3> QED
      BY <1>2, <1>8, <3>1, <3>3
  <2>2. /\ x \in Nat /\ y \in Nat /\ x <= y /\ y >= Fine
        /\ a <= Exact => x = a * Fine
        /\ q <= Exact => y = q * Fine
    BY <1>2, <2>1, Conversion
  <2>3. /\ Fine \in Nat \ {0} /\ h \in Nat \ {0} /\ Fine = 2 * h /\ Exact \in Nat \ {0}
        /\ 0 \in Floats /\ h \in Floats /\ Fine \in Floats
    <3>1. Fine \in Nat \ {0} /\ h \in Nat \ {0} /\ Fine = 2 * h /\ Exact \in Nat \ {0}
      BY FloatAssumption
    <3>2. 0 * Fine \in Floats /\ 1 * Fine \in Floats /\ 1 * h \in Floats
      BY <3>1, FloatAssumption
    <3> QED
      BY <3>1, <3>2
  <2>4. /\ r \in Floats /\ r \in Nat
        /\ \A f \in Floats : f * y <= x * Fine => f <= r
        /\ \A f \in Floats : x * Fine <= f * y => r <= f
    BY <1>2, <2>1, Quotients
  <2> HIDE DEF r, x, y, q, Q, h
  <2>5. r <= Fine
    <3>1. x * Fine <= y * Fine /\ y * Fine = Fine * y
      BY <2>2, <2>3, Monotone
    <3> QED
      BY <2>3, <2>4, <3>1
  <2>6. ASSUME b = 0 PROVE r = Fine
    <3>1. y = x
      BY <1>2, <2>6 DEF x, y
    <3>2. Fine * y <= x * Fine
      BY <2>2, <2>3, <3>1
    <3>3. Fine <= r
      BY <2>3, <2>4, <3>2
    <3> QED
      BY <2>3, <2>4, <2>5, <3>3
  <2>7. ASSUME a = 0 PROVE r = 0
    <3>1. x = 0
      BY <2>2, <2>3, <2>7
    <3>2. x * Fine <= 0 * y
      BY <2>2, <2>3, <3>1
    <3> QED
      BY <2>3, <2>4, <3>2
  <2>8. ASSUME q <= Exact
        PROVE  (a >= b => 2 * r >= Fine) /\ (a <= b => 2 * r <= Fine)
    <3>1. x = a * Fine /\ y = q * Fine
      BY <1>2, <2>1, <2>2, <2>3, <2>8
    <3> DEFINE u == h * Fine
    <3>2. u \in Nat
      BY <2>3
    <3>3. h * y = q * u /\ x * Fine = (2 * a) * u
      BY <1>2, <2>1, <2>3, <3>1
    <3> HIDE DEF u
    <3>4. CASE a >= b
      <4>1. q <= 2 * a /\ 2 * a \in Nat /\ q \in Nat
        BY <1>2, <2>1, <3>4 DEF q
      <4>2. q * u <= (2 * a) * u
        BY <3>2, <4>1, Monotone
      <4>3. h <= r
        BY <2>3, <2>4, <3>3, <4>2
      <4>4. 2 * r >= Fine
        BY <2>3, <2>4, <4>3
      <4>5. ASSUME a <= b PROVE 2 * r <= Fine
        <5>1. 2 * a <= q
          BY <1>2, <2>1, <4>5 DEF q
        <5>2. (2 * a) * u <= q * u
          BY <3>2, <4>1, <5>1, Monotone
        <5>3. r <= h
          BY <2>3, <2>4, <3>3, <5>2
        <5> QED
          BY <2>3, <2>4, <5>3
      <4> QED
        BY <4>4, <4>5
    <3>5. CASE a < b
      <4>1. 2 * a <= q /\ 2 * a \in Nat /\ q \in Nat
        BY <1>2, <2>1, <3>5 DEF q
      <4>2. (2 * a) * u <= q * u
        BY <3>2, <4>1, Monotone
      <4>3. r <= h
        BY <2>3, <2>4, <3>3, <4>2
      <4> QED
        BY <1>2, <2>3, <2>4, <3>5, <4>3
    <3> QED
      BY <1>2, <3>4, <3>5
  <2>9. imbalance = r /\ imbalance # None /\ RestingOrders(book) # {}
    BY <1>2, <1>6, <1>8, <2>4, SomeDepth, NoneAssumption
  <2>10. UnitsOf(RestingOrders(book)) = q
    BY <1>2 DEF Resting, q
  <2>11. r \in 0 .. Fine
    BY <2>3, <2>4, <2>5
  <2> QED
    BY <1>0, <2>6, <2>7, <2>8, <2>9, <2>10, <2>11 DEF ImbalanceTells, a, b
<1> QED
  BY <1>7, <1>8

LEMMA VwapRight ==
    ASSUME trades \in Seq(Trade), \A i \in DOMAIN trades : trades[i].quantity > 0,
           TrueTraded < QtySpace
    PROVE  AverageTells(Execution.vwap)
<1> DEFINE paid == {trades[i].price : i \in DOMAIN trades}
           q == Traded(trades)
           n == Notional(trades)
           vwap == Execution.vwap
           value == AsFloat(n)
           volume == AsFloat(q)
           r == FloatQuotient(value, volume)
<1>1. vwap = IF q = 0 THEN None ELSE r
  BY DEF Execution, TradeMetrics
<1>2. q = TradedSum(trades) /\ q \in Nat /\ q < QtySpace /\ q = TrueTraded
  <2>1. TradedSum(trades) = TrueTraded
    BY TrueTradedIsTotal
  <2>2. TradedSum(trades) \in Nat
    BY TradeValues, TotalFacts DEF TradedSum
  <2>3. q = TradedSum(trades) % QtySpace
    BY TradedIsTotal
  <2> HIDE DEF q
  <2>4. q = TradedSum(trades) /\ q \in Nat /\ q < QtySpace
    BY <2>1, <2>2, <2>3, QtyAssumption
  <2> QED
    BY <2>1, <2>4
<1>3. n = NotionalSum(trades) % (QtySpace * QtySpace)
  BY NotionalIsTotal
<1>4. \A i \in DOMAIN trades : trades[i].price \in paid /\ trades[i].price \in Quantities
  BY TradeValues, WordAssumption DEF Trade
<1>5. IsFiniteSet(paid)
  <2> DEFINE f == [i \in DOMAIN trades |-> trades[i].price]
  <2>1. f \in Surjection(DOMAIN trades, paid)
    BY DEF Surjection
  <2>2. IsFiniteSet(DOMAIN trades)
    BY TradeValues
  <2> HIDE DEF f, paid
  <2> QED
    BY <2>1, <2>2, FS_Surjection
<1>6. paid \subseteq Quantities /\ Quantities \subseteq Nat
  BY <1>4, Literals
<1>7. q = 0 <=> trades = << >>
  BY <1>2, SomeTraded
<1> HIDE DEF q, n, vwap
<1>8. CASE trades = << >>
  BY <1>1, <1>7, <1>8 DEF AverageTells, vwap
<1>9. CASE trades # << >>
  <2> DEFINE lo == Min(paid)
             hi == Max(paid)
  <2>1. paid # {}
    <3>1. 1 \in DOMAIN trades
      BY <1>9
    <3> QED
      BY <3>1
  <2>2. /\ lo \in paid /\ hi \in paid
        /\ \A i \in DOMAIN trades : lo <= trades[i].price /\ trades[i].price <= hi
    <3>1. paid \subseteq Nat
      BY <1>6
    <3>2. /\ Max(paid) \in paid /\ \A p \in paid : p <= Max(paid)
          /\ Min(paid) \in paid /\ \A p \in paid : Min(paid) <= p
      <4> HIDE DEF paid
      <4> QED
        BY <1>5, <2>1, <3>1, Extremes
    <3> HIDE DEF paid
    <3> QED
      BY <1>4, <3>2
  <2> HIDE DEF paid, lo, hi
  <2>3. lo \in Nat /\ hi \in Nat /\ hi \in Quantities
    BY <1>6, <2>2
  <2>4. /\ NotionalSum(trades) \in Nat
        /\ lo * q <= NotionalSum(trades) /\ NotionalSum(trades) <= hi * q
    BY <1>2, <2>2, <2>3, Average
  <2>5. hi * q < QtySpace * QtySpace
    <3>1. hi <= QtySpace - 1 /\ q <= QtySpace - 1 /\ QtySpace \in Nat /\ QtySpace - 1 \in Nat
      BY <1>2, <2>3, QtyAssumption DEF Quantities
    <3> DEFINE k == QtySpace - 1
    <3>2. hi * q <= k * q
      BY <1>2, <2>3, <3>1, Monotone
    <3>3. q * k <= k * k
      BY <1>2, <3>1, Monotone
    <3>4. QtySpace * QtySpace = k * k + 2 * k + 1
      <4>1. QtySpace = k + 1 /\ k \in Nat
        BY <3>1
      <4> HIDE DEF k
      <4> QED
        BY <4>1
    <3>5. k * q = q * k /\ k * q \in Nat /\ k * k \in Nat /\ hi * q \in Nat /\ k \in Nat
      <4>1. k \in Nat
        BY <3>1
      <4> HIDE DEF k
      <4> QED
        BY <1>2, <2>3, <4>1
    <3> HIDE DEF k
    <3> QED
      BY <3>2, <3>3, <3>4, <3>5
  <2>6. n = NotionalSum(trades)
    <3> DEFINE M == QtySpace * QtySpace
               x == NotionalSum(trades)
    <3>1. M \in Nat \ {0} /\ hi * q < M /\ hi * q \in Nat
      BY <1>2, <2>3, <2>5, Squares
    <3>2. n = x % M
      BY <1>3
    <3> HIDE DEF M, x
    <3>3. x \in Nat /\ x < M
      BY <2>4, <3>1 DEF x
    <3>4. x % M = x
      BY <3>1, <3>3
    <3> QED
      BY <3>2, <3>4 DEF x
  <2>7. /\ n \in Nat /\ n <= QtySpace * QtySpace
        /\ q \in Nat \ {0} /\ q <= QtySpace * QtySpace
    <3> DEFINE Q == QtySpace * QtySpace
    <3>1. Q \in Nat /\ hi * q < Q /\ hi * q \in Nat
      BY <1>2, <2>3, <2>5, Squares
    <3>2. 1 <= QtySpace /\ QtySpace \in Nat
      BY QtyAssumption
    <3>3. 1 * QtySpace <= Q /\ 1 * QtySpace = QtySpace
      BY <3>2, Monotone
    <3>4. n \in Nat /\ n <= hi * q /\ q # 0
      BY <1>7, <1>9, <2>4, <2>6
    <3> HIDE DEF Q
    <3>5. n <= Q /\ q <= Q
      BY <1>2, <3>1, <3>2, <3>3, <3>4
    <3> QED
      BY <1>2, <3>4, <3>5 DEF Q
  <2>8. /\ r \in Floats /\ r \in Nat
        /\ \A f \in Floats : f * volume <= value * Fine => f <= r
        /\ \A f \in Floats : value * Fine <= f * volume => r <= f
    BY <2>7, Quotients
  <2>9. vwap = r /\ vwap # None
    BY <1>1, <2>7, <2>8, NoneAssumption
  <2>10. ASSUME {q, n} \cup paid \subseteq 0 .. Exact
         PROVE  lo * Fine <= r /\ r <= hi * Fine
    <3>1. Fine \in Nat \ {0} /\ lo * Fine \in Floats /\ hi * Fine \in Floats
      BY <2>2, <2>10, FloatAssumption
    <3>0. n <= Exact /\ q <= Exact
      BY <2>10, FloatAssumption
    <3>2. value = n * Fine /\ volume = q * Fine
      BY <2>7, <3>0, Conversion
    <3> DEFINE u == Fine * Fine
    <3>3. /\ u \in Nat /\ value * Fine = n * u
          /\ (lo * Fine) * volume = (lo * q) * u /\ (hi * Fine) * volume = (hi * q) * u
      BY <2>3, <2>7, <3>1, <3>2
    <3>4. lo * q \in Nat /\ hi * q \in Nat /\ lo * q <= n /\ n <= hi * q
      BY <2>3, <2>4, <2>6, <2>7
    <3> HIDE DEF u, r, value, volume
    <3>5. (lo * q) * u <= n * u /\ n * u <= (hi * q) * u
      BY <2>7, <3>3, <3>4, Monotone
    <3> QED
      BY <2>8, <3>1, <3>3, <3>5
  <2> HIDE DEF r
  <2> QED
    BY <1>2, <1>9, <2>9, <2>10 DEF AverageTells, vwap, lo, hi, paid, n
<1> QED
  BY <1>8, <1>9

\* What calculate_book_metrics and calculate_trade_metrics report is what the book
\* and the trades are: the touch and the spread of the resting orders, a mid
\* price between the touch, and, as far as sums do not wrap and conversions to
\* f64 do not round, the share of the bids and a price between the lowest and
\* the highest that was paid.
THEOREM MetricsAlwaysInRange == SimSpec => []MetricsInRange
<1>1. ScenarioTypes /\ Inductive /\ TradesPositive => MetricsInRange
  <2> SUFFICES ASSUME ScenarioTypes, Inductive, TradesPositive, BetweenCommands
               PROVE  MetricsInRange
    BY DEF MetricsInRange
  <2>1. AllTrades = trades
    BY DEF AllTrades, BetweenCommands
  <2>2. trades \in Seq(Trade) /\ \A i \in DOMAIN trades : trades[i].quantity > 0
    BY <2>1 DEF ScenarioTypes, TradesPositive
  <2>3. ImbalanceTells(Depth.imbalance)
    BY ImbalanceRight
  <2>4. TrueTraded < QtySpace => AverageTells(Execution.vwap)
    BY <2>2, VwapRight
  <2>5. AverageTells(Execution.vwap)
    BY <2>4 DEF AverageTells
  <2> QED
    BY <2>3, <2>5, WordAssumption, BookMetricsRight DEF MetricsInRange
<1> QED
  BY <1>1, PositiveAlways, PTL

-----------------------------------------------------------------------------
(* What the generators make of a sane configuration.                       *)

\* Less than a word apart, indices have different identifiers.
LEMMA DistinctWords ==
    ASSUME NEW a \in Nat, NEW d \in Nat, 0 < d, d < QtySpace
    PROVE  Word(a + d) # Word(a)
<1> DEFINE r == a % QtySpace
<1>1. r \in Nat /\ r < QtySpace /\ QtySpace \in Nat \ {0}
  BY QtyAssumption
<1>2. Word(a + d) = (r + d) % QtySpace /\ Word(a) = r
  BY WrapSum DEF Word
<1> HIDE DEF r
<1>3. \A k \in Int : \A x \in 0 .. QtySpace - 1 : (QtySpace * k + x) % QtySpace = x
  BY <1>1, Remainders
<1>4. CASE r + d < QtySpace
  <2>1. (QtySpace * 0 + (r + d)) % QtySpace = r + d
    BY <1>1, <1>3, <1>4
  <2>2. QtySpace * 0 + (r + d) = r + d
    BY <1>1
  <2> QED
    BY <1>1, <1>2, <2>1, <2>2
<1>5. CASE r + d >= QtySpace
  <2>1. (QtySpace * 1 + (r + d - QtySpace)) % QtySpace = r + d - QtySpace
    BY <1>1, <1>3, <1>5
  <2>2. QtySpace * 1 + (r + d - QtySpace) = r + d
    BY <1>1
  <2> QED
    BY <1>1, <1>2, <2>1, <2>2
<1> QED
  BY <1>1, <1>4, <1>5

LEMMA SaneFacts ==
    ASSUME NEW config \in GeneratorConfig, Sane(config)
    PROVE  /\ config.order_count \in Nat /\ config.order_count < QtySpace
           /\ config.base_price \in Nat /\ config.quantity \in Nat /\ config.quantity > 0
           /\ \A i, j \in 0 .. config.order_count - 1 :
                 OrderIdAt(config, i) = OrderIdAt(config, j) => i = j
           /\ Word(config.base_price + PriceLevels(config) * config.tick_size)
                 = config.base_price + PriceLevels(config) * config.tick_size
           /\ PriceLevels(config) * config.tick_size \in Nat
           /\ \A index \in Nat :
                 /\ DistanceAt(config, index) \in Nat /\ DistanceAt(config, index) > 0
                 /\ DistanceAt(config, index) <= PriceLevels(config) * config.tick_size
                 /\ Word(config.base_price + DistanceAt(config, index))
                       = config.base_price + DistanceAt(config, index)
<1> DEFINE L == PriceLevels(config)
           tick == config.tick_size
           base == config.base_price
           n == config.order_count
<1>1. /\ n \in Nat /\ n < QtySpace /\ base \in Nat /\ tick \in Nat /\ tick > 0
      /\ config.quantity \in Nat /\ config.quantity > 0
      /\ config.start_order_id \in Nat /\ QtySpace \in Nat
  BY QtyAssumption DEF GeneratorConfig, Quantities, Sane
<1>2. L \in Nat \ {0}
  BY GeneratorFacts
<1>3. L * tick \in Nat /\ base + L * tick < QtySpace
  <2>1. L * tick \in Nat
    BY <1>1, <1>2
  <2> QED
    BY <2>1 DEF Sane
<1>4. \A x \in Nat : x < QtySpace => Word(x) = x
  BY <1>1 DEF Word
<1>5. ASSUME NEW i \in 0 .. n - 1, NEW j \in 0 .. n - 1,
             OrderIdAt(config, i) = OrderIdAt(config, j)
      PROVE  i = j
  <2> DEFINE start == config.start_order_id
  <2>1. Word(start + i) = Word(start + j)
    BY <1>5 DEF OrderIdAt
  <2> HIDE DEF start, n
  <2>2. CASE i < j
    <3>0. start + i \in Nat /\ j - i \in Nat /\ 0 < j - i /\ j - i < QtySpace
      BY <1>1, <2>2 DEF start, n
    <3>1. Word((start + i) + (j - i)) # Word(start + i)
      BY <3>0, DistinctWords, Zenon
    <3>2. (start + i) + (j - i) = start + j
      BY <1>1 DEF start
    <3> QED
      BY <2>1, <3>1, <3>2
  <2>3. CASE j < i
    <3>0. start + j \in Nat /\ i - j \in Nat /\ 0 < i - j /\ i - j < QtySpace
      BY <1>1, <2>3 DEF start, n
    <3>1. Word((start + j) + (i - j)) # Word(start + j)
      BY <3>0, DistinctWords, Zenon
    <3>2. (start + j) + (i - j) = start + i
      BY <1>1 DEF start
    <3> QED
      BY <2>1, <3>1, <3>2
  <2> QED
    BY <1>1, <2>2, <2>3
<1>6. ASSUME NEW index \in Nat
      PROVE  /\ DistanceAt(config, index) \in Nat /\ DistanceAt(config, index) > 0
             /\ DistanceAt(config, index) <= L * tick
             /\ Word(base + DistanceAt(config, index)) = base + DistanceAt(config, index)
  <2> DEFINE m == (index % L) + 1
             x == m * tick
  <2>1. m \in Nat /\ m >= 1 /\ m <= L
    BY <1>2
  <2> HIDE DEF m, L, tick, base
  <2>2. x <= L * tick /\ x \in Nat
    BY <1>1, <1>2, <2>1, Monotone
  <2>3. 1 * tick <= m * tick
    BY <1>1, <2>1, Monotone
  <2>4. x >= tick
    BY <1>1, <2>3
  <2> HIDE DEF x
  <2>5. Word(x) = x
    BY <1>1, <1>3, <1>4, <2>2
  <2>6. DistanceAt(config, index) = x
    BY <2>5 DEF DistanceAt, x, m, L, tick
  <2> QED
    BY <1>1, <1>3, <1>4, <2>2, <2>4, <2>6
<1>7. Word(base + L * tick) = base + L * tick
  BY <1>1, <1>3, <1>4
<1> QED
  BY <1>1, <1>3, <1>5, <1>6, <1>7

\* New orders with identifiers of their own, in any number.
AddsOnly(cs) ==
    /\ cs \in Seq(ScenarioCommand)
    /\ \A i \in DOMAIN cs : /\ cs[i].kind = "Add" /\ cs[i].order \in Order
                            /\ cs[i].order.remaining_qty > 0
    /\ \A i, j \in DOMAIN cs : cs[i].order.id = cs[j].order.id => i = j

LEMMA TwoSidedScript ==
    ASSUME NEW config \in GeneratorConfig, Sane(config),
           IdentifiersOf(config) \subseteq OrderIds
    PROVE  LET cs == GenerateTwoSidedOrders(config)
               base == config.base_price
           IN  /\ AddsOnly(cs) /\ Len(cs) = config.order_count
               /\ \A i \in DOMAIN cs :
                     /\ cs[i].order.side = IF (i - 1) % 2 = 0 THEN "Buy" ELSE "Sell"
                     /\ cs[i].order.side = "Sell" => cs[i].order.price > base
                     /\ cs[i].order.side = "Buy" =>
                           /\ cs[i].order.price <= base
                           /\ cs[i].order.price < base \/ base = 0
<1> DEFINE cs == GenerateTwoSidedOrders(config)
           n == config.order_count
           base == config.base_price
           sideAt(i) == IF (i - 1) % 2 = 0 THEN "Buy" ELSE "Sell"
           priceAt(i) == IF sideAt(i) = "Buy" THEN SaturatingSub(base, DistanceAt(config, i - 1))
                         ELSE Word(base + DistanceAt(config, i - 1))
<1>1. /\ n \in Nat /\ base \in Nat /\ config.quantity \in Nat /\ config.quantity > 0
      /\ \A i, j \in 0 .. n - 1 : OrderIdAt(config, i) = OrderIdAt(config, j) => i = j
      /\ \A index \in Nat : DistanceAt(config, index) \in Nat /\ DistanceAt(config, index) > 0
      /\ \A index \in Nat : Word(base + DistanceAt(config, index))
                               = base + DistanceAt(config, index)
  BY SaneFacts
<1>2. cs \in Seq(ScenarioCommand)
  BY GeneratorFacts
<1>3. cs = [i \in 1 .. n |-> Add(OrderIdAt(config, i - 1), sideAt(i), priceAt(i), config.quantity)]
  BY DEF GenerateTwoSidedOrders
<1>4. Len(cs) = n /\ DOMAIN cs = 1 .. n
  BY <1>1, <1>2, <1>3
<1> HIDE DEF cs, n
<1>5. \A i \in 1 .. n :
        /\ cs[i].kind = "Add" /\ cs[i].order.id = OrderIdAt(config, i - 1)
        /\ cs[i].order.side = sideAt(i) /\ cs[i].order.price = priceAt(i)
        /\ cs[i].order.remaining_qty = config.quantity
  BY <1>3 DEF Add, NewOrder
<1>6. \A i \in 1 .. n : cs[i].order \in Order
  BY <1>2, <1>4, <1>5 DEF ScenarioCommand
<1>7. \A i, j \in 1 .. n : cs[i].order.id = cs[j].order.id => i = j
  <2> TAKE i, j \in 1 .. n
  <2>1. i - 1 \in 0 .. n - 1 /\ j - 1 \in 0 .. n - 1
    BY <1>1
  <2>2. OrderIdAt(config, i - 1) = OrderIdAt(config, j - 1) => i - 1 = j - 1
    BY <1>1, <2>1, Zenon
  <2> QED
    BY <1>5, <2>2
<1>8. \A i \in 1 .. n : /\ sideAt(i) = "Sell" => priceAt(i) > base
                        /\ sideAt(i) = "Buy" => /\ priceAt(i) <= base
                                                /\ priceAt(i) < base \/ base = 0
  <2> TAKE i \in 1 .. n
  <2>1. i - 1 \in Nat
    BY <1>1
  <2> DEFINE d == DistanceAt(config, i - 1)
  <2>2. d \in Nat /\ d > 0 /\ Word(base + d) = base + d
    BY <1>1, <2>1
  <2>3. sideAt(i) = "Sell" => priceAt(i) = base + d
    BY <2>2
  <2>4. sideAt(i) = "Buy" => priceAt(i) = SaturatingSub(base, d)
    OBVIOUS
  <2> HIDE DEF d, sideAt, priceAt, base
  <2>5. SaturatingSub(base, d) <= base /\ (SaturatingSub(base, d) < base \/ base = 0)
    BY <1>1, <2>2 DEF SaturatingSub
  <2> QED
    BY <1>1, <2>2, <2>3, <2>4, <2>5
<1>9. AddsOnly(cs)
  BY <1>1, <1>2, <1>4, <1>5, <1>6, <1>7 DEF AddsOnly
<1>10. \A i \in DOMAIN cs :
         /\ cs[i].order.side = sideAt(i)
         /\ cs[i].order.side = "Sell" => cs[i].order.price > base
         /\ cs[i].order.side = "Buy" => /\ cs[i].order.price <= base
                                        /\ cs[i].order.price < base \/ base = 0
  <2> HIDE DEF sideAt, priceAt
  <2> QED
    BY <1>4, <1>5, <1>8
<1> QED
  BY <1>4, <1>9, <1>10 DEF cs, n

LEMMA CrossingScript ==
    ASSUME NEW config \in GeneratorConfig, Sane(config),
           IdentifiersOf(config) \subseteq OrderIds
    PROVE  LET cs == GenerateCrossingOrders(config)
               base == config.base_price
               limit == base + PriceLevels(config) * config.tick_size
               split == config.order_count \div 2
           IN  /\ AddsOnly(cs) /\ Len(cs) = config.order_count
               /\ \A i \in DOMAIN cs :
                     /\ cs[i].order.side = IF i <= split THEN "Sell" ELSE "Buy"
                     /\ cs[i].order.remaining_qty = config.quantity
                     /\ i <= split => cs[i].order.price > base /\ cs[i].order.price <= limit
                     /\ i > split => cs[i].order.price = limit
<1> DEFINE cs == GenerateCrossingOrders(config)
           n == config.order_count
           base == config.base_price
           limit == base + PriceLevels(config) * config.tick_size
           split == n \div 2
           ask(i) == Word(base + DistanceAt(config, i - 1))
           C(i) == IF i <= split
                     THEN Add(OrderIdAt(config, i - 1), "Sell", ask(i), config.quantity)
                     ELSE Add(OrderIdAt(config, i - 1), "Buy", limit, config.quantity)
<1>1. /\ n \in Nat /\ base \in Nat /\ config.quantity \in Nat /\ config.quantity > 0
      /\ \A i, j \in 0 .. n - 1 : OrderIdAt(config, i) = OrderIdAt(config, j) => i = j
      /\ \A index \in Nat :
            /\ DistanceAt(config, index) \in Nat /\ DistanceAt(config, index) > 0
            /\ DistanceAt(config, index) <= PriceLevels(config) * config.tick_size
            /\ Word(base + DistanceAt(config, index)) = base + DistanceAt(config, index)
      /\ Word(limit) = limit
      /\ PriceLevels(config) * config.tick_size \in Nat
  BY SaneFacts
<1>2. cs \in Seq(ScenarioCommand)
  BY GeneratorFacts
<1>3. split \in Nat
  BY <1>1
<1>4. cs = [i \in 1 .. n |-> C(i)]
  <2>1. \A i \in 1 .. n : i - 1 < split <=> i <= split
    BY <1>1, <1>3
  <2> QED
    BY <1>1, <2>1 DEF GenerateCrossingOrders
<1>5. Len(cs) = n /\ DOMAIN cs = 1 .. n
  BY <1>1, <1>2, <1>4
<1>6. \A i \in 1 .. n : ask(i) > base /\ ask(i) <= limit
  <2> TAKE i \in 1 .. n
  <2>1. i - 1 \in Nat
    BY <1>1
  <2> DEFINE d == DistanceAt(config, i - 1)
             reach == PriceLevels(config) * config.tick_size
  <2>2. /\ d \in Nat /\ d > 0 /\ d <= reach /\ reach \in Nat
        /\ Word(base + d) = base + d
    BY <1>1, <2>1
  <2>3. ask(i) = base + d /\ limit = base + reach
    BY <2>2
  <2> HIDE DEF d, reach, ask, limit, base
  <2> QED
    BY <1>1, <2>2, <2>3
<1> HIDE DEF cs, n, split, ask, limit
<1>7. \A i \in 1 .. n :
        /\ cs[i].kind = "Add" /\ cs[i].order.id = OrderIdAt(config, i - 1)
        /\ cs[i].order.side = IF i <= split THEN "Sell" ELSE "Buy"
        /\ cs[i].order.price = IF i <= split THEN ask(i) ELSE limit
        /\ cs[i].order.remaining_qty = config.quantity
  BY <1>4 DEF Add, NewOrder
<1>8. \A i \in 1 .. n : cs[i].order \in Order
  BY <1>2, <1>5, <1>7 DEF ScenarioCommand
<1>9. \A i, j \in 1 .. n : cs[i].order.id = cs[j].order.id => i = j
  <2> TAKE i, j \in 1 .. n
  <2>1. i - 1 \in 0 .. n - 1 /\ j - 1 \in 0 .. n - 1
    BY <1>1
  <2>2. OrderIdAt(config, i - 1) = OrderIdAt(config, j - 1) => i - 1 = j - 1
    BY <1>1, <2>1, Zenon
  <2> QED
    BY <1>7, <2>2
<1>10. \A i \in 1 .. n : (i <= split) \/ (i > split)
  BY <1>1, <1>3
<1>11. \A i \in 1 .. n : ~ (i <= split /\ i > split)
  BY <1>1, <1>3
<1>12. \A i \in DOMAIN cs :
         /\ cs[i].order.side = IF i <= split THEN "Sell" ELSE "Buy"
         /\ cs[i].order.remaining_qty = config.quantity
         /\ i <= split => cs[i].order.price > base /\ cs[i].order.price <= limit
         /\ i > split => cs[i].order.price = limit
  BY <1>5, <1>6, <1>7, <1>10, <1>11
<1>13. AddsOnly(cs)
  BY <1>1, <1>2, <1>5, <1>7, <1>8, <1>9 DEF AddsOnly
<1> QED
  BY <1>5, <1>12, <1>13 DEF cs, n, split, limit

-----------------------------------------------------------------------------
(* A scenario of new orders.                                               *)

Script == CommandsFor(job)
Ended == IF call = None THEN next - 1 ELSE next - 2

\* Commands run in order, one at a time, and none is rejected.
Sequenced ==
    /\ next <= Len(Script) + 1
    /\ seen_order_ids = {Script[i].order.id : i \in 1 .. next - 1}
    /\ outcome # "Failed"
    /\ outcome = "Ok" => next = Len(Script) + 1
    /\ call # None => next >= 2 /\ call.order = Script[next - 1].order

\* What a step does to a scenario of new orders.
AddBegins ==
    /\ call = None /\ next <= Len(Script) /\ AddOrder(Script[next].order)
    /\ call' # None /\ call'.incoming = Script[next].order
    /\ call'.order = Script[next].order /\ next' = next + 1
    /\ UNCHANGED <<trades, outcome>>

LEMMA SequencedStep ==
    ASSUME ScenarioTypes, Inductive, AddsOnly(Script), job.kind # "unknown",
           Sequenced, [SimNext]_simVars
    PROVE  /\ job' = job
           /\ Sequenced'
           /\ \/ AddBegins
              \/ FillStep /\ UNCHANGED runVars
              \/ Collect
              \/ UNCHANGED <<book, call, next, trades>>
<1> DEFINE cs == Script
<1>0. job' = job
  BY DEF RejectName, RunAdd, RunCancel, RunModify, Run, Matching, Collect, Return,
         SimNext, simVars, runVars
<1>1. cs' = cs
  BY <1>0 DEF Script
<1>2. /\ cs \in Seq(ScenarioCommand) /\ DOMAIN cs = 1 .. Len(cs) /\ Len(cs) \in Nat
      /\ next \in Nat \ {0}
      /\ \A i \in 1 .. Len(cs) : /\ cs[i].kind = "Add" /\ cs[i].order \in Order
                                 /\ cs[i].order.remaining_qty > 0
      /\ \A i, j \in 1 .. Len(cs) : cs[i].order.id = cs[j].order.id => i = j
  BY DEF AddsOnly, ScenarioTypes
<1>3. /\ next <= Len(cs) + 1
      /\ seen_order_ids = {cs[i].order.id : i \in 1 .. next - 1}
      /\ outcome # "Failed"
      /\ outcome = "Ok" => next = Len(cs) + 1
      /\ call # None => next >= 2 /\ call.order = cs[next - 1].order
  BY DEF Sequenced
<1> HIDE DEF cs
<1>4. ASSUME /\ next' <= Len(cs) + 1
             /\ seen_order_ids' = {cs[i].order.id : i \in 1 .. next' - 1}
             /\ outcome' # "Failed"
             /\ outcome' = "Ok" => next' = Len(cs) + 1
             /\ call' # None => next' >= 2 /\ call'.order = cs[next' - 1].order
      PROVE  Sequenced'
  BY <1>1, <1>4 DEF Sequenced, cs
<1>5. ASSUME UNCHANGED <<next, seen_order_ids, outcome, call>> PROVE Sequenced'
  BY <1>3, <1>4, <1>5
<1>6. CASE RejectName
  BY <1>6 DEF RejectName
<1>7. CASE RunAdd
  <2>1. /\ next <= Len(cs) /\ call = None /\ next' = next + 1 /\ trades' = trades
        /\ outcome = None
    BY <1>7 DEF RunAdd, Looking, Running, Run, cs, Script
  <2> DEFINE order == cs[next].order
  <2>2. order = Current.order
    BY DEF Current, cs, Script
  <2>3. order \in Order /\ order.remaining_qty > 0
    BY <1>2, <2>1
  <2>4. order.id \notin seen_order_ids
    <3>1. \A i \in 1 .. next - 1 : cs[i].order.id # cs[next].order.id
      BY <1>2, <2>1
    <3> QED
      BY <1>3, <3>1
  <2> HIDE DEF order
  <2>5. ~ AddZeroQuantity(order) /\ ~ AddDuplicate(order)
    BY <2>3, <2>4 DEF AddZeroQuantity, AddDuplicate
  <2>6. AddOrder(order) /\ outcome' = outcome
    BY <1>7, <2>2, <2>5 DEF RunAdd, Run
  <2>7. call' # None /\ call'.incoming = order /\ call'.order = order
    BY <2>3, <2>6, StartType, CallAssumption DEF AddOrder
  <2>8. seen_order_ids' = {cs[i].order.id : i \in 1 .. next' - 1}
    <3>1. seen_order_ids' = seen_order_ids \cup {order.id}
      BY <2>6 DEF AddOrder
    <3>2. 1 .. next' - 1 = (1 .. next - 1) \cup {next}
      BY <1>2, <2>1
    <3> QED
      BY <1>3, <3>1, <3>2 DEF order
  <2>9. next' <= Len(cs) + 1 /\ next' >= 2 /\ next' - 1 = next
    BY <1>2, <2>1
  <2>10. Sequenced'
    <3>1. outcome' # "Failed" /\ outcome' # "Ok"
      BY <2>1, <2>6, OutcomeAssumption
    <3>2. call'.order = cs[next' - 1].order
      BY <2>7, <2>9 DEF order
    <3> QED
      BY <1>4, <2>8, <2>9, <3>1, <3>2
  <2>11. AddBegins
    BY <2>1, <2>6, <2>7 DEF AddBegins, order, cs
  <2> QED
    BY <1>0, <2>10, <2>11
<1>8. CASE RunCancel \/ RunModify
  <2>1. next <= Len(cs) /\ cs[next].kind # "Add"
    BY <1>8 DEF RunCancel, RunModify, Looking, cs, Script
  <2> QED
    BY <1>2, <2>1
<1>9. CASE Matching
  <2>1. FillStep /\ UNCHANGED runVars
    BY <1>9 DEF Matching
  <2>2. call # None /\ call'.order = call.order /\ seen_order_ids' = seen_order_ids
    BY <2>1, FilledCall DEF FillStep
  <2>3. next' = next /\ outcome' = outcome
    BY <2>1 DEF runVars
  <2>4. Sequenced'
    BY <1>3, <1>4, <2>2, <2>3
  <2> QED
    BY <1>0, <2>1, <2>4
<1>10. CASE Collect
  <2>1. call' = None /\ UNCHANGED <<next, outcome, seen_order_ids>>
    BY <1>10 DEF Collect, FinishCall
  <2>2. Sequenced'
    BY <1>3, <1>4, <2>1
  <2> QED
    BY <1>0, <1>10, <2>2
<1>11. CASE Return
  <2>1. /\ next > Len(cs) /\ outcome' = "Ok" /\ call = None
        /\ UNCHANGED <<book, call, next, trades, seen_order_ids>>
    BY <1>11 DEF Return, Running, vars, cs, Script
  <2>2. next = Len(cs) + 1
    BY <1>2, <1>3, <2>1
  <2>3. Sequenced'
    BY <1>3, <1>4, <2>1, <2>2
  <2> QED
    BY <1>0, <2>1, <2>3
<1>12. CASE UNCHANGED simVars
  BY <1>0, <1>5, <1>12 DEF simVars, runVars, vars
<1> QED
  BY <1>6, <1>7, <1>8, <1>9, <1>10, <1>11, <1>12 DEF SimNext

-----------------------------------------------------------------------------
(* generate_two_sided_orders: every order comes to rest.                   *)

Visible ==
    /\ AllTrades = << >>
    /\ RestingOrders(book) = {Script[i].order : i \in 1 .. Ended}
    /\ call # None => call.incoming = Script[next - 1].order

\* A script whose bids stay at or below some price and whose asks stay above it.
Apart(cs, base) ==
    /\ AddsOnly(cs) /\ base \in Nat
    /\ \A i \in DOMAIN cs : IF cs[i].order.side = "Sell" THEN cs[i].order.price > base
                            ELSE cs[i].order.price <= base

LEMMA VisibleStep ==
    ASSUME ScenarioTypes, Inductive, NEW base, Apart(Script, base), job.kind # "unknown",
           Sequenced, Visible, [SimNext]_simVars
    PROVE  Visible'
<1> DEFINE cs == Script
<1>1. /\ job' = job /\ Sequenced'
      /\ \/ AddBegins
         \/ FillStep /\ UNCHANGED runVars
         \/ Collect
         \/ UNCHANGED <<book, call, next, trades>>
  BY SequencedStep DEF Apart
<1>2. cs' = cs
  BY <1>1 DEF Script
<1>3. /\ DOMAIN cs = 1 .. Len(cs) /\ Len(cs) \in Nat /\ next \in Nat \ {0}
      /\ next <= Len(cs) + 1 /\ base \in Nat
      /\ \A i \in 1 .. Len(cs) :
            /\ cs[i].order \in Order /\ cs[i].order.remaining_qty > 0
            /\ IF cs[i].order.side = "Sell" THEN cs[i].order.price > base
               ELSE cs[i].order.price <= base
  BY DEF Apart, AddsOnly, ScenarioTypes, Sequenced
<1>4. /\ AllTrades = << >>
      /\ RestingOrders(book) = {cs[i].order : i \in 1 .. Ended}
      /\ call # None => /\ call.incoming = cs[next - 1].order
                        /\ next >= 2 /\ call.order = cs[next - 1].order
  BY DEF Visible, Sequenced
<1>5. AllTrades' = AllTrades \/ FillStep
  BY TradesGrow
<1> HIDE DEF cs
<1>6. ASSUME AllTrades' = << >>,
             RestingOrders(book') = {cs[i].order : i \in 1 .. Ended'},
             call' # None => call'.incoming = cs[next' - 1].order
      PROVE  Visible'
  BY <1>2, <1>6 DEF Visible, cs
<1>7. ~ FillStep
  <2> SUFFICES ASSUME FillStep PROVE FALSE
    OBVIOUS
  <2> DEFINE incoming == call.incoming
             contra == Opposite(incoming.side)
             s == BestMakerSlot(book, incoming)
             price == BestPrice(book, contra)
             m == OrderAt(book, s)
  <2>1. /\ call # None /\ incoming \in Order /\ contra \in Sides
        /\ Crosses(incoming, price) /\ Stands(book, s, contra, price)
    BY FillFacts, FilledCall
  <2>2. m \in RestingOrders(book) /\ m.side = contra /\ m.price = price
    BY <2>1 DEF Stands, RestingOrders, Occupied
  <2> HIDE DEF m, s, price
  <2>3. PICK i \in 1 .. Ended : m = cs[i].order
    BY <1>4, <2>2
  <2>4. i \in 1 .. Len(cs) /\ next - 1 \in 1 .. Len(cs)
    BY <1>3, <1>4, <2>1, <2>3 DEF Ended
  <2>5. incoming = cs[next - 1].order
    BY <1>4, <2>1
  <2> HIDE DEF incoming
  <2>6. /\ IF m.side = "Sell" THEN m.price > base ELSE m.price <= base
        /\ IF incoming.side = "Sell" THEN incoming.price > base ELSE incoming.price <= base
    BY <1>3, <2>3, <2>4, <2>5
  <2>7. incoming.side \in Sides /\ incoming.price \in Nat /\ m.price \in Nat
    BY <1>3, <2>1, <2>3, <2>4, PriceAssumption DEF Order
  <2> QED
    BY <1>3, <2>1, <2>2, <2>6, <2>7 DEF Crosses, Opposite, Sides
<1>8. CASE AddBegins
  <2>1. /\ call = None /\ call' # None /\ call'.incoming = cs[next].order
        /\ next' = next + 1 /\ book' = book
    BY <1>8 DEF AddBegins, AddOrder, cs
  <2>2. Ended' = Ended /\ next' - 1 = next
    BY <1>3, <2>1 DEF Ended
  <2> QED
    BY <1>4, <1>5, <1>6, <1>7, <2>1, <2>2
<1>9. CASE Collect
  <2> DEFINE order == call.incoming
  <2>1. /\ call # None /\ call' = None /\ next' = next /\ BookInv(book, older)
        /\ order.id \notin RestingIds(book)
    BY <1>9 DEF Collect, FinishCall, Inductive, IndexMatchesArena
  <2>2. order = cs[next - 1].order /\ order \in Order /\ order.remaining_qty > 0
    BY <1>3, <1>4, <2>1
  <2>3. book' = RestOrder(book, order)
    <3>1. ~ IsFilled(order)
      BY <2>2 DEF IsFilled
    <3> QED
      BY <1>9, <3>1 DEF Collect, FinishCall
  <2>4. Restable(book, order)
    BY <2>1, <2>2 DEF Restable
  <2> HIDE DEF order
  <2>5. RestingOrders(book') = RestingOrders(book) \cup {order}
    BY <2>1, <2>3, <2>4, RestedSet
  <2>6. 1 .. Ended' = (1 .. Ended) \cup {next - 1}
    BY <1>3, <1>4, <2>1 DEF Ended
  <2>7. RestingOrders(book') = {cs[i].order : i \in 1 .. Ended'}
    BY <1>4, <2>2, <2>5, <2>6
  <2> QED
    BY <1>4, <1>5, <1>6, <1>7, <2>1, <2>7
<1>10. CASE UNCHANGED <<book, call, next, trades>>
  <2>1. Ended' = Ended
    BY <1>10 DEF Ended
  <2> QED
    BY <1>4, <1>5, <1>6, <1>7, <1>10, <2>1
<1> QED
  BY <1>1, <1>7, <1>8, <1>9, <1>10

\* Half of the orders rest on either side, of an odd number one bid more.
LEMMA HalfAndHalf ==
    ASSUME NEW cs, AddsOnly(cs), NEW asks, NEW bids,
           \A i \in DOMAIN cs :
              cs[i].order.side = IF (i - 1) % 2 = 0 THEN "Buy" ELSE "Sell",
           \A o : /\ o \in asks <=> \E i \in DOMAIN cs : o = cs[i].order /\ o.side = "Sell"
                  /\ o \in bids <=> \E i \in DOMAIN cs : o = cs[i].order /\ o.side = "Buy"
    PROVE  /\ Cardinality(asks) = Len(cs) \div 2
           /\ Cardinality(bids) = Len(cs) - (Len(cs) \div 2)
<1> DEFINE n == Len(cs)
           pairs == n \div 2
           f == [k \in 1 .. pairs |-> cs[2 * k].order]
           g == [k \in 1 .. n - pairs |-> cs[2 * k - 1].order]
<1>1. /\ n \in Nat /\ DOMAIN cs = 1 .. n /\ pairs \in Nat /\ n - pairs \in Nat
      /\ 2 * pairs <= n /\ n <= 2 * pairs + 1
      /\ \A i, j \in 1 .. n : cs[i].order.id = cs[j].order.id => i = j
  BY DEF AddsOnly
<1> HIDE DEF n, pairs
<1>3. f \in Bijection(1 .. pairs, asks)
  <2>1. ASSUME NEW k \in 1 .. pairs PROVE 2 * k \in 1 .. n /\ f[k] \in asks
    <3>1. 2 * k \in 1 .. n /\ (2 * k - 1) % 2 = 1
      BY <1>1
    <3>2. cs[2 * k].order.side = "Sell"
      BY <1>1, <3>1
    <3> QED
      BY <1>1, <3>1, <3>2
  <2>2. ASSUME NEW k \in 1 .. pairs, NEW l \in 1 .. pairs, f[k] = f[l] PROVE k = l
    <3>1. 2 * k = 2 * l
      BY <1>1, <2>1, <2>2
    <3> QED
      BY <1>1, <3>1
  <2>3. ASSUME NEW o \in asks PROVE \E k \in 1 .. pairs : f[k] = o
    <3>1. PICK i \in 1 .. n : o = cs[i].order
      BY <1>1
    <3>2. (i - 1) % 2 # 0
      BY <1>1, <3>1
    <3>3. PICK k \in 1 .. pairs : i = 2 * k
      <4> DEFINE k == i \div 2
      <4>1. i \in Nat /\ i > 0 /\ i <= n
        BY <1>1
      <4>2. k \in Int /\ (i = 2 * k \/ i = 2 * k + 1)
        BY <4>1
      <4> HIDE DEF k
      <4>3. i # 2 * k + 1
        <5> SUFFICES ASSUME i = 2 * k + 1 PROVE (i - 1) % 2 = 0
          BY <3>2
        <5>1. i - 1 = 2 * k
          BY <4>2
        <5> QED
          BY <4>2, <5>1
      <4>4. i = 2 * k /\ k \in 1 .. pairs
        BY <1>1, <4>1, <4>2, <4>3
      <4> QED
        BY <4>4
    <3> QED
      BY <3>1, <3>3
  <2>4. f \in [1 .. pairs -> asks]
    BY <2>1
  <2> HIDE DEF f
  <2> QED
    BY <2>2, <2>3, <2>4, Zenon DEF Bijection, Injection, Surjection, IsInjective
<1>4. g \in Bijection(1 .. n - pairs, bids)
  <2>1. ASSUME NEW k \in 1 .. n - pairs PROVE 2 * k - 1 \in 1 .. n /\ g[k] \in bids
    <3>1. 2 * k - 1 \in 1 .. n /\ (2 * k - 1 - 1) % 2 = 0
      BY <1>1
    <3>2. cs[2 * k - 1].order.side = "Buy"
      BY <1>1, <3>1
    <3> QED
      BY <1>1, <3>1, <3>2
  <2>2. ASSUME NEW k \in 1 .. n - pairs, NEW l \in 1 .. n - pairs, g[k] = g[l] PROVE k = l
    <3>1. 2 * k - 1 = 2 * l - 1
      BY <1>1, <2>1, <2>2
    <3> QED
      BY <1>1, <3>1
  <2>3. ASSUME NEW o \in bids PROVE \E k \in 1 .. n - pairs : g[k] = o
    <3>1. PICK i \in 1 .. n : o = cs[i].order
      BY <1>1
    <3>2. (i - 1) % 2 = 0
      BY <1>1, <3>1
    <3>3. PICK k \in 1 .. n - pairs : i = 2 * k - 1
      <4>1. i = 2 * ((i + 1) \div 2) - 1 /\ (i + 1) \div 2 \in 1 .. n - pairs
        BY <1>1, <3>2
      <4> QED
        BY <4>1
    <3> QED
      BY <3>1, <3>3
  <2>4. g \in [1 .. n - pairs -> bids]
    BY <2>1
  <2> HIDE DEF g
  <2> QED
    BY <2>2, <2>3, <2>4, Zenon DEF Bijection, Injection, Surjection, IsInjective
<1>5. Cardinality(asks) = pairs /\ Cardinality(bids) = n - pairs
  <2>1. ASSUME NEW k \in Nat
        PROVE  IsFiniteSet(1 .. k) /\ Cardinality(1 .. k) = k
    <3>1. /\ IsFiniteSet(1 .. k)
          /\ Cardinality(1 .. k) = IF 1 > k THEN 0 ELSE k - 1 + 1
      BY FS_Interval
    <3> QED
      BY <3>1
  <2>2. ASSUME NEW S, NEW T, NEW h, h \in Bijection(S, T), IsFiniteSet(S)
        PROVE  Cardinality(T) = Cardinality(S)
    BY <2>2, FS_Bijection, Zenon DEF ExistsBijection
  <2> HIDE DEF f, g
  <2>3. Cardinality(asks) = Cardinality(1 .. pairs)
    BY <1>1, <1>3, <2>1, <2>2, Zenon
  <2>4. Cardinality(bids) = Cardinality(1 .. n - pairs)
    BY <1>1, <1>4, <2>1, <2>2, Zenon
  <2> QED
    BY <1>1, <2>1, <2>3, <2>4
<1> QED
  BY <1>5 DEF n, pairs

-----------------------------------------------------------------------------
(* generate_crossing_orders: the bids take the asks, the cheapest first.   *)

\* A script whose first half asks for more than the base price, and whose
\* second half bids a price that reaches every ask.
Crossing(cs, base, limit, quantity) ==
    /\ AddsOnly(cs) /\ base \in Nat
    /\ \A i \in DOMAIN cs :
          /\ cs[i].order.side = IF i <= Len(cs) \div 2 THEN "Sell" ELSE "Buy"
          /\ cs[i].order.remaining_qty = quantity
          /\ cs[i].order.side = "Sell" => /\ cs[i].order.price > base
                                          /\ cs[i].order.price <= limit
          /\ cs[i].order.side = "Buy" => cs[i].order.price = limit

\* A command whose order is filled has no more to do.
Served == call # None /\ IsFilled(call.incoming)
Done == IF Served THEN next - 1 ELSE Ended

\* The asks that rest and the trades after so many commands.
Taken(done, split, asks, traded) ==
    IF done <= split THEN traded = 0 /\ asks = done
    ELSE /\ asks + traded = split
         /\ traded = IF done <= 2 * split THEN done - split ELSE split

Swept(base) ==
    LET split == Len(Script) \div 2
    IN  /\ call # None => Served \/ call.incoming = Script[next - 1].order
        /\ RestingOrders(book) \subseteq {Script[i].order : i \in 1 .. next - 1}
        /\ Taken(Done, split, Cardinality(RestingOf("Sell")), Len(AllTrades))
        /\ RestingOf("Buy") = IF Done <= 2 * split THEN {} ELSE {Script[Done].order}
        /\ \A i \in DOMAIN AllTrades : AllTrades[i].price > base
        /\ \A i \in 2 .. Len(AllTrades) : AllTrades[i - 1].price <= AllTrades[i].price
        /\ \A i \in DOMAIN AllTrades : \A o \in RestingOf("Sell") : AllTrades[i].price <= o.price

LEMMA SweptFacts ==
    ASSUME ScenarioTypes, Inductive, NEW base, NEW limit, NEW quantity,
           Crossing(Script, base, limit, quantity), Sequenced, Swept(base)
    PROVE  LET n == Len(Script)
               split == n \div 2
               asks == RestingOf("Sell")
           IN  /\ n \in Nat /\ split \in Nat /\ 2 * split <= n /\ n <= 2 * split + 1
               /\ next \in Nat /\ next > 0 /\ next <= n + 1 /\ base \in Nat
               /\ call # None => next > 1
               /\ Done \in Nat /\ Ended \in Nat /\ Done <= n
               /\ AllTrades \in Seq(Trade) /\ Len(AllTrades) \in Nat
               /\ IsFiniteSet(asks) /\ Cardinality(asks) \in Nat
               /\ \A i \in 1 .. n :
                     /\ Script[i].order \in Order /\ Script[i].order.remaining_qty > 0
                     /\ Script[i].order.remaining_qty = quantity
                     /\ Script[i].order.side = IF i <= split THEN "Sell" ELSE "Buy"
                     /\ Script[i].order.side = "Buy" => Script[i].order.price = limit
               /\ \A o \in asks : /\ o \in Order /\ o.remaining_qty = quantity
                                  /\ o.price > base /\ o.price <= limit
<1> DEFINE n == Len(Script)
           split == n \div 2
           asks == RestingOf("Sell")
<1>1. /\ n \in Nat /\ DOMAIN Script = 1 .. n
      /\ \A i \in 1 .. n : Script[i].order \in Order /\ Script[i].order.remaining_qty > 0
      /\ next \in Nat /\ next > 0 /\ next <= n + 1
      /\ call # None => next > 1
  BY DEF Crossing, AddsOnly, ScenarioTypes, Sequenced
<1>2. split \in Nat /\ 2 * split <= n /\ n <= 2 * split + 1
  BY <1>1
<1>3. Done \in Nat /\ Ended \in Nat /\ Done <= n
  BY <1>1 DEF Done, Ended, Served
<1>4. AllTrades \in Seq(Trade) /\ Len(AllTrades) \in Nat
  BY BalanceTypes
<1>5. IsFiniteSet(asks) /\ Cardinality(asks) \in Nat
  <2>1. IsFiniteSet(RestingOrders(book)) /\ asks \subseteq RestingOrders(book)
    BY RestingOrdersFinite DEF Inductive, RestingOf
  <2> HIDE DEF asks
  <2> QED
    BY <2>1, FS_Subset, FS_CardinalityType
<1>6. ASSUME NEW o \in asks
      PROVE  /\ o \in Order /\ o.remaining_qty = quantity
             /\ o.price > base /\ o.price <= limit
  <2>1. o \in RestingOrders(book) /\ o.side = "Sell"
    BY DEF RestingOf
  <2>2. PICK i \in 1 .. next - 1 : o = Script[i].order
    BY <2>1 DEF Swept
  <2>3. i \in 1 .. n
    BY <1>1
  <2> QED
    BY <1>1, <2>1, <2>2, <2>3 DEF Crossing
<1>7. base \in Nat /\ \A i \in 1 .. n :
         /\ Script[i].order.remaining_qty = quantity
         /\ Script[i].order.side = IF i <= split THEN "Sell" ELSE "Buy"
         /\ Script[i].order.side = "Buy" => Script[i].order.price = limit
  BY <1>1 DEF Crossing
<1> HIDE DEF n, split, asks
<1>8. /\ n \in Nat /\ split \in Nat /\ 2 * split <= n /\ n <= 2 * split + 1
      /\ next \in Nat /\ next > 0 /\ next <= n + 1 /\ base \in Nat
      /\ call # None => next > 1
      /\ Done \in Nat /\ Ended \in Nat /\ Done <= n
      /\ AllTrades \in Seq(Trade) /\ Len(AllTrades) \in Nat
      /\ IsFiniteSet(asks) /\ Cardinality(asks) \in Nat
  BY <1>1, <1>2, <1>3, <1>4, <1>5, <1>7
<1>9. \A i \in 1 .. n :
         /\ Script[i].order \in Order /\ Script[i].order.remaining_qty > 0
         /\ Script[i].order.remaining_qty = quantity
         /\ Script[i].order.side = IF i <= split THEN "Sell" ELSE "Buy"
         /\ Script[i].order.side = "Buy" => Script[i].order.price = limit
  BY <1>1, <1>7
<1>10. \A o \in asks : /\ o \in Order /\ o.remaining_qty = quantity
                       /\ o.price > base /\ o.price <= limit
  BY <1>6
<1> QED
  BY <1>8, <1>9, <1>10 DEF n, split, asks

\* A bid takes the cheapest ask, whole, and is filled by it.
LEMMA AskTaken ==
    ASSUME ScenarioTypes, Inductive, NEW base, NEW limit, NEW quantity,
           Crossing(Script, base, limit, quantity), Sequenced, Swept(base),
           FillStep, trades' = trades
    PROVE  /\ call # None /\ call' # None /\ ~ Served
           /\ next - 1 > Len(Script) \div 2
           /\ \E m \in RestingOf("Sell"), trade \in Trade :
                 /\ RestingOrders(book') = RestingOrders(book) \ {m}
                 /\ AllTrades' = Append(AllTrades, trade) /\ trade.price = m.price
                 /\ \A o \in RestingOf("Sell") : m.price <= o.price
           /\ IsFilled(call'.incoming)
<1> DEFINE incoming == call.incoming
           contra == Opposite(incoming.side)
           price == BestPrice(book, contra)
           s == BestMakerSlot(book, incoming)
           m == OrderAt(book, s)
           traded == Lesser(incoming.remaining_qty, m.remaining_qty)
           trade == NewTrade(m.id, incoming.id, price, traded)
           n == Len(Script)
           split == n \div 2
<1>1. /\ call # None /\ call' # None /\ trade \in Trade
      /\ AllTrades' = Append(AllTrades, trade)
  BY NextTrade
<1>2. /\ contra \in Sides /\ IsBestPrice(book, contra, price) /\ price \in Prices
      /\ Stands(book, s, contra, price) /\ book' = ConsumeMaker(book, s, traded)
      /\ BookInv(book, older)
  BY FillFacts DEF Inductive
<1>3. ~ Served /\ incoming = Script[next - 1].order
  <2>1. ~ Served
    BY DEF FillStep, CanTrade, Served
  <2> QED
    BY <1>1, <2>1 DEF Swept
<1>4. s \in Occupied(book) /\ m.side = contra /\ m.price = price
  BY <1>2 DEF Stands, Occupied
<1>5. m \in RestingOrders(book)
  BY <1>4 DEF RestingOrders, Occupied
<1>6. call'.incoming = Reduced(incoming, traded)
  BY <1>1, FilledCall
<1>7. trade.price = price
  BY DEF NewTrade
<1> HIDE DEF trade, m, s, price, traded
<1>8. /\ next - 1 \in 1 .. n /\ split \in Nat /\ next \in Nat
      /\ incoming.side = IF next - 1 <= split THEN "Sell" ELSE "Buy"
      /\ incoming.remaining_qty = quantity /\ incoming \in Order
      /\ Done = next - 2
  <2>1. /\ n \in Nat /\ split \in Nat /\ next \in Nat /\ next > 1 /\ next <= n + 1
        /\ \A i \in 1 .. n : /\ Script[i].order \in Order
                             /\ Script[i].order.remaining_qty = quantity
                             /\ Script[i].order.side = IF i <= split THEN "Sell" ELSE "Buy"
    BY <1>1, SweptFacts
  <2>2. Done = next - 2
    BY <1>1, <1>3 DEF Done, Ended
  <2> HIDE DEF n, split
  <2>3. next - 1 \in 1 .. n
    BY <2>1
  <2> QED
    BY <1>3, <2>1, <2>2, <2>3
<1> HIDE DEF n
<1>9. next - 1 > split
  <2> SUFFICES ASSUME next - 1 <= split PROVE FALSE
    BY <1>8
  <2>1. incoming.side = "Sell" /\ Done <= 2 * split
    BY <1>8
  <2>2. RestingOf("Buy") = {}
    BY <2>1 DEF Swept, n
  <2>3. m.side = "Buy"
    BY <1>4, <2>1 DEF Opposite
  <2> QED
    BY <1>5, <2>2, <2>3 DEF RestingOf
<1>10. incoming.side = "Buy" /\ contra = "Sell"
  BY <1>8, <1>9 DEF Opposite
<1>11. m \in RestingOf("Sell")
  BY <1>4, <1>5, <1>10 DEF RestingOf
<1>12. m.remaining_qty = quantity /\ quantity \in Nat
  <2>1. m.remaining_qty = quantity
    BY <1>11, SweptFacts
  <2> QED
    BY <1>8, <2>1, QuantityFacts DEF Order
<1>13. traded = quantity
  BY <1>8, <1>12 DEF traded, Lesser
<1>14. IsFilled(call'.incoming)
  BY <1>6, <1>8, <1>12, <1>13 DEF Reduced, IsFilled, Order
<1>15. RestingOrders(book') = RestingOrders(book) \ {m}
  <2>1. book' = Detach(book, s)
    BY <1>2, <1>12, <1>13 DEF ConsumeMaker, m
  <2> QED
    BY <1>2, <1>4, <2>1, DetachedSet DEF m
<1>16. ASSUME NEW o \in RestingOf("Sell") PROVE m.price <= o.price
  <2>1. o \in RestingOrders(book) /\ o.side = "Sell"
    BY DEF RestingOf
  <2>2. o.price \in PricesOf(book, "Sell")
    BY <1>2, <2>1, RestingFacts DEF RestingOrders, Occupied
  <2>3. o.price \in Nat /\ price \in Nat
    BY <1>2, SweptFacts, PriceAssumption DEF Order
  <2> QED
    BY <1>2, <1>4, <1>10, <2>2, <2>3 DEF IsBestPrice, Outranks
<1> QED
  BY <1>1, <1>3, <1>7, <1>4, <1>9, <1>11, <1>14, <1>15, <1>16 DEF n

\* One ask more, one ask less, or none that is left.
LEMMA TakenFacts ==
    ASSUME NEW done \in Nat, NEW split \in Nat, NEW asks \in Nat, NEW traded \in Nat,
           Taken(done, split, asks, traded)
    PROVE  /\ done < split => Taken(done + 1, split, asks + 1, traded) /\ traded = 0
           /\ done >= split /\ asks > 0 =>
                /\ done + 1 <= 2 * split
                /\ Taken(done + 1, split, asks - 1, traded + 1)
           /\ done >= split /\ done <= 2 * split /\ asks = 0 =>
                /\ done = 2 * split
                /\ Taken(done + 1, split, asks, traded)
BY DEF Taken

LEMMA FillSweeps ==
    ASSUME ScenarioTypes, Inductive, NEW base, NEW limit, NEW quantity,
           Crossing(Script, base, limit, quantity), Sequenced, Swept(base),
           FillStep, UNCHANGED runVars
    PROVE  Swept(base)'
<1> DEFINE n == Len(Script)
           split == n \div 2
           asks == RestingOf("Sell")
<1>1. /\ trades' = trades /\ next' = next /\ Script' = Script
  BY DEF runVars, Script
<1>2. PICK m \in asks, trade \in Trade :
        /\ RestingOrders(book') = RestingOrders(book) \ {m}
        /\ AllTrades' = Append(AllTrades, trade) /\ trade.price = m.price
        /\ \A o \in asks : m.price <= o.price
  BY <1>1, AskTaken
<1>3. /\ call # None /\ call' # None /\ ~ Served /\ next - 1 > split
      /\ IsFilled(call'.incoming)
  BY <1>1, AskTaken
<1>4. /\ n \in Nat /\ split \in Nat /\ next \in Nat /\ base \in Nat /\ next > 1
      /\ Done \in Nat /\ AllTrades \in Seq(Trade) /\ Len(AllTrades) \in Nat
      /\ IsFiniteSet(asks) /\ Cardinality(asks) \in Nat
      /\ \A o \in asks : o \in Order /\ o.price > base
  BY <1>3, SweptFacts
<1>5. /\ RestingOrders(book) \subseteq {Script[i].order : i \in 1 .. next - 1}
      /\ Taken(Done, split, Cardinality(asks), Len(AllTrades))
      /\ RestingOf("Buy") = IF Done <= 2 * split THEN {} ELSE {Script[Done].order}
      /\ \A i \in DOMAIN AllTrades : AllTrades[i].price > base
      /\ \A i \in 2 .. Len(AllTrades) : AllTrades[i - 1].price <= AllTrades[i].price
      /\ \A i \in DOMAIN AllTrades : \A o \in asks : AllTrades[i].price <= o.price
  BY DEF Swept
<1>6. Done = next - 2 /\ Served' /\ Done' = next - 1
  BY <1>1, <1>3 DEF Served, Done, Ended
<1>7. RestingOf("Sell")' = asks \ {m} /\ RestingOf("Buy")' = RestingOf("Buy")
  <2>1. m.side = "Sell"
    BY <1>2 DEF RestingOf
  <2> QED
    BY <1>2, <2>1 DEF RestingOf
<1> HIDE DEF n, split, asks
<1>8. /\ IsFiniteSet(asks \ {m}) /\ Cardinality(asks \ {m}) = Cardinality(asks) - 1
      /\ Cardinality(asks) > 0
  <2>1. /\ IsFiniteSet(asks \ {m})
        /\ Cardinality(asks \ {m}) = Cardinality(asks) - 1
    BY <1>2, <1>4, FS_RemoveElement
  <2>2. Cardinality(asks \ {m}) \in Nat
    BY <2>1, FS_CardinalityType
  <2> QED
    BY <1>4, <2>1, <2>2
<1>9. Done + 1 = Done' /\ Done >= split /\ Len(AllTrades') = Len(AllTrades) + 1
  BY <1>2, <1>3, <1>4, <1>6
<1>10. /\ Done' <= 2 * split /\ Done <= 2 * split
       /\ Taken(Done', split, Cardinality(asks \ {m}), Len(AllTrades'))
  <2>1. /\ Done + 1 <= 2 * split
        /\ Taken(Done + 1, split, Cardinality(asks) - 1, Len(AllTrades) + 1)
    BY <1>4, <1>5, <1>8, <1>9, TakenFacts
  <2> QED
    BY <1>4, <1>8, <1>9, <2>1
<1>11. RestingOf("Buy")' = {}
  BY <1>5, <1>7, <1>10
<1>12. /\ DOMAIN AllTrades' = 1 .. Len(AllTrades) + 1
       /\ AllTrades'[Len(AllTrades) + 1] = trade
       /\ \A i \in 1 .. Len(AllTrades) : AllTrades'[i] = AllTrades[i]
       /\ DOMAIN AllTrades = 1 .. Len(AllTrades)
  BY <1>2, <1>4
<1>13. \A i \in DOMAIN AllTrades' : i \in DOMAIN AllTrades \/ i = Len(AllTrades) + 1
  BY <1>4, <1>12
<1>14. /\ m \in asks /\ m.price > base /\ trade.price = m.price
       /\ \A o \in asks : m.price <= o.price
  BY <1>2, <1>4
<1>15. \A i \in DOMAIN AllTrades' : AllTrades'[i].price > base
  BY <1>5, <1>12, <1>13, <1>14
<1>16. \A i \in DOMAIN AllTrades' : \A o \in asks \ {m} : AllTrades'[i].price <= o.price
  BY <1>5, <1>12, <1>13, <1>14
<1>17. \A i \in 2 .. Len(AllTrades') : AllTrades'[i - 1].price <= AllTrades'[i].price
  <2> TAKE i \in 2 .. Len(AllTrades')
  <2>1. /\ i - 1 \in 1 .. Len(AllTrades)
        /\ i \in 2 .. Len(AllTrades) \/ i = Len(AllTrades) + 1
    BY <1>4, <1>9
  <2>2. AllTrades'[i - 1] = AllTrades[i - 1]
    BY <1>12, <2>1
  <2>3. CASE i \in 2 .. Len(AllTrades)
    <3>1. AllTrades'[i] = AllTrades[i]
      BY <1>4, <1>12, <2>3
    <3> QED
      BY <1>5, <2>2, <2>3, <3>1
  <2>4. CASE i = Len(AllTrades) + 1
    BY <1>5, <1>12, <1>14, <2>1, <2>2, <2>4
  <2> QED
    BY <2>1, <2>3, <2>4
<1>18. Len(Script') \div 2 = split
  BY <1>1 DEF split, n
<1>19. RestingOrders(book') \subseteq {Script'[i].order : i \in 1 .. next' - 1}
  BY <1>1, <1>2, <1>5
<1> QED
  BY <1>6, <1>7, <1>10, <1>11, <1>15, <1>16, <1>17, <1>18, <1>19 DEF Swept

\* A command ends: its order was served, or it rests.
LEMMA CollectSweeps ==
    ASSUME ScenarioTypes, Inductive, NEW base, NEW limit, NEW quantity,
           Crossing(Script, base, limit, quantity), Sequenced, Swept(base), Collect,
           job' = job, AllTrades' = AllTrades
    PROVE  Swept(base)'
<1> DEFINE n == Len(Script)
           split == n \div 2
           asks == RestingOf("Sell")
           order == call.incoming
<1>1. /\ Script' = Script /\ next' = next /\ call # None /\ call' = None /\ ~ Served'
      /\ order.id \notin RestingIds(book) /\ BookInv(book, older)
  BY DEF Collect, FinishCall, Script, Served, Inductive, IndexMatchesArena
<1>2. /\ n \in Nat /\ split \in Nat /\ n <= 2 * split + 1 /\ next \in Nat /\ next > 1
      /\ next <= n + 1 /\ Done \in Nat /\ Done <= n /\ Len(AllTrades) \in Nat
      /\ IsFiniteSet(asks) /\ Cardinality(asks) \in Nat
      /\ \A i \in 1 .. n :
            /\ Script[i].order \in Order /\ Script[i].order.remaining_qty > 0
            /\ Script[i].order.side = IF i <= split THEN "Sell" ELSE "Buy"
            /\ Script[i].order.side = "Buy" => Script[i].order.price = limit
      /\ \A o \in asks : o.price <= limit
  BY <1>1, SweptFacts
<1>3. /\ Served \/ order = Script[next - 1].order
      /\ RestingOrders(book) \subseteq {Script[i].order : i \in 1 .. next - 1}
      /\ Taken(Done, split, Cardinality(asks), Len(AllTrades))
      /\ RestingOf("Buy") = IF Done <= 2 * split THEN {} ELSE {Script[Done].order}
      /\ \A i \in DOMAIN AllTrades : AllTrades[i].price > base
      /\ \A i \in 2 .. Len(AllTrades) : AllTrades[i - 1].price <= AllTrades[i].price
      /\ \A i \in DOMAIN AllTrades : \A o \in asks : AllTrades[i].price <= o.price
  BY <1>1 DEF Swept
<1>4. Done' = next - 1
  BY <1>1 DEF Done, Ended
<1>5. Len(Script') \div 2 = split
  BY <1>1
<1>6. CASE Served
  <2>1. Done = next - 1 /\ book' = book
    BY <1>6 DEF Done, Served, Collect, FinishCall
  <2>2. RestingOf("Sell")' = asks /\ RestingOf("Buy")' = RestingOf("Buy")
    BY <2>1 DEF RestingOf
  <2> HIDE DEF asks, split, n
  <2> QED
    BY <1>1, <1>3, <1>4, <1>5, <2>1, <2>2 DEF Swept
<1>7. CASE ~ Served
  <2>1. /\ order = Script[next - 1].order /\ Done = next - 2 /\ ~ IsFilled(order)
    BY <1>1, <1>3, <1>7 DEF Done, Ended, Served
  <2>2. next - 1 \in 1 .. n
    BY <1>2
  <2>3. /\ order \in Order /\ order.remaining_qty > 0
        /\ order.side = IF next - 1 <= split THEN "Sell" ELSE "Buy"
        /\ order.side = "Buy" => order.price = limit
    BY <1>2, <2>1, <2>2
  <2>4. RestingOrders(book') = RestingOrders(book) \cup {order}
    <3>1. book' = RestOrder(book, order) /\ Restable(book, order)
      BY <1>1, <2>1, <2>3 DEF Collect, FinishCall, Restable
    <3> HIDE DEF order
    <3> QED
      BY <1>1, <3>1, RestedSet
  <2>5. order \notin RestingOrders(book)
    <3>1. \A o \in RestingOrders(book) : o.id \in RestingIds(book)
      BY <1>1, RestingFacts DEF RestingOrders, Occupied, IdAt
    <3> QED
      BY <1>1, <3>1
  <2>6. RestingOrders(book') \subseteq {Script'[i].order : i \in 1 .. next' - 1}
    BY <1>1, <1>3, <2>1, <2>2, <2>4
  <2>7. Done + 1 = next - 1
    BY <1>2, <2>1
  <2> HIDE DEF n, split, asks, order
  <2>8. CASE next - 1 <= split
    <3>1. order.side = "Sell" /\ Done < split /\ Done <= 2 * split /\ next - 1 <= 2 * split
      BY <1>2, <2>1, <2>3, <2>8
    <3>2. RestingOf("Sell")' = asks \cup {order} /\ RestingOf("Buy")' = RestingOf("Buy")
      BY <2>4, <3>1 DEF RestingOf, asks
    <3>3. order \notin asks
      BY <2>5 DEF RestingOf, asks
    <3>4. Cardinality(asks \cup {order}) = Cardinality(asks) + 1
      BY <1>2, <3>3, FS_AddElement
    <3>5. /\ Taken(next - 1, split, Cardinality(asks \cup {order}), Len(AllTrades))
          /\ Len(AllTrades) = 0
      BY <1>2, <1>3, <2>7, <3>1, <3>4, TakenFacts
    <3>6. AllTrades = << >> /\ DOMAIN AllTrades = {}
      BY <3>5, BalanceTypes
    <3>7. RestingOf("Buy") = {}
      BY <1>3, <3>1
    <3> QED
      BY <1>1, <1>3, <1>4, <1>5, <2>6, <3>1, <3>2, <3>5, <3>6, <3>7 DEF Swept
  <2>9. CASE next - 1 > split
    <3>1. order.side = "Buy" /\ order.price = limit /\ Done >= split
      BY <1>2, <2>1, <2>3, <2>9
    <3>2. asks = {}
      <4> SUFFICES ASSUME NEW o \in asks PROVE FALSE
        OBVIOUS
      <4>1. o \in RestingOrders(book) /\ o.side = "Sell" /\ o.price <= limit
        BY <1>2 DEF RestingOf, asks
      <4>2. o.price \in PricesOf(book, "Sell")
        BY <1>1, <4>1, RestingFacts DEF RestingOrders, Occupied
      <4>3. Opposite(order.side) = "Sell"
        BY <3>1 DEF Opposite
      <4>4. ~ Crosses(order, o.price)
        BY <2>1, <4>2, <4>3, NothingCrosses DEF Collect, order
      <4> QED
        BY <3>1, <4>1, <4>4 DEF Crosses
    <3>3. Cardinality(asks) = 0
      BY <3>2, FS_EmptySet
    <3>4. Done <= 2 * split
      BY <1>2, <2>1
    <3>5. /\ Done = 2 * split
          /\ Taken(next - 1, split, Cardinality(asks), Len(AllTrades))
      BY <1>2, <1>3, <2>7, <3>1, <3>3, <3>4, TakenFacts
    <3>6. RestingOf("Buy") = {} /\ next - 1 > 2 * split
      BY <1>2, <1>3, <2>1, <3>4, <3>5
    <3>7. RestingOf("Sell")' = asks /\ RestingOf("Buy")' = {order}
      BY <2>4, <3>1, <3>6 DEF RestingOf, asks
    <3>8. RestingOf("Buy")' = IF Done' <= 2 * split THEN {} ELSE {Script'[Done'].order}
      BY <1>1, <1>2, <1>4, <2>1, <3>6, <3>7
    <3> QED
      BY <1>1, <1>3, <1>4, <1>5, <2>6, <3>5, <3>7, <3>8 DEF Swept
  <2> QED
    BY <1>2, <2>8, <2>9
<1> QED
  BY <1>6, <1>7

LEMMA SweptStep ==
    ASSUME ScenarioTypes, Inductive, NEW base, NEW limit, NEW quantity,
           Crossing(Script, base, limit, quantity), job.kind # "unknown",
           Sequenced, Swept(base), [SimNext]_simVars
    PROVE  Swept(base)'
<1>1. /\ job' = job
      /\ \/ AddBegins
         \/ FillStep /\ UNCHANGED runVars
         \/ Collect
         \/ UNCHANGED <<book, call, next, trades>>
  BY SequencedStep DEF Crossing
<1>2. \/ AllTrades' = AllTrades
      \/ FillStep /\ UNCHANGED runVars
  BY TradesGrow
<1>3. CASE FillStep /\ UNCHANGED runVars
  BY <1>3, FillSweeps
<1>4. CASE Collect /\ AllTrades' = AllTrades
  BY <1>1, <1>4, CollectSweeps
<1>5. CASE AddBegins /\ AllTrades' = AllTrades
  <2>1. /\ call = None /\ call' # None /\ call'.incoming = Script[next].order
        /\ next' = next + 1 /\ book' = book /\ next <= Len(Script)
    BY <1>5 DEF AddBegins, AddOrder
  <2>2. Script' = Script
    BY <1>1 DEF Script
  <2>3. /\ next \in Nat /\ next > 0 /\ Len(Script) \in Nat
        /\ \A i \in 1 .. Len(Script) : Script[i].order \in Order /\ Script[i].order.remaining_qty > 0
    BY SweptFacts
  <2>4. ~ Served /\ ~ Served'
    BY <2>1, <2>3 DEF Served, IsFilled
  <2>5. Done = next - 1 /\ Done' = next - 1 /\ next' - 1 = next
    BY <2>1, <2>3, <2>4 DEF Done, Ended
  <2>6. RestingOf("Sell")' = RestingOf("Sell") /\ RestingOf("Buy")' = RestingOf("Buy")
    BY <2>1 DEF RestingOf
  <2>7. RestingOrders(book') \subseteq {Script'[i].order : i \in 1 .. next' - 1}
    <3>1. RestingOrders(book) \subseteq {Script[i].order : i \in 1 .. next - 1}
      BY DEF Swept
    <3>2. 1 .. next - 1 \subseteq 1 .. next' - 1
      BY <2>1, <2>3
    <3> QED
      BY <2>1, <2>2, <3>1, <3>2
  <2> QED
    BY <1>5, <2>1, <2>2, <2>5, <2>6, <2>7 DEF Swept
<1>6. CASE UNCHANGED <<book, call, next, trades>>
  <2>1. Script' = Script /\ Done' = Done /\ AllTrades' = AllTrades /\ (Served <=> Served')
    BY <1>1, <1>6 DEF Script, Done, Ended, Served, AllTrades
  <2>2. RestingOf("Sell")' = RestingOf("Sell") /\ RestingOf("Buy")' = RestingOf("Buy")
    BY <1>6 DEF RestingOf
  <2> QED
    BY <1>6, <2>1, <2>2 DEF Swept
<1> QED
  BY <1>1, <1>2, <1>3, <1>4, <1>5, <1>6

-----------------------------------------------------------------------------
(* Both generators keep their promise.                                     *)

Promised == job.kind \in {"synthetic", "synthetic-crossing"} /\ Sane(job.config)

\* What holds of a generated scenario all along, by its kind.
Unfolding ==
    Promised =>
        /\ Sequenced
        /\ job.kind = "synthetic" => Visible
        /\ job.kind = "synthetic-crossing" => Swept(job.config.base_price)

\* The commands of a generated scenario.
LEMMA GeneratedScript ==
    ASSUME ScenarioTypes, Promised
    PROVE  /\ job.config \in GeneratorConfig /\ Sane(job.config)
           /\ IdentifiersOf(job.config) \subseteq OrderIds
           /\ AddsOnly(Script) /\ Len(Script) = job.config.order_count
           /\ job.kind = "synthetic" => Script = GenerateTwoSidedOrders(job.config)
           /\ job.kind = "synthetic-crossing" => Script = GenerateCrossingOrders(job.config)
<1>1. /\ job.config \in GeneratorConfig /\ Sane(job.config)
      /\ IdentifiersOf(job.config) \subseteq OrderIds
  BY JobConfigs DEF Promised, ScenarioTypes
<1>2. CASE job.kind = "synthetic"
  <2>1. Script = GenerateTwoSidedOrders(job.config)
    BY <1>2 DEF Script, CommandsFor
  <2> QED
    BY <1>1, <1>2, <2>1, TwoSidedScript
<1>3. CASE job.kind = "synthetic-crossing"
  <2>1. Script = GenerateCrossingOrders(job.config)
    BY <1>3 DEF Script, CommandsFor
  <2> QED
    BY <1>1, <1>3, <2>1, CrossingScript
<1> QED
  BY <1>2, <1>3 DEF Promised

LEMMA TwoSidedApart ==
    ASSUME ScenarioTypes, Promised, job.kind = "synthetic"
    PROVE  Apart(Script, job.config.base_price)
<1>1. /\ job.config \in GeneratorConfig /\ Sane(job.config) /\ AddsOnly(Script)
      /\ IdentifiersOf(job.config) \subseteq OrderIds
      /\ Script = GenerateTwoSidedOrders(job.config)
  BY GeneratedScript
<1>2. /\ job.config.base_price \in Nat
      /\ \A i \in DOMAIN Script :
            IF Script[i].order.side = "Sell" THEN Script[i].order.price > job.config.base_price
            ELSE Script[i].order.price <= job.config.base_price
  <2>1. job.config.base_price \in Nat
    BY <1>1, SaneFacts
  <2>2. \A i \in DOMAIN Script :
          /\ Script[i].order.side \in {"Buy", "Sell"}
          /\ Script[i].order.side = "Sell" => Script[i].order.price > job.config.base_price
          /\ Script[i].order.side = "Buy" => Script[i].order.price <= job.config.base_price
    BY <1>1, TwoSidedScript
  <2> QED
    BY <2>1, <2>2
<1> QED
  BY <1>1, <1>2 DEF Apart

CrossingLimit == job.config.base_price + PriceLevels(job.config) * job.config.tick_size

LEMMA CrossingShape ==
    ASSUME ScenarioTypes, Promised, job.kind = "synthetic-crossing"
    PROVE  Crossing(Script, job.config.base_price, CrossingLimit, job.config.quantity)
<1> DEFINE base == job.config.base_price
           split == Len(Script) \div 2
<1>1. /\ job.config \in GeneratorConfig /\ Sane(job.config) /\ AddsOnly(Script)
      /\ IdentifiersOf(job.config) \subseteq OrderIds
      /\ Len(Script) = job.config.order_count
      /\ Script = GenerateCrossingOrders(job.config)
  BY GeneratedScript
<1>2. base \in Nat
  BY <1>1, SaneFacts
<1>3. \A i \in DOMAIN Script :
        /\ Script[i].order.side = IF i <= split THEN "Sell" ELSE "Buy"
        /\ Script[i].order.remaining_qty = job.config.quantity
        /\ i <= split => Script[i].order.price > base /\ Script[i].order.price <= CrossingLimit
        /\ i > split => Script[i].order.price = CrossingLimit
  BY <1>1, CrossingScript DEF CrossingLimit
<1>4. \A i \in DOMAIN Script : i \in Nat /\ split \in Nat
  BY <1>1 DEF AddsOnly
<1> HIDE DEF split, base
<1>5. ASSUME NEW i \in DOMAIN Script
      PROVE  /\ Script[i].order.side = IF i <= split THEN "Sell" ELSE "Buy"
             /\ Script[i].order.remaining_qty = job.config.quantity
             /\ Script[i].order.side = "Sell" => /\ Script[i].order.price > base
                                                 /\ Script[i].order.price <= CrossingLimit
             /\ Script[i].order.side = "Buy" => Script[i].order.price = CrossingLimit
  <2>1. i <= split \/ i > split
    BY <1>4
  <2> QED
    BY <1>3, <2>1
<1> QED
  BY <1>1, <1>2, <1>5 DEF Crossing, base, split

LEMMA UnfoldingStarts == SimInit => Unfolding
<1> SUFFICES ASSUME SimInit, Promised
             PROVE  /\ Sequenced
                    /\ job.kind = "synthetic" => Visible
                    /\ job.kind = "synthetic-crossing" => Swept(job.config.base_price)
  BY DEF Unfolding
<1>1. ScenarioTypes
  BY DEF SimInit, ScenarioTypes, Init
<1>2. /\ next = 1 /\ call = None /\ outcome = None /\ seen_order_ids = {}
      /\ AllTrades = << >> /\ RestingOrders(book) = {}
  <2>1. RestingOrders(EmptyBook) = {}
    BY DEF RestingOrders, EmptyBook, OccupiedSlots, EmptyArena, SlotsOf
  <2> QED
    BY <2>1 DEF SimInit, Init, AllTrades
<1>3. Len(Script) \in Nat /\ AddsOnly(Script)
  <2>1. AddsOnly(Script)
    BY <1>1, GeneratedScript
  <2> QED
    BY <2>1 DEF AddsOnly
<1>4. 1 .. next - 1 = {} /\ 1 .. Ended = {} /\ Ended = 0 /\ Done = 0
  BY <1>2 DEF Ended, Done, Served
<1>5. Sequenced
  BY <1>2, <1>3, <1>4, OutcomeAssumption DEF Sequenced
<1>6. Visible
  BY <1>2, <1>4 DEF Visible
<1>7. ASSUME NEW base PROVE Swept(base)
  <2> DEFINE split == Len(Script) \div 2
  <2>1. split \in Nat
    BY <1>3
  <2>2. RestingOf("Sell") = {} /\ RestingOf("Buy") = {} /\ Cardinality(RestingOf("Sell")) = 0
    BY <1>2, FS_EmptySet DEF RestingOf
  <2>3. Len(AllTrades) = 0 /\ DOMAIN AllTrades = {} /\ 2 .. Len(AllTrades) = {}
    BY <1>2
  <2> HIDE DEF split
  <2>4. Taken(Done, split, Cardinality(RestingOf("Sell")), Len(AllTrades))
    BY <1>4, <2>1, <2>2, <2>3 DEF Taken
  <2>5. Done <= 2 * split
    BY <1>4, <2>1
  <2> QED
    BY <1>2, <2>2, <2>3, <2>4, <2>5 DEF Swept, split
<1> QED
  BY <1>5, <1>6, <1>7

LEMMA UnfoldingStep ==
    ASSUME ScenarioTypes, Inductive, Unfolding, [SimNext]_simVars
    PROVE  Unfolding'
<1>1. job' = job
  BY DEF RejectName, RunAdd, RunCancel, RunModify, Run, Matching, Collect, Return,
         SimNext, simVars, runVars
<1>2. (Promised <=> Promised') /\ job'.config.base_price = job.config.base_price
  BY <1>1 DEF Promised, Sane
<1> SUFFICES ASSUME Promised
             PROVE  /\ Sequenced'
                    /\ job.kind = "synthetic" => Visible'
                    /\ job.kind = "synthetic-crossing" => Swept(job.config.base_price)'
  BY <1>1, <1>2 DEF Unfolding
<1>3. job.kind # "unknown" /\ AddsOnly(Script) /\ Sequenced
  BY GeneratedScript DEF Promised, Unfolding
<1>4. Sequenced'
  BY <1>3, SequencedStep
<1>5. CASE job.kind = "synthetic"
  <2>1. Apart(Script, job.config.base_price) /\ Visible
    BY <1>5, TwoSidedApart DEF Unfolding
  <2>2. Visible'
    BY <1>3, <2>1, VisibleStep
  <2> QED
    BY <1>4, <1>5, <2>2
<1>6. CASE job.kind = "synthetic-crossing"
  <2>1. /\ Crossing(Script, job.config.base_price, CrossingLimit, job.config.quantity)
        /\ Swept(job.config.base_price)
    BY <1>6, CrossingShape DEF Unfolding
  <2> DEFINE base == job.config.base_price
  <2>2. base' = base
    BY <1>1
  <2> HIDE DEF base
  <2>3. Swept(base)'
    BY <1>3, <2>1, <2>2, SweptStep DEF base
  <2> QED
    BY <1>4, <1>6, <2>3 DEF base
<1> QED
  BY <1>5, <1>6 DEF Promised

\* What the two-sided generator leaves when its scenario is over.
LEMMA TwoSidedEnd ==
    ASSUME ScenarioTypes, Promised, Unfolding, job.kind = "synthetic", outcome = "Ok"
    PROVE  LET config == job.config
               pairs == config.order_count \div 2
           IN  /\ trades = << >>
               /\ Cardinality(RestingOf("Sell")) = pairs
               /\ Cardinality(RestingOf("Buy")) = config.order_count - pairs
               /\ \A o \in RestingOf("Sell") : o.price > config.base_price
               /\ \A o \in RestingOf("Buy") :
                     o.price < config.base_price \/ config.base_price = 0
<1> DEFINE config == job.config
           cs == Script
           R == RestingOrders(book)
<1>1. /\ config \in GeneratorConfig /\ Sane(config) /\ AddsOnly(cs)
      /\ IdentifiersOf(config) \subseteq OrderIds
      /\ Len(cs) = config.order_count /\ cs = GenerateTwoSidedOrders(config)
  BY GeneratedScript
<1>2. Sequenced /\ Visible /\ call = None
  BY OutcomeAssumption DEF Unfolding, ScenarioTypes
<1>3. trades = << >> /\ Ended = Len(cs)
  <2>1. next = Len(cs) + 1 /\ Len(cs) \in Nat
    BY <1>1, <1>2 DEF Sequenced, AddsOnly
  <2> QED
    BY <1>2, <2>1 DEF Visible, AllTrades, Ended
<1>4. R = {cs[i].order : i \in 1 .. Len(cs)}
  BY <1>2, <1>3 DEF Visible
<1>5. DOMAIN cs = 1 .. Len(cs)
  BY <1>1 DEF AddsOnly
<1>6. \A i \in 1 .. Len(cs) :
        /\ cs[i].order.side = IF (i - 1) % 2 = 0 THEN "Buy" ELSE "Sell"
        /\ cs[i].order.side = "Sell" => cs[i].order.price > config.base_price
        /\ cs[i].order.side = "Buy" => \/ cs[i].order.price < config.base_price
                                       \/ config.base_price = 0
  BY <1>1, <1>5, TwoSidedScript
<1> HIDE DEF cs, R, config
<1> DEFINE asks == RestingOf("Sell")
           bids == RestingOf("Buy")
<1>7. /\ Cardinality(asks) = Len(cs) \div 2
      /\ Cardinality(bids) = Len(cs) - (Len(cs) \div 2)
  <2>1. \A i \in DOMAIN cs :
          cs[i].order.side = IF (i - 1) % 2 = 0 THEN "Buy" ELSE "Sell"
    BY <1>5, <1>6
  <2>2. \A o : /\ o \in asks <=> \E i \in DOMAIN cs : o = cs[i].order /\ o.side = "Sell"
               /\ o \in bids <=> \E i \in DOMAIN cs : o = cs[i].order /\ o.side = "Buy"
    BY <1>4, <1>5 DEF RestingOf, R
  <2>3. AddsOnly(cs)
    BY <1>1
  <2> HIDE DEF asks, bids
  <2> QED
    BY <2>1, <2>2, <2>3, HalfAndHalf, ZenonT(60)
<1>8. \A o \in R : /\ o.side = "Sell" => o.price > config.base_price
                   /\ o.side = "Buy" => o.price < config.base_price \/ config.base_price = 0
  BY <1>4, <1>6
<1> QED
  BY <1>1, <1>3, <1>7, <1>8 DEF RestingOf, R, config

\* What the crossing generator leaves when its scenario is over.
LEMMA CrossingEnd ==
    ASSUME ScenarioTypes, Inductive, Promised, Unfolding,
           job.kind = "synthetic-crossing", outcome = "Ok"
    PROVE  LET config == job.config
               pairs == config.order_count \div 2
           IN  /\ Len(trades) = pairs
               /\ \A i \in 1 .. pairs : trades[i].price > config.base_price
               /\ \A i \in 2 .. pairs : trades[i - 1].price <= trades[i].price
               /\ RestingOf("Sell") = {}
               /\ Cardinality(RestingOf("Buy")) = config.order_count - 2 * pairs
<1> DEFINE base == job.config.base_price
           n == Len(Script)
           pairs == n \div 2
           asks == RestingOf("Sell")
<1>1. n = job.config.order_count
  BY GeneratedScript
<1>2. Sequenced /\ Swept(base) /\ call = None
  BY OutcomeAssumption DEF Unfolding, ScenarioTypes
<1>3. /\ n \in Nat /\ pairs \in Nat /\ 2 * pairs <= n /\ n <= 2 * pairs + 1
      /\ AllTrades \in Seq(Trade) /\ Len(AllTrades) \in Nat
      /\ IsFiniteSet(asks) /\ Cardinality(asks) \in Nat
  BY <1>2, CrossingShape, SweptFacts
<1>4. AllTrades = trades /\ Done = n
  <2>1. next = n + 1
    BY <1>2 DEF Sequenced
  <2> QED
    BY <1>2, <1>3, <2>1 DEF AllTrades, Done, Ended, Served
<1>5. /\ Taken(n, pairs, Cardinality(asks), Len(trades))
      /\ RestingOf("Buy") = IF n <= 2 * pairs THEN {} ELSE {Script[n].order}
      /\ \A i \in DOMAIN trades : trades[i].price > base
      /\ \A i \in 2 .. Len(trades) : trades[i - 1].price <= trades[i].price
  BY <1>2, <1>4 DEF Swept
<1>6. DOMAIN trades = 1 .. Len(trades)
  BY <1>3, <1>4
<1> HIDE DEF n, pairs, asks, base
<1>7. Len(trades) = pairs /\ Cardinality(asks) = 0
  BY <1>3, <1>4, <1>5 DEF Taken
<1>8. asks = {}
  BY <1>3, <1>7, FS_EmptySet
<1>9. Cardinality(RestingOf("Buy")) = n - 2 * pairs
  <2>1. CASE n <= 2 * pairs
    <3>1. n - 2 * pairs = 0
      BY <1>3, <2>1
    <3>2. RestingOf("Buy") = {}
      BY <1>5, <2>1
    <3> QED
      BY <3>1, <3>2, FS_EmptySet
  <2>2. CASE ~ (n <= 2 * pairs)
    <3>1. n - 2 * pairs = 1
      BY <1>3, <2>2
    <3>2. RestingOf("Buy") = {Script[n].order}
      BY <1>5, <2>2
    <3>3. Cardinality({Script[n].order}) = 1
      BY FS_Singleton
    <3> QED
      BY <3>1, <3>2, <3>3
  <2> QED
    BY <2>1, <2>2
<1> QED
  BY <1>1, <1>5, <1>6, <1>7, <1>8, <1>9 DEF pairs, asks, base

\* A generated scenario does what the comments of generator.rs say, for every
\* sane configuration and any number of orders: it runs to its end; of the
\* first kind it trades nothing and half of the orders are visible on either
\* side; of the second every ask is taken, the cheapest first.
THEOREM GeneratorsKeepTheirPromise == SimSpec => []GeneratedAsPromised
<1>1. SimInit => ScenarioTypes /\ Inductive /\ Unfolding
  BY UnfoldingStarts, InitInductive DEF SimInit, ScenarioTypes, Init
<1>2. (ScenarioTypes /\ Inductive /\ Unfolding) /\ [SimNext]_simVars
         => (ScenarioTypes /\ Inductive /\ Unfolding)'
  BY TypesStep, StepOfEngine, StepInductive, UnfoldingStep
<1>3. ScenarioTypes /\ Inductive /\ Unfolding => GeneratedAsPromised
  <2> SUFFICES ASSUME ScenarioTypes, Inductive, Unfolding, Promised
               PROVE  GeneratedAsPromised
    BY DEF GeneratedAsPromised, Promised
  <2>1. outcome # "Failed"
    BY DEF Unfolding, Sequenced
  <2> QED
    BY <2>1, TwoSidedEnd, CrossingEnd DEF GeneratedAsPromised
<1> QED
  BY <1>1, <1>2, <1>3, PTL DEF SimSpec

-----------------------------------------------------------------------------
(* No scenario goes on for ever.                                           *)

\* At most so many steps are left: each command may trade, at most once for
\* every unit that its order brings, and then ends.
CommandsLeft == Len(Script) + 1 - next
InCommand == IF call = None THEN 0 ELSE call.incoming.remaining_qty + 1
StepsLeft ==
    CommandsLeft * (QtySpace + 1) + InCommand + IF outcome = None THEN 1 ELSE 0

InScript == CommandsLeft \in Nat

LEMMA StepsLeftType ==
    ASSUME Inductive, ScenarioTypes, InScript
    PROVE  InCommand \in Nat /\ StepsLeft \in Nat
<1>1. InCommand \in Nat
  BY BalanceTypes, QuantityFacts DEF InCommand, Order
<1>2. CommandsLeft \in Nat /\ QtySpace + 1 \in Nat
  BY QtyAssumption DEF InScript
<1>3. CommandsLeft * (QtySpace + 1) \in Nat
  BY <1>2
<1> QED
  BY <1>1, <1>3 DEF StepsLeft

\* A command that is begun is one command less to begin.
LEMMA OneCommandLess ==
    ASSUME Inductive, ScenarioTypes, InScript, Looking(Current.kind),
           next' = next + 1, job' = job,
           \/ outcome' = outcome /\ InCommand' \in 0 .. QtySpace
           \/ outcome' = "Failed" /\ call' = call
    PROVE  InScript' /\ StepsLeft' < StepsLeft
<1> DEFINE width == QtySpace + 1
           spent == InCommand' + IF outcome' = None THEN 1 ELSE 0
<1>1. /\ next \in Nat /\ Len(Script) \in Nat /\ next <= Len(Script)
      /\ Script' = Script /\ call = None /\ outcome = None
  <2>1. Script \in Seq(ScenarioCommand)
    BY JobCommands DEF Script, ScenarioTypes
  <2> QED
    BY <2>1 DEF Looking, Running, Script, ScenarioTypes
<1>2. /\ CommandsLeft \in Nat /\ CommandsLeft' \in Nat
      /\ CommandsLeft' = CommandsLeft - 1
  BY <1>1 DEF CommandsLeft
<1>3. width \in Nat /\ spent \in Nat /\ spent <= width
  BY <1>1, QtyAssumption, OutcomeAssumption DEF InCommand
<1>4. /\ StepsLeft = CommandsLeft * width + 1
      /\ StepsLeft' = CommandsLeft' * width + spent
  <2>1. CommandsLeft' * width \in Nat /\ InCommand' \in Nat
    BY <1>1, <1>2, <1>3 DEF InCommand
  <2> QED
    BY <1>1, <1>2, <1>3, <2>1 DEF StepsLeft, InCommand
<1> HIDE DEF width, spent
<1>5. \A x \in Nat : x >= 1 => (x - 1) * width = x * width - width /\ x * width \in Nat
  BY <1>3
<1>6. CommandsLeft' * width = CommandsLeft * width - width /\ CommandsLeft * width \in Nat
  BY <1>2, <1>5
<1> QED
  BY <1>2, <1>3, <1>4, <1>6 DEF InScript

LEMMA FewerSteps ==
    ASSUME Inductive, ScenarioTypes, InScript, SimNext
    PROVE  InScript' /\ StepsLeft' < StepsLeft
<1>0. job' = job
  BY DEF RejectName, RunAdd, RunCancel, RunModify, Run, Matching, Collect, Return,
         SimNext, runVars
<1>1. CommandsLeft * (QtySpace + 1) \in Nat /\ InCommand \in Nat
  <2>1. CommandsLeft \in Nat /\ QtySpace + 1 \in Nat
    BY QtyAssumption DEF InScript
  <2> QED
    BY <2>1, StepsLeftType
<1>2. ASSUME next' = next
      PROVE  /\ InScript'
             /\ StepsLeft' = CommandsLeft * (QtySpace + 1) + InCommand'
                                + IF outcome' = None THEN 1 ELSE 0
  BY <1>0, <1>2 DEF InScript, CommandsLeft, Script, StepsLeft
<1>3. CASE RejectName \/ Return
  <2>1. /\ next' = next /\ call' = call /\ outcome = None /\ outcome' # None
    BY <1>3, OutcomeAssumption DEF RejectName, Return, Running, vars
  <2>2. InCommand' = InCommand
    BY <2>1 DEF InCommand
  <2> QED
    BY <1>1, <1>2, <2>1, <2>2 DEF StepsLeft
<1>4. CASE RunAdd
  <2> DEFINE order == Current.order
  <2>1. /\ Looking("Add") /\ Looking(Current.kind) /\ next' = next + 1 /\ order \in Order
    BY <1>4, CurrentTypes DEF RunAdd, Looking, Current, Run, ScenarioTypes
  <2> HIDE DEF order
  <2>2. CASE AddOrder(order) /\ outcome' = outcome
    <3>1. call' # None /\ call'.incoming = order
      BY <2>1, <2>2, StartType, CallAssumption DEF AddOrder
    <3>2. order.remaining_qty \in 0 .. QtySpace - 1
      BY <2>1 DEF Order, Quantities
    <3>3. InCommand' \in 0 .. QtySpace
      BY <3>1, <3>2, QtyAssumption DEF InCommand
    <3> QED
      BY <1>0, <2>1, <2>2, <3>3, OneCommandLess
  <2>3. CASE (AddZeroQuantity(order) \/ AddDuplicate(order)) /\ outcome' = "Failed"
    BY <1>0, <2>1, <2>3, OneCommandLess DEF AddZeroQuantity, AddDuplicate, Reject
  <2> QED
    BY <1>4, <2>2, <2>3 DEF RunAdd, Run, order
<1>5. CASE RunCancel
  <2>1. /\ Looking(Current.kind) /\ next' = next + 1 /\ call' = call /\ call = None
        /\ outcome' = outcome \/ outcome' = "Failed"
    BY <1>5 DEF RunCancel, Looking, Running, Current, Run, CancelOrder, CancelUnknown, Reject
  <2>2. InCommand' \in 0 .. QtySpace
    BY <2>1, QtyAssumption DEF InCommand
  <2> QED
    BY <1>0, <2>1, <2>2, OneCommandLess
<1>6. CASE RunModify
  <2> DEFINE id == Current.order_id
             order == NewOrder(id, OrderAt(book, book.order_slots[id]).side,
                               Current.new_price, Current.new_quantity)
  <2>1. /\ Looking(Current.kind) /\ next' = next + 1
        /\ id \in OrderIds /\ Current.new_price \in Prices
        /\ Current.new_quantity \in Quantities
    BY <1>6, CurrentTypes DEF RunModify, Looking, Current, Run, ScenarioTypes
  <2>2. CASE /\ ModifyOrder(id, Current.new_price, Current.new_quantity)
             /\ outcome' = outcome
    <3>1. call' = StartMatching("Modify", order) /\ id \in RestingIds(book)
      BY <2>2 DEF ModifyOrder
    <3>2. OrderAt(book, book.order_slots[id]).side \in Sides
      BY <3>1, RestingFacts DEF Inductive, BookInv, IndexOK
    <3>3. order \in Order /\ order.remaining_qty \in 0 .. QtySpace - 1
      BY <2>1, <3>2 DEF NewOrder, Order, Quantities
    <3> HIDE DEF order
    <3>4. call' # None /\ call'.incoming = order
      BY <3>1, <3>3, StartType, CallAssumption
    <3>5. InCommand' \in 0 .. QtySpace
      BY <3>3, <3>4, QtyAssumption DEF InCommand
    <3> QED
      BY <1>0, <2>1, <2>2, <3>5, OneCommandLess
  <2>3. CASE /\ \/ ModifyZeroQuantity(id, Current.new_quantity)
                \/ ModifyUnknown(id, Current.new_quantity)
             /\ outcome' = "Failed"
    BY <1>0, <2>1, <2>3, OneCommandLess DEF ModifyZeroQuantity, ModifyUnknown, Reject
  <2> QED
    BY <1>6, <2>2, <2>3 DEF RunModify, Run
<1>7. CASE Matching
  <2>1. FillStep /\ next' = next /\ outcome' = outcome /\ trades' = trades
    BY <1>7 DEF Matching, runVars
  <2>2. PICK traded \in Nat : /\ traded > 0 /\ traded <= call.incoming.remaining_qty
                              /\ call'.incoming = Reduced(call.incoming, traded)
    BY <2>1, FillFacts, FilledCall
  <2>3. call # None /\ call' # None /\ call.incoming \in Order
    BY <2>1, NextTrade, BalanceTypes
  <2>4. InCommand' < InCommand /\ InCommand' \in Nat
    BY <2>2, <2>3, QuantityFacts DEF InCommand, Reduced, Order
  <2> QED
    BY <1>1, <1>2, <2>1, <2>4 DEF StepsLeft
<1>8. CASE Collect
  <2>1. call # None /\ call' = None /\ next' = next /\ outcome' = outcome
    BY <1>8 DEF Collect, FinishCall
  <2>2. InCommand' < InCommand /\ InCommand' \in Nat
    BY <2>1, BalanceTypes, QuantityFacts DEF InCommand, Order
  <2> QED
    BY <1>1, <1>2, <2>1, <2>2 DEF StepsLeft
<1> QED
  BY <1>3, <1>4, <1>5, <1>6, <1>7, <1>8 DEF SimNext

\* The number of steps a scenario can still take is a natural number that every
\* step lessens: whatever the commands and the state of the book, neither the
\* loops of the matching engine nor the loop over the commands run for ever.
THEOREM ScenariosAreFinite ==
    SimSpec => [](StepsLeft \in Nat) /\ [][StepsLeft' < StepsLeft]_simVars
<1>1. SimInit => ScenarioTypes /\ Inductive /\ InScript
  <2> SUFFICES ASSUME SimInit PROVE ScenarioTypes /\ Inductive /\ InScript
    OBVIOUS
  <2>1. ScenarioTypes /\ Inductive
    BY InitInductive DEF SimInit, ScenarioTypes, Init
  <2>2. Script \in Seq(ScenarioCommand)
    BY <2>1, JobCommands DEF ScenarioTypes, Script
  <2>3. CommandsLeft \in Nat
    BY <2>2 DEF CommandsLeft, SimInit
  <2> QED
    BY <2>1, <2>3 DEF InScript
<1>2. (ScenarioTypes /\ Inductive /\ InScript) /\ [SimNext]_simVars
         => /\ (ScenarioTypes /\ Inductive /\ InScript)'
            /\ [StepsLeft' < StepsLeft]_simVars
  <2> SUFFICES ASSUME ScenarioTypes, Inductive, InScript, [SimNext]_simVars
               PROVE  /\ (ScenarioTypes /\ Inductive /\ InScript)'
                      /\ [StepsLeft' < StepsLeft]_simVars
    OBVIOUS
  <2>1. ScenarioTypes' /\ Inductive'
    BY TypesStep, StepOfEngine, StepInductive
  <2>2. CASE SimNext
    BY <2>1, <2>2, FewerSteps
  <2>3. CASE UNCHANGED simVars
    <3>1. InScript'
      BY <2>3 DEF InScript, CommandsLeft, Script, simVars, runVars
    <3> QED
      BY <2>1, <2>3, <3>1
  <2> QED
    BY <2>2, <2>3
<1>3. ScenarioTypes /\ Inductive /\ InScript => StepsLeft \in Nat
  BY StepsLeftType
<1> QED
  BY <1>1, <1>2, <1>3, PTL DEF SimSpec
=============================================================================
