------------------------ MODULE OrderBookRefinement ------------------------
(***************************************************************************)
(* OrderBook implements PriceTimePriority, step by step, and AtomicBook,   *)
(* command by command.  For the second a history variable keeps the        *)
(* abstract book as it was when the command in progress was issued.        *)
(***************************************************************************)
EXTENDS OrderBookProperties

VARIABLES
    at_command, \* history: resting, older and seen_order_ids at the last command
    returned    \* history: the trades returned by the last command that matched

historyVars == <<vars, at_command, returned>>

View == [resting |-> RestingOrders(book), older |-> older,
         seen_order_ids |-> seen_order_ids]

HistoryInit == Init /\ at_command = View /\ returned = {}

\* `at_command` follows the book between commands and stands still during one.
HistoryNext ==
    /\ Next
    /\ at_command' = IF call' = None THEN View' ELSE at_command
    /\ returned' = IF call # None /\ call' = None
                     THEN {call.trades[i] : i \in DOMAIN call.trades}
                     ELSE returned

HistorySpec == HistoryInit /\ [][HistoryNext]_historyVars
Priority == INSTANCE PriceTimePriority WITH resting <- RestingOrders(book)

Atomic == INSTANCE AtomicBook WITH
    resting <- at_command.resting,
    older <- at_command.older,
    seen_order_ids <- at_command.seen_order_ids

\* Every step of the engine is a step of PriceTimePriority: the linked lists,
\* the arena and the level maps always pick the maker that has priority, and
\* nothing rests while it could still trade.
ImplementsPriceTimePriority == Priority!Spec

\* To its caller a whole command is one step with the declarative outcome of
\* AtomicBook: who trades, at what price, for how much, and what then rests.
ImplementsAtomicBook == Atomic!Spec
=============================================================================
