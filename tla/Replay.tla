------------------------------- MODULE Replay -------------------------------
(***************************************************************************)
(* src/replay/: save_events_to_file writes the event log of a live book,   *)
(* load_events_from_file reads it back, and replay_events applies it to a  *)
(* new book.  The live book is the engine of OrderBook.tla; the book being *)
(* rebuilt is a second instance of the same engine, driven by the log      *)
(* instead of by callers and always in Full mode (OrderBook::new).         *)
(***************************************************************************)
EXTENDS OrderBookProperties

VARIABLES
    log,     \* the file: None, or the events saved in it
    cursor,  \* the event replay_events looks at
    phase,   \* "live", "replaying", "rebuilt", or "failed"
    new_book, new_seen, new_events, new_call, new_result, new_older

liveVars == vars
newVars == <<new_book, new_seen, new_events, new_call, new_result, new_older>>
replayVars == <<liveVars, log, cursor, phase, newVars>>

New == INSTANCE OrderBook WITH
    EventMode <- "Full",
    book <- new_book,
    seen_order_ids <- new_seen,
    events <- new_events,
    call <- new_call,
    result <- new_result,
    older <- new_older

ReplayInit ==
    /\ Init
    /\ New!Init
    /\ log = None
    /\ cursor = 1
    /\ phase = "live"

Live ==
    /\ phase = "live"
    /\ Next
    /\ UNCHANGED <<log, cursor, phase, newVars>>

\* The log is saved between two commands; the file is read back unchanged.
SaveEvents ==
    /\ phase = "live"
    /\ call = None
    /\ log' = events
    /\ phase' = "replaying"
    /\ UNCHANGED <<liveVars, cursor, newVars>>

Replaying == phase = "replaying" /\ new_call = None /\ cursor <= Len(log)
Event == log[cursor]

\* A command of the log that the new book rejects ends the replay (`?`).
Apply(accepted, rejected) ==
    \/ /\ accepted
       /\ UNCHANGED phase
    \/ /\ rejected
       /\ phase' = "failed"

ReplayAccepted ==
    /\ Replaying
    /\ Event.kind = "OrderAccepted"
    /\ Apply(New!AddOrder(Event.order),
             New!AddZeroQuantity(Event.order) \/ New!AddDuplicate(Event.order))
    /\ cursor' = cursor + 1
    /\ UNCHANGED <<liveVars, log>>

ReplayCancelled ==
    /\ Replaying
    /\ Event.kind = "OrderCancelled"
    /\ Apply(New!CancelOrder(Event.order_id), New!CancelUnknown(Event.order_id))
    /\ cursor' = cursor + 1
    /\ UNCHANGED <<liveVars, log>>

ReplayModified ==
    /\ Replaying
    /\ Event.kind = "OrderModified"
    /\ Apply(New!ModifyOrder(Event.order_id, Event.new_price, Event.new_quantity),
             \/ New!ModifyZeroQuantity(Event.order_id, Event.new_quantity)
             \/ New!ModifyUnknown(Event.order_id, Event.new_quantity))
    /\ cursor' = cursor + 1
    /\ UNCHANGED <<liveVars, log>>

\* Trades are produced again by the matching of the other events.
SkipTrade ==
    /\ Replaying
    /\ Event.kind = "TradeExecuted"
    /\ cursor' = cursor + 1
    /\ UNCHANGED <<liveVars, log, phase, newVars>>

\* The command replayed last matches to its end.
ReplayMatching ==
    /\ phase = "replaying"
    /\ New!FillStep \/ New!FinishCall
    /\ UNCHANGED <<liveVars, log, cursor, phase>>

Rebuilt ==
    /\ phase = "replaying"
    /\ new_call = None
    /\ cursor > Len(log)
    /\ phase' = "rebuilt"
    /\ UNCHANGED <<liveVars, log, cursor, newVars>>

ReplayNext ==
    \/ Live
    \/ SaveEvents
    \/ ReplayAccepted
    \/ ReplayCancelled
    \/ ReplayModified
    \/ SkipTrade
    \/ ReplayMatching
    \/ Rebuilt

ReplaySpec == ReplayInit /\ [][ReplayNext]_replayVars

-----------------------------------------------------------------------------
\* A log saved by a book in Full mode is always accepted, and replaying it
\* rebuilds the book exactly: the same levels, queues and even slots, the same
\* used identifiers, and the same log again.
ReplayRebuildsBook ==
    /\ phase # "failed"
    /\ phase = "rebuilt" =>
          /\ new_book = book
          /\ Snapshot(new_book) = Snapshot(book)
          /\ new_seen = seen_order_ids
          /\ new_events = log
=============================================================================
