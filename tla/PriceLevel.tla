----------------------------- MODULE PriceLevel -----------------------------
(***************************************************************************)
(* src/engine/level.rs: the FIFO queue at one price, a doubly linked list  *)
(* threaded through the arena.  A method that takes `&mut self` and        *)
(* `&mut arena` is an operator that returns both: [level, arena].          *)
(*                                                                         *)
(* `total_quantity` is a u64 updated with `+=` and `-=`; a release build   *)
(* wraps, so the arithmetic is modulo QtySpace.                            *)
(***************************************************************************)
EXTENDS OrderArena

EmptyLevel == [head |-> None, tail |-> None, total_quantity |-> 0]

\* A bug: a level that has become empty is kept.
IsEmptyLevel_Never(level) == FALSE

IsEmptyLevel(level) == level.head = None

\* A bug: a new order goes in front of the queue.
PushBack_InFront(level, arena, slot) ==
    LET linked == SetPrev(SetNext(arena, slot, level.head), slot, None)
    IN  [level |->
            [head |-> slot,
             tail |-> IF level.head = None THEN slot ELSE level.tail,
             total_quantity |-> (level.total_quantity
                    + arena.entries[slot].order.remaining_qty) % QtySpace],
         arena |-> IF level.head = None THEN linked
                   ELSE SetPrev(linked, level.head, slot)]

PushBack(level, arena, slot) ==
    LET linked == SetPrev(SetNext(arena, slot, None), slot, level.tail)
    IN  [level |->
            [head |-> IF level.tail = None THEN slot ELSE level.head,
             tail |-> slot,
             total_quantity |-> (level.total_quantity
                    + arena.entries[slot].order.remaining_qty) % QtySpace],
         arena |-> IF level.tail = None THEN linked
                   ELSE SetNext(linked, level.tail, slot)]

Unlink(level, arena, slot) ==
    LET node == arena.entries[slot]
        forward == IF node.prev = None THEN arena
                   ELSE SetNext(arena, node.prev, node.next)
    IN  [level |->
            [head |-> IF node.prev = None THEN node.next ELSE level.head,
             tail |-> IF node.next = None THEN node.prev ELSE level.tail,
             total_quantity |-> (level.total_quantity
                    - node.order.remaining_qty) % QtySpace],
         arena |-> IF node.next = None THEN forward
                   ELSE SetPrev(forward, node.next, node.prev)]
=============================================================================
