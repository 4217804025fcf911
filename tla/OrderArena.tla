----------------------------- MODULE OrderArena -----------------------------
(***************************************************************************)
(* src/engine/arena.rs: the slab that stores resting orders.  Freed slots  *)
(* form a LIFO free list threaded through the vacant entries.              *)
(*                                                                         *)
(* Slot s of the code is index s + 1 of the sequence `entries`.  An        *)
(* operator that would panic in the code (reading a vacant slot, a free    *)
(* list that points at an occupied one) is applied only where the book's   *)
(* invariants exclude it: IndexMatchesArena and FreeListWellFormed in      *)
(* OrderBookProperties.tla state that.                                     *)
(***************************************************************************)
EXTENDS OrderTypes

EmptyArena == [entries |-> <<>>, free_head |-> None, len |-> 0]

SlotsOf(arena) == 1 .. Len(arena.entries)
OptionalSlot(arena) == SlotsOf(arena) \cup {None}

OccupiedBy(order) ==
    [kind |-> "Occupied", order |-> order, prev |-> None, next |-> None]

\* A bug: a freed slot forgets the rest of the free list.
VacantBefore_Nothing(slot) == [kind |-> "Vacant", next_free |-> None]

VacantBefore(slot) == [kind |-> "Vacant", next_free |-> slot]

OccupiedSlots(arena) ==
    {s \in SlotsOf(arena) : arena.entries[s].kind = "Occupied"}
VacantSlots(arena) == SlotsOf(arena) \ OccupiedSlots(arena)

\* The slot `insert` returns; `entries.len() as Slot` keeps the low bits only.
InsertSlot(arena) ==
    IF arena.free_head = None
      THEN (Len(arena.entries) % SlotSpace) + 1
      ELSE arena.free_head

Insert(arena, order) ==
    IF arena.free_head = None
      THEN [arena EXCEPT !.entries = Append(@, OccupiedBy(order)), !.len = @ + 1]
      ELSE [entries |-> [arena.entries EXCEPT
                            ![arena.free_head] = OccupiedBy(order)],
            free_head |-> arena.entries[arena.free_head].next_free,
            len |-> arena.len + 1]

Remove(arena, slot) ==
    [entries |-> [arena.entries EXCEPT ![slot] = VacantBefore(arena.free_head)],
     free_head |-> slot,
     len |-> arena.len - 1]

\* Bugs: a neighbour is not told about its new neighbour.
SetNext_Forgotten(arena, slot, next) == arena
SetPrev_Forgotten(arena, slot, prev) == arena

\* arena.get_mut(slot).next = next, and likewise for prev.
SetNext(arena, slot, next) == [arena EXCEPT !.entries[slot].next = next]
SetPrev(arena, slot, prev) == [arena EXCEPT !.entries[slot].prev = prev]
=============================================================================
