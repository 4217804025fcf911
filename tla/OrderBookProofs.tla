-------------------------- MODULE OrderBookProofs --------------------------
(***************************************************************************)
(* The invariants of the matching engine hold in every reachable state,    *)
(* and no step does what the action properties of OrderBookProperties.tla  *)
(* exclude, for every set of identifiers and prices, every width of a      *)
(* quantity and any number of commands.                                    *)
(*                                                                         *)
(* The first part is about the operations on a book, with the conjuncts of *)
(* BookInv stated of any book b: an order leaves (DetachPreserves), an     *)
(* order comes to rest at the back of the queue of its price               *)
(* (RestPreserves), and one iteration of the matching loop consumes from   *)
(* the head of the best level (PartialPreserves).  The second part is      *)
(* about the engine: Inductive is what the code maintains at each          *)
(* iteration of its loops, and its book part is BookInv.                   *)
(***************************************************************************)
EXTENDS OrderBookRefinement, Replay, FiniteSetTheorems, SequenceTheorems,
        WellFoundedInduction, TLAPS

-----------------------------------------------------------------------------
(* The operations on a book.                                               *)

BookInv(b, before) ==
    /\ IsBook(b)
    /\ IndexOK(b)
    /\ FreeListOK(b)
    /\ b.arena.len = Cardinality(RestingIds(b))
    /\ Len(b.arena.entries) <= SlotSpace
    /\ ArrivalOrder(b, before)
    /\ LevelsOK(b)
    /\ LinksOK(b, before)

LeftBehind(before, id) == {pair \in before : pair[1] # id /\ pair[2] # id}

\* Induction over the naturals, for a set.
LEMMA SetInduction ==
    ASSUME NEW S, 0 \in S, \A n \in Nat : n \in S => n + 1 \in S
    PROVE  \A n \in Nat : n \in S
<1> DEFINE T == Nat \ S
<1> SUFFICES ASSUME T # {} PROVE FALSE
  OBVIOUS
<1>1. IsWellFoundedOn(OpToRel(<, Nat), Nat)
  BY NatLessThanWellFounded
<1>2. PICK m \in T : \A k \in T : <<k, m>> \notin OpToRel(<, Nat)
  <2> HIDE DEF T
  <2>1. T \subseteq Nat
    BY DEF T
  <2> QED
    BY <1>1, <2>1, WFMin
<1>3. m # 0 /\ m - 1 \in Nat /\ m - 1 < m /\ (m - 1) + 1 = m
  OBVIOUS
<1>4. m - 1 \notin T
  BY <1>2, <1>3 DEF OpToRel
<1> QED
  BY <1>3, <1>4

-----------------------------------------------------------------------------
(* The arena.                                                              *)

\* What an entry of an arena can be.
LEMMA EntryKinds ==
    ASSUME NEW a \in Arena, NEW s \in SlotsOf(a)
    PROVE  /\ s \in Slot
           /\ s \in OccupiedSlots(a) => a.entries[s] \in OccupiedEntry
           /\ s \notin OccupiedSlots(a) => a.entries[s] \in VacantEntry
<1>1. a.entries[s] \in Entry /\ s \in Slot
  BY DEF Arena, SlotsOf, Slot
<1> QED
  BY <1>1 DEF Entry, OccupiedEntry, VacantEntry, OccupiedSlots

\* The set of slots of an arena does not hold None.
LEMMA NoneIsNoSlot == ASSUME NEW a \in Arena PROVE None \notin SlotsOf(a)
BY NoneAssumption DEF SlotsOf, Arena

\* SetNext and SetPrev change one link and nothing else.
LEMMA SetNextFacts ==
    ASSUME NEW a \in Arena, NEW s \in OccupiedSlots(a), NEW n \in Option(Slot)
    PROVE  LET c == SetNext(a, s, n)
           IN  /\ c \in Arena
               /\ Len(c.entries) = Len(a.entries)
               /\ c.free_head = a.free_head /\ c.len = a.len
               /\ \A t \in SlotsOf(a) :
                     c.entries[t] = IF t = s
                        THEN [kind |-> "Occupied", order |-> a.entries[s].order,
                              prev |-> a.entries[s].prev, next |-> n]
                        ELSE a.entries[t]
               /\ OccupiedSlots(c) = OccupiedSlots(a)
<1> DEFINE c == SetNext(a, s, n)
           node == [kind |-> "Occupied", order |-> a.entries[s].order,
                    prev |-> a.entries[s].prev, next |-> n]
<1>1. s \in SlotsOf(a)
  BY DEF OccupiedSlots
<1>0. a.entries[s] \in OccupiedEntry
  BY <1>1, EntryKinds
<1>2. [a.entries[s] EXCEPT !.next = n] = node
  BY <1>0 DEF OccupiedEntry
<1>3. node \in Entry
  BY <1>0 DEF Entry, OccupiedEntry
<1>4. c = [a EXCEPT !.entries = [a.entries EXCEPT ![s] = node]]
  BY <1>2 DEF SetNext
<1>5. [a.entries EXCEPT ![s] = node] \in Seq(Entry)
      /\ Len([a.entries EXCEPT ![s] = node]) = Len(a.entries)
  BY <1>1, <1>3 DEF Arena, SlotsOf
<1>6. c \in Arena /\ c.entries = [a.entries EXCEPT ![s] = node]
      /\ c.free_head = a.free_head /\ c.len = a.len
  BY <1>4, <1>5 DEF Arena
<1>7. \A t \in SlotsOf(a) : c.entries[t] = IF t = s THEN node ELSE a.entries[t]
  BY <1>6 DEF Arena, SlotsOf
<1>8. OccupiedSlots(c) = OccupiedSlots(a)
  BY <1>5, <1>6, <1>7 DEF OccupiedSlots, SlotsOf
<1> QED
  BY <1>5, <1>6, <1>7, <1>8

LEMMA SetPrevFacts ==
    ASSUME NEW a \in Arena, NEW s \in OccupiedSlots(a), NEW n \in Option(Slot)
    PROVE  LET c == SetPrev(a, s, n)
           IN  /\ c \in Arena
               /\ Len(c.entries) = Len(a.entries)
               /\ c.free_head = a.free_head /\ c.len = a.len
               /\ \A t \in SlotsOf(a) :
                     c.entries[t] = IF t = s
                        THEN [kind |-> "Occupied", order |-> a.entries[s].order,
                              prev |-> n, next |-> a.entries[s].next]
                        ELSE a.entries[t]
               /\ OccupiedSlots(c) = OccupiedSlots(a)
<1> DEFINE c == SetPrev(a, s, n)
           node == [kind |-> "Occupied", order |-> a.entries[s].order,
                    prev |-> n, next |-> a.entries[s].next]
<1>1. s \in SlotsOf(a)
  BY DEF OccupiedSlots
<1>0. a.entries[s] \in OccupiedEntry
  BY <1>1, EntryKinds
<1>2. [a.entries[s] EXCEPT !.prev = n] = node
  BY <1>0 DEF OccupiedEntry
<1>3. node \in Entry
  BY <1>0 DEF Entry, OccupiedEntry
<1>4. c = [a EXCEPT !.entries = [a.entries EXCEPT ![s] = node]]
  BY <1>2 DEF SetPrev
<1>5. [a.entries EXCEPT ![s] = node] \in Seq(Entry)
      /\ Len([a.entries EXCEPT ![s] = node]) = Len(a.entries)
  BY <1>1, <1>3 DEF Arena, SlotsOf
<1>6. c \in Arena /\ c.entries = [a.entries EXCEPT ![s] = node]
      /\ c.free_head = a.free_head /\ c.len = a.len
  BY <1>4, <1>5 DEF Arena
<1>7. \A t \in SlotsOf(a) : c.entries[t] = IF t = s THEN node ELSE a.entries[t]
  BY <1>6 DEF Arena, SlotsOf
<1>8. OccupiedSlots(c) = OccupiedSlots(a)
  BY <1>5, <1>6, <1>7 DEF OccupiedSlots, SlotsOf
<1> QED
  BY <1>5, <1>6, <1>7, <1>8

-----------------------------------------------------------------------------
(* Taking an order out.                                                    *)

\* The node t of arena a after the node s has been taken out of its list.
NodeWithout(a, s, t) ==
    [kind |-> "Occupied",
     order |-> a.entries[t].order,
     prev |-> IF t = a.entries[s].next THEN a.entries[s].prev ELSE a.entries[t].prev,
     next |-> IF t = a.entries[s].prev THEN a.entries[s].next ELSE a.entries[t].next]

\* unlink joins the neighbours of s and leaves every other entry alone.
LEMMA UnlinkFacts ==
    ASSUME NEW level, NEW a \in Arena, NEW s \in OccupiedSlots(a),
           a.entries[s].prev \in Option(OccupiedSlots(a) \ {s}),
           a.entries[s].next \in Option(OccupiedSlots(a) \ {s})
    PROVE  LET c == Unlink(level, a, s).arena
           IN  /\ c \in Arena
               /\ Len(c.entries) = Len(a.entries)
               /\ c.free_head = a.free_head /\ c.len = a.len
               /\ OccupiedSlots(c) = OccupiedSlots(a)
               /\ \A t \in OccupiedSlots(a) \ {s} : c.entries[t] = NodeWithout(a, s, t)
               /\ \A t \in VacantSlots(a) : c.entries[t] = a.entries[t]
<1> DEFINE prev == a.entries[s].prev
           next == a.entries[s].next
           f == IF prev = None THEN a ELSE SetNext(a, prev, next)
           c == IF next = None THEN f ELSE SetPrev(f, next, prev)
<1>0. s \in SlotsOf(a) /\ OccupiedSlots(a) \subseteq SlotsOf(a)
      /\ VacantSlots(a) = SlotsOf(a) \ OccupiedSlots(a)
      /\ OccupiedSlots(a) \subseteq Slot /\ None \notin OccupiedSlots(a)
  BY NoneIsNoSlot, EntryKinds DEF OccupiedSlots, VacantSlots
<1>1. prev \in Option(Slot) /\ next \in Option(Slot)
  BY <1>0 DEF Option
<1>2. /\ f \in Arena /\ Len(f.entries) = Len(a.entries)
      /\ f.free_head = a.free_head /\ f.len = a.len
      /\ OccupiedSlots(f) = OccupiedSlots(a) /\ SlotsOf(f) = SlotsOf(a)
      /\ \A t \in SlotsOf(a) :
            f.entries[t] = IF t = prev
               THEN [kind |-> "Occupied", order |-> a.entries[t].order,
                     prev |-> a.entries[t].prev, next |-> next]
               ELSE a.entries[t]
  <2>1. CASE prev = None
    BY <2>1, <1>0, NoneIsNoSlot
  <2>2. CASE prev # None
    <3> DEFINE g == SetNext(a, prev, next)
    <3>1. prev \in OccupiedSlots(a)
      BY <2>2 DEF Option
    <3>2. /\ g \in Arena /\ Len(g.entries) = Len(a.entries)
          /\ g.free_head = a.free_head /\ g.len = a.len
          /\ \A t \in SlotsOf(a) :
                g.entries[t] = IF t = prev
                   THEN [kind |-> "Occupied", order |-> a.entries[prev].order,
                         prev |-> a.entries[prev].prev, next |-> next]
                   ELSE a.entries[t]
          /\ OccupiedSlots(g) = OccupiedSlots(a)
      <4> HIDE DEF prev, next
      <4> QED
        BY <3>1, <1>1, SetNextFacts
    <3>3. f = g
      BY <2>2
    <3>4. SlotsOf(g) = SlotsOf(a)
      BY <3>2 DEF SlotsOf
    <3> HIDE DEF f, g, prev, next
    <3> QED
      BY <3>2, <3>3, <3>4
  <2> QED
    BY <2>1, <2>2
<1>3. /\ c \in Arena /\ Len(c.entries) = Len(a.entries)
      /\ c.free_head = a.free_head /\ c.len = a.len
      /\ OccupiedSlots(c) = OccupiedSlots(a)
      /\ \A t \in SlotsOf(a) :
            c.entries[t] = IF t = next
               THEN [kind |-> "Occupied", order |-> f.entries[t].order,
                     prev |-> prev, next |-> f.entries[t].next]
               ELSE f.entries[t]
  <2>1. CASE next = None
    BY <2>1, <1>0, <1>2, NoneIsNoSlot
  <2>2. CASE next # None
    <3> DEFINE g == SetPrev(f, next, prev)
    <3>1. next \in OccupiedSlots(f)
      BY <2>2, <1>2 DEF Option
    <3>2. /\ g \in Arena /\ Len(g.entries) = Len(f.entries)
          /\ g.free_head = f.free_head /\ g.len = f.len
          /\ \A t \in SlotsOf(f) :
                g.entries[t] = IF t = next
                   THEN [kind |-> "Occupied", order |-> f.entries[next].order,
                         prev |-> prev, next |-> f.entries[next].next]
                   ELSE f.entries[t]
          /\ OccupiedSlots(g) = OccupiedSlots(f)
      <4> HIDE DEF prev, next, f
      <4> QED
        BY <3>1, <1>1, <1>2, SetPrevFacts
    <3>3. c = g
      BY <2>2
    <3> HIDE DEF f, g, c, prev, next
    <3> QED
      BY <1>2, <3>2, <3>3
  <2> QED
    BY <2>1, <2>2
<1>4. ASSUME NEW t \in OccupiedSlots(a) \ {s}
      PROVE  c.entries[t] = NodeWithout(a, s, t)
  <2>1. t \in SlotsOf(a) /\ a.entries[t] \in OccupiedEntry
    BY <1>0, EntryKinds
  <2>2. a.entries[t] = [kind |-> "Occupied", order |-> a.entries[t].order,
                        prev |-> a.entries[t].prev, next |-> a.entries[t].next]
    BY <2>1 DEF OccupiedEntry
  <2>3. f.entries[t] = [kind |-> "Occupied", order |-> a.entries[t].order,
                        prev |-> a.entries[t].prev,
                        next |-> IF t = prev THEN next ELSE a.entries[t].next]
    BY <1>2, <2>1, <2>2
  <2>4. NodeWithout(a, s, t) =
          [kind |-> "Occupied", order |-> a.entries[t].order,
           prev |-> IF t = next THEN prev ELSE a.entries[t].prev,
           next |-> IF t = prev THEN next ELSE a.entries[t].next]
    BY DEF NodeWithout
  <2> HIDE DEF f, c, prev, next
  <2>5. CASE t = next
    BY <1>3, <2>1, <2>3, <2>4, <2>5
  <2>6. CASE t # next
    BY <1>3, <2>1, <2>3, <2>4, <2>6
  <2> QED
    BY <2>5, <2>6
<1>5. ASSUME NEW t \in VacantSlots(a)
      PROVE  c.entries[t] = a.entries[t]
  <2>1. t \in SlotsOf(a) /\ t # prev /\ t # next
    BY <1>0, NoneIsNoSlot DEF Option
  <2> HIDE DEF f, c
  <2> QED
    BY <1>2, <1>3, <2>1
<1>6. Unlink(level, a, s).arena = c
  BY DEF Unlink
<1> HIDE DEF f, c
<1> QED
  BY <1>3, <1>4, <1>5, <1>6

\* Simple consequences of the invariant, for a resting order.
LEMMA RestingFacts ==
    ASSUME NEW b, NEW before, BookInv(b, before), NEW s \in Occupied(b)
    PROVE  /\ b.arena \in Arena
           /\ s \in SlotsOf(b.arena) /\ s \in Slot /\ s # None
           /\ b.arena.entries[s] \in OccupiedEntry
           /\ OrderAt(b, s) \in Order
           /\ IdAt(b, s) \in RestingIds(b)
           /\ IdAt(b, s) \in OrderIds
           /\ OrderAt(b, s).side \in Sides
           /\ OrderAt(b, s).price \in PricesOf(b, OrderAt(b, s).side)
           /\ b.arena.entries[s].prev \in Option(Occupied(b) \ {s})
           /\ b.arena.entries[s].next \in Option(Occupied(b) \ {s})
<1>1. b.arena \in Arena
  BY DEF BookInv, IsBook
<1>2. s \in SlotsOf(b.arena) /\ s \in Slot /\ s # None
  BY <1>1, EntryKinds, NoneIsNoSlot DEF Occupied, OccupiedSlots
<1>3. b.arena.entries[s] \in OccupiedEntry
  BY <1>1, <1>2, EntryKinds DEF Occupied
<1>4. OrderAt(b, s) \in Order /\ IdAt(b, s) \in OrderIds /\ OrderAt(b, s).side \in Sides
  BY <1>3 DEF OccupiedEntry, OrderAt, IdAt, Order
<1>5. IdAt(b, s) \in RestingIds(b)
  BY DEF BookInv, IndexOK
<1>6. OrderAt(b, s).price \in PricesOf(b, OrderAt(b, s).side)
  BY DEF BookInv, LevelsOK
<1>7. <<IdAt(b, s), IdAt(b, s)>> \notin before
  BY <1>5 DEF BookInv, ArrivalOrder
<1>8. b.arena.entries[s].next # s
  BY <1>2, <1>7 DEF BookInv, LinksOK
<1>9. b.arena.entries[s].prev # s
  BY <1>2, <1>8 DEF BookInv, LinksOK
<1>10. b.arena.entries[s].next \in Option(Occupied(b))
  BY DEF BookInv, LinksOK, SameLevel, Stands, Option
<1>11. b.arena.entries[s].prev \in Option(Occupied(b))
  BY DEF BookInv, LinksOK, SameLevel, Stands, Option
<1> QED
  BY <1>1, <1>2, <1>3, <1>4, <1>5, <1>6, <1>8, <1>9, <1>10, <1>11 DEF Option

\* What Detach does to the arena, the index and the levels.
LEMMA DetachArena ==
    ASSUME NEW b, NEW before, BookInv(b, before), NEW s \in Occupied(b)
    PROVE  LET c == Detach(b, s)
           IN  /\ c.arena \in Arena
               /\ Len(c.arena.entries) = Len(b.arena.entries)
               /\ c.arena.free_head = s
               /\ c.arena.len = b.arena.len - 1
               /\ Occupied(c) = Occupied(b) \ {s}
               /\ VacantSlots(c.arena) = VacantSlots(b.arena) \cup {s}
               /\ c.arena.entries[s].next_free = b.arena.free_head
               /\ \A t \in Occupied(c) :
                     c.arena.entries[t] = NodeWithout(b.arena, s, t)
               /\ \A t \in VacantSlots(b.arena) :
                     c.arena.entries[t] = b.arena.entries[t]
<1> DEFINE c == Detach(b, s)
           level == b.levels[OrderAt(b, s).side][OrderAt(b, s).price]
           a == b.arena
           u == Unlink(level, a, s).arena
           vacant == VacantBefore(u.free_head)
<1>1. /\ a \in Arena /\ s \in OccupiedSlots(a) /\ s \in SlotsOf(a) /\ s \in Slot
      /\ a.entries[s].prev \in Option(OccupiedSlots(a) \ {s})
      /\ a.entries[s].next \in Option(OccupiedSlots(a) \ {s})
  BY RestingFacts DEF Occupied
<1>2. /\ u \in Arena
      /\ Len(u.entries) = Len(a.entries)
      /\ u.free_head = a.free_head /\ u.len = a.len
      /\ OccupiedSlots(u) = OccupiedSlots(a)
      /\ \A t \in OccupiedSlots(a) \ {s} : u.entries[t] = NodeWithout(a, s, t)
      /\ \A t \in VacantSlots(a) : u.entries[t] = a.entries[t]
  <2> HIDE DEF level, a
  <2> QED
    BY <1>1, UnlinkFacts
<1>3. c.arena = [entries |-> [u.entries EXCEPT ![s] = vacant],
                 free_head |-> s, len |-> u.len - 1]
  BY DEF Detach, Remove
<1>4. vacant \in Entry /\ vacant.kind = "Vacant" /\ vacant.next_free = a.free_head
  BY <1>1, <1>2 DEF VacantBefore, Entry, VacantEntry, Arena
<1> HIDE DEF c, a, u, vacant, level
<1>5. /\ c.arena.entries \in Seq(Entry)
      /\ Len(c.arena.entries) = Len(a.entries)
      /\ c.arena.entries[s] = vacant
      /\ \A t \in SlotsOf(a) \ {s} : c.arena.entries[t] = u.entries[t]
  BY <1>1, <1>2, <1>3, <1>4 DEF Arena, SlotsOf
<1>6. c.arena \in Arena
  BY <1>1, <1>2, <1>3, <1>5 DEF Arena, Option
<1>7. OccupiedSlots(c.arena) = OccupiedSlots(a) \ {s}
  BY <1>2, <1>4, <1>5 DEF OccupiedSlots, SlotsOf
<1>8. VacantSlots(c.arena) = VacantSlots(a) \cup {s}
  BY <1>1, <1>5, <1>7 DEF VacantSlots, SlotsOf
<1>9. \A t \in OccupiedSlots(c.arena) : c.arena.entries[t] = NodeWithout(a, s, t)
  BY <1>2, <1>5, <1>7 DEF OccupiedSlots
<1>10. \A t \in VacantSlots(a) : c.arena.entries[t] = a.entries[t]
  BY <1>1, <1>2, <1>5 DEF VacantSlots
<1>11. c.arena.free_head = s /\ c.arena.len = a.len - 1
  BY <1>2, <1>3
<1> QED
  BY <1>4, <1>5, <1>6, <1>7, <1>8, <1>9, <1>10, <1>11 DEF c, a, Occupied

LevelMaps(levels) ==
    /\ levels = [side \in Sides |-> levels[side]]
    /\ \A side \in Sides : IsPartialMap(levels[side], Prices, Level)

\* PutLevel and DropLevel change one price of one side.
LEMMA PutLevelFacts ==
    ASSUME NEW levels, LevelMaps(levels), NEW side \in Sides,
           NEW price \in Prices, NEW level \in Level
    PROVE  LET c == PutLevel(levels, side, price, level)
           IN  /\ LevelMaps(c)
               /\ \A x \in Sides \ {side} : c[x] = levels[x]
               /\ DOMAIN c[side] = DOMAIN levels[side] \cup {price}
               /\ \A q \in DOMAIN c[side] :
                     c[side][q] = IF q = price THEN level ELSE levels[side][q]
<1> DEFINE new == [q \in DOMAIN levels[side] \cup {price} |->
                        IF q = price THEN level ELSE levels[side][q]]
           c == [x \in Sides |-> IF x = side THEN new ELSE levels[x]]
<1>1. PutLevel(levels, side, price, level) = c
  BY DEF PutLevel, LevelMaps
<1>2. IsPartialMap(new, Prices, Level)
  BY DEF LevelMaps, IsPartialMap
<1>3. LevelMaps(c)
  <2> HIDE DEF new
  <2> QED
    BY <1>2 DEF LevelMaps
<1> QED
  BY <1>1, <1>3

LEMMA DropLevelFacts ==
    ASSUME NEW levels, LevelMaps(levels), NEW side \in Sides, NEW price
    PROVE  LET c == DropLevel(levels, side, price)
           IN  /\ LevelMaps(c)
               /\ \A x \in Sides \ {side} : c[x] = levels[x]
               /\ DOMAIN c[side] = DOMAIN levels[side] \ {price}
               /\ \A q \in DOMAIN c[side] : c[side][q] = levels[side][q]
<1> DEFINE new == [q \in DOMAIN levels[side] \ {price} |-> levels[side][q]]
           c == [x \in Sides |-> IF x = side THEN new ELSE levels[x]]
<1>1. DropLevel(levels, side, price) = c
  BY DEF DropLevel, LevelMaps, Restrict
<1>2. IsPartialMap(new, Prices, Level)
  BY DEF LevelMaps, IsPartialMap
<1>3. LevelMaps(c)
  <2> HIDE DEF new
  <2> QED
    BY <1>2 DEF LevelMaps
<1> QED
  BY <1>1, <1>3

LEMMA WrapFacts == ASSUME NEW n \in Int PROVE n % QtySpace \in Quantities
BY QtyAssumption DEF Quantities

LEMMA DetachLevels ==
    ASSUME NEW b, NEW before, BookInv(b, before), NEW s \in Occupied(b)
    PROVE  LET c == Detach(b, s)
               side == OrderAt(b, s).side
               price == OrderAt(b, s).price
               old == b.levels[side][price]
               node == b.arena.entries[s]
           IN  /\ LevelMaps(c.levels)
               /\ \A x \in Sides \ {side} : c.levels[x] = b.levels[x]
               /\ PricesOf(c, side) =
                     IF node.prev = None /\ node.next = None
                       THEN PricesOf(b, side) \ {price} ELSE PricesOf(b, side)
               /\ \A q \in PricesOf(c, side) \ {price} :
                     c.levels[side][q] = b.levels[side][q]
               /\ price \in PricesOf(c, side) =>
                     /\ c.levels[side][price].head =
                           IF node.prev = None THEN node.next ELSE old.head
                     /\ c.levels[side][price].tail =
                           IF node.next = None THEN node.prev ELSE old.tail
                     /\ c.levels[side][price].total_quantity =
                           (old.total_quantity - OrderAt(b, s).remaining_qty) % QtySpace
<1> DEFINE c == Detach(b, s)
           side == OrderAt(b, s).side
           price == OrderAt(b, s).price
           old == b.levels[side][price]
           node == b.arena.entries[s]
           new == Unlink(old, b.arena, s).level
<1>1. /\ LevelMaps(b.levels) /\ side \in Sides /\ price \in PricesOf(b, side)
      /\ price \in Prices /\ old \in Level
      /\ b.arena \in Arena /\ node \in OccupiedEntry
  BY RestingFacts DEF BookInv, IsBook, LevelMaps, IsPartialMap, PricesOf
<1>2. old.head \in Slot /\ old.head # None
  <2>1. old.head \in Occupied(b)
    BY <1>1 DEF BookInv, LevelsOK, Stands
  <2> HIDE DEF old
  <2> QED
    BY <2>1, RestingFacts
<1>3. /\ new.head = IF node.prev = None THEN node.next ELSE old.head
      /\ new.tail = IF node.next = None THEN node.prev ELSE old.tail
      /\ new.total_quantity =
            (old.total_quantity - OrderAt(b, s).remaining_qty) % QtySpace
      /\ new \in Level
  <2>1. (old.total_quantity - node.order.remaining_qty) % QtySpace \in Quantities
    <3>1. old.total_quantity \in Int /\ node.order.remaining_qty \in Int
      BY <1>1 DEF Level, OccupiedEntry, Order, Quantities
    <3> HIDE DEF old, node
    <3> QED
      BY <3>1, WrapFacts
  <2> HIDE DEF old
  <2> QED
    BY <1>1, <2>1 DEF Unlink, Level, OccupiedEntry, Option, OrderAt
<1>4. new.head = None <=> node.prev = None /\ node.next = None
  BY <1>2, <1>3
<1>5. c.levels = IF new.head = None THEN DropLevel(b.levels, side, price)
                 ELSE PutLevel(b.levels, side, price, new)
  BY DEF Detach, IsEmptyLevel
<1> HIDE DEF c, side, price, old, node, new
<1> DEFINE Goal ==
      /\ LevelMaps(c.levels)
      /\ \A x \in Sides \ {side} : c.levels[x] = b.levels[x]
      /\ DOMAIN c.levels[side] =
            IF node.prev = None /\ node.next = None
              THEN DOMAIN b.levels[side] \ {price} ELSE DOMAIN b.levels[side]
      /\ \A q \in DOMAIN c.levels[side] \ {price} :
            c.levels[side][q] = b.levels[side][q]
      /\ price \in DOMAIN c.levels[side] => c.levels[side][price] = new
<1>8. Goal
  <2>1. CASE new.head = None
    <3>1. c.levels = DropLevel(b.levels, side, price)
      BY <1>5, <2>1
    <3>2. /\ LevelMaps(c.levels)
          /\ \A x \in Sides \ {side} : c.levels[x] = b.levels[x]
          /\ DOMAIN c.levels[side] = DOMAIN b.levels[side] \ {price}
          /\ \A q \in DOMAIN c.levels[side] :
                c.levels[side][q] = b.levels[side][q]
      BY <1>1, <3>1, DropLevelFacts
    <3> QED
      BY <1>4, <2>1, <3>2
  <2>2. CASE new.head # None
    <3>1. c.levels = PutLevel(b.levels, side, price, new)
      BY <1>5, <2>2
    <3>2. price \in DOMAIN b.levels[side]
      BY <1>1 DEF PricesOf
    <3>3. DOMAIN b.levels[side] \cup {price} = DOMAIN b.levels[side]
      BY <3>2
    <3>4. /\ LevelMaps(c.levels)
          /\ \A x \in Sides \ {side} : c.levels[x] = b.levels[x]
          /\ DOMAIN c.levels[side] = DOMAIN b.levels[side] \cup {price}
          /\ \A q \in DOMAIN c.levels[side] :
                c.levels[side][q] = IF q = price THEN new ELSE b.levels[side][q]
      BY <1>1, <1>3, <3>1, PutLevelFacts
    <3> QED
      BY <1>4, <2>2, <3>3, <3>4
  <2> QED
    BY <2>1, <2>2
<1> HIDE DEF Goal
<1>9. Goal => /\ LevelMaps(c.levels)
              /\ \A x \in Sides \ {side} : c.levels[x] = b.levels[x]
              /\ PricesOf(c, side) =
                   IF node.prev = None /\ node.next = None
                     THEN PricesOf(b, side) \ {price} ELSE PricesOf(b, side)
              /\ \A q \in PricesOf(c, side) \ {price} :
                   c.levels[side][q] = b.levels[side][q]
              /\ price \in PricesOf(c, side) => c.levels[side][price] = new
  BY DEF Goal, PricesOf
<1> QED
  BY <1>3, <1>8, <1>9 DEF c, side, price, old, node

LEMMA DetachIndex ==
    ASSUME NEW b, NEW before, BookInv(b, before), NEW s \in Occupied(b)
    PROVE  LET c == Detach(b, s)
           IN  /\ RestingIds(c) = RestingIds(b) \ {IdAt(b, s)}
               /\ \A id \in RestingIds(c) : c.order_slots[id] = b.order_slots[id]
               /\ IsPartialMap(c.order_slots, OrderIds, Slot)
               /\ c = [levels |-> c.levels, arena |-> c.arena,
                       order_slots |-> c.order_slots]
BY DEF Detach, Unindexed, Restrict, RestingIds, IdAt, BookInv, IsBook, IsPartialMap

\* The facts about c == Detach(b, s) that the invariants of c follow from.
LEMMA DetachOrders ==
    ASSUME NEW b, NEW before, BookInv(b, before), NEW s \in Occupied(b)
    PROVE  LET c == Detach(b, s)
           IN  \A t \in Occupied(c) :
                  /\ t \in Occupied(b) /\ t # s
                  /\ OrderAt(c, t) = OrderAt(b, t)
                  /\ IdAt(c, t) = IdAt(b, t)
                  /\ IdAt(b, t) # IdAt(b, s)
                  /\ c.arena.entries[t].prev =
                        (IF t = b.arena.entries[s].next
                           THEN b.arena.entries[s].prev ELSE b.arena.entries[t].prev)
                  /\ c.arena.entries[t].next =
                        (IF t = b.arena.entries[s].prev
                           THEN b.arena.entries[s].next ELSE b.arena.entries[t].next)
<1> DEFINE c == Detach(b, s)
<1> SUFFICES ASSUME NEW t \in Occupied(c)
             PROVE  /\ t \in Occupied(b) /\ t # s
                    /\ OrderAt(c, t) = OrderAt(b, t)
                    /\ IdAt(c, t) = IdAt(b, t)
                    /\ IdAt(b, t) # IdAt(b, s)
                    /\ c.arena.entries[t].prev =
                          (IF t = b.arena.entries[s].next
                             THEN b.arena.entries[s].prev ELSE b.arena.entries[t].prev)
                    /\ c.arena.entries[t].next =
                          (IF t = b.arena.entries[s].prev
                             THEN b.arena.entries[s].next ELSE b.arena.entries[t].next)
  OBVIOUS
<1>1. t \in Occupied(b) /\ t # s /\ c.arena.entries[t] = NodeWithout(b.arena, s, t)
  BY DetachArena
<1>2. IdAt(b, t) # IdAt(b, s)
  BY <1>1 DEF BookInv, IndexOK
<1> HIDE DEF c
<1> QED
  BY <1>1, <1>2 DEF NodeWithout, OrderAt, IdAt

LEMMA DetachFreeList ==
    ASSUME NEW b, NEW before, BookInv(b, before), NEW s \in Occupied(b)
    PROVE  FreeListOK(Detach(b, s))
<1> DEFINE c == Detach(b, s)
           a == b.arena
           free == Len(a.entries) - a.len
<1>1. PICK chain \in [1 .. free -> VacantSlots(a)] :
          /\ IsFreeChain(a, free, chain)
          /\ \A i, j \in 1 .. free : chain[i] = chain[j] => i = j
          /\ \A v \in VacantSlots(a) : \E i \in 1 .. free : chain[i] = v
  BY DEF BookInv, FreeListOK, IsFreeList
<1>2. free \in Nat
  BY DEF BookInv, FreeListOK, IsFreeList, IsBook, Arena
<1>3. /\ Len(c.arena.entries) - c.arena.len = free + 1
      /\ c.arena.free_head = s
      /\ VacantSlots(c.arena) = VacantSlots(a) \cup {s}
      /\ s \notin VacantSlots(a)
      /\ c.arena.entries[s].next_free = a.free_head
      /\ \A t \in VacantSlots(a) : c.arena.entries[t] = a.entries[t]
  <2>1. Len(c.arena.entries) - c.arena.len = free + 1
    <3>1. Len(c.arena.entries) = Len(a.entries) /\ c.arena.len = a.len - 1
      BY DetachArena
    <3>2. Len(a.entries) \in Int /\ a.len \in Int
      BY DEF BookInv, IsBook, Arena
    <3>3. \A x, y \in Int : x - (y - 1) = (x - y) + 1
      OBVIOUS
    <3> QED
      BY <3>1, <3>2, <3>3
  <2>2. s \notin VacantSlots(a)
    BY DEF VacantSlots, Occupied
  <2> QED
    BY <2>1, <2>2, DetachArena
<1> DEFINE longer == [i \in 1 .. free + 1 |-> IF i = 1 THEN s ELSE chain[i - 1]]
<1> HIDE DEF c, a, free
<1>4. longer \in [1 .. free + 1 -> VacantSlots(c.arena)]
  BY <1>2, <1>3
<1>5. IsFreeChain(c.arena, free + 1, longer)
  <2>1. c.arena.free_head = longer[1]
    BY <1>2, <1>3
  <2>2. ASSUME NEW i \in 1 .. free + 1
        PROVE  c.arena.entries[longer[i]].next_free =
                    IF i = free + 1 THEN None ELSE longer[i + 1]
    <3>1. CASE i = 1
      BY <1>1, <1>2, <1>3, <3>1 DEF IsFreeChain
    <3>2. CASE i # 1
      <4>1. i - 1 \in 1 .. free /\ longer[i] = chain[i - 1]
        BY <1>2, <3>2
      <4>2. /\ c.arena.entries[chain[i - 1]] = a.entries[chain[i - 1]]
            /\ a.entries[chain[i - 1]].next_free
                  = IF i - 1 = free THEN None ELSE chain[(i - 1) + 1]
        BY <1>1, <1>3, <4>1 DEF IsFreeChain
      <4>3. (i - 1) + 1 = i /\ (i - 1 = free <=> i = free + 1)
            /\ (i # free + 1 => i + 1 \in 1 .. free + 1 /\ longer[i + 1] = chain[i])
        BY <1>2, <3>2
      <4> HIDE DEF longer
      <4> QED
        BY <4>1, <4>2, <4>3
    <3> QED
      BY <3>1, <3>2
  <2> QED
    BY <1>2, <2>1, <2>2 DEF IsFreeChain
<1>6. ASSUME NEW i \in 1 .. free + 1, NEW j \in 1 .. free + 1, longer[i] = longer[j]
      PROVE  i = j
  <2>1. \A k \in 1 .. free + 1 : k # 1 => /\ k - 1 \in 1 .. free
                                         /\ longer[k] = chain[k - 1]
                                         /\ longer[k] # s
    BY <1>2, <1>3
  <2>2. longer[1] = s
    BY <1>2
  <2> QED
    BY <1>1, <1>2, <1>6, <2>1, <2>2
<1>7. ASSUME NEW v \in VacantSlots(c.arena)
      PROVE  \E i \in 1 .. free + 1 : longer[i] = v
  <2>1. CASE v = s
    BY <1>2, <2>1
  <2>2. CASE v # s
    <3>1. PICK i \in 1 .. free : chain[i] = v
      BY <1>1, <1>3, <2>2
    <3>2. i + 1 \in 1 .. free + 1 /\ longer[i + 1] = v
      BY <1>2, <3>1
    <3> QED
      BY <3>2
  <2> QED
    BY <2>1, <2>2
<1> HIDE DEF longer
<1>8. \E new \in [1 .. free + 1 -> VacantSlots(c.arena)] :
        /\ IsFreeChain(c.arena, free + 1, new)
        /\ \A i, j \in 1 .. free + 1 : new[i] = new[j] => i = j
        /\ \A v \in VacantSlots(c.arena) : \E i \in 1 .. free + 1 : new[i] = v
  BY <1>4, <1>5, <1>6, <1>7
<1>9. IsFreeList(c.arena, free + 1)
  BY <1>2, <1>8 DEF IsFreeList
<1> QED
  BY <1>3, <1>9 DEF FreeListOK, c

LEMMA ArrivalOrderWithout ==
    ASSUME NEW b, NEW c, NEW before, NEW id, ArrivalOrder(b, before),
           RestingIds(c) = RestingIds(b) \ {id}
    PROVE  ArrivalOrder(c, LeftBehind(before, id))
BY DEF ArrivalOrder, LeftBehind

LEMMA DetachLinks ==
    ASSUME NEW b, NEW before, BookInv(b, before), NEW s \in Occupied(b)
    PROVE  LinksOK(Detach(b, s), LeftBehind(before, IdAt(b, s)))
<1> DEFINE c == Detach(b, s)
           after == LeftBehind(before, IdAt(b, s))
           E == b.arena.entries
           F == c.arena.entries
           Before(x, y) == <<IdAt(b, x), IdAt(b, y)>> \in before
           After(x, y) == <<IdAt(c, x), IdAt(c, y)>> \in after
<1>1. \A t \in Occupied(c) :
          /\ t \in Occupied(b) /\ t # s /\ t # None
          /\ OrderAt(c, t) = OrderAt(b, t)
          /\ F[t].prev = (IF t = E[s].next THEN E[s].prev ELSE E[t].prev)
          /\ F[t].next = (IF t = E[s].prev THEN E[s].next ELSE E[t].next)
  <2>1. \A t \in Occupied(b) : t # None
    BY RestingFacts
  <2> QED
    BY <2>1, DetachOrders
<1>2. Occupied(c) = Occupied(b) \ {s}
  BY DetachArena
<1>3. \A x, y \in Occupied(c) : After(x, y) <=> Before(x, y)
  BY DetachOrders DEF LeftBehind
<1>4. \A x, y \in Occupied(c) : SameLevel(c, x, y) <=> SameLevel(b, x, y)
  BY <1>1, <1>2 DEF SameLevel, Stands
<1>5. \A x, y, z \in Occupied(b) : Before(x, y) /\ Before(y, z) => Before(x, z)
  BY DEF BookInv, ArrivalOrder, IndexOK
<1>6. \A x \in Occupied(b) :
        /\ E[x].prev = None =>
              \A u \in Occupied(b) : SameLevel(b, x, u) => u = x \/ Before(x, u)
        /\ E[x].prev # None => SameLevel(b, x, E[x].prev) /\ E[E[x].prev].next = x
        /\ E[x].next = None =>
              \A u \in Occupied(b) : SameLevel(b, x, u) => u = x \/ Before(u, x)
        /\ E[x].next # None =>
              /\ SameLevel(b, x, E[x].next) /\ E[E[x].next].prev = x
              /\ Before(x, E[x].next)
              /\ \A u \in Occupied(b) :
                    SameLevel(b, x, u) => \/ u = x \/ u = E[x].next
                                          \/ Before(u, x) \/ Before(E[x].next, u)
  BY DEF BookInv, LinksOK
<1>7. \A x, y : SameLevel(b, x, y) => y \in Occupied(b)
  BY DEF SameLevel, Stands
<1>8. \A x, y, z : SameLevel(b, x, y) /\ SameLevel(b, x, z) => SameLevel(b, y, z)
  BY DEF SameLevel, Stands
<1>9. \A x \in Occupied(b) : \A y : SameLevel(b, x, y) => SameLevel(b, y, x)
  BY DEF SameLevel, Stands
<1> HIDE DEF c, after, E, F, Before, After
<1> SUFFICES ASSUME NEW t \in Occupied(c)
             PROVE  /\ F[t].prev = None =>
                         \A u \in Occupied(c) : SameLevel(c, t, u) => u = t \/ After(t, u)
                    /\ F[t].prev # None =>
                         SameLevel(c, t, F[t].prev) /\ F[F[t].prev].next = t
                    /\ F[t].next = None =>
                         \A u \in Occupied(c) : SameLevel(c, t, u) => u = t \/ After(u, t)
                    /\ F[t].next # None =>
                         /\ SameLevel(c, t, F[t].next) /\ F[F[t].next].prev = t
                         /\ After(t, F[t].next)
                         /\ \A u \in Occupied(c) :
                               SameLevel(c, t, u) => \/ u = t \/ u = F[t].next
                                                     \/ After(u, t) \/ After(F[t].next, u)
  BY DEF LinksOK, c, after, F, After
<1> DEFINE P == E[s].prev
           N == E[s].next
<1>10. t \in Occupied(b) /\ t # s /\ t # None /\ s # None /\ s \in Occupied(b)
  BY <1>1, RestingFacts
<1>11. \A x \in Occupied(b) : ~ Before(x, x)
  BY DEF BookInv, ArrivalOrder, IndexOK, Before
<1>12. E[t].prev = s <=> t = N
  BY <1>6, <1>10
<1>13. E[t].next = s <=> t = P
  BY <1>6, <1>10
<1>14. P # None => P \in Occupied(c) /\ SameLevel(b, s, P) /\ Before(P, s)
  <2> HAVE P # None
  <2>1. SameLevel(b, s, P) /\ P \in Occupied(b) /\ E[P].next = s
    BY <1>6, <1>7, <1>10
  <2>2. Before(P, s)
    BY <1>6, <1>10, <2>1
  <2>3. P # s
    BY <1>10, <1>11, <2>2
  <2> QED
    BY <1>2, <2>1, <2>2, <2>3
<1>15. N # None => N \in Occupied(c) /\ SameLevel(b, s, N) /\ Before(s, N)
  BY <1>2, <1>6, <1>7, <1>10, <1>11
<1>16. \A u \in Occupied(c) : u \in Occupied(b) /\ u # s
  BY <1>2
<1>17. F[t].prev = (IF t = N THEN P ELSE E[t].prev)
       /\ F[t].next = (IF t = P THEN N ELSE E[t].next)
  BY <1>1
<1>18. ASSUME F[t].prev = None, NEW u \in Occupied(c), SameLevel(c, t, u)
       PROVE  u = t \/ After(t, u)
  <2>1. SameLevel(b, t, u) /\ u \in Occupied(b) /\ u # s
    BY <1>4, <1>16, <1>18
  <2>2. CASE t = N
    <3>1. SameLevel(b, s, u) /\ P = None
      BY <1>8, <1>9, <1>10, <1>15, <1>17, <1>18, <2>1, <2>2
    <3>2. Before(s, u)
      BY <1>6, <1>10, <2>1, <3>1
    <3>3. ~ Before(u, s)
      BY <1>5, <1>10, <1>11, <2>1, <3>2
    <3>4. u = t \/ Before(t, u)
      BY <1>6, <1>10, <2>1, <2>2, <3>1, <3>3
    <3> QED
      BY <1>3, <3>4
  <2>3. CASE t # N
    <3>1. u = t \/ Before(t, u)
      BY <1>6, <1>10, <1>17, <1>18, <2>1, <2>3
    <3> QED
      BY <1>3, <3>1
  <2> QED
    BY <2>2, <2>3
<1>19. ASSUME F[t].prev # None
       PROVE  SameLevel(c, t, F[t].prev) /\ F[F[t].prev].next = t
  <2>1. CASE t = N
    <3>1. F[t].prev = P /\ P \in Occupied(c) /\ SameLevel(b, s, P) /\ SameLevel(b, s, t)
      BY <1>10, <1>14, <1>15, <1>17, <1>19, <2>1
    <3>2. SameLevel(b, t, P) /\ F[P].next = N
      BY <1>1, <1>8, <3>1
    <3> QED
      BY <1>4, <2>1, <3>1, <3>2
  <2>2. CASE t # N
    <3> DEFINE q == E[t].prev
    <3>1. F[t].prev = q /\ q # None /\ q # s
      BY <1>12, <1>17, <1>19, <2>2
    <3>2. SameLevel(b, t, q) /\ E[q].next = t /\ q \in Occupied(c)
      BY <1>2, <1>6, <1>7, <1>10, <3>1
    <3>3. q # P
      BY <1>6, <1>10, <1>14, <3>1, <3>2
    <3>4. F[q].next = t
      BY <1>1, <3>2, <3>3
    <3> HIDE DEF q
    <3> QED
      BY <1>4, <3>1, <3>2, <3>4
  <2> QED
    BY <2>1, <2>2
<1>20. ASSUME F[t].next = None, NEW u \in Occupied(c), SameLevel(c, t, u)
       PROVE  u = t \/ After(u, t)
  <2>1. SameLevel(b, t, u) /\ u \in Occupied(b) /\ u # s
    BY <1>4, <1>16, <1>20
  <2>2. CASE t = P
    <3>1. SameLevel(b, s, u) /\ N = None /\ E[t].next = s
      BY <1>8, <1>9, <1>10, <1>13, <1>14, <1>17, <1>20, <2>1, <2>2
    <3>2. Before(u, s)
      BY <1>6, <1>10, <2>1, <3>1
    <3>3. ~ Before(s, u)
      BY <1>5, <1>10, <1>11, <2>1, <3>2
    <3>4. u = t \/ Before(u, t)
      BY <1>6, <1>10, <2>1, <3>1, <3>3
    <3> QED
      BY <1>3, <3>4
  <2>3. CASE t # P
    <3>1. u = t \/ Before(u, t)
      BY <1>6, <1>10, <1>17, <1>20, <2>1, <2>3
    <3> QED
      BY <1>3, <3>1
  <2> QED
    BY <2>2, <2>3
<1>21. ASSUME F[t].next # None
       PROVE  /\ SameLevel(c, t, F[t].next) /\ F[F[t].next].prev = t
              /\ After(t, F[t].next)
              /\ \A u \in Occupied(c) :
                    SameLevel(c, t, u) => \/ u = t \/ u = F[t].next
                                          \/ After(u, t) \/ After(F[t].next, u)
  <2>1. CASE t = P
    <3>1. /\ F[t].next = N /\ N \in Occupied(c) /\ SameLevel(b, s, N)
          /\ SameLevel(b, s, t) /\ Before(t, s) /\ Before(s, N) /\ E[t].next = s
      BY <1>10, <1>13, <1>14, <1>15, <1>17, <1>21, <2>1
    <3>2. SameLevel(b, t, N) /\ F[N].prev = P /\ Before(t, N)
      BY <1>1, <1>5, <1>8, <1>10, <1>16, <3>1
    <3>3. ASSUME NEW u \in Occupied(c), SameLevel(c, t, u)
          PROVE  u = t \/ u = N \/ Before(u, t) \/ Before(N, u)
      <4>1. SameLevel(b, t, u) /\ u \in Occupied(b) /\ u # s
        BY <1>4, <1>16, <3>3
      <4>2. SameLevel(b, s, u)
        BY <1>8, <1>9, <1>10, <3>1, <4>1
      <4>3. u = t \/ Before(u, t) \/ Before(s, u)
        BY <1>6, <1>10, <3>1, <4>1
      <4>4. u = N \/ Before(u, s) \/ Before(N, u)
        BY <1>6, <1>10, <1>21, <3>1, <4>1, <4>2
      <4>5. ~ (Before(u, s) /\ Before(s, u))
        BY <1>5, <1>10, <1>11, <4>1
      <4> QED
        BY <4>3, <4>4, <4>5
    <3> QED
      BY <1>3, <1>4, <2>1, <3>1, <3>2, <3>3
  <2>2. CASE t # P
    <3> DEFINE q == E[t].next
    <3>1. F[t].next = q /\ q # None /\ q # s
      BY <1>13, <1>17, <1>21, <2>2
    <3>2. /\ SameLevel(b, t, q) /\ E[q].prev = t /\ q \in Occupied(c)
          /\ Before(t, q)
          /\ \A u \in Occupied(b) :
                SameLevel(b, t, u) => \/ u = t \/ u = q
                                      \/ Before(u, t) \/ Before(q, u)
      BY <1>2, <1>6, <1>7, <1>10, <3>1
    <3>3. q # N
      BY <1>6, <1>10, <3>1, <3>2
    <3>4. F[q].prev = t
      BY <1>1, <3>2, <3>3
    <3> HIDE DEF q
    <3> QED
      BY <1>3, <1>4, <1>16, <3>1, <3>2, <3>4
  <2> QED
    BY <2>1, <2>2
<1> QED
  BY <1>18, <1>19, <1>20, <1>21
LEMMA DetachLevelsOK ==
    ASSUME NEW b, NEW before, BookInv(b, before), NEW s \in Occupied(b)
    PROVE  LevelsOK(Detach(b, s))
<1> DEFINE c == Detach(b, s)
           side == OrderAt(b, s).side
           price == OrderAt(b, s).price
           E == b.arena.entries
           F == c.arena.entries
           P == E[s].prev
           N == E[s].next
           Before(x, y) == <<IdAt(b, x), IdAt(b, y)>> \in before
<1>1. \A t, x, p : Stands(c, t, x, p) <=> Stands(b, t, x, p) /\ t # s
  BY DetachArena, DetachOrders DEF Stands
<1>2. \A t \in Occupied(c) :
          /\ F[t].prev = (IF t = N THEN P ELSE E[t].prev)
          /\ F[t].next = (IF t = P THEN N ELSE E[t].next)
  BY DetachOrders
<1>3. /\ P # None => Stands(b, P, side, price) /\ E[P].next = s /\ P # s
      /\ N # None => Stands(b, N, side, price) /\ E[N].prev = s /\ N # s
  BY RestingFacts DEF BookInv, LinksOK, SameLevel, Option
<1>4. Stands(b, s, side, price) /\ s # None /\ side \in Sides
  BY RestingFacts DEF Stands
<1>5. \A x \in Sides : \A p \in PricesOf(b, x) :
          /\ Stands(b, b.levels[x][p].head, x, p) /\ E[b.levels[x][p].head].prev = None
          /\ Stands(b, b.levels[x][p].tail, x, p) /\ E[b.levels[x][p].tail].next = None
  BY DEF BookInv, LevelsOK
<1>6. \A t, x, p, y, q : Stands(b, t, x, p) /\ Stands(b, t, y, q) => x = y /\ p = q
  BY DEF Stands
<1>7. \A t, x, p : Stands(c, t, x, p) => t \in Occupied(c) /\ t # None
  BY <1>1, RestingFacts DEF Stands
<1>8. /\ \A x \in Sides \ {side} : c.levels[x] = b.levels[x]
      /\ PricesOf(c, side) = IF P = None /\ N = None
                               THEN PricesOf(b, side) \ {price} ELSE PricesOf(b, side)
      /\ \A q \in PricesOf(c, side) \ {price} : c.levels[side][q] = b.levels[side][q]
      /\ price \in PricesOf(c, side) =>
            /\ c.levels[side][price].head =
                  IF P = None THEN N ELSE b.levels[side][price].head
            /\ c.levels[side][price].tail =
                  IF N = None THEN P ELSE b.levels[side][price].tail
  BY DetachLevels
<1>9. \A x \in Sides \ {side} : PricesOf(c, x) = PricesOf(b, x)
  BY <1>8 DEF PricesOf
<1>10. P = None /\ N = None => \A u : Stands(b, u, side, price) => u = s
  <2>1. /\ P = None => \A u \in Occupied(b) : SameLevel(b, s, u) => u = s \/ Before(s, u)
        /\ N = None => \A u \in Occupied(b) : SameLevel(b, s, u) => u = s \/ Before(u, s)
    BY DEF BookInv, LinksOK
  <2>2. \A u \in Occupied(b) : ~ (Before(s, u) /\ Before(u, s))
    BY DEF BookInv, ArrivalOrder, IndexOK
  <2>3. \A u : Stands(b, u, side, price) => u \in Occupied(b) /\ SameLevel(b, s, u)
    BY DEF Stands, SameLevel
  <2> HIDE DEF Before
  <2> QED
    BY <2>1, <2>2, <2>3
<1> DEFINE EndsOK(x, p) ==
      /\ Stands(c, c.levels[x][p].head, x, p) /\ F[c.levels[x][p].head].prev = None
      /\ Stands(c, c.levels[x][p].tail, x, p) /\ F[c.levels[x][p].tail].next = None
<1>11. ASSUME NEW x \in Sides, NEW p \in PricesOf(c, x), x # side \/ p # price
       PROVE  EndsOK(x, p)
  <2>1. p \in PricesOf(b, x) /\ c.levels[x][p] = b.levels[x][p]
    BY <1>8, <1>9, <1>11
  <2> HIDE DEF c, side, price, E, F, P, N
  <2> QED
    BY <1>1, <1>2, <1>3, <1>4, <1>5, <1>6, <1>7, <1>11, <2>1
<1>12. ASSUME price \in PricesOf(c, side)
       PROVE  EndsOK(side, price)
  <2>1. price \in PricesOf(b, side) /\ (P # None \/ N # None)
    BY <1>8, <1>12
  <2> DEFINE old == b.levels[side][price]
             new == c.levels[side][price]
  <2>2. /\ Stands(b, old.head, side, price) /\ E[old.head].prev = None
        /\ Stands(b, old.tail, side, price) /\ E[old.tail].next = None
    BY <1>4, <1>5, <2>1
  <2>3. /\ new.head = IF P = None THEN N ELSE old.head
        /\ new.tail = IF N = None THEN P ELSE old.tail
    BY <1>8, <1>12
  <2> HIDE DEF c, side, price, E, F, old, new
  <2>4. Stands(c, new.head, side, price) /\ F[new.head].prev = None
    <3>1. CASE P = None
      <4>1. new.head = N /\ Stands(c, N, side, price)
        BY <1>1, <1>3, <2>1, <2>3, <3>1
      <4> QED
        BY <1>2, <1>7, <3>1, <4>1
    <3>2. CASE P # None
      <4>1. new.head = old.head /\ old.head # s /\ Stands(c, old.head, side, price)
        BY <1>1, <2>2, <2>3, <3>2
      <4>2. old.head # N
        BY <1>3, <1>4, <1>7, <2>2, <4>1
      <4> QED
        BY <1>2, <1>7, <2>2, <4>1, <4>2
    <3> QED
      BY <3>1, <3>2
  <2>5. Stands(c, new.tail, side, price) /\ F[new.tail].next = None
    <3>1. CASE N = None
      <4>1. new.tail = P /\ Stands(c, P, side, price)
        BY <1>1, <1>3, <2>1, <2>3, <3>1
      <4> QED
        BY <1>2, <1>7, <3>1, <4>1
    <3>2. CASE N # None
      <4>1. new.tail = old.tail /\ old.tail # s /\ Stands(c, old.tail, side, price)
        BY <1>1, <2>2, <2>3, <3>2
      <4>2. old.tail # P
        BY <1>3, <1>4, <1>7, <2>2, <4>1
      <4> QED
        BY <1>2, <1>7, <2>2, <4>1, <4>2
    <3> QED
      BY <3>1, <3>2
  <2> QED
    BY <2>4, <2>5 DEF new
<1>13. ASSUME NEW t \in Occupied(c)
       PROVE  OrderAt(c, t).price \in PricesOf(c, OrderAt(c, t).side)
  <2>1. t \in Occupied(b) /\ t # s /\ OrderAt(c, t) = OrderAt(b, t)
    BY DetachOrders
  <2>2. OrderAt(b, t).price \in PricesOf(b, OrderAt(b, t).side)
        /\ OrderAt(b, t).side \in Sides
    BY <2>1, RestingFacts
  <2>3. Stands(b, t, OrderAt(b, t).side, OrderAt(b, t).price)
    BY <2>1 DEF Stands
  <2> HIDE DEF c, side, price, E, F, P, N
  <2> QED
    BY <1>8, <1>9, <1>10, <2>1, <2>2, <2>3
<1>14. \A x \in Sides : \A p \in PricesOf(c, x) : EndsOK(x, p)
  BY <1>11, <1>12
<1> HIDE DEF c
<1> QED
  BY <1>13, <1>14 DEF LevelsOK, c

\* Identifiers come from a finite set, so that counting them makes sense.
LEMMA RestingIdsFinite ==
    ASSUME NEW b, NEW before, BookInv(b, before)
    PROVE  /\ RestingIds(b) \subseteq OrderIds
           /\ IsFiniteSet(RestingIds(b))
           /\ Cardinality(RestingIds(b)) \in Nat
           /\ Cardinality(RestingIds(b)) <= Cardinality(OrderIds)
           /\ Cardinality(OrderIds) \in Nat
<1>1. RestingIds(b) \subseteq OrderIds
  BY DEF BookInv, IsBook, IsPartialMap, RestingIds
<1> QED
  BY <1>1, SlotAssumption, FS_Subset, FS_CardinalityType

\* The book that an order leaves satisfies every invariant again.
THEOREM DetachPreserves ==
    ASSUME NEW b, NEW before, BookInv(b, before), NEW s \in Occupied(b)
    PROVE  BookInv(Detach(b, s), LeftBehind(before, IdAt(b, s)))
<1> DEFINE c == Detach(b, s)
<1>1. IsBook(c)
  <2>1. LevelMaps(c.levels)
    BY DetachLevels
  <2>2. c.arena \in Arena
    BY DetachArena
  <2>3. /\ IsPartialMap(c.order_slots, OrderIds, Slot)
        /\ c = [levels |-> c.levels, arena |-> c.arena, order_slots |-> c.order_slots]
    BY DetachIndex
  <2> HIDE DEF c
  <2> QED
    BY <2>1, <2>2, <2>3 DEF IsBook, LevelMaps
<1>2. IndexOK(c)
  <2>1. ASSUME NEW t \in Occupied(c)
        PROVE  /\ OrderAt(c, t).remaining_qty > 0
               /\ IdAt(c, t) \in RestingIds(c)
               /\ c.order_slots[IdAt(c, t)] = t
    <3>1. t \in Occupied(b) /\ IdAt(c, t) = IdAt(b, t) /\ IdAt(b, t) # IdAt(b, s)
          /\ OrderAt(c, t) = OrderAt(b, t)
      BY DetachOrders
    <3>2. /\ OrderAt(b, t).remaining_qty > 0
          /\ IdAt(b, t) \in RestingIds(b)
          /\ b.order_slots[IdAt(b, t)] = t
      BY <3>1 DEF BookInv, IndexOK
    <3>3. /\ RestingIds(c) = RestingIds(b) \ {IdAt(b, s)}
          /\ \A id \in RestingIds(c) : c.order_slots[id] = b.order_slots[id]
      BY DetachIndex
    <3> QED
      BY <3>1, <3>2, <3>3
  <2>2. ASSUME NEW id \in RestingIds(c)
        PROVE  c.order_slots[id] \in Occupied(c) /\ IdAt(c, c.order_slots[id]) = id
    <3>1. id \in RestingIds(b) /\ id # IdAt(b, s) /\ c.order_slots[id] = b.order_slots[id]
      BY DetachIndex
    <3>2. b.order_slots[id] \in Occupied(b) \ {s} /\ IdAt(b, b.order_slots[id]) = id
      BY <3>1 DEF BookInv, IndexOK
    <3>3. b.order_slots[id] \in Occupied(c)
      BY <3>2, DetachArena
    <3> QED
      BY <3>1, <3>2, <3>3, DetachOrders
  <2> HIDE DEF c
  <2> QED
    BY <2>1, <2>2 DEF IndexOK
<1>3. c.arena.len = Cardinality(RestingIds(c))
  <2>1. RestingIds(c) = RestingIds(b) \ {IdAt(b, s)} /\ IdAt(b, s) \in RestingIds(b)
    BY DetachIndex, RestingFacts
  <2>2. Cardinality(RestingIds(c)) = Cardinality(RestingIds(b)) - 1
    BY <2>1, RestingIdsFinite, FS_RemoveElement
  <2>3. c.arena.len = b.arena.len - 1
    BY DetachArena
  <2> QED
    BY <2>2, <2>3 DEF BookInv
<1>4. ArrivalOrder(c, LeftBehind(before, IdAt(b, s)))
  <2>1. ArrivalOrder(b, before)
    BY DEF BookInv
  <2> QED
    BY <2>1, ArrivalOrderWithout, DetachIndex
<1>5. Len(c.arena.entries) <= SlotSpace
  BY DetachArena DEF BookInv
<1> QED
  BY <1>1, <1>2, <1>3, <1>4, <1>5, DetachFreeList, DetachLevelsOK, DetachLinks DEF BookInv

-----------------------------------------------------------------------------
(* An order comes to rest: it takes a free slot and joins the back of the  *)
(* queue of its price.                                                     *)

\* The links after PushBack(level, a, s): s comes behind the old tail.
NodeWith(level, a, s, t) ==
    [kind |-> "Occupied",
     order |-> a.entries[t].order,
     prev |-> IF t = s THEN level.tail ELSE a.entries[t].prev,
     next |-> IF t = s THEN None
              ELSE IF t = level.tail THEN s ELSE a.entries[t].next]

LEMMA PushBackFacts ==
    ASSUME NEW level \in Level, NEW a \in Arena, NEW s \in OccupiedSlots(a),
           level.tail \in Option(OccupiedSlots(a) \ {s})
    PROVE  LET c == PushBack(level, a, s).arena
           IN  /\ c \in Arena
               /\ Len(c.entries) = Len(a.entries)
               /\ c.free_head = a.free_head /\ c.len = a.len
               /\ OccupiedSlots(c) = OccupiedSlots(a)
               /\ \A t \in OccupiedSlots(a) : c.entries[t] = NodeWith(level, a, s, t)
               /\ \A t \in VacantSlots(a) : c.entries[t] = a.entries[t]
<1> DEFINE tail == level.tail
           f == SetNext(a, s, None)
           g == SetPrev(f, s, tail)
           c == IF tail = None THEN g ELSE SetNext(g, tail, s)
<1>0. s \in SlotsOf(a) /\ OccupiedSlots(a) \subseteq SlotsOf(a)
      /\ VacantSlots(a) = SlotsOf(a) \ OccupiedSlots(a)
      /\ OccupiedSlots(a) \subseteq Slot /\ None \notin OccupiedSlots(a)
  BY NoneIsNoSlot, EntryKinds DEF OccupiedSlots, VacantSlots
<1>1. tail \in Option(Slot) /\ None \in Option(Slot) /\ s \in Option(Slot) /\ tail # s
  BY <1>0 DEF Option
<1> HIDE DEF tail
<1>2. /\ f \in Arena /\ Len(f.entries) = Len(a.entries)
      /\ f.free_head = a.free_head /\ f.len = a.len
      /\ \A t \in SlotsOf(a) :
            f.entries[t] = IF t = s
               THEN [kind |-> "Occupied", order |-> a.entries[s].order,
                     prev |-> a.entries[s].prev, next |-> None]
               ELSE a.entries[t]
      /\ OccupiedSlots(f) = OccupiedSlots(a)
  BY <1>1, SetNextFacts
<1>3. SlotsOf(f) = SlotsOf(a)
  BY <1>2 DEF SlotsOf
<1> HIDE DEF f
<1>4. /\ g \in Arena /\ Len(g.entries) = Len(f.entries)
      /\ g.free_head = f.free_head /\ g.len = f.len
      /\ \A t \in SlotsOf(f) :
            g.entries[t] = IF t = s
               THEN [kind |-> "Occupied", order |-> f.entries[s].order,
                     prev |-> tail, next |-> f.entries[s].next]
               ELSE f.entries[t]
      /\ OccupiedSlots(g) = OccupiedSlots(f)
  BY <1>1, <1>2, SetPrevFacts
<1>5. SlotsOf(g) = SlotsOf(a)
  BY <1>3, <1>4 DEF SlotsOf
<1> HIDE DEF g
<1>6. /\ c \in Arena /\ Len(c.entries) = Len(a.entries)
      /\ c.free_head = a.free_head /\ c.len = a.len
      /\ OccupiedSlots(c) = OccupiedSlots(a)
      /\ \A t \in SlotsOf(a) :
            c.entries[t] = IF t = tail
               THEN [kind |-> "Occupied", order |-> g.entries[tail].order,
                     prev |-> g.entries[tail].prev, next |-> s]
               ELSE g.entries[t]
  <2>1. CASE tail = None
    BY <2>1, <1>0, <1>2, <1>4, NoneIsNoSlot
  <2>2. CASE tail # None
    <3> DEFINE h == SetNext(g, tail, s)
    <3>1. tail \in OccupiedSlots(g)
      BY <2>2, <1>2, <1>4 DEF Option, tail
    <3>2. /\ h \in Arena /\ Len(h.entries) = Len(g.entries)
          /\ h.free_head = g.free_head /\ h.len = g.len
          /\ \A t \in SlotsOf(g) :
                h.entries[t] = IF t = tail
                   THEN [kind |-> "Occupied", order |-> g.entries[tail].order,
                         prev |-> g.entries[tail].prev, next |-> s]
                   ELSE g.entries[t]
          /\ OccupiedSlots(h) = OccupiedSlots(g)
      BY <3>1, <1>1, <1>4, SetNextFacts
    <3>3. c = h
      BY <2>2
    <3> HIDE DEF c, h
    <3> QED
      BY <1>2, <1>4, <1>5, <3>2, <3>3
  <2> QED
    BY <2>1, <2>2
<1> HIDE DEF c
<1>7. ASSUME NEW t \in OccupiedSlots(a)
      PROVE  c.entries[t] = NodeWith(level, a, s, t)
  <2>1. t \in SlotsOf(a) /\ a.entries[t] \in OccupiedEntry
    BY <1>0, EntryKinds
  <2>2. a.entries[t] = [kind |-> "Occupied", order |-> a.entries[t].order,
                        prev |-> a.entries[t].prev, next |-> a.entries[t].next]
    BY <2>1 DEF OccupiedEntry
  <2>3. NodeWith(level, a, s, t) =
          [kind |-> "Occupied", order |-> a.entries[t].order,
           prev |-> IF t = s THEN tail ELSE a.entries[t].prev,
           next |-> IF t = s THEN None ELSE IF t = tail THEN s ELSE a.entries[t].next]
    BY DEF NodeWith, tail
  <2>4. CASE t = s
    BY <1>1, <1>2, <1>3, <1>4, <1>6, <2>1, <2>3, <2>4
  <2>5. CASE t # s /\ t = tail
    <3>1. g.entries[t] = a.entries[t]
      BY <1>2, <1>3, <1>4, <2>1, <2>5
    <3> QED
      BY <1>6, <2>1, <2>3, <2>5, <3>1
  <2>6. CASE t # s /\ t # tail
    <3>1. c.entries[t] = a.entries[t]
      BY <1>2, <1>3, <1>4, <1>6, <2>1, <2>6
    <3> QED
      BY <2>2, <2>3, <2>6, <3>1
  <2> QED
    BY <2>4, <2>5, <2>6
<1>8. ASSUME NEW t \in VacantSlots(a)
      PROVE  c.entries[t] = a.entries[t]
  <2>1. t \in SlotsOf(a) /\ t # s /\ t # tail
    BY <1>0, NoneIsNoSlot DEF Option, tail
  <2> QED
    BY <1>2, <1>3, <1>4, <1>6, <2>1
<1>9. PushBack(level, a, s).arena = c
  BY DEF PushBack, c, g, f, tail
<1> QED
  BY <1>6, <1>7, <1>8, <1>9

\* A new order may come to rest: it has quantity left and its identifier is
\* not in the index.
Restable(b, order) ==
    /\ order \in Order
    /\ order.remaining_qty > 0
    /\ order.id \notin RestingIds(b)

\* The slot that Insert takes is fresh or vacant, never truncated, and the
\* free list gives up its first element.
LEMMA InsertFacts ==
    ASSUME NEW b, NEW before, BookInv(b, before), NEW order, Restable(b, order)
    PROVE  LET s == InsertSlot(b.arena)
               a == Insert(b.arena, order)
           IN  /\ a \in Arena
               /\ s \in OccupiedSlots(a) /\ s \notin Occupied(b) /\ s \in Slot
               /\ Len(a.entries) <= SlotSpace
               /\ a.len = b.arena.len + 1
               /\ OccupiedSlots(a) = Occupied(b) \cup {s}
               /\ a.entries[s] = OccupiedBy(order)
               /\ \A t \in Occupied(b) : a.entries[t] = b.arena.entries[t]
               /\ IsFreeList(a, Len(a.entries) - a.len)
<1> DEFINE old == b.arena
           s == InsertSlot(old)
           a == Insert(old, order)
           free == Len(old.entries) - old.len
<1>1. PICK chain \in [1 .. free -> VacantSlots(old)] :
          /\ IsFreeChain(old, free, chain)
          /\ \A i, j \in 1 .. free : chain[i] = chain[j] => i = j
          /\ \A v \in VacantSlots(old) : \E i \in 1 .. free : chain[i] = v
  BY DEF BookInv, FreeListOK, IsFreeList
<1>2. /\ free \in Nat /\ old \in Arena /\ old.len \in Int /\ Len(old.entries) \in Nat
      /\ old.entries \in Seq(Entry) /\ Len(old.entries) <= SlotSpace
  BY DEF BookInv, FreeListOK, IsFreeList, IsBook, Arena
<1>3. old.len < SlotSpace
  <2>1. order.id \in OrderIds \ RestingIds(b)
    BY DEF Restable, Order
  <2>2. /\ RestingIds(b) \subseteq OrderIds /\ IsFiniteSet(RestingIds(b))
        /\ Cardinality(RestingIds(b)) \in Nat /\ Cardinality(OrderIds) \in Nat
    BY RestingIdsFinite
  <2>3. Cardinality(RestingIds(b) \cup {order.id}) = Cardinality(RestingIds(b)) + 1
    BY <2>1, <2>2, FS_AddElement
  <2>4. Cardinality(RestingIds(b) \cup {order.id}) <= Cardinality(OrderIds)
    BY <2>1, <2>2, SlotAssumption, FS_Subset
  <2> QED
    BY <2>2, <2>3, <2>4, SlotAssumption DEF BookInv
<1>4. OccupiedBy(order) \in Entry /\ OccupiedBy(order).kind = "Occupied"
  BY DEF OccupiedBy, Entry, OccupiedEntry, Restable, Option
<1>5. /\ \A t \in SlotsOf(old) : t # None /\ t \in Slot
      /\ VacantSlots(old) = SlotsOf(old) \ Occupied(b)
      /\ Occupied(b) \subseteq SlotsOf(old)
  BY <1>2, NoneIsNoSlot, EntryKinds DEF VacantSlots, Occupied, OccupiedSlots
<1> DEFINE Goal == /\ a \in Arena
                   /\ s \in OccupiedSlots(a) /\ s \notin Occupied(b) /\ s \in Slot
                   /\ Len(a.entries) <= SlotSpace
                   /\ a.len = old.len + 1
                   /\ OccupiedSlots(a) = Occupied(b) \cup {s}
                   /\ a.entries[s] = OccupiedBy(order)
                   /\ \A t \in Occupied(b) : a.entries[t] = old.entries[t]
                   /\ IsFreeList(a, Len(a.entries) - a.len)
<1>6. ASSUME old.free_head = None
      PROVE  Goal
  <2> DEFINE new == Append(old.entries, OccupiedBy(order))
             n == Len(old.entries) + 1
  <2>1. free = 0 /\ Len(old.entries) = old.len
    <3>1. free # 0 => chain[1] \in VacantSlots(old) /\ old.free_head = chain[1]
      BY <1>1, <1>2 DEF IsFreeChain
    <3> QED
      BY <1>2, <1>5, <1>6, <3>1
  <2>2. s = n
    <3>1. Len(old.entries) % SlotSpace = Len(old.entries)
      <4>1. \A x, y \in Nat : x < y => x % y = x
        OBVIOUS
      <4> QED
        BY <1>2, <1>3, <2>1, <4>1, SlotAssumption
    <3> QED
      BY <1>6, <3>1 DEF InsertSlot
  <2>3. a = [old EXCEPT !.entries = new, !.len = old.len + 1]
    BY <1>6 DEF Insert
  <2>4. /\ new \in Seq(Entry) /\ Len(new) = n /\ new[n] = OccupiedBy(order)
        /\ \A t \in SlotsOf(old) : new[t] = old.entries[t]
    BY <1>2, <1>4 DEF SlotsOf
  <2> HIDE DEF new, s, a
  <2>5. /\ a \in Arena /\ a.entries = new /\ a.len = old.len + 1
        /\ a.free_head = old.free_head
    <3>1. old = [entries |-> old.entries, free_head |-> old.free_head, len |-> old.len]
          /\ old.free_head \in Option(Slot)
      BY <1>2 DEF Arena
    <3>2. a = [entries |-> new, free_head |-> old.free_head, len |-> old.len + 1]
      BY <2>3, <3>1
    <3> QED
      BY <1>2, <2>4, <3>1, <3>2 DEF Arena
  <2>6. SlotsOf(a) = SlotsOf(old) \cup {n} /\ n \notin SlotsOf(old) /\ n \in Slot
    BY <1>2, <2>4, <2>5 DEF SlotsOf, Slot
  <2>7. OccupiedSlots(a) = Occupied(b) \cup {n}
    BY <1>4, <2>4, <2>5, <2>6 DEF Occupied, OccupiedSlots
  <2>8. VacantSlots(a) = VacantSlots(old)
    BY <1>5, <2>6, <2>7 DEF VacantSlots
  <2>9. IsFreeList(a, Len(a.entries) - a.len)
    <3>1. Len(a.entries) - a.len = 0
      BY <1>2, <2>1, <2>4, <2>5
    <3>2. VacantSlots(old) = {}
      BY <1>1, <2>1
    <3>3. IsFreeChain(a, 0, chain)
      BY <1>6, <2>5 DEF IsFreeChain
    <3>4. chain \in [1 .. 0 -> VacantSlots(a)]
      BY <1>1, <2>1, <2>8
    <3>5. IsFreeList(a, 0)
      <4>1. /\ \A i, j \in 1 .. 0 : chain[i] = chain[j] => i = j
            /\ \A v \in VacantSlots(a) : \E i \in 1 .. 0 : chain[i] = v
        BY <2>8, <3>2
      <4>2. \E empty \in [1 .. 0 -> VacantSlots(a)] :
              /\ IsFreeChain(a, 0, empty)
              /\ \A i, j \in 1 .. 0 : empty[i] = empty[j] => i = j
              /\ \A v \in VacantSlots(a) : \E i \in 1 .. 0 : empty[i] = v
        BY <3>3, <3>4, <4>1
      <4>3. 0 >= 0
        OBVIOUS
      <4> QED
        BY <4>2, <4>3, Zenon DEF IsFreeList
    <3> QED
      BY <3>1, <3>5
  <2>10. Len(a.entries) <= SlotSpace
    BY <1>2, <1>3, <2>1, <2>4, <2>5, SlotAssumption
  <2> QED
    BY <1>5, <2>2, <2>4, <2>5, <2>6, <2>7, <2>9, <2>10
<1>7. ASSUME old.free_head # None
      PROVE  Goal
  <2> DEFINE new == [old.entries EXCEPT ![old.free_head] = OccupiedBy(order)]
             rest == [i \in 1 .. free - 1 |-> chain[i + 1]]
  <2>1. free > 0 /\ old.free_head = chain[1] /\ chain[1] \in VacantSlots(old)
    BY <1>1, <1>2, <1>7 DEF IsFreeChain
  <2>2. s = chain[1]
    BY <1>7, <2>1 DEF InsertSlot
  <2>3. a = [entries |-> new, free_head |-> old.entries[chain[1]].next_free,
             len |-> old.len + 1]
    BY <1>7, <2>1 DEF Insert
  <2>4. s \in SlotsOf(old) /\ s \notin Occupied(b) /\ s \in Slot
    BY <1>5, <2>1, <2>2
  <2>5. /\ new \in Seq(Entry) /\ Len(new) = Len(old.entries) /\ new[s] = OccupiedBy(order)
        /\ \A t \in SlotsOf(old) \ {s} : new[t] = old.entries[t]
    BY <1>2, <1>4, <2>1, <2>2, <2>4 DEF SlotsOf
  <2>6. old.entries[s].next_free \in Option(Slot)
        /\ old.entries[s].next_free = IF free = 1 THEN None ELSE chain[2]
    <3>1. old.entries[s] \in VacantEntry
      BY <1>2, <2>4, EntryKinds DEF Occupied
    <3> QED
      BY <1>1, <1>2, <2>1, <2>2, <3>1 DEF VacantEntry, IsFreeChain
  <2> HIDE DEF new, s, a
  <2>7. /\ a \in Arena /\ a.entries = new /\ a.len = old.len + 1
        /\ a.free_head = IF free = 1 THEN None ELSE chain[2]
    BY <1>2, <2>2, <2>3, <2>5, <2>6 DEF Arena
  <2>8. SlotsOf(a) = SlotsOf(old)
    BY <2>5, <2>7 DEF SlotsOf
  <2>9. OccupiedSlots(a) = Occupied(b) \cup {s}
    BY <1>4, <2>4, <2>5, <2>7, <2>8 DEF Occupied, OccupiedSlots
  <2>10. VacantSlots(a) = VacantSlots(old) \ {s}
    BY <1>5, <2>8, <2>9 DEF VacantSlots
  <2>11. Len(a.entries) - a.len = free - 1 /\ free - 1 \in Nat
    BY <1>2, <2>1, <2>5, <2>7
  <2>12. rest \in [1 .. free - 1 -> VacantSlots(a)]
    BY <1>1, <1>2, <2>1, <2>2, <2>10
  <2>13. IsFreeChain(a, free - 1, rest)
    <3>1. a.free_head = IF free - 1 = 0 THEN None ELSE rest[1]
      BY <1>2, <2>1, <2>7
    <3>2. ASSUME NEW i \in 1 .. free - 1
          PROVE  a.entries[rest[i]].next_free = IF i = free - 1 THEN None ELSE rest[i + 1]
      <4>1. rest[i] = chain[i + 1] /\ i + 1 \in 1 .. free
            /\ (i # free - 1 => rest[i + 1] = chain[i + 2])
        BY <1>2, <2>1
      <4>2. a.entries[chain[i + 1]] = old.entries[chain[i + 1]]
        BY <1>5, <2>5, <2>7, <2>10, <2>12, <4>1
      <4>3. old.entries[chain[i + 1]].next_free
              = IF i + 1 = free THEN None ELSE chain[(i + 1) + 1]
        BY <1>1, <4>1 DEF IsFreeChain
      <4>4. (i + 1) + 1 = i + 2 /\ (i + 1 = free <=> i = free - 1)
        BY <1>2
      <4> HIDE DEF rest
      <4> QED
        BY <4>1, <4>2, <4>3, <4>4
    <3> QED
      BY <3>1, <3>2 DEF IsFreeChain
  <2>14. ASSUME NEW i \in 1 .. free - 1, NEW j \in 1 .. free - 1, rest[i] = rest[j]
         PROVE  i = j
    BY <1>1, <1>2, <2>1, <2>14
  <2>15. ASSUME NEW v \in VacantSlots(a)
         PROVE  \E i \in 1 .. free - 1 : rest[i] = v
    <3>1. PICK i \in 1 .. free : chain[i] = v
      BY <1>1, <2>10
    <3>2. i # 1
      BY <2>2, <2>10, <3>1
    <3>3. i - 1 \in 1 .. free - 1 /\ rest[i - 1] = chain[i]
      BY <1>2, <3>2
    <3> QED
      BY <3>1, <3>3
  <2> HIDE DEF rest, free
  <2>16. IsFreeList(a, free - 1)
    BY <2>11, <2>12, <2>13, <2>14, <2>15 DEF IsFreeList
  <2>17. Len(a.entries) <= SlotSpace
    BY <1>2, <2>5, <2>7
  <2> QED
    BY <1>5, <2>4, <2>5, <2>7, <2>9, <2>11, <2>16, <2>17
<1>8. Goal
  BY <1>6, <1>7
<1> HIDE DEF a, s
<1> QED
  BY <1>8 DEF a, s

\* The level an order joins: its tail is a resting order of the level, or None
\* when the level does not exist yet.
LEMMA JoinedLevel ==
    ASSUME NEW b, NEW before, BookInv(b, before), NEW order, Restable(b, order)
    PROVE  LET level == LevelOrDefault(b, order.side, order.price)
           IN  /\ level \in Level
               /\ level.head = None <=> level.tail = None
               /\ level.tail = None <=> order.price \notin PricesOf(b, order.side)
               /\ level.tail # None =>
                     /\ Stands(b, level.tail, order.side, order.price)
                     /\ b.arena.entries[level.tail].next = None
                     /\ Stands(b, level.head, order.side, order.price)
                     /\ b.arena.entries[level.head].prev = None
               /\ order.side \in Sides /\ order.price \in Prices
               /\ order.id \in OrderIds
<1>1. order.side \in Sides /\ order.price \in Prices /\ order.id \in OrderIds
  BY DEF Restable, Order
<1>2. CASE order.price \notin PricesOf(b, order.side)
  <2>1. EmptyLevel \in Level /\ EmptyLevel.tail = None /\ EmptyLevel.head = None
    BY QtyAssumption DEF EmptyLevel, Level, Option, Quantities
  <2> QED
    BY <1>1, <1>2, <2>1 DEF LevelOrDefault
<1>3. CASE order.price \in PricesOf(b, order.side)
  <2> DEFINE level == b.levels[order.side][order.price]
  <2>1. level \in Level
    BY <1>1, <1>3 DEF BookInv, IsBook, IsPartialMap, PricesOf
  <2>2. /\ Stands(b, level.head, order.side, order.price)
        /\ Stands(b, level.tail, order.side, order.price)
        /\ b.arena.entries[level.head].prev = None
        /\ b.arena.entries[level.tail].next = None
    BY <1>1, <1>3 DEF BookInv, LevelsOK
  <2>3. level.head # None /\ level.tail # None
    BY <2>2, RestingFacts DEF Stands
  <2>4. LevelOrDefault(b, order.side, order.price) = level
    BY <1>3 DEF LevelOrDefault
  <2> HIDE DEF level
  <2> QED
    BY <1>1, <1>3, <2>1, <2>2, <2>3, <2>4
<1> QED
  BY <1>2, <1>3

LEMMA RestArena ==
    ASSUME NEW b, NEW before, BookInv(b, before), NEW order, Restable(b, order)
    PROVE  LET c == RestOrder(b, order)
               s == InsertSlot(b.arena)
               tail == LevelOrDefault(b, order.side, order.price).tail
           IN  /\ c.arena \in Arena
               /\ s \in Slot /\ s # None /\ s \notin Occupied(b)
               /\ Occupied(c) = Occupied(b) \cup {s}
               /\ Len(c.arena.entries) <= SlotSpace
               /\ c.arena.len = b.arena.len + 1
               /\ FreeListOK(c)
               /\ OrderAt(c, s) = order
               /\ c.arena.entries[s].prev = tail
               /\ c.arena.entries[s].next = None
               /\ \A t \in Occupied(b) :
                     /\ OrderAt(c, t) = OrderAt(b, t)
                     /\ c.arena.entries[t].prev = b.arena.entries[t].prev
                     /\ c.arena.entries[t].next =
                           (IF t = tail THEN s ELSE b.arena.entries[t].next)
<1> DEFINE c == RestOrder(b, order)
           s == InsertSlot(b.arena)
           level == LevelOrDefault(b, order.side, order.price)
           a == Insert(b.arena, order)
           d == PushBack(level, a, s).arena
<1>1. /\ a \in Arena
      /\ s \in OccupiedSlots(a) /\ s \notin Occupied(b) /\ s \in Slot
      /\ Len(a.entries) <= SlotSpace
      /\ a.len = b.arena.len + 1
      /\ OccupiedSlots(a) = Occupied(b) \cup {s}
      /\ a.entries[s] = OccupiedBy(order)
      /\ \A t \in Occupied(b) : a.entries[t] = b.arena.entries[t]
      /\ IsFreeList(a, Len(a.entries) - a.len)
  BY InsertFacts
<1>2. level \in Level /\ level.tail \in Option(OccupiedSlots(a) \ {s})
  <2>1. level \in Level /\ (level.tail # None => level.tail \in Occupied(b))
    BY JoinedLevel DEF Stands
  <2> QED
    BY <1>1, <2>1 DEF Option
<1> HIDE DEF a, s, level
<1>3. /\ d \in Arena
      /\ Len(d.entries) = Len(a.entries)
      /\ d.free_head = a.free_head /\ d.len = a.len
      /\ OccupiedSlots(d) = OccupiedSlots(a)
      /\ \A t \in OccupiedSlots(a) : d.entries[t] = NodeWith(level, a, s, t)
      /\ \A t \in VacantSlots(a) : d.entries[t] = a.entries[t]
  BY <1>1, <1>2, PushBackFacts
<1>4. c.arena = d
  BY DEF RestOrder, a, s, level
<1> HIDE DEF c, d
<1>5. s # None
  BY <1>1, NoneAssumption DEF Slot
<1>6. FreeListOK(c)
  <2>1. VacantSlots(d) = VacantSlots(a)
    BY <1>3 DEF VacantSlots, SlotsOf
  <2>2. Len(d.entries) - d.len = Len(a.entries) - a.len
    BY <1>3
  <2>3. \A free : \A chain \in [1 .. free -> VacantSlots(a)] :
            IsFreeChain(a, free, chain) => IsFreeChain(d, free, chain)
    BY <1>3 DEF IsFreeChain
  <2>4. \A free : IsFreeList(a, free) => IsFreeList(d, free)
    BY <2>1, <2>3, Zenon DEF IsFreeList
  <2> QED
    BY <1>1, <1>4, <2>2, <2>4 DEF FreeListOK
<1>7. /\ OrderAt(c, s) = order
      /\ c.arena.entries[s].prev = level.tail
      /\ c.arena.entries[s].next = None
  <2>1. c.arena.entries[s] = NodeWith(level, a, s, s)
    BY <1>1, <1>3, <1>4
  <2>2. a.entries[s].order = order
    BY <1>1 DEF OccupiedBy
  <2> QED
    BY <2>1, <2>2 DEF NodeWith, OrderAt
<1>8. ASSUME NEW t \in Occupied(b)
      PROVE  /\ OrderAt(c, t) = OrderAt(b, t)
             /\ c.arena.entries[t].prev = b.arena.entries[t].prev
             /\ c.arena.entries[t].next =
                   (IF t = level.tail THEN s ELSE b.arena.entries[t].next)
  <2>1. t # s /\ c.arena.entries[t] = NodeWith(level, a, s, t)
        /\ a.entries[t] = b.arena.entries[t]
    BY <1>1, <1>3, <1>4
  <2> QED
    BY <2>1 DEF NodeWith, OrderAt
<1>9. Occupied(c) = Occupied(b) \cup {s}
  BY <1>1, <1>3, <1>4 DEF Occupied
<1>10. Len(c.arena.entries) <= SlotSpace /\ c.arena.len = b.arena.len + 1 /\ c.arena \in Arena
  BY <1>1, <1>3, <1>4
<1> QED
  BY <1>1, <1>5, <1>6, <1>7, <1>8, <1>9, <1>10 DEF c, s, level

LEMMA RestLevels ==
    ASSUME NEW b, NEW before, BookInv(b, before), NEW order, Restable(b, order)
    PROVE  LET c == RestOrder(b, order)
               s == InsertSlot(b.arena)
               old == LevelOrDefault(b, order.side, order.price)
               new == c.levels[order.side][order.price]
           IN  /\ LevelMaps(c.levels)
               /\ \A x \in Sides \ {order.side} : c.levels[x] = b.levels[x]
               /\ PricesOf(c, order.side) = PricesOf(b, order.side) \cup {order.price}
               /\ \A q \in PricesOf(b, order.side) \ {order.price} :
                     c.levels[order.side][q] = b.levels[order.side][q]
               /\ new.head = (IF old.tail = None THEN s ELSE old.head)
               /\ new.tail = s
               /\ new.total_quantity =
                     (old.total_quantity + order.remaining_qty) % QtySpace
<1> DEFINE c == RestOrder(b, order)
           s == InsertSlot(b.arena)
           old == LevelOrDefault(b, order.side, order.price)
           a == Insert(b.arena, order)
           level == PushBack(old, a, s).level
<1>1. old \in Level /\ order.side \in Sides /\ order.price \in Prices
  BY JoinedLevel
<1>2. s \in Slot /\ a.entries[s] = OccupiedBy(order)
  BY InsertFacts
<1> HIDE DEF a, s, old
<1>3. level = [head |-> IF old.tail = None THEN s ELSE old.head,
               tail |-> s,
               total_quantity |->
                  (old.total_quantity + order.remaining_qty) % QtySpace]
  BY <1>2 DEF PushBack, OccupiedBy
<1>4. level \in Level
  <2>1. old.total_quantity + order.remaining_qty \in Int
    BY <1>1, QtyAssumption DEF Level, Quantities, Restable, Order
  <2> QED
    BY <1>1, <1>2, <1>3, <2>1, WrapFacts DEF Level, Option
<1>5. c.levels = PutLevel(b.levels, order.side, order.price, level)
  BY DEF RestOrder, a, s, old
<1>6. LevelMaps(b.levels)
  BY DEF BookInv, IsBook, LevelMaps
<1> HIDE DEF c, level
<1>7. /\ LevelMaps(c.levels)
      /\ \A x \in Sides \ {order.side} : c.levels[x] = b.levels[x]
      /\ DOMAIN c.levels[order.side] = DOMAIN b.levels[order.side] \cup {order.price}
      /\ \A q \in DOMAIN c.levels[order.side] :
            c.levels[order.side][q] = IF q = order.price THEN level
                                      ELSE b.levels[order.side][q]
  BY <1>1, <1>4, <1>5, <1>6, PutLevelFacts
<1> QED
  BY <1>3, <1>7 DEF PricesOf, c, s, old

LEMMA RestIndex ==
    ASSUME NEW b, NEW before, BookInv(b, before), NEW order, Restable(b, order)
    PROVE  LET c == RestOrder(b, order)
               s == InsertSlot(b.arena)
           IN  /\ RestingIds(c) = RestingIds(b) \cup {order.id}
               /\ c.order_slots[order.id] = s
               /\ \A id \in RestingIds(b) : c.order_slots[id] = b.order_slots[id]
               /\ IsPartialMap(c.order_slots, OrderIds, Slot)
               /\ c = [levels |-> c.levels, arena |-> c.arena,
                       order_slots |-> c.order_slots]
<1> DEFINE c == RestOrder(b, order)
           s == InsertSlot(b.arena)
<1>1. s \in Slot
  BY InsertFacts
<1>2. order.id \in OrderIds /\ order.id \notin RestingIds(b)
  BY DEF Restable, Order
<1>3. IsPartialMap(b.order_slots, OrderIds, Slot)
  BY DEF BookInv, IsBook
<1>4. c.order_slots = [id \in RestingIds(b) \cup {order.id} |->
                          IF id = order.id THEN s ELSE b.order_slots[id]]
  BY DEF RestOrder
<1>5. c = [levels |-> c.levels, arena |-> c.arena, order_slots |-> c.order_slots]
  BY DEF RestOrder
<1> HIDE DEF c, s
<1>6. IsPartialMap(c.order_slots, OrderIds, Slot)
  BY <1>1, <1>2, <1>3, <1>4 DEF IsPartialMap, RestingIds
<1> QED
  BY <1>2, <1>4, <1>5, <1>6 DEF RestingIds, c, s

LEMMA RestLevelsOK ==
    ASSUME NEW b, NEW before, BookInv(b, before), NEW order, Restable(b, order)
    PROVE  LevelsOK(RestOrder(b, order))
<1> DEFINE c == RestOrder(b, order)
           s == InsertSlot(b.arena)
           side == order.side
           price == order.price
           old == LevelOrDefault(b, side, price)
           E == b.arena.entries
           F == c.arena.entries
<1>1. /\ s # None /\ s \notin Occupied(b)
      /\ Occupied(c) = Occupied(b) \cup {s}
      /\ OrderAt(c, s) = order
      /\ F[s].prev = old.tail
      /\ F[s].next = None
      /\ \A t \in Occupied(b) :
            /\ OrderAt(c, t) = OrderAt(b, t)
            /\ F[t].prev = E[t].prev
            /\ F[t].next = (IF t = old.tail THEN s ELSE E[t].next)
  BY RestArena
<1>2. /\ \A x \in Sides \ {side} : c.levels[x] = b.levels[x]
      /\ PricesOf(c, side) = PricesOf(b, side) \cup {price}
      /\ \A q \in PricesOf(b, side) \ {price} : c.levels[side][q] = b.levels[side][q]
      /\ c.levels[side][price].head = (IF old.tail = None THEN s ELSE old.head)
      /\ c.levels[side][price].tail = s
  BY RestLevels, SMTT(30)
<1>3. /\ side \in Sides
      /\ old.tail # None =>
            /\ Stands(b, old.tail, side, price)
            /\ Stands(b, old.head, side, price)
            /\ E[old.head].prev = None
  BY JoinedLevel
<1>4. \A x \in Sides : \A p \in PricesOf(b, x) :
          /\ Stands(b, b.levels[x][p].head, x, p) /\ E[b.levels[x][p].head].prev = None
          /\ Stands(b, b.levels[x][p].tail, x, p) /\ E[b.levels[x][p].tail].next = None
  BY DEF BookInv, LevelsOK
<1>5. \A t, x, p : Stands(b, t, x, p) => t \in Occupied(b) /\ Stands(c, t, x, p)
  BY <1>1 DEF Stands
<1>6. Stands(c, s, side, price)
  BY <1>1 DEF Stands
<1>7. \A t, x, p, y, q : Stands(b, t, x, p) /\ Stands(b, t, y, q) => x = y /\ p = q
  BY DEF Stands
<1>8. \A x \in Sides \ {side} : PricesOf(c, x) = PricesOf(b, x)
  BY <1>2 DEF PricesOf
<1>9. \A t \in Occupied(b) : t # None
  BY RestingFacts
<1> DEFINE EndsOK(x, p) ==
      /\ Stands(c, c.levels[x][p].head, x, p) /\ F[c.levels[x][p].head].prev = None
      /\ Stands(c, c.levels[x][p].tail, x, p) /\ F[c.levels[x][p].tail].next = None
<1>10. ASSUME NEW x \in Sides, NEW p \in PricesOf(c, x), x # side \/ p # price
       PROVE  EndsOK(x, p)
  <2>1. p \in PricesOf(b, x) /\ c.levels[x][p] = b.levels[x][p]
    BY <1>2, <1>8, <1>10
  <2> HIDE DEF c, s, side, price, old, E, F
  <2> QED
    BY <1>1, <1>3, <1>4, <1>5, <1>7, <1>9, <1>10, <2>1
<1>11. EndsOK(side, price)
  <2> HIDE DEF c, s, side, price, old, E, F
  <2>1. CASE old.tail = None
    BY <1>1, <1>2, <1>6, <2>1
  <2>2. CASE old.tail # None
    BY <1>1, <1>2, <1>3, <1>5, <1>6, <2>2
  <2> QED
    BY <2>1, <2>2
<1>12. ASSUME NEW t \in Occupied(c)
       PROVE  OrderAt(c, t).price \in PricesOf(c, OrderAt(c, t).side)
  <2>1. t = s => OrderAt(c, t).price \in PricesOf(c, OrderAt(c, t).side)
    BY <1>1, <1>2
  <2>2. t \in Occupied(b) =>
            /\ OrderAt(b, t).price \in PricesOf(b, OrderAt(b, t).side)
            /\ OrderAt(b, t).side \in Sides /\ OrderAt(c, t) = OrderAt(b, t)
    BY <1>1, RestingFacts
  <2> HIDE DEF c, s, side
  <2> QED
    BY <1>1, <1>2, <1>8, <2>1, <2>2
<1>13. \A x \in Sides : \A p \in PricesOf(c, x) : EndsOK(x, p)
  BY <1>10, <1>11
<1> HIDE DEF c
<1> QED
  BY <1>12, <1>13 DEF LevelsOK, c

\* The arrival order when `id` comes to rest behind everybody else.
Behind(b, before, id) == before \cup (RestingIds(b) \X {id})

LEMMA RestLinks ==
    ASSUME NEW b, NEW before, BookInv(b, before), NEW order, Restable(b, order)
    PROVE  LinksOK(RestOrder(b, order), Behind(b, before, order.id))
<1> DEFINE c == RestOrder(b, order)
           after == Behind(b, before, order.id)
           s == InsertSlot(b.arena)
           tail == LevelOrDefault(b, order.side, order.price).tail
           E == b.arena.entries
           F == c.arena.entries
           Before(x, y) == <<IdAt(b, x), IdAt(b, y)>> \in before
           After(x, y) == <<IdAt(c, x), IdAt(c, y)>> \in after
<1>1. /\ s # None /\ s \notin Occupied(b)
      /\ Occupied(c) = Occupied(b) \cup {s}
      /\ OrderAt(c, s) = order
      /\ F[s].prev = tail
      /\ F[s].next = None
      /\ \A t \in Occupied(b) :
            /\ OrderAt(c, t) = OrderAt(b, t)
            /\ F[t].prev = E[t].prev
            /\ F[t].next = (IF t = tail THEN s ELSE E[t].next)
  BY RestArena
<1>2. /\ tail = None => order.price \notin PricesOf(b, order.side)
      /\ tail # None => Stands(b, tail, order.side, order.price) /\ E[tail].next = None
  BY JoinedLevel
<1>3. \A t \in Occupied(b) :
          /\ t # None
          /\ OrderAt(b, t).price \in PricesOf(b, OrderAt(b, t).side)
          /\ IdAt(b, t) \in RestingIds(b) /\ IdAt(b, t) # order.id
          /\ IdAt(c, t) = IdAt(b, t)
  BY <1>1, RestingFacts DEF Restable, IdAt
<1>4. IdAt(c, s) = order.id
  BY <1>1 DEF IdAt
<1>5. \A x, y \in Occupied(b) : After(x, y) <=> Before(x, y)
  BY <1>3 DEF Behind
<1>6. \A x \in Occupied(b) : After(x, s)
  BY <1>3, <1>4 DEF Behind
<1>7. \A x, y \in Occupied(b) : SameLevel(c, x, y) <=> SameLevel(b, x, y)
  BY <1>1 DEF SameLevel, Stands
<1>8. \A x \in Occupied(b) :
          /\ SameLevel(c, x, s) <=> Stands(b, x, order.side, order.price)
          /\ SameLevel(c, s, x) <=> Stands(b, x, order.side, order.price)
  BY <1>1 DEF SameLevel, Stands
<1>9. \A x, y : SameLevel(b, x, y) => y \in Occupied(b)
  BY DEF SameLevel, Stands
<1>10. \A x, y \in Occupied(b) : Stands(b, x, order.side, order.price)
             /\ Stands(b, y, order.side, order.price) => SameLevel(b, x, y)
  BY DEF SameLevel, Stands
<1>11. tail # None => tail \in Occupied(b)
  BY <1>2 DEF Stands
<1>12. \A x \in Occupied(b) : ~ Stands(b, x, order.side, order.price) \/ tail # None
  BY <1>2, <1>3 DEF Stands
<1>13. \A x, y \in Occupied(b) : ~ (Before(x, y) /\ Before(y, x))
  BY DEF BookInv, ArrivalOrder, IndexOK
<1>14. \A x \in Occupied(b) :
        /\ E[x].prev = None =>
              \A u \in Occupied(b) : SameLevel(b, x, u) => u = x \/ Before(x, u)
        /\ E[x].prev # None => SameLevel(b, x, E[x].prev) /\ E[E[x].prev].next = x
        /\ E[x].next = None =>
              \A u \in Occupied(b) : SameLevel(b, x, u) => u = x \/ Before(u, x)
        /\ E[x].next # None =>
              /\ SameLevel(b, x, E[x].next) /\ E[E[x].next].prev = x
              /\ Before(x, E[x].next)
              /\ \A u \in Occupied(b) :
                    SameLevel(b, x, u) => \/ u = x \/ u = E[x].next
                                          \/ Before(u, x) \/ Before(E[x].next, u)
  BY DEF BookInv, LinksOK
<1> DEFINE LinksAt(t) ==
      /\ F[t].prev = None =>
           \A u \in Occupied(c) : SameLevel(c, t, u) => u = t \/ After(t, u)
      /\ F[t].prev # None => SameLevel(c, t, F[t].prev) /\ F[F[t].prev].next = t
      /\ F[t].next = None =>
           \A u \in Occupied(c) : SameLevel(c, t, u) => u = t \/ After(u, t)
      /\ F[t].next # None =>
           /\ SameLevel(c, t, F[t].next) /\ F[F[t].next].prev = t
           /\ After(t, F[t].next)
           /\ \A u \in Occupied(c) :
                 SameLevel(c, t, u) => \/ u = t \/ u = F[t].next
                                       \/ After(u, t) \/ After(F[t].next, u)
<1> SUFFICES ASSUME NEW t \in Occupied(c)
             PROVE  LinksAt(t)
  BY DEF LinksOK
<1> HIDE DEF c, after, s, tail, E, F, Before, After
<1>15. CASE t = s
  <2>1. F[t].prev = None =>
            \A u \in Occupied(c) : SameLevel(c, t, u) => u = t \/ After(t, u)
    BY <1>1, <1>8, <1>12, <1>15
  <2>2. F[t].prev # None => SameLevel(c, t, F[t].prev) /\ F[F[t].prev].next = t
    BY <1>1, <1>2, <1>8, <1>11, <1>15
  <2>3. \A u \in Occupied(c) : SameLevel(c, t, u) => u = t \/ After(u, t)
    BY <1>1, <1>6, <1>15
  <2> QED
    BY <1>1, <1>15, <2>1, <2>2, <2>3
<1>16. CASE t # s
  <2>1. t \in Occupied(b) /\ F[t].prev = E[t].prev
        /\ F[t].next = (IF t = tail THEN s ELSE E[t].next)
    BY <1>1, <1>16
  <2>2. ASSUME F[t].prev = None, NEW u \in Occupied(c), SameLevel(c, t, u)
        PROVE  u = t \/ After(t, u)
    <3>1. CASE u = s
      BY <1>6, <2>1, <3>1
    <3>2. CASE u # s
      <4>1. u \in Occupied(b) /\ SameLevel(b, t, u)
        BY <1>1, <1>7, <2>1, <2>2, <3>2
      <4>2. u = t \/ Before(t, u)
        BY <1>14, <2>1, <2>2, <4>1
      <4> QED
        BY <1>5, <2>1, <4>1, <4>2
    <3> QED
      BY <3>1, <3>2
  <2>3. ASSUME F[t].prev # None
        PROVE  SameLevel(c, t, F[t].prev) /\ F[F[t].prev].next = t
    <3>1. SameLevel(b, t, E[t].prev) /\ E[E[t].prev].next = t /\ E[t].prev \in Occupied(b)
      BY <1>9, <1>14, <2>1, <2>3
    <3>2. E[t].prev # tail
      BY <1>2, <1>3, <2>1, <3>1
    <3> QED
      BY <1>1, <1>7, <2>1, <3>1, <3>2
  <2>4. ASSUME F[t].next = None, NEW u \in Occupied(c), SameLevel(c, t, u)
        PROVE  u = t \/ After(u, t)
    <3>1. t # tail /\ E[t].next = None
      BY <1>1, <2>1, <2>4
    <3>2. CASE u = s
      <4>1. Stands(b, t, order.side, order.price) /\ tail # None
        BY <1>8, <1>12, <2>1, <2>4, <3>2
      <4>2. SameLevel(b, t, tail) /\ SameLevel(b, tail, t) /\ tail \in Occupied(b)
        BY <1>2, <1>10, <1>11, <2>1, <4>1
      <4>3. Before(tail, t)
        BY <1>14, <2>1, <3>1, <4>2
      <4>4. Before(t, tail)
        BY <1>2, <1>14, <2>1, <3>1, <4>1, <4>2
      <4> QED
        BY <1>13, <2>1, <4>2, <4>3, <4>4
    <3>3. CASE u # s
      <4>1. u \in Occupied(b) /\ SameLevel(b, t, u)
        BY <1>1, <1>7, <2>1, <2>4, <3>3
      <4>2. u = t \/ Before(u, t)
        BY <1>14, <2>1, <3>1, <4>1
      <4> QED
        BY <1>5, <2>1, <4>1, <4>2
    <3> QED
      BY <3>2, <3>3
  <2>5. ASSUME F[t].next # None
        PROVE  /\ SameLevel(c, t, F[t].next) /\ F[F[t].next].prev = t
               /\ After(t, F[t].next)
               /\ \A u \in Occupied(c) :
                     SameLevel(c, t, u) => \/ u = t \/ u = F[t].next
                                           \/ After(u, t) \/ After(F[t].next, u)
    <3>1. CASE t = tail
      <4>1. F[t].next = s /\ E[t].next = None /\ Stands(b, t, order.side, order.price)
        BY <1>2, <1>3, <2>1, <3>1
      <4>2. SameLevel(c, t, s) /\ F[s].prev = t /\ After(t, s)
        BY <1>1, <1>6, <1>8, <2>1, <3>1, <4>1
      <4>3. ASSUME NEW u \in Occupied(c), SameLevel(c, t, u), u # s
            PROVE  u = t \/ After(u, t)
        <5>1. u \in Occupied(b) /\ SameLevel(b, t, u)
          BY <1>1, <1>7, <2>1, <4>3
        <5>2. u = t \/ Before(u, t)
          BY <1>14, <2>1, <4>1, <5>1
        <5> QED
          BY <1>5, <2>1, <5>1, <5>2
      <4> QED
        BY <4>1, <4>2, <4>3
    <3>2. CASE t # tail
      <4> DEFINE q == E[t].next
      <4>1. F[t].next = q /\ q # None
        BY <2>1, <2>5, <3>2
      <4>2. /\ SameLevel(b, t, q) /\ E[q].prev = t /\ q \in Occupied(b)
            /\ Before(t, q)
            /\ \A u \in Occupied(b) :
                  SameLevel(b, t, u) => \/ u = t \/ u = q
                                        \/ Before(u, t) \/ Before(q, u)
        BY <1>9, <1>14, <2>1, <4>1
      <4> HIDE DEF q
      <4>3. SameLevel(c, t, q) /\ F[q].prev = t /\ After(t, q) /\ After(q, s)
        BY <1>1, <1>5, <1>6, <1>7, <2>1, <4>2
      <4>4. ASSUME NEW u \in Occupied(c), SameLevel(c, t, u), u # s
            PROVE  u = t \/ u = q \/ After(u, t) \/ After(q, u)
        <5>1. u \in Occupied(b) /\ SameLevel(b, t, u)
          BY <1>1, <1>7, <2>1, <4>4
        <5> QED
          BY <1>5, <2>1, <4>2, <5>1
      <4> QED
        BY <4>1, <4>3, <4>4
    <3> QED
      BY <3>1, <3>2
  <2> QED
    BY <2>2, <2>3, <2>4, <2>5
<1> QED
  BY <1>15, <1>16

\* The book in which an order has come to rest satisfies every invariant again.
THEOREM RestPreserves ==
    ASSUME NEW b, NEW before, BookInv(b, before), NEW order, Restable(b, order)
    PROVE  BookInv(RestOrder(b, order), Behind(b, before, order.id))
<1> DEFINE c == RestOrder(b, order)
           s == InsertSlot(b.arena)
<1>1. /\ c.arena \in Arena
      /\ s \notin Occupied(b) /\ Occupied(c) = Occupied(b) \cup {s}
      /\ Len(c.arena.entries) <= SlotSpace
      /\ c.arena.len = b.arena.len + 1
      /\ FreeListOK(c)
      /\ OrderAt(c, s) = order
      /\ \A t \in Occupied(b) : OrderAt(c, t) = OrderAt(b, t)
  BY RestArena
<1>2. /\ RestingIds(c) = RestingIds(b) \cup {order.id}
      /\ c.order_slots[order.id] = s
      /\ \A id \in RestingIds(b) : c.order_slots[id] = b.order_slots[id]
      /\ IsPartialMap(c.order_slots, OrderIds, Slot)
      /\ c = [levels |-> c.levels, arena |-> c.arena, order_slots |-> c.order_slots]
  BY RestIndex
<1>3. LevelMaps(c.levels)
  BY RestLevels
<1>4. order.remaining_qty > 0 /\ order.id \notin RestingIds(b)
  BY DEF Restable
<1>5. LevelsOK(c) /\ LinksOK(c, Behind(b, before, order.id))
  BY RestLevelsOK, RestLinks
<1> HIDE DEF c, s
<1>6. IsBook(c)
  BY <1>1, <1>2, <1>3 DEF IsBook, LevelMaps
<1>7. IndexOK(c)
  <2>1. ASSUME NEW t \in Occupied(c)
        PROVE  /\ OrderAt(c, t).remaining_qty > 0
               /\ IdAt(c, t) \in RestingIds(c)
               /\ c.order_slots[IdAt(c, t)] = t
    <3>1. CASE t = s
      BY <1>1, <1>2, <1>4, <3>1 DEF IdAt
    <3>2. CASE t # s
      <4>1. t \in Occupied(b) /\ OrderAt(c, t) = OrderAt(b, t) /\ IdAt(c, t) = IdAt(b, t)
        BY <1>1, <3>2 DEF IdAt
      <4>2. /\ OrderAt(b, t).remaining_qty > 0 /\ IdAt(b, t) \in RestingIds(b)
            /\ b.order_slots[IdAt(b, t)] = t
        BY <4>1 DEF BookInv, IndexOK
      <4> QED
        BY <1>2, <4>1, <4>2
    <3> QED
      BY <3>1, <3>2
  <2>2. ASSUME NEW id \in RestingIds(c)
        PROVE  c.order_slots[id] \in Occupied(c) /\ IdAt(c, c.order_slots[id]) = id
    <3>1. CASE id = order.id
      BY <1>1, <1>2, <3>1 DEF IdAt
    <3>2. CASE id # order.id
      <4>1. id \in RestingIds(b) /\ c.order_slots[id] = b.order_slots[id]
        BY <1>2, <3>2
      <4>2. b.order_slots[id] \in Occupied(b) /\ IdAt(b, b.order_slots[id]) = id
        BY <4>1 DEF BookInv, IndexOK
      <4> QED
        BY <1>1, <4>1, <4>2 DEF IdAt
    <3> QED
      BY <3>1, <3>2
  <2> QED
    BY <2>1, <2>2 DEF IndexOK
<1>8. c.arena.len = Cardinality(RestingIds(c))
  <2>1. Cardinality(RestingIds(c)) = Cardinality(RestingIds(b)) + 1
    BY <1>2, <1>4, RestingIdsFinite, FS_AddElement
  <2>2. b.arena.len = Cardinality(RestingIds(b))
    BY DEF BookInv
  <2> QED
    BY <1>1, <2>1, <2>2
<1>9. ArrivalOrder(c, Behind(b, before, order.id))
  BY <1>2, <1>4 DEF BookInv, ArrivalOrder, Behind
<1>10. BookInv(c, Behind(b, before, order.id))
  BY <1>1, <1>5, <1>6, <1>7, <1>8, <1>9 DEF BookInv
<1> QED
  BY <1>10 DEF c

-----------------------------------------------------------------------------
(* One iteration of the matching loop: a side with levels has a best one,  *)
(* and its head leaves, or stays with less.                                *)

\* A side has finitely many levels, for each has an order of its own.
LEMMA PricesFinite ==
    ASSUME NEW b, NEW before, BookInv(b, before), NEW side \in Sides
    PROVE  PricesOf(b, side) \subseteq Nat /\ IsFiniteSet(PricesOf(b, side))
<1> DEFINE S == PricesOf(b, side)
           f == [p \in S |-> IdAt(b, b.levels[side][p].head)]
<1>1. S \subseteq Prices
  BY DEF BookInv, IsBook, IsPartialMap, PricesOf
<1>2. \A p \in S : Stands(b, b.levels[side][p].head, side, p)
  BY DEF BookInv, LevelsOK
<1>3. \A p \in S : /\ f[p] \in RestingIds(b)
                   /\ OrderAt(b, b.order_slots[f[p]]).price = p
  BY <1>2 DEF BookInv, IndexOK, Stands
<1>4. f \in [S -> RestingIds(b)]
  BY <1>3
<1> HIDE DEF f, S
<1>5. \A p, q \in S : f[p] = f[q] => p = q
  BY <1>3
<1>6. f \in Injection(S, RestingIds(b))
  BY <1>4, <1>5 DEF Injection, IsInjective
<1>7. IsFiniteSet(S)
  BY <1>6, RestingIdsFinite, FS_Injection
<1> QED
  BY <1>1, <1>7, PriceAssumption DEF S

\* A finite nonempty set of prices has a best one, on either side: one for
\* which the set of prices that outrank it is minimal.
LEMMA BestOfPrices ==
    ASSUME NEW S, S \subseteq Nat, IsFiniteSet(S), S # {}, NEW side \in Sides
    PROVE  \E p \in S : \A q \in S : ~ Outranks(side, q, p)
<1> DEFINE Better(p) == {q \in S : Outranks(side, q, p)}
           T == {Better(p) : p \in S}
<1>1. T \subseteq FiniteSubsetsOf(S) /\ T # {}
  <2>1. \A p \in S : Better(p) \in SUBSET S
    OBVIOUS
  <2> HIDE DEF Better
  <2>2. T \subseteq SUBSET S /\ T # {}
    BY <2>1
  <2> HIDE DEF T
  <2> QED
    BY <2>2, FS_FiniteSubsetsOfFinite
<1>2. IsWellFoundedOn(StrictSubsetOrdering(S), FiniteSubsetsOf(S))
  BY FS_StrictSubsetOrderingWellFounded
<1>3. PICK m \in T : \A x \in T : <<x, m>> \notin StrictSubsetOrdering(S)
  <2> HIDE DEF T
  <2> QED
    BY <1>1, <1>2, WFMin
<1>4. PICK p \in S : m = Better(p)
  OBVIOUS
<1>5. ASSUME NEW q \in S, Outranks(side, q, p)
      PROVE  FALSE
  <2>1. Better(q) \subseteq Better(p) /\ q \in Better(p) /\ q \notin Better(q)
    <3>1. /\ \A x \in S : Outranks(side, x, q) => Outranks(side, x, p)
          /\ ~ Outranks(side, q, q)
      BY <1>5 DEF Outranks
    <3> QED
      BY <1>5, <3>1
  <2>2. <<Better(q), Better(p)>> \in StrictSubsetOrdering(S)
    BY <2>1 DEF StrictSubsetOrdering
  <2> QED
    BY <1>3, <1>4, <2>2
<1> QED
  BY <1>5

\* BestPrice is defined on a side that has levels, and nothing outranks it.
LEMMA BestPriceExists ==
    ASSUME NEW b, NEW before, BookInv(b, before), NEW side \in Sides,
           PricesOf(b, side) # {}
    PROVE  IsBestPrice(b, side, BestPrice(b, side))
<1>1. \E p \in PricesOf(b, side) : IsBestPrice(b, side, p)
  BY PricesFinite, BestOfPrices DEF IsBestPrice
<1> QED
  BY <1>1 DEF BestPrice

\* The head of the best level is a resting order of that level.
LEMMA BestMaker ==
    ASSUME NEW b, NEW before, BookInv(b, before), NEW incoming \in Order,
           PricesOf(b, Opposite(incoming.side)) # {}
    PROVE  LET contra == Opposite(incoming.side)
               best == BestPrice(b, contra)
           IN  /\ contra \in Sides
               /\ IsBestPrice(b, contra, best)
               /\ Stands(b, BestMakerSlot(b, incoming), contra, best)
               /\ b.arena.entries[BestMakerSlot(b, incoming)].prev = None
<1>1. Opposite(incoming.side) \in Sides
  BY DEF Order, Opposite, Sides
<1>2. IsBestPrice(b, Opposite(incoming.side), BestPrice(b, Opposite(incoming.side)))
  BY <1>1, BestPriceExists
<1>3. BestPrice(b, Opposite(incoming.side)) \in PricesOf(b, Opposite(incoming.side))
  BY <1>2 DEF IsBestPrice
<1> QED
  BY <1>1, <1>2, <1>3 DEF BookInv, LevelsOK, BestMakerSlot

-----------------------------------------------------------------------------
(* A partial fill changes two numbers.                                     *)

Reduced(order, traded) == [order EXCEPT !.remaining_qty = @ - traded]

LEMMA PartialFacts ==
    ASSUME NEW b, NEW before, BookInv(b, before), NEW s \in Occupied(b),
           NEW traded \in Nat, traded < OrderAt(b, s).remaining_qty
    PROVE  LET c == ConsumeMaker(b, s, traded)
           IN  /\ IsBook(c)
               /\ c.order_slots = b.order_slots
               /\ c.arena.free_head = b.arena.free_head
               /\ c.arena.len = b.arena.len
               /\ Len(c.arena.entries) = Len(b.arena.entries)
               /\ Occupied(c) = Occupied(b)
               /\ OrderAt(c, s) = Reduced(OrderAt(b, s), traded)
               /\ \A t \in Occupied(b) :
                     /\ t # s => OrderAt(c, t) = OrderAt(b, t)
                     /\ c.arena.entries[t].prev = b.arena.entries[t].prev
                     /\ c.arena.entries[t].next = b.arena.entries[t].next
               /\ \A t \in VacantSlots(b.arena) :
                     c.arena.entries[t] = b.arena.entries[t]
               /\ \A side \in Sides :
                     /\ PricesOf(c, side) = PricesOf(b, side)
                     /\ \A p \in PricesOf(b, side) :
                           /\ c.levels[side][p].head = b.levels[side][p].head
                           /\ c.levels[side][p].tail = b.levels[side][p].tail
                           /\ c.levels[side][p].total_quantity =
                                 IF side = OrderAt(b, s).side /\ p = OrderAt(b, s).price
                                   THEN (b.levels[side][p].total_quantity - traded)
                                           % QtySpace
                                   ELSE b.levels[side][p].total_quantity
<1> DEFINE c == ConsumeMaker(b, s, traded)
           order == OrderAt(b, s)
           node == b.arena.entries[s]
           newnode == [kind |-> "Occupied", order |-> Reduced(order, traded),
                       prev |-> node.prev, next |-> node.next]
           side == order.side
           price == order.price
           level == b.levels[side][price]
           depth == (level.total_quantity - traded) % QtySpace
           newlevel == [head |-> level.head, tail |-> level.tail,
                        total_quantity |-> depth]
<1>1. /\ b.arena \in Arena /\ s \in SlotsOf(b.arena) /\ node \in OccupiedEntry
      /\ order \in Order /\ side \in Sides /\ price \in PricesOf(b, side)
  BY RestingFacts
<1>2. order.remaining_qty \in Nat /\ traded # order.remaining_qty
  BY <1>1, QtyAssumption DEF Order, Quantities
<1>3. Reduced(order, traded) \in Order
  <2>1. order.remaining_qty - traded \in Quantities
    BY <1>1, <1>2, QtyAssumption DEF Order, Quantities
  <2> QED
    BY <1>1, <2>1 DEF Reduced, Order
<1>4. newnode \in Entry /\ newnode.kind = "Occupied"
  BY <1>1, <1>3 DEF Entry, OccupiedEntry
<1>5. level \in Level
  BY <1>1 DEF BookInv, IsBook, IsPartialMap, PricesOf
<1>6. newlevel \in Level
  BY <1>5, WrapFacts, QtyAssumption DEF Level, Quantities
<1>7. [node EXCEPT !.order.remaining_qty = @ - traded] = newnode
  BY <1>1 DEF OccupiedEntry, Reduced, OrderAt
<1>8. [level EXCEPT !.total_quantity = (@ - traded) % QtySpace] = newlevel
  BY <1>5 DEF Level
<1>9. b = [levels |-> b.levels, arena |-> b.arena, order_slots |-> b.order_slots]
      /\ LevelMaps(b.levels)
  BY DEF BookInv, IsBook, LevelMaps
<1>10. c = [b EXCEPT !.arena = [b.arena EXCEPT !.entries =
                                  [b.arena.entries EXCEPT ![s] = newnode]],
                    !.levels = [b.levels EXCEPT ![side] =
                                  [b.levels[side] EXCEPT ![price] = newlevel]]]
  <2>1. c = [b EXCEPT !.arena.entries[s].order.remaining_qty = @ - traded,
                      !.levels[side][price].total_quantity = (@ - traded) % QtySpace]
    BY <1>2 DEF ConsumeMaker
  <2> QED
    BY <1>7, <1>8, <1>9, <2>1
<1> HIDE DEF c, newnode, newlevel
<1> DEFINE entries == [b.arena.entries EXCEPT ![s] = newnode]
           arena == [b.arena EXCEPT !.entries = entries]
           side_levels == [b.levels[side] EXCEPT ![price] = newlevel]
           levels == [b.levels EXCEPT ![side] = side_levels]
<1>11. c = [levels |-> levels, arena |-> arena, order_slots |-> b.order_slots]
  BY <1>9, <1>10
<1>12. /\ entries \in Seq(Entry) /\ Len(entries) = Len(b.arena.entries)
       /\ \A t \in SlotsOf(b.arena) :
             entries[t] = IF t = s THEN newnode ELSE b.arena.entries[t]
  BY <1>1, <1>4 DEF Arena, SlotsOf
<1> HIDE DEF entries
<1>13. /\ arena \in Arena /\ arena.entries = entries
       /\ arena.free_head = b.arena.free_head /\ arena.len = b.arena.len
  BY <1>1, <1>12 DEF Arena
<1> HIDE DEF arena
<1>14. OccupiedSlots(arena) = OccupiedSlots(b.arena)
  BY <1>4, <1>12, <1>13 DEF OccupiedSlots, SlotsOf, Occupied
<1>15. IsPartialMap(b.levels[side], Prices, Level)
  BY <1>1, <1>9 DEF LevelMaps
<1>16. /\ IsPartialMap(side_levels, Prices, Level)
       /\ DOMAIN side_levels = DOMAIN b.levels[side]
       /\ \A p \in DOMAIN b.levels[side] :
             side_levels[p] = IF p = price THEN newlevel ELSE b.levels[side][p]
  BY <1>6, <1>15 DEF IsPartialMap
<1> HIDE DEF side_levels
<1>17. /\ levels = [x \in Sides |-> IF x = side THEN side_levels ELSE b.levels[x]]
       /\ \A x \in Sides : IsPartialMap(levels[x], Prices, Level)
  BY <1>1, <1>9, <1>16 DEF LevelMaps
<1> HIDE DEF levels
<1>18. levels = [x \in Sides |-> levels[x]]
  BY <1>17
<1>19. IsBook(c)
  <2>1. IsPartialMap(b.order_slots, OrderIds, Slot)
    BY DEF BookInv, IsBook
  <2> QED
    BY <1>11, <1>13, <1>17, <1>18, <2>1 DEF IsBook
<1>20. /\ c.order_slots = b.order_slots
       /\ c.arena.free_head = b.arena.free_head
       /\ c.arena.len = b.arena.len
       /\ Len(c.arena.entries) = Len(b.arena.entries)
       /\ Occupied(c) = Occupied(b)
  BY <1>11, <1>12, <1>13, <1>14 DEF Occupied
<1>21. OrderAt(c, s) = Reduced(OrderAt(b, s), traded)
  BY <1>1, <1>11, <1>12, <1>13 DEF OrderAt, newnode
<1>22. ASSUME NEW t \in Occupied(b)
       PROVE  /\ t # s => OrderAt(c, t) = OrderAt(b, t)
              /\ c.arena.entries[t].prev = b.arena.entries[t].prev
              /\ c.arena.entries[t].next = b.arena.entries[t].next
  <2>1. t \in SlotsOf(b.arena) /\ c.arena.entries = entries
    BY <1>11, <1>13 DEF Occupied, OccupiedSlots
  <2>2. t = s => c.arena.entries[t] = newnode
    BY <1>12, <2>1
  <2>3. t # s => c.arena.entries[t] = b.arena.entries[t]
    BY <1>12, <2>1
  <2> QED
    BY <2>2, <2>3 DEF OrderAt, newnode
<1>23. \A t \in VacantSlots(b.arena) : c.arena.entries[t] = b.arena.entries[t]
  BY <1>11, <1>12, <1>13 DEF VacantSlots, Occupied
<1>24. ASSUME NEW x \in Sides
       PROVE  /\ PricesOf(c, x) = PricesOf(b, x)
              /\ \A p \in PricesOf(b, x) :
                    /\ c.levels[x][p].head = b.levels[x][p].head
                    /\ c.levels[x][p].tail = b.levels[x][p].tail
                    /\ c.levels[x][p].total_quantity =
                          IF x = side /\ p = price
                            THEN (b.levels[x][p].total_quantity - traded) % QtySpace
                            ELSE b.levels[x][p].total_quantity
  <2>1. x # side => c.levels[x] = b.levels[x]
    BY <1>11, <1>17
  <2>2. x = side => c.levels[x] = side_levels
    BY <1>11, <1>17
  <2>3. /\ newlevel.head = level.head /\ newlevel.tail = level.tail
        /\ newlevel.total_quantity = (level.total_quantity - traded) % QtySpace
    BY DEF newlevel
  <2> QED
    BY <1>16, <2>1, <2>2, <2>3 DEF PricesOf
<1> QED
  BY <1>19, <1>20, <1>21, <1>22, <1>23, <1>24 DEF c

\* A partial fill keeps every invariant: nobody moves, and the maker keeps a
\* positive remainder.
THEOREM PartialPreserves ==
    ASSUME NEW b, NEW before, BookInv(b, before), NEW s \in Occupied(b),
           NEW traded \in Nat, traded < OrderAt(b, s).remaining_qty
    PROVE  BookInv(ConsumeMaker(b, s, traded), before)
<1> DEFINE c == ConsumeMaker(b, s, traded)
<1>1. /\ IsBook(c)
      /\ c.order_slots = b.order_slots
      /\ c.arena.free_head = b.arena.free_head
      /\ c.arena.len = b.arena.len
      /\ Len(c.arena.entries) = Len(b.arena.entries)
      /\ Occupied(c) = Occupied(b)
      /\ OrderAt(c, s) = Reduced(OrderAt(b, s), traded)
      /\ \A t \in Occupied(b) :
            /\ t # s => OrderAt(c, t) = OrderAt(b, t)
            /\ c.arena.entries[t].prev = b.arena.entries[t].prev
            /\ c.arena.entries[t].next = b.arena.entries[t].next
      /\ \A t \in VacantSlots(b.arena) : c.arena.entries[t] = b.arena.entries[t]
      /\ \A side \in Sides :
            /\ PricesOf(c, side) = PricesOf(b, side)
            /\ \A p \in PricesOf(b, side) :
                  /\ c.levels[side][p].head = b.levels[side][p].head
                  /\ c.levels[side][p].tail = b.levels[side][p].tail
  BY PartialFacts
<1> HIDE DEF c
<1>2. OrderAt(b, s) \in Order
  BY RestingFacts
<1>3. \A t \in Occupied(b) : /\ OrderAt(c, t).id = OrderAt(b, t).id
                              /\ OrderAt(c, t).side = OrderAt(b, t).side
                              /\ OrderAt(c, t).price = OrderAt(b, t).price
                              /\ OrderAt(c, t).remaining_qty > 0
  <2>1. /\ OrderAt(c, s).id = OrderAt(b, s).id
        /\ OrderAt(c, s).side = OrderAt(b, s).side
        /\ OrderAt(c, s).price = OrderAt(b, s).price
        /\ OrderAt(c, s).remaining_qty = OrderAt(b, s).remaining_qty - traded
    BY <1>1, <1>2 DEF Reduced, Order
  <2>2. OrderAt(c, s).remaining_qty > 0
    BY <1>2, <2>1, QtyAssumption DEF Order, Quantities
  <2>3. \A t \in Occupied(b) : OrderAt(b, t).remaining_qty > 0
    BY DEF BookInv, IndexOK
  <2> QED
    BY <1>1, <2>1, <2>2, <2>3
<1>4. IndexOK(c)
  BY <1>1, <1>3 DEF BookInv, IndexOK, IdAt, RestingIds
<1>5. FreeListOK(c)
  <2>1. VacantSlots(c.arena) = VacantSlots(b.arena)
    BY <1>1 DEF VacantSlots, Occupied, SlotsOf
  <2>2. \A free : \A chain \in [1 .. free -> VacantSlots(b.arena)] :
            IsFreeChain(b.arena, free, chain) => IsFreeChain(c.arena, free, chain)
    BY <1>1 DEF IsFreeChain
  <2>3. \A free : IsFreeList(b.arena, free) => IsFreeList(c.arena, free)
    BY <2>1, <2>2, Zenon DEF IsFreeList
  <2> QED
    BY <1>1, <2>3 DEF BookInv, FreeListOK
<1>6. c.arena.len = Cardinality(RestingIds(c)) /\ Len(c.arena.entries) <= SlotSpace
  BY <1>1 DEF BookInv, RestingIds
<1>7. ArrivalOrder(c, before)
  BY <1>1 DEF BookInv, ArrivalOrder, RestingIds
<1>8. \A t, side, price : Stands(c, t, side, price) <=> Stands(b, t, side, price)
  BY <1>1, <1>3 DEF Stands
<1>9. LevelsOK(c)
  <2>1. \A t \in Occupied(b) : OrderAt(b, t).side \in Sides
    BY RestingFacts
  <2>2. ASSUME NEW side \in Sides, NEW p \in PricesOf(c, side)
        PROVE  /\ Stands(c, c.levels[side][p].head, side, p)
               /\ Stands(c, c.levels[side][p].tail, side, p)
               /\ c.arena.entries[c.levels[side][p].head].prev = None
               /\ c.arena.entries[c.levels[side][p].tail].next = None
    <3>1. /\ Stands(b, b.levels[side][p].head, side, p)
          /\ Stands(b, b.levels[side][p].tail, side, p)
          /\ b.arena.entries[b.levels[side][p].head].prev = None
          /\ b.arena.entries[b.levels[side][p].tail].next = None
      BY <1>1, <2>2 DEF BookInv, LevelsOK
    <3>2. b.levels[side][p].head \in Occupied(b) /\ b.levels[side][p].tail \in Occupied(b)
      BY <3>1 DEF Stands
    <3> QED
      BY <1>1, <1>8, <2>2, <3>1, <3>2
  <2>3. ASSUME NEW t \in Occupied(c)
        PROVE  OrderAt(c, t).price \in PricesOf(c, OrderAt(c, t).side)
    BY <1>1, <1>3, <2>1 DEF BookInv, LevelsOK
  <2> QED
    BY <2>2, <2>3 DEF LevelsOK
<1>10. LinksOK(c, before)
  <2>1. \A t \in Occupied(b) : \A u : SameLevel(c, t, u) <=> SameLevel(b, t, u)
    BY <1>3, <1>8 DEF SameLevel
  <2>2. \A t \in Occupied(b) : IdAt(c, t) = IdAt(b, t)
    BY <1>3 DEF IdAt
  <2>3. \A t, u : SameLevel(b, t, u) => u \in Occupied(b)
    BY DEF SameLevel, Stands
  <2> DEFINE E == b.arena.entries
             F == c.arena.entries
             Before(x, y) == <<IdAt(b, x), IdAt(b, y)>> \in before
             After(x, y) == <<IdAt(c, x), IdAt(c, y)>> \in before
  <2>4. \A x, y \in Occupied(b) : After(x, y) <=> Before(x, y)
    BY <2>2
  <2>5. \A t \in Occupied(b) :
          /\ E[t].prev = None =>
                \A u \in Occupied(b) : SameLevel(b, t, u) => u = t \/ Before(t, u)
          /\ E[t].prev # None => SameLevel(b, t, E[t].prev) /\ E[E[t].prev].next = t
          /\ E[t].next = None =>
                \A u \in Occupied(b) : SameLevel(b, t, u) => u = t \/ Before(u, t)
          /\ E[t].next # None =>
                /\ SameLevel(b, t, E[t].next) /\ E[E[t].next].prev = t
                /\ Before(t, E[t].next)
                /\ \A u \in Occupied(b) :
                      SameLevel(b, t, u) => \/ u = t \/ u = E[t].next
                                            \/ Before(u, t) \/ Before(E[t].next, u)
    BY DEF BookInv, LinksOK
  <2>6. /\ Occupied(c) = Occupied(b)
        /\ \A t \in Occupied(b) : F[t].prev = E[t].prev /\ F[t].next = E[t].next
    BY <1>1
  <2> SUFFICES ASSUME NEW t \in Occupied(c)
               PROVE  /\ F[t].prev = None =>
                           \A u \in Occupied(c) : SameLevel(c, t, u) => u = t \/ After(t, u)
                      /\ F[t].prev # None =>
                           SameLevel(c, t, F[t].prev) /\ F[F[t].prev].next = t
                      /\ F[t].next = None =>
                           \A u \in Occupied(c) : SameLevel(c, t, u) => u = t \/ After(u, t)
                      /\ F[t].next # None =>
                           /\ SameLevel(c, t, F[t].next) /\ F[F[t].next].prev = t
                           /\ After(t, F[t].next)
                           /\ \A u \in Occupied(c) :
                                 SameLevel(c, t, u) => \/ u = t \/ u = F[t].next
                                                       \/ After(u, t) \/ After(F[t].next, u)
    BY DEF LinksOK
  <2> HIDE DEF E, F, Before, After
  <2> QED
    BY <2>1, <2>3, <2>4, <2>5, <2>6
<1> QED
  BY <1>1, <1>4, <1>5, <1>6, <1>7, <1>9, <1>10 DEF BookInv, c

-----------------------------------------------------------------------------
(* The sum of the quantities of a set of orders, which the library defines *)
(* by recursion over the set.                                              *)

\* f gives every subset of S its sum.
SumOf(f, T) ==
    IF T = {} THEN 0
    ELSE LET x == CHOOSE y \in T : TRUE IN x.remaining_qty + f[T \ {x}]
IsSum(f, S) == f = [T \in SUBSET S |-> SumOf(f, T)]

LEMMA UnitsOfFunction ==
    ASSUME NEW S
    PROVE  UnitsOf(S) = (CHOOSE f : IsSum(f, S))[S]
BY DEF UnitsOf, MapThenSumSet, MapThenFoldSet, IsSum, SumOf

LEMMA SumExists ==
    ASSUME NEW S, IsFiniteSet(S), \A x \in S : x.remaining_qty \in Nat
    PROVE  \E f \in [SUBSET S -> Nat] : IsSum(f, S)
<1> DEFINE Sums(n) == {f \in [SUBSET S -> Nat] :
                          \A T \in SUBSET S : Cardinality(T) <= n => f[T] = SumOf(f, T)}
           N == {n \in Nat : Sums(n) # {}}
<1>0. \A T \in SUBSET S : IsFiniteSet(T) /\ Cardinality(T) \in Nat
  BY FS_Subset, FS_CardinalityType
<1>1. 0 \in N
  <2>1. [T \in SUBSET S |-> 0] \in Sums(0)
    <3>1. \A T \in SUBSET S : Cardinality(T) <= 0 => T = {}
      BY <1>0, FS_EmptySet
    <3> QED
      BY <3>1 DEF SumOf
  <2> HIDE DEF Sums
  <2> QED
    BY <2>1
<1>2. ASSUME NEW n \in Nat, n \in N PROVE n + 1 \in N
  <2>1. PICK f \in Sums(n) : TRUE
    BY <1>2
  <2> DEFINE g == [T \in SUBSET S |-> IF Cardinality(T) = n + 1 THEN SumOf(f, T) ELSE f[T]]
  <2>2. ASSUME NEW T \in SUBSET S, T # {}
        PROVE  LET x == CHOOSE y \in T : TRUE
               IN  /\ x \in T /\ x.remaining_qty \in Nat
                   /\ T \ {x} \in SUBSET S
                   /\ Cardinality(T \ {x}) = Cardinality(T) - 1
    <3> DEFINE x == CHOOSE y \in T : TRUE
    <3>1. x \in T
      BY <2>2
    <3> HIDE DEF x
    <3>2. x \in S /\ T \ {x} \in SUBSET S
      BY <3>1
    <3>3. x.remaining_qty \in Nat
      BY <3>2
    <3>4. Cardinality(T \ {x}) = Cardinality(T) - 1
      BY <1>0, <3>1, FS_RemoveElement
    <3> QED
      BY <3>1, <3>2, <3>3, <3>4 DEF x
  <2>3. \A T \in SUBSET S : SumOf(f, T) \in Nat
    <3> SUFFICES ASSUME NEW T \in SUBSET S PROVE SumOf(f, T) \in Nat
      OBVIOUS
    <3> DEFINE x == CHOOSE y \in T : TRUE
    <3>1. CASE T = {}
      BY <3>1 DEF SumOf
    <3>2. CASE T # {}
      <4>1. x.remaining_qty \in Nat /\ T \ {x} \in SUBSET S
        BY <2>2, <3>2
      <4>2. f[T \ {x}] \in Nat
        BY <2>1, <4>1
      <4>3. SumOf(f, T) = x.remaining_qty + f[T \ {x}]
        BY <3>2 DEF SumOf
      <4> HIDE DEF x
      <4> QED
        BY <4>1, <4>2, <4>3
    <3> QED
      BY <3>1, <3>2
  <2>4. g \in [SUBSET S -> Nat]
    BY <2>1, <2>3
  <2>5. ASSUME NEW T \in SUBSET S, Cardinality(T) <= n + 1 PROVE g[T] = SumOf(g, T)
    <3> DEFINE x == CHOOSE y \in T : TRUE
    <3>1. CASE T = {}
      <4>1. Cardinality(T) = 0
        BY <3>1, FS_EmptySet
      <4>2. g[T] = f[T] /\ f[T] = SumOf(f, T)
        BY <2>1, <4>1
      <4> QED
        BY <3>1, <4>2 DEF SumOf
    <3>2. CASE T # {}
      <4>1. x \in T /\ T \ {x} \in SUBSET S /\ Cardinality(T \ {x}) = Cardinality(T) - 1
        BY <2>2, <3>2
      <4>2. g[T \ {x}] = f[T \ {x}]
        <5> HIDE DEF x
        <5>1. Cardinality(T \ {x}) # n + 1
          BY <1>0, <2>5, <4>1
        <5> QED
          BY <4>1, <5>1
      <4>3. SumOf(g, T) = SumOf(f, T)
        BY <3>2, <4>2 DEF SumOf
      <4>4. g[T] = SumOf(f, T)
        <5>1. CASE Cardinality(T) = n + 1
          BY <5>1
        <5>2. CASE Cardinality(T) # n + 1
          <6>1. Cardinality(T) <= n
            BY <1>0, <2>5, <5>2
          <6> QED
            BY <2>1, <5>2, <6>1
        <5> QED
          BY <5>1, <5>2
      <4> QED
        BY <4>3, <4>4
    <3> QED
      BY <3>1, <3>2
  <2> HIDE DEF g
  <2>6. g \in Sums(n + 1)
    BY <2>4, <2>5
  <2> HIDE DEF Sums
  <2> QED
    BY <2>6
<1> HIDE DEF N
<1>3. Cardinality(S) \in N
  BY <1>0, <1>1, <1>2, SetInduction
<1>4. PICK f \in Sums(Cardinality(S)) : TRUE
  BY <1>3 DEF N
<1>5. \A T \in SUBSET S : Cardinality(T) <= Cardinality(S)
  BY FS_Subset
<1>6. f \in [SUBSET S -> Nat] /\ \A T \in SUBSET S : f[T] = SumOf(f, T)
  BY <1>4, <1>5
<1> QED
  BY <1>6 DEF IsSum

LEMMA SumsAgree ==
    ASSUME NEW S, NEW R, NEW f, NEW g, IsSum(f, S), IsSum(g, R),
           NEW T \in SUBSET S, T \in SUBSET R, IsFiniteSet(T)
    PROVE  f[T] = g[T]
<1> DEFINE N == {n \in Nat : \A U \in SUBSET T : Cardinality(U) <= n => f[U] = g[U]}
<1>0. \A U \in SUBSET T : IsFiniteSet(U) /\ Cardinality(U) \in Nat
  BY FS_Subset, FS_CardinalityType
<1>1. \A U \in SUBSET T : f[U] = SumOf(f, U) /\ g[U] = SumOf(g, U)
  <2>1. \A U \in SUBSET T : U \in SUBSET S /\ U \in SUBSET R
    OBVIOUS
  <2>2. \A U \in SUBSET S : f[U] = SumOf(f, U)
    BY Zenon DEF IsSum
  <2>3. \A U \in SUBSET R : g[U] = SumOf(g, U)
    BY Zenon DEF IsSum
  <2> QED
    BY <2>1, <2>2, <2>3
<1>2. 0 \in N
  <2> SUFFICES ASSUME NEW U \in SUBSET T, Cardinality(U) <= 0 PROVE f[U] = g[U]
    OBVIOUS
  <2>1. U = {}
    BY <1>0, FS_EmptySet
  <2> QED
    BY <1>1, <2>1 DEF SumOf
<1>3. ASSUME NEW n \in Nat, n \in N PROVE n + 1 \in N
  <2> SUFFICES ASSUME NEW U \in SUBSET T, Cardinality(U) <= n + 1 PROVE f[U] = g[U]
    OBVIOUS
  <2> DEFINE x == CHOOSE y \in U : TRUE
  <2>1. CASE U = {}
    BY <1>1, <2>1 DEF SumOf
  <2>2. CASE U # {}
    <3>1. x \in U
      BY <2>2
    <3>2. f[U \ {x}] = g[U \ {x}]
      <4> HIDE DEF x
      <4>1. Cardinality(U \ {x}) = Cardinality(U) - 1
        BY <1>0, <3>1, FS_RemoveElement
      <4>2. U \ {x} \in SUBSET T /\ Cardinality(U \ {x}) <= n
        BY <1>0, <4>1
      <4> QED
        BY <1>3, <4>2
    <3> QED
      BY <1>1, <2>2, <3>2 DEF SumOf
  <2> QED
    BY <2>1, <2>2
<1> HIDE DEF N
<1>4. Cardinality(T) \in N
  BY <1>0, <1>2, <1>3, SetInduction
<1> QED
  BY <1>4 DEF N

\* The sum of a set: nothing for the empty one, and otherwise some order and
\* the sum of the rest.
LEMMA TallyStep ==
    ASSUME NEW S, IsFiniteSet(S), \A x \in S : x.remaining_qty \in Nat
    PROVE  /\ UnitsOf(S) \in Nat
           /\ S = {} => UnitsOf(S) = 0
           /\ S # {} =>
                 \E x \in S : UnitsOf(S) = x.remaining_qty + UnitsOf(S \ {x})
<1> DEFINE F == CHOOSE f : IsSum(f, S)
<1>1. PICK h \in [SUBSET S -> Nat] : IsSum(h, S)
  BY SumExists
<1>2. IsSum(F, S)
  BY <1>1
<1> HIDE DEF F
<1>3. UnitsOf(S) = F[S]
  BY UnitsOfFunction DEF F
<1>4. F[S] = h[S]
  BY <1>1, <1>2, SumsAgree
<1>5. UnitsOf(S) \in Nat
  BY <1>1, <1>3, <1>4
<1>6. F[S] = SumOf(F, S)
  <2>1. \A U \in SUBSET S : F[U] = SumOf(F, U)
    BY <1>2, Zenon DEF IsSum
  <2> QED
    BY <2>1
<1>7. ASSUME S # {}
      PROVE  \E x \in S : UnitsOf(S) = x.remaining_qty + UnitsOf(S \ {x})
  <2> DEFINE x == CHOOSE y \in S : TRUE
             G == CHOOSE f : IsSum(f, S \ {x})
  <2>1. x \in S
    BY <1>7
  <2>2. F[S] = x.remaining_qty + F[S \ {x}]
    BY <1>6, <1>7 DEF SumOf
  <2> HIDE DEF x
  <2>3. IsFiniteSet(S \ {x}) /\ \A y \in S \ {x} : y.remaining_qty \in Nat
    BY FS_Subset
  <2>4. PICK k \in [SUBSET (S \ {x}) -> Nat] : IsSum(k, S \ {x})
    BY <2>3, SumExists
  <2>5. IsSum(G, S \ {x})
    BY <2>4
  <2>6. UnitsOf(S \ {x}) = G[S \ {x}]
    BY UnitsOfFunction
  <2> HIDE DEF G
  <2>7. F[S \ {x}] = G[S \ {x}]
    <3>1. S \ {x} \in SUBSET S /\ S \ {x} \in SUBSET (S \ {x})
      OBVIOUS
    <3> QED
      BY <1>2, <2>3, <2>5, <3>1, SumsAgree
  <2> QED
    BY <1>3, <2>1, <2>2, <2>6, <2>7
<1>8. S = {} => UnitsOf(S) = 0
  BY <1>3, <1>6 DEF SumOf
<1> QED
  BY <1>5, <1>7, <1>8

LEMMA TallyWith ==
    ASSUME NEW S, IsFiniteSet(S), \A y \in S : y.remaining_qty \in Nat,
           NEW x, x \notin S, x.remaining_qty \in Nat
    PROVE  UnitsOf(S \cup {x}) = UnitsOf(S) + x.remaining_qty
<1> DEFINE A == S \cup {x}
           N == {n \in Nat : \A U \in SUBSET A : \A z \in A \ U :
                   IsFiniteSet(U) /\ Cardinality(U) = n =>
                      UnitsOf(U \cup {z}) = UnitsOf(U) + z.remaining_qty}
<1>0. \A o \in A : o.remaining_qty \in Nat
  OBVIOUS
<1> HIDE DEF A
<1>1. 0 \in N
  <2> SUFFICES ASSUME NEW U \in SUBSET A, NEW z \in A \ U,
                      IsFiniteSet(U), Cardinality(U) = 0
               PROVE  UnitsOf(U \cup {z}) = UnitsOf(U) + z.remaining_qty
    OBVIOUS
  <2>1. U = {}
    BY FS_EmptySet
  <2>2. UnitsOf(U) = 0
    BY <1>0, <2>1, TallyStep
  <2>3. {z} \in SUBSET A /\ IsFiniteSet({z}) /\ {z} # {} /\ U \cup {z} = {z}
    BY <2>1, FS_Singleton
  <2>4. PICK y \in {z} : UnitsOf({z}) = y.remaining_qty + UnitsOf({z} \ {y})
    BY <1>0, <2>3, TallyStep
  <2>5. y = z /\ {z} \ {y} = U
    BY <2>1
  <2>6. UnitsOf({z}) = z.remaining_qty + UnitsOf(U)
    BY <2>4, <2>5, Zenon
  <2>7. UnitsOf(U \cup {z}) = UnitsOf({z})
    BY <2>3, Zenon
  <2> QED
    BY <1>0, <2>2, <2>6, <2>7
<1>2. ASSUME NEW n \in Nat, n \in N PROVE n + 1 \in N
  <2> SUFFICES ASSUME NEW U \in SUBSET A, NEW z \in A \ U,
                      IsFiniteSet(U), Cardinality(U) = n + 1
               PROVE  UnitsOf(U \cup {z}) = UnitsOf(U) + z.remaining_qty
    OBVIOUS
  <2> DEFINE V == U \cup {z}
  <2>1. V \in SUBSET A /\ IsFiniteSet(V) /\ V # {}
    BY FS_AddElement
  <2>2. PICK y \in V : UnitsOf(V) = y.remaining_qty + UnitsOf(V \ {y})
    BY <1>0, <2>1, TallyStep
  <2>3. CASE y = z
    <3>1. V \ {y} = U
      BY <2>3
    <3>2. UnitsOf(U) \in Nat /\ z.remaining_qty \in Nat
      BY <1>0, TallyStep
    <3>3. UnitsOf(V) = z.remaining_qty + UnitsOf(U)
      BY <2>2, <2>3, <3>1, Zenon
    <3> QED
      BY <3>2, <3>3
  <2>4. CASE y # z
    <3> DEFINE W == U \ {y}
    <3>1. y \in U /\ W \in SUBSET A /\ IsFiniteSet(W) /\ z \in A \ W /\ y \in A \ W
      BY <2>4, FS_Subset
    <3>2. Cardinality(W) = n
      <4>1. Cardinality(W) = Cardinality(U) - 1
        BY <3>1, FS_RemoveElement
      <4> QED
        BY <4>1
    <3>3. V \ {y} = W \cup {z} /\ W \cup {y} = U
      BY <2>4, <3>1
    <3> HIDE DEF W
    <3>4. /\ UnitsOf(W \cup {z}) = UnitsOf(W) + z.remaining_qty
          /\ UnitsOf(W \cup {y}) = UnitsOf(W) + y.remaining_qty
      BY <1>2, <3>1, <3>2
    <3>5. UnitsOf(W) \in Nat /\ z.remaining_qty \in Nat /\ y.remaining_qty \in Nat
      BY <1>0, <3>1, TallyStep
    <3>6. UnitsOf(V) = y.remaining_qty + UnitsOf(W \cup {z})
      BY <2>2, <3>3, Zenon
    <3>7. UnitsOf(U) = UnitsOf(W \cup {y})
      BY <3>3, Zenon
    <3>8. UnitsOf(V) = UnitsOf(U) + z.remaining_qty
      <4> HIDE DEF V
      <4> QED
        BY <3>4, <3>5, <3>6, <3>7
    <3> QED
      BY <3>8
  <2> QED
    BY <2>3, <2>4
<1> HIDE DEF N
<1>3. Cardinality(S) \in N
  BY <1>1, <1>2, FS_CardinalityType, SetInduction
<1> QED
  BY <1>3 DEF N, A

\* In particular of orders.
LEMMA SumStep ==
    ASSUME NEW S \in SUBSET Order, IsFiniteSet(S)
    PROVE  /\ UnitsOf(S) \in Nat
           /\ S = {} => UnitsOf(S) = 0
           /\ S # {} =>
                 \E x \in S : UnitsOf(S) = x.remaining_qty + UnitsOf(S \ {x})
BY TallyStep, QtyAssumption DEF Order, Quantities

LEMMA SumWith ==
    ASSUME NEW S \in SUBSET Order, IsFiniteSet(S), NEW x \in Order \ S
    PROVE  UnitsOf(S \cup {x}) = UnitsOf(S) + x.remaining_qty
BY TallyWith, QtyAssumption DEF Order, Quantities

\* Division with remainder.
LEMMA Remainders ==
    ASSUME NEW M \in Nat \ {0}
    PROVE  /\ \A m \in Int : \E k \in Int : m = M * k + (m % M)
           /\ \A k \in Int : \A r \in 0 .. M - 1 : (M * k + r) % M = r
<1>1. ASSUME NEW m \in Int PROVE \E k \in Int : m = M * k + (m % M)
  <2>1. m \div M \in Int /\ m = M * (m \div M) + (m % M)
    OBVIOUS
  <2> QED
    BY <2>1
<1>2. ASSUME NEW k \in Int, NEW r \in 0 .. M - 1
      PROVE  (M * k + r) % M = r
  OBVIOUS
<1> QED
  BY <1>1, <1>2

\* Adding to a number that wraps at M.
LEMMA WrapAt ==
    ASSUME NEW M \in Nat \ {0}, NEW m \in Int, NEW n \in Int
    PROVE  ((m % M) + n) % M = (m + n) % M
<1> DEFINE r == m % M
           v == (r + n) % M
<1>1. r \in 0 .. M - 1 /\ v \in 0 .. M - 1
  OBVIOUS
<1>2. PICK k \in Int : m = M * k + r
  BY Remainders
<1> HIDE DEF r
<1>3. PICK l \in Int : r + n = M * l + v
  <2>1. r + n \in Int
    BY <1>1
  <2> QED
    BY <2>1, Remainders
<1> HIDE DEF v
<1>4. M * (k + l) = M * k + M * l /\ M * k \in Int /\ M * l \in Int
  OBVIOUS
<1>5. m + n = M * (k + l) + v
  BY <1>1, <1>2, <1>3, <1>4
<1>6. (M * (k + l) + v) % M = v
  BY <1>1, Remainders
<1>7. (m + n) % M = v
  BY <1>5, <1>6
<1> QED
  BY <1>7 DEF v, r

\* Adding to a machine word and taking away from it.
LEMMA WrapSum ==
    ASSUME NEW m \in Int, NEW n \in Int
    PROVE  ((m % QtySpace) + n) % QtySpace = (m + n) % QtySpace
BY WrapAt, QtyAssumption

LEMMA WrapDifference ==
    ASSUME NEW m \in Int, NEW n \in Int
    PROVE  ((m % QtySpace) - n) % QtySpace = (m - n) % QtySpace
<1>1. (m % QtySpace) - n = (m % QtySpace) + (0 - n) /\ m - n = m + (0 - n)
  BY QtyAssumption
<1>2. ((m % QtySpace) + (0 - n)) % QtySpace = (m + (0 - n)) % QtySpace
  BY WrapSum
<1> QED
  BY <1>1, <1>2

-----------------------------------------------------------------------------
(* The cached totals of the levels.                                        *)

\* The orders of a book are finitely many, each known by its identifier.
LEMMA RestingOrdersFinite ==
    ASSUME NEW b, NEW before, BookInv(b, before)
    PROVE  /\ RestingOrders(b) \subseteq Order
           /\ IsFiniteSet(RestingOrders(b))
           /\ \A x, y \in RestingOrders(b) : x.id = y.id => x = y
           /\ \A x \in RestingOrders(b) : x.id \in RestingIds(b)
<1> DEFINE S == RestingOrders(b)
           f == [o \in S |-> o.id]
<1>1. S \subseteq Order
  BY RestingFacts DEF RestingOrders, Occupied
<1>2. \A x \in S : x.id \in RestingIds(b) /\ x = OrderAt(b, b.order_slots[x.id])
  BY DEF RestingOrders, Occupied, BookInv, IndexOK, IdAt
<1> HIDE DEF S
<1>3. f \in Injection(S, RestingIds(b))
  BY <1>2 DEF Injection, IsInjective
<1>4. IsFiniteSet(S)
  <2> HIDE DEF f
  <2> QED
    BY <1>3, RestingIdsFinite, FS_Injection
<1>5. \A x, y \in S : x.id = y.id => x = y
  BY <1>2
<1> QED
  BY <1>1, <1>2, <1>4, <1>5 DEF S

\* An order leaves.
LEMMA DetachedSet ==
    ASSUME NEW b, NEW before, BookInv(b, before), NEW s \in Occupied(b)
    PROVE  RestingOrders(Detach(b, s)) = RestingOrders(b) \ {OrderAt(b, s)}
<1> DEFINE c == Detach(b, s)
<1>1. Occupied(c) = Occupied(b) \ {s}
  BY DetachArena
<1>2. \A t \in Occupied(c) : OrderAt(c, t) = OrderAt(b, t) /\ IdAt(b, t) # IdAt(b, s)
  BY DetachOrders
<1> HIDE DEF c
<1>3. RestingOrders(c) = {OrderAt(b, t) : t \in Occupied(b) \ {s}}
  BY <1>1, <1>2 DEF RestingOrders, Occupied
<1>4. \A t \in Occupied(b) \ {s} : OrderAt(b, t) # OrderAt(b, s)
  BY <1>1, <1>2 DEF IdAt
<1> QED
  BY <1>3, <1>4 DEF RestingOrders, Occupied, c

\* An order comes to rest.
LEMMA RestedSet ==
    ASSUME NEW b, NEW before, BookInv(b, before), NEW order, Restable(b, order)
    PROVE  RestingOrders(RestOrder(b, order)) = RestingOrders(b) \cup {order}
<1> DEFINE c == RestOrder(b, order)
<1>1. /\ Occupied(c) = Occupied(b) \cup {InsertSlot(b.arena)}
      /\ OrderAt(c, InsertSlot(b.arena)) = order
      /\ \A t \in Occupied(b) : OrderAt(c, t) = OrderAt(b, t)
      /\ InsertSlot(b.arena) \notin Occupied(b)
  BY RestArena
<1> HIDE DEF c
<1> QED
  BY <1>1 DEF RestingOrders, Occupied, c

\* An order is filled in part.
LEMMA ReducedSet ==
    ASSUME NEW b, NEW before, BookInv(b, before), NEW s \in Occupied(b),
           NEW traded \in Nat, traded < OrderAt(b, s).remaining_qty
    PROVE  RestingOrders(ConsumeMaker(b, s, traded)) =
              (RestingOrders(b) \ {OrderAt(b, s)}) \cup {Reduced(OrderAt(b, s), traded)}
<1> DEFINE c == ConsumeMaker(b, s, traded)
           maker == OrderAt(b, s)
           left == Reduced(maker, traded)
<1>1. /\ Occupied(c) = Occupied(b) /\ OrderAt(c, s) = left
      /\ \A t \in Occupied(b) : t # s => OrderAt(c, t) = OrderAt(b, t)
  BY PartialFacts
<1>2. \A t \in Occupied(b) \ {s} : OrderAt(b, t) # maker
  BY DEF BookInv, IndexOK, IdAt
<1> HIDE DEF c, left, maker
<1>3. RestingOrders(c) = {OrderAt(b, t) : t \in Occupied(b) \ {s}} \cup {left}
  BY <1>1 DEF RestingOrders, Occupied
<1>4. RestingOrders(b) \ {maker} = {OrderAt(b, t) : t \in Occupied(b) \ {s}}
  BY <1>2 DEF RestingOrders, Occupied, maker
<1> QED
  BY <1>3, <1>4 DEF c, left, maker

\* What a level holds, as a sum.
LEMMA LevelSums ==
    ASSUME NEW b, NEW before, BookInv(b, before), NEW side \in Sides, NEW price
    PROVE  LET S == OrdersAt(b, side, price)
           IN  /\ S \in SUBSET Order /\ IsFiniteSet(S)
               /\ UnitsOf(S) \in Nat
               /\ price \notin PricesOf(b, side) => S = {} /\ UnitsOf(S) = 0
<1> DEFINE S == OrdersAt(b, side, price)
<1>1. S \in SUBSET Order /\ IsFiniteSet(S)
  BY RestingOrdersFinite, FS_Subset DEF OrdersAt
<1>2. price \notin PricesOf(b, side) => S = {}
  BY RestingFacts DEF OrdersAt, RestingOrders, Occupied
<1> QED
  BY <1>1, <1>2, SumStep

LEMMA DetachDepth ==
    ASSUME NEW b, NEW before, BookInv(b, before), DepthOK(b), NEW s \in Occupied(b)
    PROVE  DepthOK(Detach(b, s))
<1> DEFINE c == Detach(b, s)
           o == OrderAt(b, s)
<1>1. /\ o \in Order /\ o.side \in Sides /\ o.price \in PricesOf(b, o.side)
      /\ o \in RestingOrders(b)
  BY RestingFacts DEF RestingOrders, Occupied
<1>2. /\ \A x \in Sides \ {o.side} : c.levels[x] = b.levels[x]
      /\ PricesOf(c, o.side) \subseteq PricesOf(b, o.side)
      /\ \A q \in PricesOf(c, o.side) \ {o.price} :
            c.levels[o.side][q] = b.levels[o.side][q]
      /\ o.price \in PricesOf(c, o.side) =>
            c.levels[o.side][o.price].total_quantity =
               (b.levels[o.side][o.price].total_quantity - o.remaining_qty) % QtySpace
  BY DetachLevels
<1>3. RestingOrders(c) = RestingOrders(b) \ {o}
  BY DetachedSet
<1> HIDE DEF c, o
<1> SUFFICES ASSUME NEW side \in Sides, NEW p \in PricesOf(c, side)
             PROVE  c.levels[side][p].total_quantity
                       = UnitsOf(OrdersAt(c, side, p)) % QtySpace
  BY DEF DepthOK, c
<1>4. CASE side = o.side /\ p = o.price
  <2> DEFINE S == OrdersAt(b, side, p)
             R == OrdersAt(c, side, p)
  <2>1. S = R \cup {o} /\ o \in Order \ R /\ R \subseteq S
    BY <1>1, <1>3, <1>4 DEF OrdersAt
  <2>2. S \in SUBSET Order /\ IsFiniteSet(S)
    BY LevelSums
  <2>3. b.levels[side][p].total_quantity = UnitsOf(S) % QtySpace
    BY <1>1, <1>4 DEF DepthOK
  <2> HIDE DEF S, R
  <2>4. R \in SUBSET Order /\ IsFiniteSet(R)
    BY <2>1, <2>2, FS_Subset
  <2>5. UnitsOf(S) = UnitsOf(R) + o.remaining_qty
    BY <2>1, <2>4, SumWith
  <2>6. UnitsOf(R) \in Nat /\ o.remaining_qty \in Nat
    BY <1>1, <2>4, SumStep, QtyAssumption DEF Order, Quantities
  <2>7. UnitsOf(S) \in Int /\ UnitsOf(S) - o.remaining_qty = UnitsOf(R)
    BY <2>5, <2>6
  <2>8. c.levels[side][p].total_quantity
          = ((UnitsOf(S) % QtySpace) - o.remaining_qty) % QtySpace
    BY <1>2, <1>4, <2>3
  <2>9. c.levels[side][p].total_quantity = UnitsOf(R) % QtySpace
    BY <2>6, <2>7, <2>8, WrapDifference
  <2> QED
    BY <2>9 DEF R
<1>5. CASE ~ (side = o.side /\ p = o.price)
  <2>1. OrdersAt(c, side, p) = OrdersAt(b, side, p)
    BY <1>3, <1>5 DEF OrdersAt
  <2>2. p \in PricesOf(b, side) /\ c.levels[side][p] = b.levels[side][p]
    BY <1>2, <1>5 DEF PricesOf
  <2> QED
    BY <2>1, <2>2 DEF DepthOK
<1> QED
  BY <1>4, <1>5

LEMMA RestDepth ==
    ASSUME NEW b, NEW before, BookInv(b, before), DepthOK(b),
           NEW order, Restable(b, order)
    PROVE  DepthOK(RestOrder(b, order))
<1> DEFINE c == RestOrder(b, order)
           old == LevelOrDefault(b, order.side, order.price)
<1>1. /\ order \in Order /\ order.side \in Sides /\ order.remaining_qty \in Nat
      /\ order \notin RestingOrders(b)
  BY RestingOrdersFinite, QtyAssumption DEF Restable, Order, Quantities
<1>2. /\ \A x \in Sides \ {order.side} : c.levels[x] = b.levels[x]
      /\ PricesOf(c, order.side) = PricesOf(b, order.side) \cup {order.price}
      /\ \A q \in PricesOf(b, order.side) \ {order.price} :
            c.levels[order.side][q] = b.levels[order.side][q]
      /\ c.levels[order.side][order.price].total_quantity =
            (old.total_quantity + order.remaining_qty) % QtySpace
  BY RestLevels
<1>3. RestingOrders(c) = RestingOrders(b) \cup {order}
  BY RestedSet
<1> HIDE DEF c
<1> SUFFICES ASSUME NEW side \in Sides, NEW p \in PricesOf(c, side)
             PROVE  c.levels[side][p].total_quantity
                       = UnitsOf(OrdersAt(c, side, p)) % QtySpace
  BY DEF DepthOK, c
<1>4. CASE side = order.side /\ p = order.price
  <2> DEFINE S == OrdersAt(b, side, p)
             R == OrdersAt(c, side, p)
  <2>1. R = S \cup {order} /\ order \in Order \ S
    BY <1>1, <1>3, <1>4 DEF OrdersAt
  <2>2. S \in SUBSET Order /\ IsFiniteSet(S) /\ UnitsOf(S) \in Nat
    BY LevelSums
  <2>3. old.total_quantity = UnitsOf(S) % QtySpace
    <3>1. CASE p \in PricesOf(b, side)
      BY <1>4, <3>1 DEF DepthOK, LevelOrDefault
    <3>2. CASE p \notin PricesOf(b, side)
      <4>1. UnitsOf(S) = 0
        BY <3>2, LevelSums
      <4>2. old.total_quantity = 0
        BY <1>4, <3>2 DEF LevelOrDefault, EmptyLevel
      <4> HIDE DEF S, old
      <4> QED
        BY <4>1, <4>2, QtyAssumption
    <3> QED
      BY <3>1, <3>2
  <2> HIDE DEF S, R, old
  <2>4. UnitsOf(R) = UnitsOf(S) + order.remaining_qty
    BY <2>1, <2>2, SumWith
  <2>5. c.levels[side][p].total_quantity
          = ((UnitsOf(S) % QtySpace) + order.remaining_qty) % QtySpace
    BY <1>2, <1>4, <2>3
  <2>6. UnitsOf(S) \in Int /\ order.remaining_qty \in Int
    BY <1>1, <2>2
  <2>7. c.levels[side][p].total_quantity = UnitsOf(R) % QtySpace
    BY <2>4, <2>5, <2>6, WrapSum
  <2> QED
    BY <2>7 DEF R
<1>5. CASE ~ (side = order.side /\ p = order.price)
  <2>1. OrdersAt(c, side, p) = OrdersAt(b, side, p)
    BY <1>3, <1>5 DEF OrdersAt
  <2>2. p \in PricesOf(b, side) /\ c.levels[side][p] = b.levels[side][p]
    BY <1>2, <1>5 DEF PricesOf
  <2> QED
    BY <2>1, <2>2 DEF DepthOK
<1> QED
  BY <1>4, <1>5

LEMMA PartialDepth ==
    ASSUME NEW b, NEW before, BookInv(b, before), DepthOK(b), NEW s \in Occupied(b),
           NEW traded \in Nat, traded < OrderAt(b, s).remaining_qty
    PROVE  DepthOK(ConsumeMaker(b, s, traded))
<1> DEFINE c == ConsumeMaker(b, s, traded)
           o == OrderAt(b, s)
           left == Reduced(o, traded)
<1>1. /\ o \in Order /\ o.side \in Sides /\ o.price \in PricesOf(b, o.side)
      /\ o \in RestingOrders(b) /\ o.remaining_qty \in Nat
  <2>1. o \in Order /\ o.side \in Sides /\ o.price \in PricesOf(b, o.side)
    BY RestingFacts
  <2>2. o \in RestingOrders(b)
    BY DEF RestingOrders, Occupied
  <2> HIDE DEF o
  <2>3. o.remaining_qty \in Nat
    BY <2>1, QtyAssumption DEF Order, Quantities
  <2> QED
    BY <2>1, <2>2, <2>3
<1>2. /\ left.side = o.side /\ left.price = o.price /\ left.id = o.id
      /\ left.remaining_qty = o.remaining_qty - traded
      /\ left.remaining_qty \in Nat /\ left \in Order
  <2>1. o.remaining_qty - traded \in Quantities /\ o.remaining_qty - traded \in Nat
    BY <1>1, QtyAssumption DEF Order, Quantities
  <2> HIDE DEF o
  <2> QED
    BY <1>1, <2>1 DEF Reduced, Order
<1>3. \A side \in Sides :
         /\ PricesOf(c, side) = PricesOf(b, side)
         /\ \A p \in PricesOf(b, side) :
               c.levels[side][p].total_quantity =
                  IF side = o.side /\ p = o.price
                    THEN (b.levels[side][p].total_quantity - traded) % QtySpace
                    ELSE b.levels[side][p].total_quantity
  BY PartialFacts
<1>4. RestingOrders(c) = (RestingOrders(b) \ {o}) \cup {left}
  BY ReducedSet
<1>5. \A x \in RestingOrders(b) \ {o} : x.id # o.id
  BY <1>1, RestingOrdersFinite
<1> HIDE DEF c, o, left
<1> SUFFICES ASSUME NEW side \in Sides, NEW p \in PricesOf(c, side)
             PROVE  c.levels[side][p].total_quantity
                       = UnitsOf(OrdersAt(c, side, p)) % QtySpace
  BY DEF DepthOK, c
<1>6. CASE side = o.side /\ p = o.price
  <2> DEFINE S == OrdersAt(b, side, p)
             R == OrdersAt(c, side, p)
             T == S \ {o}
  <2>1. S = T \cup {o} /\ o \in Order \ T /\ R = T \cup {left} /\ left \in Order \ T
    BY <1>1, <1>2, <1>4, <1>5, <1>6 DEF OrdersAt
  <2>2. S \in SUBSET Order /\ IsFiniteSet(S)
    BY LevelSums
  <2>3. b.levels[side][p].total_quantity = UnitsOf(S) % QtySpace
    BY <1>1, <1>6 DEF DepthOK
  <2>4. T \in SUBSET Order /\ IsFiniteSet(T)
    BY <2>2, FS_Subset
  <2> HIDE DEF S, R, T
  <2>5. /\ UnitsOf(T \cup {o}) = UnitsOf(T) + o.remaining_qty
        /\ UnitsOf(T \cup {left}) = UnitsOf(T) + left.remaining_qty
        /\ UnitsOf(T) \in Nat
    BY <1>1, <1>2, <2>1, <2>4, SumWith, SumStep
  <2>6. /\ UnitsOf(S) = UnitsOf(T) + o.remaining_qty
        /\ UnitsOf(R) = UnitsOf(T) + left.remaining_qty
    BY <2>1, <2>5, Zenon
  <2>7. UnitsOf(S) \in Int /\ traded \in Int /\ UnitsOf(S) - traded = UnitsOf(R)
    BY <1>1, <1>2, <2>5, <2>6
  <2>8. c.levels[side][p].total_quantity
          = ((UnitsOf(S) % QtySpace) - traded) % QtySpace
    BY <1>3, <1>6, <2>3
  <2>9. c.levels[side][p].total_quantity = UnitsOf(R) % QtySpace
    BY <2>7, <2>8, WrapDifference
  <2> QED
    BY <2>9 DEF R
<1>7. CASE ~ (side = o.side /\ p = o.price)
  <2>1. OrdersAt(c, side, p) = OrdersAt(b, side, p)
    BY <1>2, <1>4, <1>7 DEF OrdersAt
  <2>2. p \in PricesOf(b, side)
        /\ c.levels[side][p].total_quantity = b.levels[side][p].total_quantity
    BY <1>3, <1>7
  <2> QED
    BY <2>1, <2>2 DEF DepthOK
<1> QED
  BY <1>6, <1>7

-----------------------------------------------------------------------------
(* The walk of snapshot() along the links of a level.                      *)

IsWalk(f, b, level) ==
    f = [i \in 1 .. Len(b.arena.entries) |->
            IF i = 1 THEN level.head
            ELSE IF f[i - 1] = None THEN None
            ELSE b.arena.entries[f[i - 1]].next]

LEMMA WalkExists ==
    ASSUME NEW b, b.arena \in Arena, NEW level
    PROVE  \E f : IsWalk(f, b, level)
<1> DEFINE n == Len(b.arena.entries)
           Step(f, i) == IF i = 1 THEN level.head
                         ELSE IF f[i - 1] = None THEN None
                         ELSE b.arena.entries[f[i - 1]].next
           Begins(f, m) == f = [i \in 1 .. n |-> f[i]] /\
                           \A i \in 1 .. n : i <= m => f[i] = Step(f, i)
           S == {m \in Nat : \E f : Begins(f, m)}
<1>1. n \in Nat
  BY DEF Arena
<1> HIDE DEF n
<1>2. 0 \in S
  <2> DEFINE f == [i \in 1 .. n |-> 0]
  <2>1. f = [i \in 1 .. n |-> f[i]] /\ \A i \in 1 .. n : ~ (i <= 0)
    BY <1>1
  <2> HIDE DEF Step, f
  <2>2. Begins(f, 0)
    BY <2>1
  <2> HIDE DEF Begins
  <2> QED
    BY <2>2
<1>3. ASSUME NEW m \in Nat, m \in S PROVE m + 1 \in S
  <2>1. PICK f : Begins(f, m)
    BY <1>3, Zenon
  <2> DEFINE g == [i \in 1 .. n |-> IF i = m + 1 THEN Step(f, i) ELSE f[i]]
  <2>2. g = [i \in 1 .. n |-> g[i]]
    OBVIOUS
  <2>3. ASSUME NEW i \in 1 .. n, i <= m + 1 PROVE g[i] = Step(g, i)
    <3>1. i # 1 => i - 1 \in 1 .. n /\ i - 1 # m + 1
      BY <1>1, <2>3
    <3>2. i # 1 => g[i - 1] = f[i - 1]
      BY <3>1
    <3>3. Step(g, i) = Step(f, i)
      <4> HIDE DEF g
      <4> QED
        BY <3>2
    <3>4. g[i] = Step(f, i)
      <4> HIDE DEF Step
      <4>1. i # m + 1 => i <= m
        BY <1>1, <2>3
      <4> QED
        BY <2>1, <4>1
    <3> QED
      BY <3>3, <3>4
  <2> HIDE DEF g, Step
  <2>4. Begins(g, m + 1)
    BY <2>2, <2>3
  <2> HIDE DEF Begins
  <2> QED
    BY <2>4
<1> HIDE DEF S
<1>4. n \in S
  BY <1>1, <1>2, <1>3, SetInduction
<1>5. PICK f : Begins(f, n)
  BY <1>4, Zenon DEF S
<1>6. f = [i \in 1 .. n |-> Step(f, i)]
  <2> HIDE DEF Step
  <2>1. \A i \in 1 .. n : f[i] = Step(f, i)
    BY <1>1, <1>5
  <2> QED
    BY <1>5, <2>1
<1> QED
  BY <1>6, Zenon DEF IsWalk, n

LEMMA LevelSlotsWalk ==
    ASSUME NEW b, b.arena \in Arena, NEW level
    PROVE  \E f : /\ IsWalk(f, b, level)
                  /\ LevelSlots(b, level) =
                        [i \in {j \in 1 .. Len(b.arena.entries) : f[j] # None} |-> f[i]]
<1> DEFINE F == CHOOSE f : IsWalk(f, b, level)
<1>1. IsWalk(F, b, level)
  BY WalkExists
<1>2. LevelSlots(b, level) =
         [i \in {j \in 1 .. Len(b.arena.entries) : F[j] # None} |-> F[i]]
  BY DEF LevelSlots, IsWalk
<1> HIDE DEF F
<1> QED
  BY <1>1, <1>2

\* Slots in order of arrival.
LEMMA SlotOrder ==
    ASSUME NEW b, NEW before, BookInv(b, before)
    PROVE  LET Precedes(x, y) == <<IdAt(b, x), IdAt(b, y)>> \in before
           IN  /\ \A x \in Occupied(b) : ~ Precedes(x, x)
               /\ \A x, y, z \in Occupied(b) :
                     Precedes(x, y) /\ Precedes(y, z) => Precedes(x, z)
<1>1. \A x \in Occupied(b) : IdAt(b, x) \in RestingIds(b)
  BY RestingFacts
<1>2. ArrivalOrder(b, before)
  BY DEF BookInv
<1> QED
  BY <1>1, <1>2 DEF ArrivalOrder

\* The walk visits the orders of the level, in order of arrival, and leaves
\* none out: it stops before the arena has more slots than it took steps.
LEMMA WalkVisits ==
    ASSUME NEW b, NEW before, BookInv(b, before),
           NEW side \in Sides, NEW p \in PricesOf(b, side),
           NEW f, IsWalk(f, b, b.levels[side][p])
    PROVE  LET n == Len(b.arena.entries)
           IN  /\ \A i \in 1 .. n : f[i] # None => Stands(b, f[i], side, p)
               /\ \A i, j \in 1 .. n : i < j /\ f[j] # None =>
                     f[i] # None /\ <<IdAt(b, f[i]), IdAt(b, f[j])>> \in before
               /\ \A u : Stands(b, u, side, p) => \E i \in 1 .. n : f[i] = u
<1> DEFINE n == Len(b.arena.entries)
           L == {u \in Occupied(b) : Stands(b, u, side, p)}
           Precedes(x, y) == <<IdAt(b, x), IdAt(b, y)>> \in before
           head == b.levels[side][p].head
           Follower(s) == b.arena.entries[s].next
           Reached(m) == /\ \A j \in 1 .. n : j <= m => f[j] \in L \cup {None}
                         /\ \A j \in 1 .. n : j < m /\ f[m] # None =>
                               f[j] # None /\ Precedes(f[j], f[m])
                         /\ \A u \in L : \/ \E j \in 1 .. n : j <= m /\ f[j] = u
                                         \/ f[m] # None /\ Precedes(f[m], u)
           S == {m \in Nat : m + 1 <= n => Reached(m + 1)}
<1>1. /\ n \in Nat /\ Occupied(b) \subseteq 1 .. n /\ None \notin Occupied(b)
      /\ b.arena \in Arena
  <2>1. b.arena \in Arena
    BY DEF BookInv, IsBook
  <2> QED
    BY <2>1, NoneIsNoSlot DEF Arena, Occupied, OccupiedSlots, SlotsOf
<1>2. /\ \A x \in L : ~ Precedes(x, x)
      /\ \A x, y, z \in L : Precedes(x, y) /\ Precedes(y, z) => Precedes(x, z)
  BY SlotOrder
<1>3. \A s, u \in L : SameLevel(b, s, u)
  BY DEF SameLevel, Stands
<1>4. /\ head \in L
      /\ \A u \in L : u = head \/ Precedes(head, u)
  <2>1. Stands(b, head, side, p) /\ b.arena.entries[head].prev = None
    BY DEF BookInv, LevelsOK
  <2>2. head \in L
    BY <2>1 DEF Stands
  <2> HIDE DEF head, L
  <2>3. head \in Occupied(b) /\ L \subseteq Occupied(b)
    BY <2>2 DEF L
  <2> QED
    BY <1>3, <2>1, <2>2, <2>3 DEF BookInv, LinksOK
<1>5. ASSUME NEW s \in L
      PROVE  /\ Follower(s) = None => \A u \in L : u = s \/ Precedes(u, s)
             /\ Follower(s) # None =>
                   /\ Follower(s) \in L /\ Precedes(s, Follower(s))
                   /\ \A u \in L : \/ u = s \/ u = Follower(s)
                                   \/ Precedes(u, s) \/ Precedes(Follower(s), u)
  <2>1. s \in Occupied(b) /\ L \subseteq Occupied(b)
    OBVIOUS
  <2>2. Follower(s) # None => SameLevel(b, s, Follower(s))
    BY <2>1 DEF BookInv, LinksOK
  <2>3. Follower(s) # None => Follower(s) \in L
    BY <2>2 DEF SameLevel, Stands
  <2> HIDE DEF L
  <2> QED
    BY <1>3, <2>1, <2>3 DEF BookInv, LinksOK
<1>6. /\ \A i \in 1 .. n : f[i] = IF i = 1 THEN head
                                  ELSE IF f[i - 1] = None THEN None ELSE Follower(f[i - 1])
  <2> DEFINE G(i) == IF i = 1 THEN head
                     ELSE IF f[i - 1] = None THEN None ELSE Follower(f[i - 1])
  <2>1. f = [i \in 1 .. n |-> G(i)]
    BY Zenon DEF IsWalk
  <2> HIDE DEF G
  <2>2. \A i \in 1 .. n : f[i] = G(i)
    BY <2>1, Zenon
  <2> QED
    BY <2>2 DEF G
<1> HIDE DEF L, n, head, Follower, Precedes
<1>7. 0 \in S
  <2> SUFFICES ASSUME 1 <= n PROVE Reached(1)
    OBVIOUS
  <2>1. /\ 1 \in 1 .. n /\ f[1] = head
        /\ \A j \in 1 .. n : (j <= 1 => j = 1) /\ ~ (j < 1)
    BY <1>1, <1>6
  <2>2. f[1] # None /\ f[1] \in L
    BY <1>1, <1>4, <2>1 DEF L
  <2>3. \A j \in 1 .. n : j <= 1 => f[j] \in L \cup {None}
    BY <2>1, <2>2
  <2>4. \A u \in L : \/ \E j \in 1 .. n : j <= 1 /\ f[j] = u
                     \/ f[1] # None /\ Precedes(f[1], u)
    BY <1>4, <2>1, <2>2
  <2> QED
    BY <2>1, <2>3, <2>4
<1>8. ASSUME NEW m \in Nat, m \in S PROVE m + 1 \in S
  <2> SUFFICES ASSUME (m + 1) + 1 <= n PROVE Reached((m + 1) + 1)
    OBVIOUS
  <2> DEFINE k == m + 1
  <2>1. /\ k \in 1 .. n /\ k + 1 \in 1 .. n /\ k + 1 # 1 /\ (k + 1) - 1 = k
        /\ m + 1 <= n
    BY <1>1
  <2>2. Reached(k)
    BY <1>8, <2>1
  <2>3. f[k + 1] = IF f[k] = None THEN None ELSE Follower(f[k])
    BY <1>6, <2>1
  <2>4. \A j \in 1 .. n : (j <= k + 1 <=> j <= k \/ j = k + 1) /\ (j < k + 1 <=> j <= k)
                          /\ (j <= k <=> j < k \/ j = k)
    BY <1>1, <2>1
  <2> HIDE DEF k
  <2>5. CASE f[k] = None
    <3>1. f[k + 1] = None
      BY <2>3, <2>5
    <3> QED
      BY <2>2, <2>4, <2>5, <3>1 DEF k
  <2>6. CASE f[k] # None
    <3>1. f[k] \in L /\ f[k + 1] = Follower(f[k])
      BY <2>1, <2>2, <2>3, <2>4, <2>6
    <3>2. \A j \in 1 .. n : j <= k + 1 => f[j] \in L \cup {None}
      BY <1>5, <2>2, <2>4, <3>1
    <3>3. ASSUME NEW j \in 1 .. n, j < k + 1, f[k + 1] # None
          PROVE  f[j] # None /\ Precedes(f[j], f[k + 1])
      <4>1. f[k + 1] \in L /\ Precedes(f[k], f[k + 1])
        BY <1>5, <3>1, <3>3
      <4>2. CASE j = k
        BY <2>6, <4>1, <4>2
      <4>3. CASE j < k
        <5>1. f[j] # None /\ Precedes(f[j], f[k]) /\ f[j] \in L
          BY <2>2, <2>4, <2>6, <4>3
        <5> QED
          BY <1>2, <3>1, <4>1, <5>1
      <4> QED
        BY <2>4, <3>3, <4>2, <4>3
    <3>4. ASSUME NEW u \in L
          PROVE  \/ \E j \in 1 .. n : j <= k + 1 /\ f[j] = u
                 \/ f[k + 1] # None /\ Precedes(f[k + 1], u)
      <4>1. CASE \E j \in 1 .. n : j <= k /\ f[j] = u
        BY <2>4, <4>1
      <4>2. CASE ~ \E j \in 1 .. n : j <= k /\ f[j] = u
        <5>1. Precedes(f[k], u) /\ u # f[k]
          BY <2>1, <2>2, <2>4, <4>2 DEF k
        <5>2. ~ Precedes(u, f[k])
          BY <1>2, <3>1, <5>1
        <5>3. f[k + 1] # None /\ (u = f[k + 1] \/ Precedes(f[k + 1], u))
          BY <1>5, <3>1, <5>1, <5>2
        <5> QED
          BY <2>1, <2>4, <5>3 DEF k
      <4> QED
        BY <4>1, <4>2
    <3> QED
      BY <3>2, <3>3, <3>4 DEF k
  <2> QED
    BY <2>5, <2>6
<1> HIDE DEF S
<1>9. \A m \in 1 .. n : Reached(m)
  <2> SUFFICES ASSUME NEW m \in 1 .. n PROVE Reached(m)
    OBVIOUS
  <2>1. m - 1 \in Nat /\ (m - 1) + 1 = m /\ m <= n
    BY <1>1
  <2>2. m - 1 \in S
    BY <1>7, <1>8, <2>1, SetInduction
  <2> HIDE DEF Reached
  <2> QED
    BY <2>1, <2>2 DEF S
<1>10. \A i \in 1 .. n : f[i] # None => Stands(b, f[i], side, p)
  BY <1>9 DEF L
<1>11. \A i, j \in 1 .. n : i < j /\ f[j] # None => f[i] # None /\ Precedes(f[i], f[j])
  BY <1>9
<1>12. \A u \in L : \E i \in 1 .. n : f[i] = u
  <2> SUFFICES ASSUME NEW u \in L, \A i \in 1 .. n : f[i] # u PROVE FALSE
    OBVIOUS
  <2> DEFINE T == (1 .. n) \ {u}
             g == [i \in 1 .. n |-> f[i]]
  <2>1. u \in 1 .. n /\ n \in 1 .. n
    BY <1>1 DEF L
  <2>2. f[n] # None
    BY <1>9, <2>1
  <2>3. \A i \in 1 .. n : f[i] # None
    BY <1>1, <1>11, <2>1, <2>2
  <2>4. \A i \in 1 .. n : f[i] \in L /\ f[i] \in T
    BY <1>1, <1>9, <2>3 DEF L
  <2>5. \A i, j \in 1 .. n : f[i] = f[j] => i = j
    <3> SUFFICES ASSUME NEW i \in 1 .. n, NEW j \in 1 .. n, f[i] = f[j], i < j PROVE FALSE
      BY <1>1
    <3> QED
      BY <1>2, <1>11, <2>3, <2>4
  <2>6. g \in Injection(1 .. n, T)
    BY <2>4, <2>5 DEF Injection, IsInjective
  <2>7. IsFiniteSet(1 .. n) /\ Cardinality(1 .. n) = n
    BY <1>1, <2>1, FS_Interval
  <2>8. IsFiniteSet(T) /\ Cardinality(T) = n - 1
    BY <2>1, <2>7, FS_RemoveElement
  <2> HIDE DEF T, g
  <2>9. Cardinality(1 .. n) <= Cardinality(T)
    BY <2>6, <2>8, FS_Injection
  <2> QED
    BY <1>1, <2>7, <2>8, <2>9
<1>13. \A u : Stands(b, u, side, p) => u \in L
  BY DEF L, Stands
<1> QED
  BY <1>10, <1>11, <1>12, <1>13 DEF n, Precedes

\* Snapshot of one level.
LEMMA LevelOrdersFacts ==
    ASSUME NEW b, NEW before, BookInv(b, before),
           NEW side \in Sides, NEW p \in PricesOf(b, side)
    PROVE  LET queue == LevelOrders(b, b.levels[side][p])
           IN  /\ DOMAIN queue \subseteq Nat /\ IsFiniteSet(DOMAIN queue)
               /\ {queue[i] : i \in DOMAIN queue} = OrdersAt(b, side, p)
               /\ \A i, j \in DOMAIN queue :
                     i < j => <<queue[i].id, queue[j].id>> \in before
<1> DEFINE level == b.levels[side][p]
           queue == LevelOrders(b, level)
           n == Len(b.arena.entries)
<1>1. b.arena \in Arena
  BY DEF BookInv, IsBook
<1>2. PICK f : /\ IsWalk(f, b, level)
               /\ LevelSlots(b, level) = [i \in {j \in 1 .. n : f[j] # None} |-> f[i]]
  BY <1>1, LevelSlotsWalk
<1>3. /\ \A i \in 1 .. n : f[i] # None => Stands(b, f[i], side, p)
      /\ \A i, j \in 1 .. n : i < j /\ f[j] # None =>
            f[i] # None /\ <<IdAt(b, f[i]), IdAt(b, f[j])>> \in before
      /\ \A u : Stands(b, u, side, p) => \E i \in 1 .. n : f[i] = u
  BY <1>2, WalkVisits
<1> DEFINE D == {j \in 1 .. n : f[j] # None}
<1>4. queue = [i \in D |-> OrderAt(b, f[i])]
  <2> HIDE DEF level
  <2> QED
    BY <1>2 DEF LevelOrders
<1>5. \A u \in Occupied(b) : u # None
  BY RestingFacts
<1> HIDE DEF queue, level
<1>6. {queue[i] : i \in DOMAIN queue} \subseteq OrdersAt(b, side, p)
  BY <1>3, <1>4 DEF OrdersAt, RestingOrders, Occupied, Stands
<1>7. OrdersAt(b, side, p) \subseteq {queue[i] : i \in DOMAIN queue}
  <2> SUFFICES ASSUME NEW u \in Occupied(b), Stands(b, u, side, p)
               PROVE  \E i \in DOMAIN queue : queue[i] = OrderAt(b, u)
    BY DEF OrdersAt, RestingOrders, Occupied, Stands
  <2>1. PICK i \in 1 .. n : f[i] = u
    BY <1>3
  <2> QED
    BY <1>4, <1>5, <2>1
<1>8. \A i, j \in DOMAIN queue : i < j => <<queue[i].id, queue[j].id>> \in before
  BY <1>3, <1>4 DEF IdAt
<1>9. DOMAIN queue \subseteq Nat /\ IsFiniteSet(DOMAIN queue)
  <2>1. n \in Nat
    BY <1>1 DEF Arena
  <2>2. DOMAIN queue \subseteq 1 .. n
    BY <1>4
  <2>3. IsFiniteSet(1 .. n)
    BY <2>1, FS_Interval
  <2> QED
    BY <2>1, <2>2, <2>3, FS_Subset
<1> QED
  BY <1>6, <1>7, <1>8, <1>9 DEF queue, level

-----------------------------------------------------------------------------
(* The engine.                                                             *)

Inductive ==
    /\ TypeOK
    /\ BookInv(book, older)
    /\ IndexMatchesArena
    /\ Uncrossed

-----------------------------------------------------------------------------
(* Events, orders and sequences of them.                                   *)

LEMMA QuantityFacts ==
    /\ \A q \in Quantities : q \in Nat /\ (q # 0 <=> q > 0)
    /\ \A q, r \in Quantities : r <= q => q - r \in Quantities
    /\ \A q, r \in Quantities : /\ Lesser(q, r) \in Quantities
                                /\ Lesser(q, r) <= q /\ Lesser(q, r) <= r
                                /\ q # 0 /\ r # 0 => Lesser(q, r) # 0
BY QtyAssumption DEF Quantities, Lesser

LEMMA SingleEvents ==
    /\ \A order \in Order : AcceptedEvents(order) \in Seq(BookEvent)
    /\ \A order \in Order : ModifiedEvents(order) \in Seq(BookEvent)
    /\ \A id \in OrderIds : CancelledEvents(id) \in Seq(BookEvent)
<1>1. \A order \in Order :
        /\ [kind |-> "OrderAccepted", order |-> order] \in BookEvent
        /\ [kind |-> "OrderModified", order_id |-> order.id,
            new_price |-> order.price, new_quantity |-> order.remaining_qty] \in BookEvent
  BY DEF BookEvent, Order
<1>2. \A id \in OrderIds : [kind |-> "OrderCancelled", order_id |-> id] \in BookEvent
  BY DEF BookEvent
<1>3. \A e \in BookEvent : \A modes : Logged(modes, e) \in Seq(BookEvent)
  BY DEF Logged
<1> QED
  BY <1>1, <1>2, <1>3 DEF AcceptedEvents, ModifiedEvents, CancelledEvents

LEMMA TradeEventsType ==
    ASSUME NEW trades \in Seq(Trade)
    PROVE  TradeEvents(trades) \in Seq(BookEvent)
<1>1. \A i \in DOMAIN trades :
        [kind |-> "TradeExecuted", trade |-> trades[i]] \in BookEvent
  BY DEF BookEvent
<1>2. [i \in DOMAIN trades |-> [kind |-> "TradeExecuted", trade |-> trades[i]]]
        \in Seq(BookEvent)
  BY <1>1
<1> QED
  BY <1>2 DEF TradeEvents

LEMMA FinishEventsType ==
    ASSUME NEW c \in Call
    PROVE  FinishEvents(c) \in Seq(BookEvent)
<1>1. c.order \in Order /\ c.trades \in Seq(Trade)
  BY DEF Call
<1>2. TradeEvents(c.trades) \in Seq(BookEvent)
  BY <1>1, TradeEventsType
<1>3. ModifiedEvents(c.order) \in Seq(BookEvent) /\ << >> \in Seq(BookEvent)
  BY <1>1, SingleEvents
<1> QED
  BY <1>2, <1>3 DEF FinishEvents

LEMMA StartType ==
    ASSUME NEW order \in Order, NEW kind \in {"Add", "Modify"}
    PROVE  /\ StartMatching(kind, order) \in Call
           /\ StartMatching(kind, order).incoming = order
           /\ StartMatching(kind, order).order = order
BY DEF StartMatching, Call

\* The order of arrival relates identifiers of orders.
LEMMA OlderType ==
    ASSUME NEW b, NEW before, BookInv(b, before)
    PROVE  before \subseteq OrderIds \X OrderIds
BY RestingIdsFinite DEF BookInv, ArrivalOrder

-----------------------------------------------------------------------------
(* The initial state.                                                      *)

LEMMA EmptyBookInv == BookInv(EmptyBook, {})
<1> DEFINE b == EmptyBook
<1>1. /\ b.levels = [side \in Sides |-> EmptyMap]
      /\ b.arena = EmptyArena /\ b.order_slots = EmptyMap
      /\ b = [levels |-> b.levels, arena |-> b.arena, order_slots |-> b.order_slots]
  BY DEF EmptyBook
<1>2. \A S, T : IsPartialMap(EmptyMap, S, T) /\ DOMAIN EmptyMap = {}
  BY DEF IsPartialMap, EmptyMap
<1>3. /\ b.arena \in Arena /\ Len(b.arena.entries) = 0
      /\ b.arena.len = 0 /\ b.arena.free_head = None
  BY <1>1 DEF EmptyArena, Arena, Option
<1>4. SlotsOf(b.arena) = {} /\ Occupied(b) = {} /\ VacantSlots(b.arena) = {}
  BY <1>3 DEF SlotsOf, Occupied, OccupiedSlots, VacantSlots
<1>5. RestingIds(b) = {} /\ \A side \in Sides : PricesOf(b, side) = {}
  BY <1>1, <1>2 DEF RestingIds, PricesOf
<1> HIDE DEF b
<1>6. IsBook(b)
  BY <1>1, <1>2, <1>3 DEF IsBook
<1>7. FreeListOK(b)
  <2> DEFINE chain == [i \in 1 .. 0 |-> 1]
  <2>1. chain \in [1 .. 0 -> VacantSlots(b.arena)]
    BY <1>4
  <2>2. IsFreeChain(b.arena, 0, chain)
    BY <1>3 DEF IsFreeChain
  <2>3. /\ \A i, j \in 1 .. 0 : chain[i] = chain[j] => i = j
        /\ \A v \in VacantSlots(b.arena) : \E i \in 1 .. 0 : chain[i] = v
    BY <1>4
  <2>4. 0 >= 0
    OBVIOUS
  <2> HIDE DEF chain
  <2>5. IsFreeList(b.arena, 0)
    BY <2>1, <2>2, <2>3, <2>4, Zenon DEF IsFreeList
  <2>6. Len(b.arena.entries) - b.arena.len = 0
    BY <1>3
  <2> QED
    BY <2>5, <2>6 DEF FreeListOK
<1>8. b.arena.len = Cardinality(RestingIds(b)) /\ Len(b.arena.entries) <= SlotSpace
  BY <1>3, <1>5, FS_EmptySet, SlotAssumption
<1>9. IndexOK(b) /\ LevelsOK(b) /\ LinksOK(b, {}) /\ ArrivalOrder(b, {})
  BY <1>4, <1>5 DEF IndexOK, LevelsOK, LinksOK, ArrivalOrder
<1> QED
  BY <1>6, <1>7, <1>8, <1>9 DEF BookInv, b

THEOREM InitInductive == Init => Inductive
<1> SUFFICES ASSUME Init PROVE Inductive
  OBVIOUS
<1>1. BookInv(book, older)
  BY EmptyBookInv DEF Init
<1>2. TypeOK
  BY <1>1 DEF Init, TypeOK, BookInv
<1>3. RestingIds(book) = {} /\ \A side \in Sides : PricesOf(book, side) = {}
  BY DEF Init, EmptyBook, EmptyMap, RestingIds, PricesOf
<1>4. IndexMatchesArena
  BY <1>1, <1>3 DEF Init, IndexMatchesArena, BookInv
<1>5. Uncrossed
  BY <1>3 DEF Uncrossed, Sides
<1> QED
  BY <1>1, <1>2, <1>4, <1>5 DEF Inductive

-----------------------------------------------------------------------------
(* The steps.                                                              *)

LEMMA DetachPrices ==
    ASSUME NEW b, NEW before, BookInv(b, before), NEW s \in Occupied(b),
           NEW side \in Sides
    PROVE  PricesOf(Detach(b, s), side) \subseteq PricesOf(b, side)
<1> DEFINE c == Detach(b, s)
           own == OrderAt(b, s).side
           price == OrderAt(b, s).price
<1>1. /\ \A x \in Sides \ {own} : c.levels[x] = b.levels[x]
      /\ \/ PricesOf(c, own) = PricesOf(b, own) \ {price}
         \/ PricesOf(c, own) = PricesOf(b, own)
  BY DetachLevels
<1>2. CASE side = own
  BY <1>1, <1>2
<1>3. CASE side # own
  BY <1>1, <1>3 DEF PricesOf
<1> QED
  BY <1>2, <1>3

\* A resting order leaves: cancel, modify and a full fill.
LEMMA LeaveStep ==
    ASSUME Inductive, NEW s \in Occupied(book),
           book' = Detach(book, s), older' = Leaves(IdAt(book, s))
    PROVE  /\ BookInv(book', older')
           /\ RestingIds(book') = RestingIds(book) \ {IdAt(book, s)}
           /\ Uncrossed'
<1>1. BookInv(book, older)
  BY DEF Inductive
<1>2. older' = LeftBehind(older, IdAt(book, s))
  BY DEF Leaves, LeftBehind
<1>3. BookInv(book', older')
  BY <1>1, <1>2, DetachPreserves
<1>4. RestingIds(book') = RestingIds(book) \ {IdAt(book, s)}
  BY <1>1, DetachIndex
<1>5. \A side \in Sides : PricesOf(book', side) \subseteq PricesOf(book, side)
  BY <1>1, DetachPrices
<1>6. Uncrossed'
  BY <1>5 DEF Inductive, Uncrossed, Sides
<1> QED
  BY <1>3, <1>4, <1>6

LEMMA RejectStep ==
    ASSUME Inductive, NEW error \in Errors, Reject(error)
    PROVE  Inductive'
<1>1. TypeOK'
  BY DEF Inductive, Reject, TypeOK
<1> QED
  BY <1>1 DEF Inductive, Reject, IndexMatchesArena, Uncrossed

LEMMA AddStep ==
    ASSUME Inductive, NEW order \in Order, AddOrder(order)
    PROVE  Inductive'
<1>1. /\ seen_order_ids' = seen_order_ids \cup {order.id}
      /\ events' = events \o AcceptedEvents(order)
      /\ call' = StartMatching("Add", order)
      /\ book' = book /\ result' = result /\ older' = older
      /\ order.id \notin seen_order_ids
  BY DEF AddOrder
<1>2. order.id \in OrderIds /\ AcceptedEvents(order) \in Seq(BookEvent)
  BY SingleEvents DEF Order
<1>3. call' \in Call /\ call'.incoming = order /\ call'.order = order
  BY <1>1, StartType
<1>4. events' \in Seq(BookEvent)
  BY <1>1, <1>2 DEF Inductive, TypeOK
<1>5. TypeOK'
  BY <1>1, <1>2, <1>3, <1>4 DEF Inductive, TypeOK
<1>6. IndexMatchesArena'
  BY <1>1, <1>3 DEF Inductive, IndexMatchesArena
<1> QED
  BY <1>1, <1>5, <1>6 DEF Inductive, Uncrossed

LEMMA CancelStep ==
    ASSUME Inductive, NEW id \in OrderIds, CancelOrder(id)
    PROVE  Inductive'
<1> DEFINE s == book.order_slots[id]
<1>1. s \in Occupied(book) /\ IdAt(book, s) = id
  BY DEF CancelOrder, Inductive, BookInv, IndexOK
<1>2. /\ book' = Detach(book, s) /\ older' = Leaves(IdAt(book, s))
      /\ events' = events \o CancelledEvents(id)
      /\ result' = "Ok" /\ seen_order_ids' = seen_order_ids
      /\ call' = call /\ call = None
  BY <1>1 DEF CancelOrder, RemoveOrderById, Idle
<1> HIDE DEF s
<1>3. /\ BookInv(book', older')
      /\ RestingIds(book') = RestingIds(book) \ {id}
      /\ Uncrossed'
  BY <1>1, <1>2, LeaveStep
<1>4. events' \in Seq(BookEvent)
  BY <1>2, SingleEvents DEF Inductive, TypeOK
<1>5. TypeOK'
  BY <1>2, <1>3, <1>4, OlderType DEF Inductive, TypeOK, BookInv
<1>6. IndexMatchesArena'
  BY <1>2, <1>3 DEF Inductive, IndexMatchesArena, BookInv
<1> QED
  BY <1>3, <1>5, <1>6 DEF Inductive

LEMMA ModifyStep ==
    ASSUME Inductive, NEW id \in OrderIds, NEW price \in Prices,
           NEW quantity \in Quantities, ModifyOrder(id, price, quantity)
    PROVE  Inductive'
<1> DEFINE s == book.order_slots[id]
           order == NewOrder(id, OrderAt(book, s).side, price, quantity)
<1>0. id \in RestingIds(book)
  BY DEF ModifyOrder
<1>1. s \in Occupied(book) /\ IdAt(book, s) = id
  BY <1>0 DEF Inductive, BookInv, IndexOK
<1>2. /\ book' = Detach(book, s) /\ older' = Leaves(IdAt(book, s))
      /\ call' = StartMatching("Modify", order)
      /\ result' = result /\ seen_order_ids' = seen_order_ids /\ events' = events
  BY <1>1 DEF ModifyOrder, RemoveOrderById
<1>3. order \in Order /\ order.id = id
  <2>1. OrderAt(book, s).side \in Sides
    BY <1>1, RestingFacts DEF Inductive
  <2> QED
    BY <2>1 DEF NewOrder, Order
<1> HIDE DEF s, order
<1>4. /\ BookInv(book', older')
      /\ RestingIds(book') = RestingIds(book) \ {id}
      /\ Uncrossed'
  BY <1>1, <1>2, LeaveStep
<1>5. call' \in Call /\ call'.incoming = order /\ call'.order = order
  BY <1>2, <1>3, StartType
<1>6. TypeOK'
  BY <1>2, <1>4, <1>5, OlderType DEF Inductive, TypeOK, BookInv
<1>7. id \in seen_order_ids
  BY <1>0 DEF Inductive, IndexMatchesArena
<1>8. IndexMatchesArena'
  BY <1>2, <1>3, <1>4, <1>5, <1>7 DEF Inductive, IndexMatchesArena, BookInv
<1> QED
  BY <1>4, <1>6, <1>8 DEF Inductive

\* What FillStep trades with: the oldest order of the best contra level.
LEMMA FillFacts ==
    ASSUME Inductive, FillStep
    PROVE  LET incoming == call.incoming
               contra == Opposite(incoming.side)
               price == BestPrice(book, contra)
               s == BestMakerSlot(book, incoming)
               resting == OrderAt(book, s)
               traded == Lesser(incoming.remaining_qty, resting.remaining_qty)
           IN  /\ call \in Call /\ incoming \in Order /\ resting \in Order
               /\ contra \in Sides /\ IsBestPrice(book, contra, price)
               /\ Crosses(incoming, price)
               /\ Stands(book, s, contra, price)
               /\ book.arena.entries[s].prev = None
               /\ traded \in Nat /\ traded > 0
               /\ traded <= resting.remaining_qty
               /\ traded <= incoming.remaining_qty
               /\ traded \in Quantities
               /\ price \in Prices
               /\ book' = ConsumeMaker(book, s, traded)
               /\ call' = [call EXCEPT
                     !.incoming.remaining_qty = @ - traded,
                     !.trades = Append(@, NewTrade(resting.id, incoming.id,
                                                   price, traded))]
               /\ older' = IF traded = resting.remaining_qty
                             THEN Leaves(resting.id) ELSE older
               /\ UNCHANGED <<seen_order_ids, events, result>>
<1> DEFINE incoming == call.incoming
           contra == Opposite(incoming.side)
           price == BestPrice(book, contra)
           s == BestMakerSlot(book, incoming)
           resting == OrderAt(book, s)
           traded == Lesser(incoming.remaining_qty, resting.remaining_qty)
<1>1. BookInv(book, older) /\ call \in Call /\ CanTrade(incoming)
  BY DEF Inductive, TypeOK, FillStep
<1>2. incoming \in Order /\ incoming.remaining_qty # 0
  BY <1>1 DEF Call, CanTrade, IsFilled
<1>3. PICK p \in PricesOf(book, contra) : IsBestPrice(book, contra, p) /\ Crosses(incoming, p)
  BY <1>1 DEF CanTrade
<1>4. /\ contra \in Sides /\ IsBestPrice(book, contra, price)
      /\ Stands(book, s, contra, price)
      /\ book.arena.entries[s].prev = None
  BY <1>1, <1>2, <1>3, BestMaker
<1>5. p = price /\ price \in PricesOf(book, contra)
  <2>1. PricesOf(book, contra) \subseteq Nat
    BY <1>1, <1>4, PricesFinite
  <2> HIDE DEF contra, price
  <2> QED
    BY <1>3, <1>4, <2>1 DEF IsBestPrice, Outranks
<1>6. price \in Prices
  BY <1>1, <1>4, <1>5 DEF BookInv, IsBook, IsPartialMap, PricesOf
<1>7. resting \in Order /\ resting.remaining_qty # 0
  <2>1. s \in Occupied(book)
    BY <1>4 DEF Stands
  <2>2. resting \in Order
    BY <1>1, <2>1, RestingFacts
  <2>3. resting.remaining_qty > 0
    BY <1>1, <2>1 DEF BookInv, IndexOK
  <2> HIDE DEF resting, s
  <2> QED
    BY <2>2, <2>3
<1>8. /\ traded \in Nat /\ traded > 0 /\ traded \in Quantities
      /\ traded <= resting.remaining_qty /\ traded <= incoming.remaining_qty
  <2>1. incoming.remaining_qty \in Quantities /\ resting.remaining_qty \in Quantities
    BY <1>2, <1>7 DEF Order
  <2> HIDE DEF incoming, resting
  <2> QED
    BY <1>2, <1>7, <2>1, QuantityFacts
<1>9. /\ book' = ConsumeMaker(book, s, traded)
      /\ call' = [call EXCEPT
            !.incoming.remaining_qty = @ - traded,
            !.trades = Append(@, NewTrade(resting.id, incoming.id, price, traded))]
      /\ older' = IF traded = resting.remaining_qty THEN Leaves(resting.id) ELSE older
      /\ UNCHANGED <<seen_order_ids, events, result>>
  BY DEF FillStep
<1> QED
  BY <1>1, <1>2, <1>3, <1>4, <1>5, <1>6, <1>7, <1>8, <1>9

LEMMA FillStepInductive ==
    ASSUME Inductive, FillStep
    PROVE  Inductive' /\ call' \in Call
<1> DEFINE incoming == call.incoming
           contra == Opposite(incoming.side)
           price == BestPrice(book, contra)
           s == BestMakerSlot(book, incoming)
           resting == OrderAt(book, s)
           traded == Lesser(incoming.remaining_qty, resting.remaining_qty)
           trade == NewTrade(resting.id, incoming.id, price, traded)
<1>1. /\ call \in Call /\ incoming \in Order /\ resting \in Order
      /\ Stands(book, s, contra, price)
      /\ traded \in Nat
      /\ traded <= resting.remaining_qty
      /\ traded <= incoming.remaining_qty
      /\ traded \in Quantities
      /\ price \in Prices
      /\ book' = ConsumeMaker(book, s, traded)
      /\ call' = [call EXCEPT !.incoming.remaining_qty = @ - traded,
                              !.trades = Append(@, trade)]
      /\ older' = IF traded = resting.remaining_qty THEN Leaves(resting.id) ELSE older
      /\ UNCHANGED <<seen_order_ids, events, result>>
  BY FillFacts
<1>2. s \in Occupied(book) /\ resting.id = IdAt(book, s)
      /\ resting.remaining_qty = OrderAt(book, s).remaining_qty
  BY <1>1 DEF Stands, IdAt
<1>3. trade \in Trade
  BY <1>1 DEF NewTrade, Trade, Order
<1> HIDE DEF trade, traded, resting, s, price, contra
<1>4. /\ call' \in Call
      /\ call'.incoming.id = incoming.id /\ call'.order.id = call.order.id
  <2>1. incoming.remaining_qty - traded \in Quantities
    BY <1>1, QuantityFacts DEF Order
  <2>2. Append(call.trades, trade) \in Seq(Trade)
    BY <1>1, <1>3 DEF Call
  <2> DEFINE left == [incoming EXCEPT !.remaining_qty = @ - traded]
  <2>3. left \in Order /\ left.id = incoming.id
    BY <1>1, <2>1 DEF Order
  <2>4. call' = [kind |-> call.kind, order |-> call.order,
                 incoming |-> left, trades |-> Append(call.trades, trade)]
    BY <1>1 DEF Call
  <2> HIDE DEF left
  <2>5. call'.incoming = left /\ call'.order = call.order
    BY <2>4
  <2>6. call.kind \in {"Add", "Modify"} /\ call.order \in Order
    BY <1>1 DEF Call
  <2>7. call' \in Call
    BY <2>2, <2>3, <2>4, <2>6 DEF Call
  <2> QED
    BY <2>3, <2>5, <2>7
<1>5. /\ BookInv(book', older')
      /\ RestingIds(book') \subseteq RestingIds(book)
      /\ Uncrossed'
  <2>1. CASE traded = resting.remaining_qty
    <3>1. book' = Detach(book, s) /\ older' = Leaves(IdAt(book, s))
      BY <1>1, <1>2, <2>1 DEF ConsumeMaker
    <3> QED
      BY <1>2, <3>1, LeaveStep
  <2>2. CASE traded # resting.remaining_qty
    <3>1. BookInv(book, older) /\ older' = older
      BY <1>1, <2>2 DEF Inductive
    <3>2. traded < OrderAt(book, s).remaining_qty
      BY <1>1, <1>2, <2>2, QuantityFacts DEF Order
    <3>3. BookInv(book', older')
      BY <1>1, <1>2, <3>1, <3>2, PartialPreserves
    <3>4. /\ book'.order_slots = book.order_slots
          /\ \A side \in Sides : PricesOf(book', side) = PricesOf(book, side)
      BY <1>1, <1>2, <3>1, <3>2, PartialFacts
    <3>5. Uncrossed'
      BY <3>4 DEF Inductive, Uncrossed, Sides
    <3> QED
      BY <3>3, <3>4, <3>5 DEF RestingIds
  <2> QED
    BY <2>1, <2>2
<1>6. TypeOK'
  BY <1>1, <1>4, <1>5, OlderType DEF Inductive, TypeOK, BookInv
<1>7. IndexMatchesArena'
  <2>1. call # None
    BY DEF FillStep
  <2> QED
    BY <1>1, <1>4, <1>5, <2>1 DEF Inductive, IndexMatchesArena, BookInv
<1> QED
  BY <1>4, <1>5, <1>6, <1>7 DEF Inductive

\* An order that comes to rest crosses no level of the other side.
LEMMA NothingCrosses ==
    ASSUME Inductive, FinishCall, ~ IsFilled(call.incoming),
           NEW q \in PricesOf(book, Opposite(call.incoming.side))
    PROVE  ~ Crosses(call.incoming, q)
<1> DEFINE order == call.incoming
           contra == Opposite(order.side)
           best == BestPrice(book, contra)
<1>1. order \in Order /\ ~ CanTrade(order) /\ BookInv(book, older)
  BY DEF Inductive, TypeOK, FinishCall, Call
<1>2. contra \in Sides
  BY <1>1 DEF Order, Opposite, Sides
<1>3. IsBestPrice(book, contra, best) /\ PricesOf(book, contra) \subseteq Nat
  BY <1>1, <1>2, BestPriceExists, PricesFinite
<1>4. ~ Crosses(order, best) /\ best \in PricesOf(book, contra)
  BY <1>1, <1>3 DEF CanTrade, IsBestPrice
<1>5. ~ Outranks(contra, q, best) /\ order.side \in Sides /\ order.price \in Nat
  BY <1>1, <1>3, PriceAssumption DEF IsBestPrice, Order
<1> HIDE DEF best
<1> QED
  BY <1>3, <1>4, <1>5 DEF Crosses, Outranks, Opposite, Sides

LEMMA FinishStepInductive ==
    ASSUME Inductive, FinishCall
    PROVE  Inductive'
<1> DEFINE order == call.incoming
<1>1. /\ call \in Call /\ order \in Order /\ ~ CanTrade(order)
      /\ events' = events \o FinishEvents(call)
      /\ call' = None /\ result' = "Ok" /\ seen_order_ids' = seen_order_ids
  BY DEF Inductive, TypeOK, FinishCall, Call
<1>2. events' \in Seq(BookEvent)
  BY <1>1, FinishEventsType DEF Inductive, TypeOK
<1>3. order.id \in seen_order_ids \ RestingIds(book)
  BY DEF FinishCall, Inductive, IndexMatchesArena
<1>4. CASE IsFilled(order)
  <2>1. book' = book /\ older' = older
    BY <1>4 DEF FinishCall
  <2> QED
    BY <1>1, <1>2, <2>1 DEF Inductive, TypeOK, IndexMatchesArena, Uncrossed
<1>5. CASE ~ IsFilled(order)
  <2>1. book' = RestOrder(book, order) /\ older' = Behind(book, older, order.id)
    BY <1>5 DEF FinishCall, Arrives, Behind
  <2>2. BookInv(book, older)
    BY DEF Inductive
  <2>3. Restable(book, order)
    BY <1>1, <1>3, <1>5, QuantityFacts DEF Restable, IsFilled, Order
  <2> HIDE DEF order
  <2>4. BookInv(book', older')
    BY <2>1, <2>2, <2>3, RestPreserves
  <2>5. RestingIds(book') = RestingIds(book) \cup {order.id}
    BY <2>1, <2>2, <2>3, RestIndex
  <2>6. TypeOK'
    BY <1>1, <1>2, <2>4, OlderType DEF Inductive, TypeOK, BookInv
  <2>7. IndexMatchesArena'
    BY <1>1, <1>3, <2>4, <2>5 DEF Inductive, IndexMatchesArena, BookInv
  <2>8. /\ \A x \in Sides \ {order.side} : PricesOf(book', x) = PricesOf(book, x)
        /\ PricesOf(book', order.side) = PricesOf(book, order.side) \cup {order.price}
    BY <2>1, <2>2, <2>3, RestLevels DEF PricesOf
  <2>9. \A q \in PricesOf(book, Opposite(order.side)) : ~ Crosses(order, q)
    BY <1>5, NothingCrosses DEF order
  <2>10. Uncrossed'
    <3>1. Uncrossed /\ order.side \in Sides /\ order.price \in Nat
      BY <1>1, PriceAssumption DEF Inductive, Order
    <3>2. \A x \in Sides : PricesOf(book, x) \subseteq Nat
      BY <2>2, PricesFinite
    <3>3. CASE order.side = "Buy"
      <4>1. \A q \in PricesOf(book, "Sell") : order.price < q
        BY <2>9, <3>1, <3>2, <3>3 DEF Crosses, Opposite, Sides
      <4> QED
        BY <2>8, <3>1, <3>3, <4>1 DEF Uncrossed, Sides
    <3>4. CASE order.side = "Sell"
      <4>1. \A q \in PricesOf(book, "Buy") : q < order.price
        BY <2>9, <3>1, <3>2, <3>4 DEF Crosses, Opposite, Sides
      <4> QED
        BY <2>8, <3>1, <3>4, <4>1 DEF Uncrossed, Sides
    <3> QED
      BY <3>1, <3>3, <3>4 DEF Sides
  <2> QED
    BY <2>4, <2>6, <2>7, <2>10 DEF Inductive
<1> QED
  BY <1>4, <1>5

\* The invariant is inductive.
THEOREM StepInductive == Inductive /\ [Next]_vars => Inductive'
<1> SUFFICES ASSUME Inductive, [Next]_vars PROVE Inductive'
  OBVIOUS
<1>1. ASSUME NEW order \in Order, AddZeroQuantity(order) PROVE Inductive'
  BY <1>1, RejectStep DEF AddZeroQuantity, Errors
<1>2. ASSUME NEW order \in Order, AddDuplicate(order) PROVE Inductive'
  BY <1>2, RejectStep DEF AddDuplicate, Errors
<1>3. ASSUME NEW order \in Order, AddOrder(order) PROVE Inductive'
  BY <1>3, AddStep
<1>4. ASSUME NEW id \in OrderIds, CancelUnknown(id) PROVE Inductive'
  BY <1>4, RejectStep DEF CancelUnknown, Errors
<1>5. ASSUME NEW id \in OrderIds, CancelOrder(id) PROVE Inductive'
  BY <1>5, CancelStep
<1>6. ASSUME NEW id \in OrderIds, NEW quantity \in Quantities,
             ModifyZeroQuantity(id, quantity)
      PROVE  Inductive'
  BY <1>6, RejectStep DEF ModifyZeroQuantity, Errors
<1>7. ASSUME NEW id \in OrderIds, NEW quantity \in Quantities, ModifyUnknown(id, quantity)
      PROVE  Inductive'
  BY <1>7, RejectStep DEF ModifyUnknown, Errors
<1>8. ASSUME NEW id \in OrderIds, NEW price \in Prices, NEW quantity \in Quantities,
             ModifyOrder(id, price, quantity)
      PROVE  Inductive'
  BY <1>8, ModifyStep
<1>9. ASSUME FillStep PROVE Inductive'
  BY <1>9, FillStepInductive
<1>10. ASSUME FinishCall PROVE Inductive'
  BY <1>10, FinishStepInductive
<1>11. CASE UNCHANGED vars
  BY <1>11 DEF vars, Inductive, TypeOK, IndexMatchesArena, Uncrossed
<1> QED
  BY <1>1, <1>2, <1>3, <1>4, <1>5, <1>6, <1>7, <1>8, <1>9, <1>10, <1>11
     DEF Next, Command

THEOREM AlwaysInductive == Spec => []Inductive
BY InitInductive, StepInductive, PTL DEF Spec

-----------------------------------------------------------------------------
(* What the invariant gives.                                               *)

\* Every field of the book and of a command in progress keeps its type.
THEOREM TypeCorrect == Spec => []TypeOK
<1>1. Inductive => TypeOK
  BY DEF Inductive
<1> QED
  BY <1>1, AlwaysInductive, PTL

\* order_slots and the arena never disagree, and identifiers are single-use:
\* no command reads a vacant slot.
THEOREM IndexAlwaysMatchesArena == Spec => []IndexMatchesArena
<1>1. Inductive => IndexMatchesArena
  BY DEF Inductive
<1> QED
  BY <1>1, AlwaysInductive, PTL

\* The free list visits the vacant slots once each and no other slot, and the
\* cached count is right, as long as slot numbers are not truncated: that they
\* are not is SlotAssumption, not a result.
THEOREM FreeListAlwaysWellFormed == Spec => []FreeListWellFormed
<1>1. Inductive => FreeListWellFormed
  BY DEF Inductive, BookInv, FreeListWellFormed
<1> QED
  BY <1>1, AlwaysInductive, PTL

\* Every level is one doubly linked list of exactly its orders, oldest first.
THEOREM QueuesAlwaysWellFormed == Spec => []QueuesWellFormed
<1>1. Inductive => QueuesWellFormed
  BY DEF Inductive, BookInv, QueuesWellFormed
<1> QED
  BY <1>1, AlwaysInductive, PTL

\* The book never holds a bid that reaches an ask.
THEOREM NeverCrossed == Spec => []Uncrossed
<1>1. Inductive => Uncrossed
  BY DEF Inductive
<1> QED
  BY <1>1, AlwaysInductive, PTL

-----------------------------------------------------------------------------
(* What a step may never do.                                               *)

\* While its quantity shrinks, the order being matched keeps side and price.
CallAgrees ==
    call # None =>
        /\ call.incoming.side = call.order.side
        /\ call.incoming.price = call.order.price

\* What a step finds: the invariant, and CallAgrees.
Stepwise == Inductive /\ CallAgrees

LEMMA CommandSteps ==
    ASSUME Command
    PROVE  /\ call = None
           /\ \/ UNCHANGED <<book, seen_order_ids, call>>
              \/ \E order \in Order : AddOrder(order)
              \/ \E id \in OrderIds : CancelOrder(id)
              \/ \E id \in OrderIds, price \in Prices, quantity \in Quantities :
                    ModifyOrder(id, price, quantity)
<1>1. call = None
  BY DEF Command, AddZeroQuantity, AddDuplicate, AddOrder, CancelUnknown, CancelOrder,
         ModifyZeroQuantity, ModifyUnknown, ModifyOrder, Idle
<1>2. \A error : Reject(error) => UNCHANGED <<book, seen_order_ids, call>>
  BY DEF Reject
<1> QED
  BY <1>1, <1>2 DEF Command, AddZeroQuantity, AddDuplicate, CancelUnknown,
                    ModifyZeroQuantity, ModifyUnknown

\* A cancelled or modified order is removed from the slot the index gives.
LEMMA RemovedIds ==
    ASSUME Inductive, NEW id \in RestingIds(book), book' = RemoveOrderById(book, id)
    PROVE  RestingIds(book') = RestingIds(book) \ {id}
<1>1. book.order_slots[id] \in Occupied(book) /\ IdAt(book, book.order_slots[id]) = id
  BY DEF Inductive, BookInv, IndexOK
<1>2. BookInv(book, older)
  BY DEF Inductive
<1> QED
  BY <1>1, <1>2, DetachIndex DEF RemoveOrderById

\* What a fill does to the command in progress.
LEMMA FilledCall ==
    ASSUME Inductive, FillStep
    PROVE  LET s == BestMakerSlot(book, call.incoming)
               traded == Lesser(call.incoming.remaining_qty, OrderAt(book, s).remaining_qty)
               trade == NewTrade(OrderAt(book, s).id, call.incoming.id,
                                 BestPrice(book, Opposite(call.incoming.side)), traded)
           IN  /\ call # None
               /\ call'.kind = call.kind /\ call'.order = call.order
               /\ call'.incoming = Reduced(call.incoming, traded)
               /\ call'.trades = Append(call.trades, trade)
               /\ call'.trades[Len(call'.trades)] = trade
<1> DEFINE s == BestMakerSlot(book, call.incoming)
           traded == Lesser(call.incoming.remaining_qty, OrderAt(book, s).remaining_qty)
           trade == NewTrade(OrderAt(book, s).id, call.incoming.id,
                             BestPrice(book, Opposite(call.incoming.side)), traded)
<1>1. /\ call \in Call
      /\ call' = [call EXCEPT !.incoming.remaining_qty = @ - traded,
                              !.trades = Append(@, trade)]
  BY FillFacts
<1> HIDE DEF trade, traded
<1> DEFINE left == Reduced(call.incoming, traded)
           trades == Append(call.trades, trade)
<1>2. call' = [kind |-> call.kind, order |-> call.order,
               incoming |-> left, trades |-> trades]
  BY <1>1 DEF Call, Reduced
<1>3. trades[Len(trades)] = trade
  BY <1>1 DEF Call
<1> HIDE DEF left, trades
<1>4. /\ call'.kind = call.kind /\ call'.order = call.order
      /\ call'.incoming = left /\ call'.trades = trades
  BY <1>2
<1>5. call # None
  BY DEF FillStep
<1>6. call'.trades[Len(call'.trades)] = trade
  BY <1>3, <1>4
<1> QED
  BY <1>4, <1>5, <1>6 DEF left, trades, trade, traded

\* Who rests after a fill: the maker may have left, nobody else is touched.
LEMMA FilledBook ==
    ASSUME Inductive, FillStep
    PROVE  LET s == BestMakerSlot(book, call.incoming)
               traded == Lesser(call.incoming.remaining_qty, OrderAt(book, s).remaining_qty)
           IN  /\ s \in Occupied(book)
               /\ \A t \in Occupied(book) \ {s} :
                     t \in Occupied(book') /\ OrderAt(book', t) = OrderAt(book, t)
               /\ \A id \in RestingIds(book') :
                     /\ id \in RestingIds(book)
                     /\ book'.order_slots[id] = book.order_slots[id]
               /\ IF traded = OrderAt(book, s).remaining_qty
                    THEN RestingIds(book') = RestingIds(book) \ {IdAt(book, s)}
                    ELSE /\ RestingIds(book') = RestingIds(book)
                         /\ OrderAt(book', s) = Reduced(OrderAt(book, s), traded)
<1> DEFINE s == BestMakerSlot(book, call.incoming)
           traded == Lesser(call.incoming.remaining_qty, OrderAt(book, s).remaining_qty)
<1>1. /\ s \in Occupied(book) /\ book' = ConsumeMaker(book, s, traded)
      /\ traded \in Nat /\ traded <= OrderAt(book, s).remaining_qty
      /\ OrderAt(book, s) \in Order
  BY FillFacts DEF Stands
<1>2. BookInv(book, older)
  BY DEF Inductive
<1> HIDE DEF s, traded
<1>3. CASE traded = OrderAt(book, s).remaining_qty
  <2>1. book' = Detach(book, s)
    BY <1>1, <1>3 DEF ConsumeMaker
  <2>2. /\ RestingIds(book') = RestingIds(book) \ {IdAt(book, s)}
        /\ \A id \in RestingIds(book') : book'.order_slots[id] = book.order_slots[id]
    BY <1>1, <1>2, <2>1, DetachIndex
  <2>3. /\ Occupied(book') = Occupied(book) \ {s}
        /\ \A t \in Occupied(book') : OrderAt(book', t) = OrderAt(book, t)
    BY <1>1, <1>2, <2>1, DetachArena, DetachOrders
  <2> QED
    BY <1>1, <1>3, <2>2, <2>3 DEF s, traded
<1>4. CASE traded # OrderAt(book, s).remaining_qty
  <2>1. traded < OrderAt(book, s).remaining_qty
    BY <1>1, <1>4, QuantityFacts DEF Order
  <2>2. /\ book'.order_slots = book.order_slots
        /\ Occupied(book') = Occupied(book)
        /\ OrderAt(book', s) = Reduced(OrderAt(book, s), traded)
        /\ \A t \in Occupied(book) : t # s => OrderAt(book', t) = OrderAt(book, t)
    BY <1>1, <1>2, <2>1, PartialFacts
  <2> QED
    BY <1>1, <1>4, <2>2 DEF RestingIds, s, traded
<1> QED
  BY <1>3, <1>4

\* Who rests after the end of a command: everybody who did, and perhaps the
\* incoming order.
LEMMA FinishedBook ==
    ASSUME Inductive, FinishCall
    PROVE  /\ RestingIds(book') \subseteq RestingIds(book) \cup {call.incoming.id}
           /\ RestingOrders(book) \subseteq RestingOrders(book')
<1> DEFINE order == call.incoming
<1>1. order \in Order /\ order.id \notin RestingIds(book) /\ BookInv(book, older)
  BY DEF FinishCall, Inductive, TypeOK, IndexMatchesArena, Call
<1>2. CASE IsFilled(order)
  BY <1>2 DEF FinishCall
<1>3. CASE ~ IsFilled(order)
  <2>1. book' = RestOrder(book, order)
    BY <1>3 DEF FinishCall
  <2>2. Restable(book, order)
    BY <1>1, <1>3, QuantityFacts DEF Restable, IsFilled, Order
  <2> HIDE DEF order
  <2>3. RestingIds(book') = RestingIds(book) \cup {order.id}
    BY <1>1, <2>1, <2>2, RestIndex
  <2>4. /\ Occupied(book) \subseteq Occupied(book')
        /\ \A t \in Occupied(book) : OrderAt(book', t) = OrderAt(book, t)
    BY <1>1, <2>1, <2>2, RestArena
  <2> QED
    BY <2>3, <2>4 DEF RestingOrders, Occupied, order
<1> QED
  BY <1>2, <1>3

LEMMA StepwiseInvariant == Spec => []Stepwise
<1>1. Init => CallAgrees
  BY DEF Init, CallAgrees
<1>2. ASSUME Inductive, CallAgrees, [Next]_vars PROVE CallAgrees'
  <2>1. CASE Command
    <3>1. CASE UNCHANGED <<book, seen_order_ids, call>>
      BY <1>2, <3>1 DEF CallAgrees
    <3>2. ASSUME NEW order \in Order, AddOrder(order) PROVE CallAgrees'
      BY <3>2 DEF AddOrder, StartMatching, CallAgrees
    <3>3. ASSUME NEW id \in OrderIds, CancelOrder(id) PROVE CallAgrees'
      BY <1>2, <3>3 DEF CancelOrder, CallAgrees
    <3>4. ASSUME NEW id \in OrderIds, NEW price \in Prices, NEW quantity \in Quantities,
                 ModifyOrder(id, price, quantity)
          PROVE  CallAgrees'
      BY <3>4 DEF ModifyOrder, StartMatching, CallAgrees
    <3> QED
      BY <2>1, <3>1, <3>2, <3>3, <3>4, CommandSteps
  <2>2. CASE FillStep
    <3>1. call.incoming \in Order
      BY <1>2, <2>2, FillFacts
    <3> QED
      BY <1>2, <2>2, <3>1, FilledCall DEF CallAgrees, Reduced, Order
  <2>3. CASE FinishCall
    BY <2>3 DEF FinishCall, CallAgrees
  <2>4. CASE UNCHANGED vars
    BY <1>2, <2>4 DEF vars, CallAgrees
  <2> QED
    BY <1>2, <2>1, <2>2, <2>3, <2>4 DEF Next
<1> QED
  BY <1>1, <1>2, AlwaysInductive, PTL DEF Spec, Stepwise

-----------------------------------------------------------------------------
(* Identifiers.                                                            *)

LEMMA GoneStays ==
    ASSUME Inductive, Next, NEW id \in OrderIds, Gone(id)
    PROVE  Gone(id)'
<1> USE DEF Gone
<1>1. CASE Command
  <2>1. CASE UNCHANGED <<book, seen_order_ids, call>>
    BY <2>1
  <2>2. ASSUME NEW order \in Order, AddOrder(order) PROVE Gone(id)'
    BY <2>2 DEF AddOrder, StartMatching
  <2>3. ASSUME NEW other \in OrderIds, CancelOrder(other) PROVE Gone(id)'
    <3>1. other \in RestingIds(book) /\ book' = RemoveOrderById(book, other)
      BY <2>3 DEF CancelOrder
    <3> QED
      BY <2>3, <3>1, RemovedIds DEF CancelOrder
  <2>4. ASSUME NEW other \in OrderIds, NEW price \in Prices, NEW quantity \in Quantities,
               ModifyOrder(other, price, quantity)
        PROVE  Gone(id)'
    <3>1. other \in RestingIds(book) /\ book' = RemoveOrderById(book, other)
      BY <2>4 DEF ModifyOrder
    <3> QED
      BY <2>4, <3>1, RemovedIds DEF ModifyOrder, StartMatching, NewOrder
  <2> QED
    BY <1>1, <2>1, <2>2, <2>3, <2>4, CommandSteps
<1>2. CASE FillStep
  <2>1. call'.incoming.id = call.incoming.id /\ call # None
    BY <1>2, FillFacts, FilledCall DEF Reduced, Order
  <2>2. RestingIds(book') \subseteq RestingIds(book) /\ seen_order_ids' = seen_order_ids
    BY <1>2, FilledBook, FillFacts
  <2> QED
    BY <2>1, <2>2
<1>3. CASE FinishCall
  <2>1. RestingIds(book') \subseteq RestingIds(book) \cup {call.incoming.id}
    BY <1>3, FinishedBook
  <2> QED
    BY <1>3, <2>1 DEF FinishCall
<1> QED
  BY <1>1, <1>2, <1>3 DEF Next

\* An identifier whose order was filled or cancelled never rests again.
THEOREM IdentifiersStayGone == Spec => IdsAreSingleUse
<1>1. Stepwise /\ [Next]_vars => [\A id \in OrderIds : Gone(id) => Gone(id)']_vars
  BY GoneStays DEF Stepwise
<1> QED
  BY <1>1, StepwiseInvariant, PTL DEF Spec, IdsAreSingleUse

-----------------------------------------------------------------------------
(* Priority.                                                               *)

\* The maker of a fill has the best price of its side, and nobody of that price
\* came before it.
LEMMA MakerHasPriority ==
    ASSUME Inductive, FillStep, NEW t \in Occupied(book),
           OrderAt(book, t).side = OrderAt(book, BestMakerSlot(book, call.incoming)).side
    PROVE  LET maker == OrderAt(book, BestMakerSlot(book, call.incoming))
               other == OrderAt(book, t)
           IN  /\ ~ Outranks(maker.side, other.price, maker.price)
               /\ other.price = maker.price => <<other.id, maker.id>> \notin older
<1> DEFINE s == BestMakerSlot(book, call.incoming)
           maker == OrderAt(book, s)
           other == OrderAt(book, t)
           contra == Opposite(call.incoming.side)
<1>1. /\ Stands(book, s, contra, BestPrice(book, contra))
      /\ IsBestPrice(book, contra, BestPrice(book, contra))
      /\ book.arena.entries[s].prev = None
  BY FillFacts
<1>2. BookInv(book, older)
  BY DEF Inductive
<1>3. maker.side = contra /\ maker.price = BestPrice(book, contra) /\ s \in Occupied(book)
  BY <1>1 DEF Stands
<1> HIDE DEF s
<1>4. ~ Outranks(maker.side, other.price, maker.price)
  <2>1. other.side = contra /\ other.price \in PricesOf(book, other.side)
    BY <1>2, <1>3, RestingFacts DEF s
  <2> QED
    BY <1>1, <1>3, <2>1 DEF IsBestPrice
<1>5. ASSUME other.price = maker.price PROVE <<other.id, maker.id>> \notin older
  <2>1. SameLevel(book, s, t)
    BY <1>5 DEF SameLevel, Stands, s
  <2>2. t = s \/ <<maker.id, other.id>> \in older
    BY <1>1, <1>2, <1>3, <2>1 DEF BookInv, LinksOK, IdAt
  <2>3. maker.id \in RestingIds(book) /\ other.id \in RestingIds(book)
    BY <1>2, <1>3, RestingFacts DEF IdAt
  <2>4. <<maker.id, maker.id>> \notin older
    BY <1>2, <2>3 DEF BookInv, ArrivalOrder
  <2>5. <<maker.id, other.id>> \in older /\ <<other.id, maker.id>> \in older
           => <<maker.id, maker.id>> \in older
    BY <1>2, <2>3 DEF BookInv, ArrivalOrder
  <2>6. t = s => other.id = maker.id
    OBVIOUS
  <2> QED
    BY <2>2, <2>4, <2>5, <2>6
<1> QED
  BY <1>4, <1>5 DEF s

\* Matching takes orders out of the book by price, then by time of arrival.
THEOREM FillsByPriority == Spec => FillsRespectPriority
<1> DEFINE ByPriority ==
        \A o \in RestingOrders(book) :
           call # None /\ o \notin RestingOrders(book') =>
              \A other \in RestingOrders(book) :
                 other.side = o.side =>
                    /\ ~ Outranks(o.side, other.price, o.price)
                    /\ other.price = o.price => <<other.id, o.id>> \notin older
<1>1. ASSUME Stepwise, Next PROVE ByPriority
  <2> SUFFICES ASSUME NEW o \in RestingOrders(book), call # None,
                      o \notin RestingOrders(book'),
                      NEW other \in RestingOrders(book), other.side = o.side
               PROVE  /\ ~ Outranks(o.side, other.price, o.price)
                      /\ other.price = o.price => <<other.id, o.id>> \notin older
    OBVIOUS
  <2>1. FillStep
    BY <1>1, CommandSteps, FinishedBook DEF Next, Stepwise
  <2>2. PICK t \in Occupied(book) : other = OrderAt(book, t)
    BY DEF RestingOrders, Occupied
  <2>3. o = OrderAt(book, BestMakerSlot(book, call.incoming))
    BY <1>1, <2>1, FilledBook DEF RestingOrders, Occupied, Stepwise
  <2> QED
    BY <1>1, <2>1, <2>2, <2>3, MakerHasPriority DEF Stepwise
<1>2. Stepwise /\ [Next]_vars => [ByPriority]_vars
  BY <1>1
<1> QED
  BY <1>2, StepwiseInvariant, PTL DEF Spec, FillsRespectPriority

-----------------------------------------------------------------------------
(* Conservation.                                                           *)

\* What a fill takes from the maker, it takes from nobody else.
LEMMA RemainingAfterFill ==
    ASSUME Inductive, FillStep
    PROVE  LET s == BestMakerSlot(book, call.incoming)
               traded == Lesser(call.incoming.remaining_qty, OrderAt(book, s).remaining_qty)
           IN  /\ Remaining(book', IdAt(book, s)) = Remaining(book, IdAt(book, s)) - traded
               /\ Remaining(book', IdAt(book, s)) + traded = Remaining(book, IdAt(book, s))
               /\ \A id \in OrderIds \ {IdAt(book, s)} :
                     Remaining(book', id) = Remaining(book, id)
<1> DEFINE s == BestMakerSlot(book, call.incoming)
           traded == Lesser(call.incoming.remaining_qty, OrderAt(book, s).remaining_qty)
           maker == OrderAt(book, s)
<1>1. /\ s \in Occupied(book)
      /\ \A t \in Occupied(book) \ {s} : OrderAt(book', t) = OrderAt(book, t)
      /\ \A id \in RestingIds(book') :
            id \in RestingIds(book) /\ book'.order_slots[id] = book.order_slots[id]
      /\ IF traded = maker.remaining_qty
           THEN RestingIds(book') = RestingIds(book) \ {IdAt(book, s)}
           ELSE /\ RestingIds(book') = RestingIds(book)
                /\ OrderAt(book', s) = Reduced(maker, traded)
  BY FilledBook
<1>2. traded \in Nat /\ maker \in Order /\ maker.remaining_qty \in Nat
  BY FillFacts, QuantityFacts DEF Order
<1>3. IndexOK(book)
  BY DEF Inductive, BookInv
<1> HIDE DEF s, traded
<1>4. Remaining(book, IdAt(book, s)) = maker.remaining_qty
  BY <1>1, <1>3 DEF Remaining, IndexOK
<1>5. CASE traded = maker.remaining_qty
  <2>1. Remaining(book', IdAt(book, s)) = 0
    BY <1>1, <1>5 DEF Remaining
  <2>2. ASSUME NEW id \in OrderIds \ {IdAt(book, s)}
        PROVE  Remaining(book', id) = Remaining(book, id)
    BY <1>1, <1>3, <1>5 DEF Remaining, IndexOK
  <2> QED
    BY <1>2, <1>4, <1>5, <2>1, <2>2 DEF s, traded
<1>6. CASE traded # maker.remaining_qty
  <2>1. Remaining(book', IdAt(book, s)) = maker.remaining_qty - traded
    BY <1>1, <1>2, <1>3, <1>6 DEF Remaining, IndexOK, Reduced, Order
  <2>2. ASSUME NEW id \in OrderIds \ {IdAt(book, s)}
        PROVE  Remaining(book', id) = Remaining(book, id)
    BY <1>1, <1>3, <1>6 DEF Remaining, IndexOK
  <2> QED
    BY <1>2, <1>4, <2>1, <2>2 DEF s, traded
<1> QED
  BY <1>5, <1>6

\* A fill moves quantity between maker, taker and trade without loss, at the
\* maker's own price, which is within the taker's limit.
THEOREM FillsConserve == Spec => FillsConserveQuantity
<1> DEFINE Conserves ==
        call # None /\ call' # None =>
          LET trade == call'.trades[Len(call'.trades)]
          IN  /\ trade.quantity > 0
              /\ call'.incoming.remaining_qty + trade.quantity
                    = call.incoming.remaining_qty
              /\ trade.taker_order_id = call.incoming.id
              /\ Remaining(book', trade.maker_order_id) + trade.quantity
                    = Remaining(book, trade.maker_order_id)
              /\ \A id \in OrderIds \ {trade.maker_order_id} :
                    Remaining(book', id) = Remaining(book, id)
              /\ \E maker \in OrdersAt(book, Opposite(call.order.side), trade.price) :
                    maker.id = trade.maker_order_id
              /\ Crosses(call.order, trade.price)
<1>1. ASSUME Stepwise, Next, call # None, call' # None
      PROVE  Conserves
  <2> DEFINE s == BestMakerSlot(book, call.incoming)
             traded == Lesser(call.incoming.remaining_qty, OrderAt(book, s).remaining_qty)
             price == BestPrice(book, Opposite(call.incoming.side))
             trade == NewTrade(OrderAt(book, s).id, call.incoming.id, price, traded)
  <2>1. FillStep /\ Inductive /\ CallAgrees
    BY <1>1, CommandSteps DEF Next, FinishCall, Stepwise
  <2>2. /\ call.incoming \in Order /\ traded \in Nat /\ traded > 0
        /\ Crosses(call.incoming, price)
        /\ Stands(book, s, Opposite(call.incoming.side), price)
    BY <2>1, FillFacts
  <2>3. /\ call'.trades[Len(call'.trades)] = trade
        /\ call'.incoming = Reduced(call.incoming, traded)
    BY <2>1, FilledCall
  <2>4. /\ Remaining(book', OrderAt(book, s).id) + traded = Remaining(book, OrderAt(book, s).id)
        /\ \A id \in OrderIds \ {OrderAt(book, s).id} : Remaining(book', id) = Remaining(book, id)
    BY <2>1, RemainingAfterFill DEF IdAt
  <2>5. /\ trade.maker_order_id = OrderAt(book, s).id
        /\ trade.taker_order_id = call.incoming.id
        /\ trade.price = price /\ trade.quantity = traded
    BY DEF NewTrade
  <2> HIDE DEF trade, traded, s, price
  <2>6. call'.incoming.remaining_qty + traded = call.incoming.remaining_qty
    BY <2>2, <2>3, QuantityFacts DEF Reduced, Order
  <2>7. Crosses(call.order, price)
    BY <1>1, <2>1, <2>2 DEF CallAgrees, Crosses
  <2>8. OrderAt(book, s) \in OrdersAt(book, Opposite(call.order.side), price)
    BY <1>1, <2>1, <2>2 DEF CallAgrees, Stands, Occupied, OrdersAt, RestingOrders
  <2> QED
    BY <2>2, <2>3, <2>4, <2>5, <2>6, <2>7, <2>8
<1>2. Stepwise /\ [Next]_vars => [Conserves]_vars
  BY <1>1
<1> QED
  BY <1>2, StepwiseInvariant, PTL DEF Spec, FillsConserveQuantity

-----------------------------------------------------------------------------
(* The totals that level.rs caches.                                        *)

\* A command that ends, starts or rejects leaves the levels alone, and a book
\* that changes does so by one of the three updates.
LEMMA BookUpdates ==
    ASSUME Inductive, [Next]_vars
    PROVE  \/ book' = book
           \/ \E s \in Occupied(book) : book' = Detach(book, s)
           \/ \E s \in Occupied(book), traded \in Nat :
                 /\ traded < OrderAt(book, s).remaining_qty
                 /\ book' = ConsumeMaker(book, s, traded)
           \/ \E order : Restable(book, order) /\ book' = RestOrder(book, order)
<1>1. \A id \in RestingIds(book) : /\ book.order_slots[id] \in Occupied(book)
                                   /\ RemoveOrderById(book, id)
                                        = Detach(book, book.order_slots[id])
  BY DEF Inductive, BookInv, IndexOK, RemoveOrderById
<1>2. CASE Command
  BY <1>1, <1>2 DEF Command, AddZeroQuantity, AddDuplicate, AddOrder, CancelUnknown,
     CancelOrder, ModifyZeroQuantity, ModifyUnknown, ModifyOrder, Reject
<1>3. CASE FillStep
  <2> DEFINE s == BestMakerSlot(book, call.incoming)
             maker == OrderAt(book, s)
             traded == Lesser(call.incoming.remaining_qty, maker.remaining_qty)
  <2>1. /\ s \in Occupied(book) /\ maker \in Order
        /\ traded \in Nat /\ traded <= maker.remaining_qty
        /\ book' = ConsumeMaker(book, s, traded)
    BY <1>3, FillFacts DEF Stands
  <2> HIDE DEF traded, s
  <2>2. CASE traded = maker.remaining_qty
    BY <2>1, <2>2 DEF ConsumeMaker
  <2>3. CASE traded # maker.remaining_qty
    <3>1. traded < maker.remaining_qty
      BY <2>1, <2>3, QuantityFacts DEF Order
    <3> QED
      BY <2>1, <3>1
  <2> QED
    BY <2>2, <2>3
<1>4. CASE FinishCall
  <2>1. call.incoming \in Order /\ call.incoming.id \notin RestingIds(book)
    BY <1>4 DEF FinishCall, Inductive, TypeOK, IndexMatchesArena, Call
  <2>2. ~ IsFilled(call.incoming) => Restable(book, call.incoming)
    BY <2>1, QuantityFacts DEF Restable, IsFilled, Order
  <2> QED
    BY <1>4, <2>2 DEF FinishCall
<1>5. CASE UNCHANGED vars
  BY <1>5 DEF vars
<1> QED
  BY <1>2, <1>3, <1>4, <1>5 DEF Next

\* push_back, unlink and match_at_level keep the total_quantity of a level the
\* sum of what rests there, as a machine word, halfway through a command too.
THEOREM DepthAlwaysCached == Spec => []CachedDepth
<1>1. Init => CachedDepth
  BY DEF Init, CachedDepth, DepthOK, PricesOf, EmptyBook, EmptyMap
<1>2. Inductive /\ CachedDepth /\ [Next]_vars => CachedDepth'
  <2> SUFFICES ASSUME Inductive, CachedDepth, [Next]_vars PROVE CachedDepth'
    OBVIOUS
  <2>1. BookInv(book, older) /\ DepthOK(book)
    BY DEF Inductive, CachedDepth
  <2>2. DepthOK(book')
    BY <2>1, BookUpdates, DetachDepth, PartialDepth, RestDepth
  <2> QED
    BY <2>2 DEF CachedDepth
<1> QED
  BY <1>1, <1>2, AlwaysInductive, PTL DEF Spec

LEMMA SnapshotFacts == Inductive => SnapshotIsArrivalOrder
<1> SUFFICES ASSUME Inductive, NEW side \in Sides
             PROVE  /\ PricesOf(book, side) =
                          {o.price : o \in {x \in RestingOrders(book) : x.side = side}}
                    /\ \A p \in PricesOf(book, side) :
                          LET queue == Snapshot(book)[side][p]
                          IN  /\ {queue[i] : i \in DOMAIN queue}
                                    = OrdersAt(book, side, p)
                              /\ \A i, j \in DOMAIN queue :
                                    i < j => <<queue[i].id, queue[j].id>> \in older
  BY DEF SnapshotIsArrivalOrder
<1>1. BookInv(book, older)
  BY DEF Inductive
<1>2. \A p \in PricesOf(book, side) :
         Stands(book, book.levels[side][p].head, side, p)
  BY <1>1 DEF BookInv, LevelsOK
<1>3. PricesOf(book, side) \subseteq
         {o.price : o \in {x \in RestingOrders(book) : x.side = side}}
  BY <1>2 DEF Stands, RestingOrders, Occupied
<1>4. {o.price : o \in {x \in RestingOrders(book) : x.side = side}}
         \subseteq PricesOf(book, side)
  BY <1>1, RestingFacts DEF RestingOrders, Occupied
<1>5. \A p \in PricesOf(book, side) :
         Snapshot(book)[side][p] = LevelOrders(book, book.levels[side][p])
  BY DEF Snapshot
<1> QED
  BY <1>1, <1>3, <1>4, <1>5, LevelOrdersFacts

\* snapshot() and level_orders follow the links of each level: what they show is
\* every resting order exactly once, at its side and price, oldest first.
THEOREM SnapshotAlwaysInArrivalOrder == Spec => []SnapshotIsArrivalOrder
<1> QED
  BY SnapshotFacts, AlwaysInductive, PTL

-----------------------------------------------------------------------------
(* The log.  A log is read event by event: for the recursive definition of *)
(* QuantityInLog this is shown by induction over the length of the log.    *)

\* What an order has left after each event of a log.
IsHistory(f, entries, id, n) ==
    f = [i \in 0 .. n |-> IF i = 0 THEN 0 ELSE QuantityAfter(entries[i], id, f[i - 1])]

LEMMA HistoryExists ==
    ASSUME NEW entries, NEW id, NEW n \in Nat
    PROVE  \E f : IsHistory(f, entries, id, n)
<1> DEFINE S == {m \in Nat : \E f : IsHistory(f, entries, id, m)}
<1>1. 0 \in S
  <2>1. IsHistory([i \in 0 .. 0 |-> 0], entries, id, 0)
    BY DEF IsHistory
  <2> QED
    BY <2>1
<1>2. ASSUME NEW m \in Nat, m \in S PROVE m + 1 \in S
  <2>1. PICK f : IsHistory(f, entries, id, m)
    BY <1>2
  <2> DEFINE g == [i \in 0 .. m + 1 |->
                     IF i = m + 1 THEN QuantityAfter(entries[i], id, f[m]) ELSE f[i]]
  <2>2. \A i \in 0 .. m : f[i] = IF i = 0 THEN 0 ELSE QuantityAfter(entries[i], id, f[i - 1])
    BY <2>1 DEF IsHistory
  <2>3. \A i \in 0 .. m + 1 : g[i] = IF i = 0 THEN 0 ELSE QuantityAfter(entries[i], id, g[i - 1])
    BY <2>2
  <2>4. g = [i \in 0 .. m + 1 |-> g[i]]
    OBVIOUS
  <2> HIDE DEF g
  <2>5. IsHistory(g, entries, id, m + 1)
    BY <2>3, <2>4 DEF IsHistory
  <2> QED
    BY <2>5
<1> HIDE DEF S
<1>3. n \in S
  BY <1>1, <1>2, SetInduction
<1> QED
  BY <1>3 DEF S

\* Two histories agree as far as their logs do.
LEMMA HistoryUnique ==
    ASSUME NEW entries, NEW longer, NEW id, NEW n \in Nat,
           \A i \in 1 .. n : entries[i] = longer[i]
    PROVE  \A f, g : IsHistory(f, entries, id, n) /\ IsHistory(g, longer, id, n + 1) => f[n] = g[n]
<1> SUFFICES ASSUME NEW f, NEW g, IsHistory(f, entries, id, n), IsHistory(g, longer, id, n + 1)
             PROVE  f[n] = g[n]
  OBVIOUS
<1> DEFINE S == {i \in Nat : i <= n => f[i] = g[i]}
<1>1. \A i \in 0 .. n : f[i] = IF i = 0 THEN 0 ELSE QuantityAfter(entries[i], id, f[i - 1])
  BY DEF IsHistory
<1>2. \A i \in 0 .. n : g[i] = IF i = 0 THEN 0 ELSE QuantityAfter(longer[i], id, g[i - 1])
  BY DEF IsHistory
<1>3. 0 \in S
  BY <1>1, <1>2
<1>4. ASSUME NEW i \in Nat, i \in S PROVE i + 1 \in S
  BY <1>1, <1>2, <1>4
<1> HIDE DEF S
<1>5. n \in S
  BY <1>3, <1>4, SetInduction
<1> QED
  BY <1>5 DEF S

LEMMA EmptyLog == ASSUME NEW id PROVE QuantityInLog(<< >>, id) = 0
<1> DEFINE f == CHOOSE f : IsHistory(f, << >>, id, Len(<< >>))
<1>1. QuantityInLog(<< >>, id) = f[Len(<< >>)]
  BY Zenon DEF QuantityInLog, IsHistory
<1>2. IsHistory(f, << >>, id, Len(<< >>)) /\ Len(<< >>) = 0
  BY HistoryExists
<1> HIDE DEF f
<1> QED
  BY <1>1, <1>2 DEF IsHistory

LEMMA NextEvent ==
    ASSUME NEW entries \in Seq(BookEvent), NEW e \in BookEvent, NEW id
    PROVE  QuantityInLog(Append(entries, e), id) = QuantityAfter(e, id, QuantityInLog(entries, id))
<1> DEFINE n == Len(entries)
           longer == Append(entries, e)
           f == CHOOSE f : IsHistory(f, entries, id, n)
           g == CHOOSE g : IsHistory(g, longer, id, Len(longer))
<1>1. /\ n \in Nat /\ Len(longer) = n + 1 /\ longer[n + 1] = e
      /\ \A i \in 1 .. n : entries[i] = longer[i]
  OBVIOUS
<1>2. QuantityInLog(entries, id) = f[n] /\ QuantityInLog(longer, id) = g[Len(longer)]
  BY Zenon DEF QuantityInLog, IsHistory
<1>3. IsHistory(f, entries, id, n)
  BY <1>1, HistoryExists
<1>4. IsHistory(g, longer, id, n + 1)
  <2> HIDE DEF longer
  <2> QED
    BY <1>1, HistoryExists
<1> HIDE DEF f, g, longer, n
<1>5. /\ n \in Nat /\ n + 1 \in Nat /\ n <= n + 1
      /\ \A i \in 1 .. n : entries[i] = longer[i]
  BY <1>1
<1>6. f[n] = g[n]
  <2>1. \A F, G : IsHistory(F, entries, id, n) /\ IsHistory(G, longer, id, n + 1) => F[n] = G[n]
    BY <1>5, HistoryUnique
  <2> QED
    BY <1>3, <1>4, <2>1
<1>7. g[n + 1] = QuantityAfter(longer[n + 1], id, g[n])
  BY <1>1, <1>4 DEF IsHistory
<1> QED
  BY <1>1, <1>2, <1>6, <1>7 DEF longer

\* The log with what the command in progress has yet to record, and the quantity
\* that an order has in it.
FullLog == IF call = None THEN events ELSE events \o FinishEvents(call)
Held(id) ==
    Remaining(book, id)
      + (IF call # None /\ call.incoming.id = id THEN call.incoming.remaining_qty ELSE 0)

\* The log accounts for the book also halfway through a command.
LogOK == EventMode = "Full" => \A id \in OrderIds : QuantityInLog(FullLog, id) = Held(id)

LEMMA HeldType ==
    ASSUME Inductive, NEW id \in OrderIds
    PROVE  Remaining(book, id) \in Nat /\ Held(id) \in Nat
<1>1. Remaining(book, id) \in Nat
  <2>1. CASE id \in RestingIds(book)
    <3>1. OrderAt(book, book.order_slots[id]) \in Order
      BY <2>1, RestingFacts DEF Inductive, BookInv, IndexOK
    <3> QED
      BY <2>1, <3>1, QuantityFacts DEF Remaining, Order
  <2>2. CASE id \notin RestingIds(book)
    BY <2>2 DEF Remaining
  <2> QED
    BY <2>1, <2>2
<1>2. call # None => call.incoming.remaining_qty \in Nat
  BY QuantityFacts DEF Inductive, TypeOK, Call, Order
<1> QED
  BY <1>1, <1>2 DEF Held

\* The log after a step that records one event.
LEMMA LogStep ==
    ASSUME Inductive, LogOK, NEW e \in BookEvent,
           EventMode = "Full" => FullLog' = Append(FullLog, e),
           \A id \in OrderIds : Held(id)' = QuantityAfter(e, id, Held(id))
    PROVE  LogOK'
<1> SUFFICES ASSUME EventMode = "Full", NEW id \in OrderIds
             PROVE  QuantityInLog(FullLog', id) = Held(id)'
  BY DEF LogOK
<1>1. FullLog \in Seq(BookEvent)
  BY FinishEventsType DEF FullLog, Inductive, TypeOK
<1>2. QuantityInLog(FullLog', id) = QuantityAfter(e, id, QuantityInLog(FullLog, id))
  BY <1>1, NextEvent
<1> QED
  BY <1>2 DEF LogOK

\* A command leaves the quantity of all orders but one.
LEMMA RemovedQuantity ==
    ASSUME Inductive, NEW id \in RestingIds(book), book' = RemoveOrderById(book, id)
    PROVE  /\ Remaining(book', id) = 0
           /\ \A other \in OrderIds \ {id} : Remaining(book', other) = Remaining(book, other)
<1> DEFINE s == book.order_slots[id]
<1>1. s \in Occupied(book) /\ IdAt(book, s) = id /\ book' = Detach(book, s)
  BY DEF Inductive, BookInv, IndexOK, RemoveOrderById
<1>2. BookInv(book, older) /\ IndexOK(book)
  BY DEF Inductive, BookInv
<1> HIDE DEF s
<1>3. /\ RestingIds(book') = RestingIds(book) \ {id}
      /\ \A other \in RestingIds(book') : book'.order_slots[other] = book.order_slots[other]
  BY <1>1, <1>2, DetachIndex
<1>4. /\ Occupied(book') = Occupied(book) \ {s}
      /\ \A t \in Occupied(book') : OrderAt(book', t) = OrderAt(book, t)
  BY <1>1, <1>2, DetachArena, DetachOrders
<1>5. ASSUME NEW other \in OrderIds \ {id}, other \in RestingIds(book)
      PROVE  Remaining(book', other) = Remaining(book, other)
  <2>1. book.order_slots[other] \in Occupied(book) \ {s}
    BY <1>1, <1>2, <1>5 DEF IndexOK
  <2> QED
    BY <1>3, <1>4, <1>5, <2>1 DEF Remaining
<1> QED
  BY <1>3, <1>5 DEF Remaining

\* Each step but the last of a command records one event, now or in the end.
LEMMA AddLogs ==
    ASSUME Inductive, NEW order \in Order, AddOrder(order), EventMode = "Full"
    PROVE  FullLog' = Append(FullLog, [kind |-> "OrderAccepted", order |-> order])
<1> DEFINE e == [kind |-> "OrderAccepted", order |-> order]
<1>1. /\ call = None /\ call' = StartMatching("Add", order)
      /\ events' = events \o AcceptedEvents(order)
  BY DEF AddOrder, Idle
<1>2. /\ call' # None /\ call'.trades = << >> /\ call'.kind = "Add"
  BY <1>1, StartType, CallAssumption DEF StartMatching
<1>3. e \in BookEvent /\ events \in Seq(BookEvent)
  BY DEF BookEvent, Inductive, TypeOK
<1>4. FinishEvents(call') = << >>
  BY <1>2 DEF FinishEvents, TradeEvents
<1>5. events' = Append(events, e)
  BY <1>1, <1>3 DEF AcceptedEvents, Logged
<1> QED
  BY <1>1, <1>2, <1>3, <1>4, <1>5 DEF FullLog

LEMMA CancelLogs ==
    ASSUME Inductive, NEW id \in OrderIds, CancelOrder(id), EventMode = "Full"
    PROVE  FullLog' = Append(FullLog, [kind |-> "OrderCancelled", order_id |-> id])
<1>1. call = None /\ call' = None /\ events' = events \o CancelledEvents(id)
  BY DEF CancelOrder, Idle
<1>2. events \in Seq(BookEvent)
  BY DEF Inductive, TypeOK
<1> QED
  BY <1>1, <1>2 DEF FullLog, CancelledEvents, Logged

LEMMA ModifyLogs ==
    ASSUME Inductive, NEW id \in OrderIds, NEW price \in Prices,
           NEW quantity \in Quantities, ModifyOrder(id, price, quantity), EventMode = "Full"
    PROVE  FullLog' = Append(FullLog, [kind |-> "OrderModified", order_id |-> id,
                                       new_price |-> price, new_quantity |-> quantity])
<1> DEFINE side == OrderAt(book, book.order_slots[id]).side
           order == NewOrder(id, side, price, quantity)
           e == [kind |-> "OrderModified", order_id |-> id,
                 new_price |-> price, new_quantity |-> quantity]
<1>1. /\ call = None /\ call' = StartMatching("Modify", order) /\ id \in RestingIds(book)
      /\ events' = events
  BY DEF ModifyOrder, Idle
<1>2. side \in Sides
  BY <1>1, RestingFacts DEF Inductive, BookInv, IndexOK
<1>3. /\ order \in Order /\ order.id = id /\ order.remaining_qty = quantity
      /\ order.price = price
  BY <1>2 DEF NewOrder, Order
<1> HIDE DEF order
<1>4. /\ call' # None /\ call'.trades = << >> /\ call'.kind = "Modify" /\ call'.order = order
  BY <1>1, <1>3, StartType, CallAssumption DEF StartMatching
<1>5. e \in BookEvent /\ events \in Seq(BookEvent)
  BY DEF BookEvent, Inductive, TypeOK
<1>6. TradeEvents(call'.trades) = << >>
  BY <1>4 DEF TradeEvents
<1>7. ModifiedEvents(call'.order) = <<e>>
  BY <1>3, <1>4 DEF ModifiedEvents, Logged
<1>8. FinishEvents(call') = <<e>> \o << >>
  BY <1>4, <1>6, <1>7 DEF FinishEvents
<1>9. events \o (<<e>> \o << >>) = Append(events, e)
  <2> HIDE DEF e
  <2> QED
    BY <1>5
<1> QED
  BY <1>1, <1>4, <1>8, <1>9 DEF FullLog

LEMMA FillLogs ==
    ASSUME Inductive, FillStep, EventMode = "Full"
    PROVE  LET s == BestMakerSlot(book, call.incoming)
               traded == Lesser(call.incoming.remaining_qty, OrderAt(book, s).remaining_qty)
               trade == NewTrade(OrderAt(book, s).id, call.incoming.id,
                                 BestPrice(book, Opposite(call.incoming.side)), traded)
           IN  FullLog' = Append(FullLog, [kind |-> "TradeExecuted", trade |-> trade])
<1> DEFINE s == BestMakerSlot(book, call.incoming)
           traded == Lesser(call.incoming.remaining_qty, OrderAt(book, s).remaining_qty)
           trade == NewTrade(OrderAt(book, s).id, call.incoming.id,
                             BestPrice(book, Opposite(call.incoming.side)), traded)
           e == [kind |-> "TradeExecuted", trade |-> trade]
           before == IF call.kind = "Modify" THEN ModifiedEvents(call.order) ELSE << >>
<1>1. /\ call # None /\ call'.order = call.order /\ call'.kind = call.kind
      /\ call'.trades = Append(call.trades, trade)
  BY FilledCall
<1>2. trade \in Trade /\ call \in Call /\ events' = events
  BY FillFacts DEF NewTrade, Trade, Order
<1>3. call' # None
  BY FillStepInductive, CallAssumption
<1>4. e \in BookEvent
  BY <1>2 DEF BookEvent
<1> HIDE DEF trade, traded, s
<1>5. events \in Seq(BookEvent) /\ before \in Seq(BookEvent)
  BY <1>2, SingleEvents DEF Inductive, TypeOK, Call
<1>6. TradeEvents(call.trades) \in Seq(BookEvent) /\ call.trades \in Seq(Trade)
  BY <1>2, TradeEventsType DEF Call
<1>7. TradeEvents(call'.trades) = Append(TradeEvents(call.trades), e)
  BY <1>1, <1>2, <1>6 DEF TradeEvents
<1>8. /\ FinishEvents(call) = before \o TradeEvents(call.trades)
      /\ FinishEvents(call') = before \o TradeEvents(call'.trades)
  BY <1>1 DEF FinishEvents
<1> HIDE DEF before, e
<1>9. FinishEvents(call') = Append(FinishEvents(call), e)
  BY <1>4, <1>5, <1>6, <1>7, <1>8
<1>10. FinishEvents(call) \in Seq(BookEvent)
  BY <1>5, <1>6, <1>8
<1>11. events \o Append(FinishEvents(call), e) = Append(events \o FinishEvents(call), e)
  BY <1>4, <1>5, <1>10
<1>12. FullLog' = Append(FullLog, e)
  BY <1>1, <1>2, <1>3, <1>9, <1>11 DEF FullLog
<1> QED
  BY <1>12 DEF e, trade, traded, s

LEMMA AddKeepsLog ==
    ASSUME Inductive, LogOK, NEW order \in Order, AddOrder(order)
    PROVE  LogOK'
<1> DEFINE e == [kind |-> "OrderAccepted", order |-> order]
<1>1. /\ call = None /\ call' = StartMatching("Add", order) /\ book' = book
      /\ events' = events \o AcceptedEvents(order) /\ order.id \notin seen_order_ids
  BY DEF AddOrder, Idle
<1>2. call' # None /\ call'.incoming = order
  BY <1>1, StartType, CallAssumption
<1>3. Remaining(book, order.id) = 0
  BY <1>1 DEF Inductive, IndexMatchesArena, Remaining
<1>4. e \in BookEvent
  BY DEF BookEvent
<1>5. EventMode = "Full" => FullLog' = Append(FullLog, e)
  BY AddLogs
<1>6. ASSUME NEW id \in OrderIds PROVE Held(id)' = QuantityAfter(e, id, Held(id))
  <2>1. QuantityAfter(e, id, Held(id)) = IF id = order.id THEN order.remaining_qty ELSE Held(id)
    BY DEF QuantityAfter
  <2>2. /\ Held(id)' = Remaining(book, id) + (IF order.id = id THEN order.remaining_qty ELSE 0)
        /\ Held(id) = Remaining(book, id) + 0
    BY <1>1, <1>2 DEF Held
  <2>3. Remaining(book, id) \in Nat /\ order.remaining_qty \in Nat
    BY HeldType, QuantityFacts DEF Order
  <2> QED
    BY <1>3, <2>1, <2>2, <2>3
<1> QED
  BY <1>4, <1>5, <1>6, LogStep

LEMMA CancelKeepsLog ==
    ASSUME Inductive, LogOK, NEW id \in OrderIds, CancelOrder(id)
    PROVE  LogOK'
<1> DEFINE e == [kind |-> "OrderCancelled", order_id |-> id]
<1>1. /\ call = None /\ call' = None /\ id \in RestingIds(book)
      /\ book' = RemoveOrderById(book, id) /\ events' = events \o CancelledEvents(id)
  BY DEF CancelOrder, Idle
<1>2. /\ Remaining(book', id) = 0
      /\ \A other \in OrderIds \ {id} : Remaining(book', other) = Remaining(book, other)
  BY <1>1, RemovedQuantity
<1>3. e \in BookEvent
  BY DEF BookEvent
<1>4. EventMode = "Full" => FullLog' = Append(FullLog, e)
  BY CancelLogs
<1>5. ASSUME NEW other \in OrderIds PROVE Held(other)' = QuantityAfter(e, other, Held(other))
  BY <1>1, <1>2, HeldType DEF Held, QuantityAfter
<1> QED
  BY <1>3, <1>4, <1>5, LogStep

LEMMA ModifyKeepsLog ==
    ASSUME Inductive, LogOK, NEW id \in OrderIds, NEW price \in Prices,
           NEW quantity \in Quantities, ModifyOrder(id, price, quantity)
    PROVE  LogOK'
<1> DEFINE side == OrderAt(book, book.order_slots[id]).side
           order == NewOrder(id, side, price, quantity)
           e == [kind |-> "OrderModified", order_id |-> id,
                 new_price |-> price, new_quantity |-> quantity]
<1>1. /\ call = None /\ call' = StartMatching("Modify", order) /\ id \in RestingIds(book)
      /\ book' = RemoveOrderById(book, id) /\ events' = events
  BY DEF ModifyOrder, Idle
<1>2. side \in Sides
  BY <1>1, RestingFacts DEF Inductive, BookInv, IndexOK
<1>3. /\ order \in Order /\ order.id = id /\ order.remaining_qty = quantity
      /\ order.price = price
  BY <1>2 DEF NewOrder, Order
<1> HIDE DEF order
<1>4. call' # None /\ call'.incoming = order
  BY <1>1, <1>3, StartType, CallAssumption
<1>5. /\ Remaining(book', id) = 0
      /\ \A other \in OrderIds \ {id} : Remaining(book', other) = Remaining(book, other)
  BY <1>1, RemovedQuantity
<1>6. e \in BookEvent
  BY DEF BookEvent
<1>7. EventMode = "Full" => FullLog' = Append(FullLog, e)
  BY ModifyLogs
<1>8. ASSUME NEW other \in OrderIds PROVE Held(other)' = QuantityAfter(e, other, Held(other))
  <2>1. QuantityAfter(e, other, Held(other)) = IF other = id THEN quantity ELSE Held(other)
    BY DEF QuantityAfter
  <2>2. /\ Held(other)' = Remaining(book', other) + (IF id = other THEN quantity ELSE 0)
        /\ Held(other) = Remaining(book, other) + 0
    BY <1>1, <1>3, <1>4 DEF Held
  <2>3. Remaining(book, other) \in Nat /\ quantity \in Nat
    BY HeldType, QuantityFacts
  <2> QED
    BY <1>5, <2>1, <2>2, <2>3
<1> QED
  BY <1>6, <1>7, <1>8, LogStep

LEMMA FillKeepsLog ==
    ASSUME Inductive, LogOK, FillStep
    PROVE  LogOK'
<1> DEFINE s == BestMakerSlot(book, call.incoming)
           traded == Lesser(call.incoming.remaining_qty, OrderAt(book, s).remaining_qty)
           trade == NewTrade(OrderAt(book, s).id, call.incoming.id,
                             BestPrice(book, Opposite(call.incoming.side)), traded)
           e == [kind |-> "TradeExecuted", trade |-> trade]
           maker == IdAt(book, s)
           taker == call.incoming.id
<1>1. /\ call # None /\ call'.order = call.order /\ call'.kind = call.kind
      /\ call'.incoming = Reduced(call.incoming, traded)
      /\ call'.trades = Append(call.trades, trade)
  BY FilledCall
<1>2. /\ Remaining(book', maker) = Remaining(book, maker) - traded
      /\ \A id \in OrderIds \ {maker} : Remaining(book', id) = Remaining(book, id)
  BY RemainingAfterFill
<1>3. /\ trade \in Trade /\ trade.quantity = traded
      /\ trade.maker_order_id = maker /\ trade.taker_order_id = taker
      /\ traded \in Nat /\ traded <= call.incoming.remaining_qty
      /\ call.incoming \in Order /\ call \in Call /\ events' = events
  BY FillFacts DEF NewTrade, Trade, Order, IdAt
<1>4. maker \in RestingIds(book) /\ maker \in OrderIds /\ taker \notin RestingIds(book)
  <2>1. s \in Occupied(book)
    BY FilledBook
  <2> QED
    BY <1>1, <2>1, RestingFacts DEF Inductive, IndexMatchesArena
<1>5. call' # None
  BY FillStepInductive, CallAssumption
<1>6. e \in BookEvent
  BY <1>3 DEF BookEvent
<1>7. EventMode = "Full" => FullLog' = Append(FullLog, e)
  BY FillLogs
<1> HIDE DEF trade, traded, s, maker, taker
<1>8. ASSUME NEW id \in OrderIds PROVE Held(id)' = QuantityAfter(e, id, Held(id))
  <2>1. QuantityAfter(e, id, Held(id)) =
           IF id = maker \/ id = taker THEN Held(id) - traded ELSE Held(id)
    BY <1>3 DEF QuantityAfter
  <2>2. /\ call.incoming.remaining_qty \in Nat /\ call'.incoming.id = taker
        /\ call'.incoming.remaining_qty = call.incoming.remaining_qty - traded
    BY <1>1, <1>3, QuantityFacts DEF Reduced, Order, taker
  <2>3. Remaining(book, id) \in Nat /\ Remaining(book, maker) \in Nat
    BY <1>4, HeldType
  <2>4. Remaining(book, taker) = 0 /\ maker # taker
    BY <1>4 DEF Remaining
  <2>5. /\ Held(id) = Remaining(book, id)
                        + (IF taker = id THEN call.incoming.remaining_qty ELSE 0)
        /\ Held(id)' = Remaining(book', id)
                        + (IF taker = id THEN call'.incoming.remaining_qty ELSE 0)
    BY <1>1, <1>5, <2>2 DEF Held, taker
  <2>6. CASE id = maker
    BY <1>2, <1>3, <2>1, <2>3, <2>4, <2>5, <2>6
  <2>7. CASE id # maker
    BY <1>2, <1>3, <2>1, <2>2, <2>3, <2>4, <2>5, <2>7
  <2> QED
    BY <2>6, <2>7
<1> QED
  BY <1>6, <1>7, <1>8, LogStep

LEMMA FinishKeepsLog ==
    ASSUME Inductive, LogOK, FinishCall
    PROVE  LogOK'
<1> DEFINE order == call.incoming
<1>1. /\ call # None /\ call' = None /\ events' = events \o FinishEvents(call)
      /\ order \in Order /\ order.id \notin RestingIds(book) /\ BookInv(book, older)
  BY DEF FinishCall, Inductive, TypeOK, IndexMatchesArena, Call
<1>2. FullLog' = FullLog
  BY <1>1 DEF FullLog
<1>3. ASSUME NEW id \in OrderIds PROVE Held(id)' = Held(id)
  <2>1. CASE IsFilled(order)
    <3>1. book' = book /\ order.remaining_qty = 0
      BY <2>1 DEF FinishCall, IsFilled
    <3> QED
      BY <1>1, <3>1, HeldType DEF Held
  <2>2. CASE ~ IsFilled(order)
    <3>1. book' = RestOrder(book, order)
      BY <2>2 DEF FinishCall
    <3>2. Restable(book, order)
      BY <1>1, <2>2, QuantityFacts DEF Restable, IsFilled, Order
    <3> HIDE DEF order
    <3>3. /\ RestingIds(book') = RestingIds(book) \cup {order.id}
          /\ book'.order_slots[order.id] = InsertSlot(book.arena)
          /\ \A x \in RestingIds(book) : book'.order_slots[x] = book.order_slots[x]
      BY <1>1, <3>1, <3>2, RestIndex
    <3>4. /\ OrderAt(book', InsertSlot(book.arena)) = order
          /\ \A t \in Occupied(book) : OrderAt(book', t) = OrderAt(book, t)
      BY <1>1, <3>1, <3>2, RestArena
    <3>5. \A x \in RestingIds(book) : book.order_slots[x] \in Occupied(book)
      BY <1>1 DEF BookInv, IndexOK
    <3>6. /\ Remaining(book, order.id) = 0
          /\ Remaining(book', order.id) = order.remaining_qty
          /\ id # order.id => Remaining(book', id) = Remaining(book, id)
      BY <1>1, <3>3, <3>4, <3>5 DEF Remaining
    <3>7. order.remaining_qty \in Nat /\ Remaining(book, id) \in Nat
      BY <1>1, HeldType, QuantityFacts DEF Order
    <3>8. /\ Held(id)' = Remaining(book', id) + 0
          /\ Held(id) = Remaining(book, id) + (IF order.id = id THEN order.remaining_qty ELSE 0)
      BY <1>1 DEF Held, order
    <3>9. CASE id = order.id
      BY <3>6, <3>7, <3>8, <3>9
    <3>10. CASE id # order.id
      BY <3>6, <3>7, <3>8, <3>10
    <3> QED
      BY <3>9, <3>10
  <2> QED
    BY <2>1, <2>2
<1> QED
  BY <1>2, <1>3 DEF LogOK

LEMMA LogInvariant == Spec => []LogOK
<1>1. Init => LogOK
  BY EmptyLog DEF Init, LogOK, FullLog, Held, Remaining, RestingIds, EmptyBook, EmptyMap
<1>2. Inductive /\ LogOK /\ [Next]_vars => LogOK'
  <2> SUFFICES ASSUME Inductive, LogOK, [Next]_vars PROVE LogOK'
    OBVIOUS
  <2>1. ASSUME UNCHANGED <<book, events, call>> PROVE LogOK'
    BY <2>1 DEF LogOK, FullLog, Held
  <2>2. \A error : Reject(error) => UNCHANGED <<book, events, call>>
    BY DEF Reject
  <2>3. CASE Command
    BY <2>1, <2>2, <2>3, AddKeepsLog, CancelKeepsLog, ModifyKeepsLog
       DEF Command, AddZeroQuantity, AddDuplicate, CancelUnknown,
           ModifyZeroQuantity, ModifyUnknown
  <2>4. CASE UNCHANGED vars
    BY <2>1, <2>4 DEF vars
  <2> QED
    BY <2>3, <2>4, FillKeepsLog, FinishKeepsLog DEF Next
<1> QED
  BY <1>1, <1>2, AlwaysInductive, PTL DEF Spec

\* record_order_accepted and its siblings: between commands the event log of a
\* book in Full mode accounts for every unit of every order that rests.
THEOREM LogAlwaysAccountsForBook == Spec => []LogAccountsForBook
<1>1. Inductive /\ LogOK => LogAccountsForBook
  BY HeldType DEF LogOK, LogAccountsForBook, FullLog, Held
<1> QED
  BY <1>1, AlwaysInductive, LogInvariant, PTL

-----------------------------------------------------------------------------
(* The engine implements PriceTimePriority: RestingOrders(book) stands for *)
(* the bag of resting orders, and every step is a step of that module or a *)
(* stutter.                                                                *)

\* The abstract specification speaks of the same values.
LEMMA PriorityValues ==
    /\ Priority!Order = Order /\ Priority!Quantities = Quantities
    /\ \A id : Priority!Without(id) = Leaves(id)
    /\ \A kind, order : Priority!Start(kind, order) = StartMatching(kind, order)
    /\ \A order : Priority!IsFilled(order) <=> IsFilled(order)
    /\ \A side : Priority!Opposite(side) = Opposite(side)
    /\ \A order, p : Priority!Crosses(order, p) <=> Crosses(order, p)
    /\ \A side, p, q : Priority!Outranks(side, p, q) <=> Outranks(side, p, q)
    /\ \A x, y : Priority!Lesser(x, y) = Lesser(x, y)
    /\ \A m, t, p, q : Priority!NewTrade(m, t, p, q) = NewTrade(m, t, p, q)
    /\ \A id, side, p, q : Priority!NewOrder(id, side, p, q) = NewOrder(id, side, p, q)
BY DEF Priority!Order, Order, Priority!Sides, Sides, Priority!Quantities, Quantities,
       Priority!Without, Leaves, Priority!Start, StartMatching,
       Priority!IsFilled, IsFilled, Priority!Opposite, Opposite,
       Priority!Crosses, Crosses, Priority!Outranks, Outranks,
       Priority!Lesser, Lesser, Priority!NewTrade, NewTrade, Priority!NewOrder, NewOrder

\* The order that an identifier stands for.
LEMMA OrderOfId ==
    ASSUME Inductive, NEW id \in RestingIds(book)
    PROVE  LET o == OrderAt(book, book.order_slots[id])
           IN  /\ o \in RestingOrders(book) /\ o.id = id
               /\ RestingOrders(RemoveOrderById(book, id)) = RestingOrders(book) \ {o}
<1>1. book.order_slots[id] \in Occupied(book) /\ IdAt(book, book.order_slots[id]) = id
  BY DEF Inductive, BookInv, IndexOK
<1> QED
  BY <1>1, DetachedSet DEF Inductive, RestingOrders, Occupied, IdAt, RemoveOrderById

LEMMA CommandRefines ==
    ASSUME Inductive, Command
    PROVE  [Priority!Next]_(Priority!vars)
<1>0. call = None
  BY CommandSteps
<1>1. CASE UNCHANGED <<book, seen_order_ids, call, older>>
  BY <1>1 DEF Priority!vars
<1>2. ASSUME NEW order \in Order, AddOrder(order) PROVE Priority!Next
  <2>1. order.remaining_qty > 0
    BY <1>2, QuantityFacts DEF AddOrder, Order
  <2>2. Priority!Accept(order)
    BY <1>0, <1>2, <2>1, PriorityValues DEF AddOrder, Priority!Accept
  <2> QED
    BY <2>2, PriorityValues DEF Priority!Next
<1>3. ASSUME NEW id \in OrderIds, CancelOrder(id) PROVE Priority!Next
  <2> DEFINE o == OrderAt(book, book.order_slots[id])
  <2>1. o \in RestingOrders(book) /\ o.id = id /\ RestingOrders(book') = RestingOrders(book) \ {o}
    BY <1>3, OrderOfId DEF CancelOrder
  <2>2. Priority!Cancel(o)
    BY <1>0, <1>3, <2>1, PriorityValues DEF CancelOrder, Priority!Cancel
  <2> QED
    BY <2>1, <2>2 DEF Priority!Next
<1>4. ASSUME NEW id \in OrderIds, NEW price \in Prices, NEW quantity \in Quantities,
             ModifyOrder(id, price, quantity)
      PROVE  Priority!Next
  <2> DEFINE o == OrderAt(book, book.order_slots[id])
  <2>1. o \in RestingOrders(book) /\ o.id = id /\ RestingOrders(book') = RestingOrders(book) \ {o}
    BY <1>4, OrderOfId DEF ModifyOrder
  <2>2. quantity > 0
    BY <1>4, QuantityFacts DEF ModifyOrder
  <2>3. Priority!Modify(o, price, quantity)
    BY <1>0, <1>4, <2>1, <2>2, PriorityValues DEF ModifyOrder, Priority!Modify
  <2> QED
    BY <2>1, <2>3, PriorityValues DEF Priority!Next
<1>5. \A error : Reject(error) => UNCHANGED <<book, seen_order_ids, call, older>>
  BY DEF Reject
<1> QED
  BY <1>1, <1>2, <1>3, <1>4, <1>5 DEF Command, AddZeroQuantity, AddDuplicate,
     CancelUnknown, ModifyZeroQuantity, ModifyUnknown

\* The head of the best level has priority over every other order of its side.
LEMMA HeadHasPriority ==
    ASSUME Inductive, FillStep
    PROVE  Priority!HasPriority(OrderAt(book, BestMakerSlot(book, call.incoming)))
<1> DEFINE s == BestMakerSlot(book, call.incoming)
           maker == OrderAt(book, s)
<1>1. s \in Occupied(book) /\ maker.side \in Sides /\ maker.price \in Nat /\ maker \in Order
  BY FillFacts, PriceAssumption DEF Stands
<1>2. BookInv(book, older)
  BY DEF Inductive
<1> SUFFICES ASSUME NEW other \in RestingOrders(book) \ {maker}, other.side = maker.side
             PROVE  \/ Outranks(maker.side, maker.price, other.price)
                    \/ maker.price = other.price /\ <<maker.id, other.id>> \in older
  BY PriorityValues DEF Priority!HasPriority
<1>3. PICK t \in Occupied(book) : other = OrderAt(book, t)
  BY DEF RestingOrders, Occupied
<1>4. /\ ~ Outranks(maker.side, other.price, maker.price)
      /\ other.price = maker.price => <<other.id, maker.id>> \notin older
  BY <1>3, MakerHasPriority
<1>5. /\ other \in Order /\ IdAt(book, t) \in RestingIds(book)
      /\ IdAt(book, s) \in RestingIds(book)
  BY <1>1, <1>2, <1>3, RestingFacts
<1>6. maker.id # other.id
  <2>1. IdAt(book, s) # IdAt(book, t)
    BY <1>1, <1>2, <1>3 DEF BookInv, IndexOK
  <2> QED
    BY <1>3, <2>1 DEF IdAt
<1>7. <<maker.id, other.id>> \in older \/ <<other.id, maker.id>> \in older
  BY <1>2, <1>3, <1>5, <1>6 DEF BookInv, ArrivalOrder, IdAt
<1>8. other.price \in Nat
  BY <1>5, PriceAssumption DEF Order
<1> HIDE DEF maker
<1> QED
  BY <1>1, <1>4, <1>7, <1>8 DEF Outranks, Sides

LEMMA FillRefines ==
    ASSUME Inductive, FillStep
    PROVE  LET maker == OrderAt(book, BestMakerSlot(book, call.incoming))
           IN  maker \in RestingOrders(book) /\ Priority!TradeWith(maker)
<1> DEFINE s == BestMakerSlot(book, call.incoming)
           maker == OrderAt(book, s)
           traded == Lesser(call.incoming.remaining_qty, maker.remaining_qty)
           left == Reduced(maker, traded)
           contra == Opposite(call.incoming.side)
           price == BestPrice(book, contra)
<1>1. /\ s \in Occupied(book) /\ maker.side = contra /\ maker.price = price
      /\ Crosses(call.incoming, price)
      /\ traded \in Nat /\ traded > 0 /\ traded <= maker.remaining_qty
      /\ traded <= call.incoming.remaining_qty
      /\ maker \in Order /\ call.incoming \in Order
      /\ book' = ConsumeMaker(book, s, traded)
      /\ call' = [call EXCEPT
            !.incoming.remaining_qty = @ - traded,
            !.trades = Append(@, NewTrade(maker.id, call.incoming.id, price, traded))]
      /\ older' = IF traded = maker.remaining_qty THEN Leaves(maker.id) ELSE older
      /\ seen_order_ids' = seen_order_ids
  BY FillFacts DEF Stands
<1>2. maker \in RestingOrders(book)
  BY <1>1 DEF RestingOrders, Occupied
<1>3. maker \in Priority!Makers(call.incoming)
  BY <1>1, <1>2, PriorityValues DEF Priority!Makers
<1>4. Priority!HasPriority(maker)
  BY HeadHasPriority
<1>5. call # None /\ ~ IsFilled(call.incoming)
  BY DEF FillStep, CanTrade
<1> HIDE DEF s, traded, price
<1>6. left.id = maker.id /\ (IsFilled(left) <=> traded = maker.remaining_qty)
  <2>1. left.remaining_qty = maker.remaining_qty - traded /\ left.id = maker.id
    BY <1>1 DEF Reduced, Order
  <2>2. maker.remaining_qty \in Nat
    BY <1>1, QuantityFacts DEF Order
  <2> QED
    BY <1>1, <2>1, <2>2 DEF IsFilled
<1>7. RestingOrders(book') = (RestingOrders(book) \ {maker})
                                \cup (IF IsFilled(left) THEN {} ELSE {left})
  <2>1. CASE traded = maker.remaining_qty
    <3>1. book' = Detach(book, s)
      BY <1>1, <2>1 DEF ConsumeMaker
    <3> QED
      BY <1>1, <1>6, <2>1, <3>1, DetachedSet DEF Inductive
  <2>2. CASE traded # maker.remaining_qty
    <3>1. traded < maker.remaining_qty
      BY <1>1, <2>2, QuantityFacts DEF Order
    <3>2. RestingOrders(book') = (RestingOrders(book) \ {maker}) \cup {left}
      BY <1>1, <3>1, ReducedSet DEF Inductive
    <3> HIDE DEF left, maker
    <3> QED
      BY <1>6, <2>2, <3>2
  <2> QED
    BY <2>1, <2>2
<1>8. Priority!TradeWith(maker)
  <2>1. Priority!Lesser(call.incoming.remaining_qty, maker.remaining_qty) = traded
    BY PriorityValues DEF traded
  <2>2. [maker EXCEPT !.remaining_qty = @ - traded] = left
    BY DEF Reduced
  <2>3. NewTrade(maker.id, call.incoming.id, maker.price, traded)
           = NewTrade(maker.id, call.incoming.id, price, traded)
    BY <1>1
  <2> HIDE DEF maker, left
  <2> QED
    BY <1>1, <1>3, <1>4, <1>5, <1>6, <1>7, <2>1, <2>2, <2>3, PriorityValues
       DEF Priority!TradeWith
<1> QED
  BY <1>2, <1>8 DEF s

LEMMA FinishRefines ==
    ASSUME Inductive, FinishCall
    PROVE  Priority!Settle
<1> DEFINE order == call.incoming
<1>1. /\ call # None /\ call' = None /\ seen_order_ids' = seen_order_ids
      /\ order \in Order /\ order.id \notin RestingIds(book) /\ BookInv(book, older)
  BY DEF FinishCall, Inductive, TypeOK, IndexMatchesArena, Call
<1>2. CASE IsFilled(order)
  BY <1>1, <1>2, PriorityValues DEF FinishCall, Priority!Settle
<1>3. CASE ~ IsFilled(order)
  <2>1. book' = RestOrder(book, order) /\ older' = older \cup (RestingIds(book) \X {order.id})
    BY <1>3 DEF FinishCall, Arrives
  <2>2. Restable(book, order)
    BY <1>1, <1>3, QuantityFacts DEF Restable, IsFilled, Order
  <2>3. Priority!Makers(order) = {}
    <3> SUFFICES ASSUME NEW t \in Occupied(book),
                        OrderAt(book, t).side = Opposite(order.side),
                        Crosses(order, OrderAt(book, t).price)
                 PROVE  FALSE
      BY PriorityValues DEF Priority!Makers, RestingOrders, Occupied
    <3>1. OrderAt(book, t).price \in PricesOf(book, OrderAt(book, t).side)
      BY <1>1, RestingFacts
    <3> QED
      BY <1>3, <3>1, NothingCrosses
  <2>4. Priority!Ids = RestingIds(book)
    BY <1>1 DEF Priority!Ids, RestingOrders, Occupied, BookInv, IndexOK, IdAt
  <2> HIDE DEF order
  <2>5. RestingOrders(book') = RestingOrders(book) \cup {order}
    BY <1>1, <2>1, <2>2, RestedSet
  <2> QED
    BY <1>1, <1>3, <2>1, <2>3, <2>4, <2>5, PriorityValues DEF Priority!Settle, order
<1> QED
  BY <1>2, <1>3

\* The linked lists, the arena and the level maps of the engine always pick the
\* maker that has priority, and nothing rests while it could still trade: every
\* step of add_order, cancel_order, modify_order and of the matching loops is a
\* step of PriceTimePriority on the set of resting orders, or changes nothing.
THEOREM ImplementsPriority == Spec => ImplementsPriceTimePriority
<1>1. Init => Priority!Init
  BY DEF Init, EmptyBook, EmptyArena, Priority!Init, RestingOrders, OccupiedSlots, SlotsOf
<1>2. Inductive /\ [Next]_vars => [Priority!Next]_(Priority!vars)
  <2>1. CASE UNCHANGED vars
    BY <2>1 DEF vars, Priority!vars
  <2> QED
    BY <2>1, CommandRefines, FillRefines, FinishRefines DEF Next, Priority!Next
<1> QED
  BY <1>1, <1>2, AlwaysInductive, PTL DEF Spec, ImplementsPriceTimePriority, Priority!Spec

-----------------------------------------------------------------------------
(* The engine implements AtomicBook.  What a command in progress will have *)
(* done when it ends does not change while it matches.                     *)

\* The parts of the outcome that AtomicBook defines, of matching an order against
\* the orders of R, which came in the order B; AtomicOutcome says so.
MakersOf(order, R) ==
    {o \in R : o.side = Opposite(order.side) /\ Crosses(order, o.price)}
AheadOf(order, R, B, m) ==
    {o \in MakersOf(order, R) : \/ Outranks(m.side, o.price, m.price)
                                \/ o.price = m.price /\ <<o.id, m.id>> \in B}
Left(q, taken) == IF q <= taken THEN 0 ELSE q - taken
FillOf(order, R, B, m) ==
    Lesser(m.remaining_qty, Left(order.remaining_qty, UnitsOf(AheadOf(order, R, B, m))))
AfterOf(order, R, B, m) ==
    IF m \in MakersOf(order, R) THEN Reduced(m, FillOf(order, R, B, m)) ELSE m
SurvivorsOf(order, R, B) == {o \in {AfterOf(order, R, B, m) : m \in R} : ~ IsFilled(o)}
RemainderOf(order, R) ==
    [order EXCEPT !.remaining_qty = Left(@, UnitsOf(MakersOf(order, R)))]
Among(pairs, orders) ==
    {pair \in pairs : \A i \in 1 .. 2 : \E o \in orders : o.id = pair[i]}
OutcomeOf(order, R, B) ==
    LET survivors == SurvivorsOf(order, R, B)
        remainder == RemainderOf(order, R)
    IN  [resting |-> survivors \cup (IF IsFilled(remainder) THEN {} ELSE {remainder}),
         older |-> Among(B, survivors)
                      \cup (IF IsFilled(remainder) THEN {}
                            ELSE {o.id : o \in survivors} \X {order.id}),
         trades |-> {NewTrade(m.id, order.id, m.price, FillOf(order, R, B, m)) :
                        m \in {x \in MakersOf(order, R) : FillOf(order, R, B, x) > 0}}]

\* The abstract specification speaks of the same values, sums and outcomes.
LEMMA AtomicValues ==
    /\ \A order : Atomic!IsFilled(order) <=> IsFilled(order)
    /\ \A side : Atomic!Opposite(side) = Opposite(side)
    /\ \A order, p : Atomic!Crosses(order, p) <=> Crosses(order, p)
    /\ \A side, p, q : Atomic!Outranks(side, p, q) <=> Outranks(side, p, q)
    /\ \A x, y : Atomic!Lesser(x, y) = Lesser(x, y)
    /\ \A m, t, p, q : Atomic!NewTrade(m, t, p, q) = NewTrade(m, t, p, q)
    /\ \A id, side, p, q : Atomic!NewOrder(id, side, p, q) = NewOrder(id, side, p, q)
    /\ \A pairs, orders : Atomic!Among(pairs, orders) = Among(pairs, orders)
    /\ Atomic!Order = Order /\ Atomic!Quantities = Quantities
BY DEF Atomic!IsFilled, IsFilled, Atomic!Opposite, Opposite, Atomic!Crosses, Crosses,
       Atomic!Outranks, Outranks, Atomic!Lesser, Lesser, Atomic!NewTrade, NewTrade,
       Atomic!NewOrder, NewOrder, Atomic!Among, Among, Atomic!Order, Order,
       Atomic!Sides, Sides, Atomic!Quantities, Quantities

LEMMA AtomicQuantity == \A S : Atomic!Quantity(S) = UnitsOf(S)
BY DEF Atomic!Quantity, UnitsOf, Atomic!MapThenSumSet, MapThenSumSet,
       Atomic!MapThenFoldSet, MapThenFoldSet

LEMMA AtomicOutcome ==
    ASSUME NEW order, NEW R, NEW B
    PROVE  Atomic!Outcome(order, R, B) = OutcomeOf(order, R, B)
BY DEF Atomic!Outcome, OutcomeOf, SurvivorsOf, RemainderOf, AfterOf, FillOf, AheadOf,
       MakersOf, Left, Reduced, Atomic!IsFilled, IsFilled, Atomic!Opposite, Opposite,
       Atomic!Crosses, Crosses, Atomic!Outranks, Outranks, Atomic!Lesser, Lesser,
       Atomic!NewTrade, NewTrade, Atomic!Among, Among, Atomic!Quantity, UnitsOf,
       Atomic!MapThenSumSet, MapThenSumSet, Atomic!MapThenFoldSet, MapThenFoldSet

\* What the matching loops need to know of the resting orders.
Queued(R, B) ==
    /\ R \in SUBSET Order /\ IsFiniteSet(R)
    /\ \A o \in R : o.remaining_qty > 0
    /\ \A o, p \in R : o.id = p.id => o = p
    /\ \A pair \in B : \E x, y \in R : pair = <<x.id, y.id>>
    /\ \A x \in R : <<x.id, x.id>> \notin B
    /\ \A x, y \in R : <<x.id, y.id>> \in B => <<y.id, x.id>> \notin B

Foremost(R, B, maker) ==
    \A other \in R \ {maker} :
        other.side = maker.side =>
            \/ Outranks(maker.side, maker.price, other.price)
            \/ maker.price = other.price /\ <<maker.id, other.id>> \in B

LEMMA RestingQueued ==
    ASSUME NEW b, NEW before, BookInv(b, before)
    PROVE  Queued(RestingOrders(b), before)
<1>1. /\ IsFiniteSet(RestingOrders(b))
      /\ \A s \in Occupied(b) : /\ OrderAt(b, s) \in Order
                                   /\ OrderAt(b, s).remaining_qty > 0
                                   /\ OrderAt(b, s).id \in RestingIds(b)
                                   /\ b.order_slots[OrderAt(b, s).id] = s
      /\ \A id \in RestingIds(b) : /\ b.order_slots[id] \in Occupied(b)
                                      /\ OrderAt(b, b.order_slots[id]).id = id
  BY RestingOrdersFinite, RestingFacts DEF BookInv, IndexOK, IdAt
<1>2. RestingOrders(b) = {OrderAt(b, s) : s \in Occupied(b)}
  BY DEF RestingOrders, Occupied
<1>3. /\ \A o \in RestingOrders(b) : o \in Order /\ o.remaining_qty > 0
                                        /\ o.id \in RestingIds(b)
      /\ \A o, p \in RestingOrders(b) : o.id = p.id => o = p
      /\ \A id \in RestingIds(b) : \E o \in RestingOrders(b) : o.id = id
  BY <1>1, <1>2
<1>4. /\ before \subseteq RestingIds(b) \X RestingIds(b)
      /\ \A x \in RestingIds(b) : <<x, x>> \notin before
      /\ \A x, y \in RestingIds(b) : <<x, y>> \in before => <<y, x>> \notin before
  BY DEF BookInv, ArrivalOrder
<1>5. \A pair \in before : \E x, y \in RestingOrders(b) : pair = <<x.id, y.id>>
  BY <1>3, <1>4
<1> QED
  BY <1>1, <1>3, <1>4, <1>5 DEF Queued

\* The foremost order is ahead of all others, and nobody is ahead of it.
LEMMA ForemostAhead ==
    ASSUME NEW R, NEW B, Queued(R, B), NEW order \in Order,
           NEW maker \in MakersOf(order, R), Foremost(R, B, maker)
    PROVE  /\ AheadOf(order, R, B, maker) = {}
           /\ \A m \in MakersOf(order, R) \ {maker} : maker \in AheadOf(order, R, B, m)
<1>1. \A m \in MakersOf(order, R) : /\ m \in R /\ m.side = maker.side /\ m.price \in Nat
                                    /\ m.side \in Sides
  BY PriceAssumption DEF MakersOf, Queued, Order
<1>2. ASSUME NEW o \in AheadOf(order, R, B, maker) PROVE FALSE
  <2>1. o \in MakersOf(order, R)
    BY DEF AheadOf
  <2>2. CASE o = maker
    BY <1>1, <2>1, <2>2 DEF AheadOf, Outranks, Queued
  <2>3. CASE o # maker
    <3>1. /\ \/ Outranks(maker.side, o.price, maker.price)
             \/ o.price = maker.price /\ <<o.id, maker.id>> \in B
          /\ \/ Outranks(maker.side, maker.price, o.price)
             \/ maker.price = o.price /\ <<maker.id, o.id>> \in B
      BY <1>1, <2>1, <2>3 DEF AheadOf, Foremost
    <3>2. <<o.id, maker.id>> \in B => <<maker.id, o.id>> \notin B
      BY <1>1, <2>1 DEF Queued
    <3>3. o.price \in Nat /\ maker.price \in Nat
      BY <1>1, <2>1
    <3> QED
      BY <3>1, <3>2, <3>3 DEF Outranks
  <2> QED
    BY <2>2, <2>3
<1>3. ASSUME NEW m \in MakersOf(order, R) \ {maker}
      PROVE  maker \in AheadOf(order, R, B, m)
  BY <1>1 DEF AheadOf, Outranks, Foremost
<1> QED
  BY <1>2, <1>3

\* The sum over the orders ahead: at least what any one of them has.
LEMMA SumAtLeast ==
    ASSUME NEW S \in SUBSET Order, IsFiniteSet(S), NEW x \in S
    PROVE  /\ UnitsOf(S) = UnitsOf(S \ {x}) + x.remaining_qty
           /\ UnitsOf(S) \in Nat /\ UnitsOf(S \ {x}) \in Nat
           /\ x.remaining_qty \in Nat
<1>1. S \ {x} \in SUBSET Order /\ IsFiniteSet(S \ {x}) /\ x \in Order \ (S \ {x})
  BY FS_Subset
<1>2. (S \ {x}) \cup {x} = S
  OBVIOUS
<1>3. UnitsOf((S \ {x}) \cup {x}) = UnitsOf(S \ {x}) + x.remaining_qty
  BY <1>1, SumWith
<1>4. UnitsOf(S \ {x}) \in Nat /\ UnitsOf(S) \in Nat
  BY <1>1, SumStep
<1> QED
  BY <1>2, <1>3, <1>4, QuantityFacts DEF Order

\* What is left of an order that has nothing to give.
LEMMA NothingTaken ==
    ASSUME NEW m \in Order
    PROVE  Reduced(m, 0) = m
<1>1. m.remaining_qty - 0 = m.remaining_qty
  BY QuantityFacts DEF Order
<1> QED
  BY <1>1 DEF Reduced, Order

\* A fill that takes all the maker has: the outcome of what is left of the command
\* is the outcome of the command, but for the trade.
LEMMA WholeMaker ==
    ASSUME NEW R, NEW B, Queued(R, B), NEW order \in Order,
           NEW maker \in MakersOf(order, R), Foremost(R, B, maker),
           maker.remaining_qty <= order.remaining_qty
    PROVE  LET after == Reduced(order, maker.remaining_qty)
               S == R \ {maker}
               C == LeftBehind(B, maker.id)
               whole == OutcomeOf(order, R, B)
               rest == OutcomeOf(after, S, C)
           IN  /\ rest.resting = whole.resting
               /\ rest.older = whole.older
               /\ whole.trades = rest.trades \cup
                     {NewTrade(maker.id, order.id, maker.price, maker.remaining_qty)}
<1> DEFINE q == maker.remaining_qty
           after == Reduced(order, q)
           S == R \ {maker}
           C == LeftBehind(B, maker.id)
<1>1. /\ maker \in R /\ maker \in Order /\ q \in Nat /\ q > 0
      /\ order.remaining_qty \in Nat /\ q <= order.remaining_qty
      /\ R \in SUBSET Order /\ IsFiniteSet(R)
  BY QuantityFacts DEF MakersOf, Queued, Order
<1>2. /\ after.id = order.id /\ after.side = order.side /\ after.price = order.price
      /\ after.remaining_qty = order.remaining_qty - q
      /\ \A n : [after EXCEPT !.remaining_qty = n] = [order EXCEPT !.remaining_qty = n]
  BY DEF Reduced, Order
<1>3. MakersOf(after, S) = MakersOf(order, R) \ {maker}
  BY <1>2 DEF MakersOf, Crosses
<1>4. ASSUME NEW m \in MakersOf(order, R) \ {maker}
      PROVE  /\ AheadOf(after, S, C, m) = AheadOf(order, R, B, m) \ {maker}
             /\ maker \in AheadOf(order, R, B, m)
             /\ AheadOf(order, R, B, m) \in SUBSET R
  <2>1. m \in R /\ m.id # maker.id
    BY <1>1 DEF MakersOf, Queued
  <2>2. \A o \in S : o.id # maker.id
    BY <1>1 DEF Queued
  <2>3. \A o \in S : <<o.id, m.id>> \in C <=> <<o.id, m.id>> \in B
    BY <2>1, <2>2 DEF LeftBehind
  <2>4. MakersOf(order, R) \in SUBSET R
    BY DEF MakersOf
  <2> HIDE DEF C, S, after
  <2>5. AheadOf(after, S, C, m) = AheadOf(order, R, B, m) \ {maker}
    BY <1>3, <2>3, <2>4 DEF AheadOf, S
  <2> QED
    BY <2>4, <2>5, ForemostAhead DEF AheadOf
<1>5. MakersOf(order, R) \in SUBSET R
  BY DEF MakersOf
<1> HIDE DEF after, S, C
<1>6. \A u \in Nat : Left(after.remaining_qty, u) = Left(order.remaining_qty, u + q)
  BY <1>1, <1>2 DEF Left
<1>7. ASSUME NEW T \in SUBSET R, maker \in T
      PROVE  /\ UnitsOf(T) = UnitsOf(T \ {maker}) + q
             /\ UnitsOf(T \ {maker}) \in Nat
  <2>1. T \in SUBSET Order /\ IsFiniteSet(T)
    BY <1>1, FS_Subset
  <2> QED
    BY <1>7, <2>1, SumAtLeast
<1>8. ASSUME NEW m \in MakersOf(order, R) \ {maker}
      PROVE  FillOf(after, S, C, m) = FillOf(order, R, B, m)
  BY <1>4, <1>6, <1>7 DEF FillOf
<1>9. FillOf(order, R, B, maker) = q
  <2>1. AheadOf(order, R, B, maker) = {}
    BY ForemostAhead
  <2>2. UnitsOf({}) = 0
    BY SumStep, FS_EmptySet
  <2> QED
    BY <1>1, <2>1, <2>2 DEF FillOf, Left, Lesser
<1>10. IsFilled(AfterOf(order, R, B, maker))
  BY <1>1, <1>9 DEF AfterOf, Reduced, IsFilled, Order
<1>11. \A m \in S : AfterOf(after, S, C, m) = AfterOf(order, R, B, m)
  BY <1>3, <1>8 DEF AfterOf, S
<1>12. SurvivorsOf(after, S, C) = SurvivorsOf(order, R, B)
  <2>1. R = S \cup {maker}
    BY <1>1 DEF S
  <2> QED
    BY <1>10, <1>11, <2>1 DEF SurvivorsOf
<1>13. RemainderOf(after, S) = RemainderOf(order, R)
  <2>1. Left(after.remaining_qty, UnitsOf(MakersOf(after, S)))
           = Left(order.remaining_qty, UnitsOf(MakersOf(order, R)))
    BY <1>3, <1>5, <1>6, <1>7
  <2> QED
    BY <1>2, <2>1 DEF RemainderOf
<1>14. Among(C, SurvivorsOf(order, R, B)) = Among(B, SurvivorsOf(order, R, B))
  <2>1. \A o \in SurvivorsOf(order, R, B) : o.id # maker.id
    <3> SUFFICES ASSUME NEW m \in R, ~ IsFilled(AfterOf(order, R, B, m))
                 PROVE  AfterOf(order, R, B, m).id # maker.id
      BY DEF SurvivorsOf
    <3>1. m # maker
      BY <1>10
    <3>2. m.id # maker.id
      BY <1>1, <3>1 DEF Queued
    <3>3. AfterOf(order, R, B, m).id = m.id
      BY <1>1 DEF AfterOf, Reduced, Order
    <3> QED
      BY <3>2, <3>3
  <2> QED
    BY <2>1 DEF Among, C, LeftBehind
<1>15. {x \in MakersOf(order, R) : FillOf(order, R, B, x) > 0}
          = {x \in MakersOf(after, S) : FillOf(after, S, C, x) > 0} \cup {maker}
  BY <1>1, <1>3, <1>8, <1>9
<1>16. {NewTrade(m.id, order.id, m.price, FillOf(order, R, B, m)) :
           m \in {x \in MakersOf(order, R) : FillOf(order, R, B, x) > 0}}
         = {NewTrade(m.id, after.id, m.price, FillOf(after, S, C, m)) :
              m \in {x \in MakersOf(after, S) : FillOf(after, S, C, x) > 0}}
           \cup {NewTrade(maker.id, order.id, maker.price, q)}
  BY <1>2, <1>3, <1>8, <1>9, <1>15
<1> QED
  BY <1>2, <1>12, <1>13, <1>14, <1>16 DEF OutcomeOf, q, after, S, C

\* A fill that leaves the maker something: the command has nothing left to do.
LEMMA PartOfMaker ==
    ASSUME NEW R, NEW B, Queued(R, B), NEW order \in Order,
           NEW maker \in MakersOf(order, R), Foremost(R, B, maker),
           0 < order.remaining_qty, order.remaining_qty < maker.remaining_qty
    PROVE  LET q == order.remaining_qty
               whole == OutcomeOf(order, R, B)
           IN  /\ whole.resting = (R \ {maker}) \cup {Reduced(maker, q)}
               /\ whole.older = Among(B, (R \ {maker}) \cup {Reduced(maker, q)})
               /\ whole.trades = {NewTrade(maker.id, order.id, maker.price, q)}
<1> DEFINE q == order.remaining_qty
           S == (R \ {maker}) \cup {Reduced(maker, q)}
<1>1. /\ maker \in R /\ maker \in Order
      /\ q \in Nat /\ q > 0 /\ maker.remaining_qty \in Nat /\ q < maker.remaining_qty
      /\ R \in SUBSET Order /\ IsFiniteSet(R)
      /\ MakersOf(order, R) \in SUBSET R
  BY QuantityFacts DEF MakersOf, Queued, Order
<1>2. ASSUME NEW T \in SUBSET R, maker \in T PROVE Left(q, UnitsOf(T)) = 0
  <2>1. T \in SUBSET Order /\ IsFiniteSet(T)
    BY <1>1, FS_Subset
  <2>2. /\ UnitsOf(T) = UnitsOf(T \ {maker}) + maker.remaining_qty
        /\ UnitsOf(T \ {maker}) \in Nat
    BY <1>2, <2>1, SumAtLeast
  <2> QED
    BY <1>1, <2>2 DEF Left
<1>3. ASSUME NEW m \in MakersOf(order, R) \ {maker} PROVE FillOf(order, R, B, m) = 0
  <2>1. AheadOf(order, R, B, m) \in SUBSET R /\ maker \in AheadOf(order, R, B, m)
    BY <1>1, ForemostAhead DEF AheadOf
  <2>2. m \in Order /\ m.remaining_qty \in Nat
    BY <1>1, QuantityFacts DEF Order
  <2> QED
    BY <1>2, <2>1, <2>2 DEF FillOf, Lesser
<1>4. FillOf(order, R, B, maker) = q
  <2>1. AheadOf(order, R, B, maker) = {}
    BY ForemostAhead
  <2>2. UnitsOf({}) = 0
    BY SumStep, FS_EmptySet
  <2> QED
    BY <1>1, <2>1, <2>2 DEF FillOf, Left, Lesser
<1>5. /\ AfterOf(order, R, B, maker) = Reduced(maker, q)
      /\ \A m \in R \ {maker} : AfterOf(order, R, B, m) = m
  BY <1>1, <1>3, <1>4, NothingTaken DEF AfterOf
<1>6. ~ IsFilled(Reduced(maker, q)) /\ \A m \in R : ~ IsFilled(m)
  BY <1>1 DEF IsFilled, Reduced, Order, Queued
<1>7. SurvivorsOf(order, R, B) = S
  BY <1>1, <1>5, <1>6 DEF SurvivorsOf
<1>8. IsFilled(RemainderOf(order, R))
  BY <1>1, <1>2 DEF RemainderOf, IsFilled, Order
<1>9. {x \in MakersOf(order, R) : FillOf(order, R, B, x) > 0} = {maker}
  BY <1>1, <1>3, <1>4
<1> HIDE DEF q, S
<1> QED
  BY <1>4, <1>7, <1>8, <1>9 DEF OutcomeOf, q, S

\* An order that takes nothing: it is spent, or there is nobody to serve it.
LEMMA NothingToMatch ==
    ASSUME NEW R, NEW B, Queued(R, B), NEW order \in Order,
           IsFilled(order) \/ MakersOf(order, R) = {}
    PROVE  LET outcome == OutcomeOf(order, R, B)
           IN  /\ outcome.resting = R \cup (IF IsFilled(order) THEN {} ELSE {order})
               /\ outcome.older = B \cup (IF IsFilled(order) THEN {}
                                          ELSE {o.id : o \in R} \X {order.id})
               /\ outcome.trades = {}
<1>1. /\ order.remaining_qty \in Nat /\ R \in SUBSET Order /\ IsFiniteSet(R)
      /\ \A m \in R : m \in Order /\ m.remaining_qty \in Nat /\ m.remaining_qty > 0
  BY QuantityFacts DEF Queued, Order
<1>2. \A T \in SUBSET R : UnitsOf(T) \in Nat
  BY <1>1, FS_Subset, SumStep
<1>3. \A m \in MakersOf(order, R) : FillOf(order, R, B, m) = 0
  <2> SUFFICES ASSUME IsFilled(order), NEW m \in MakersOf(order, R)
               PROVE  FillOf(order, R, B, m) = 0
    OBVIOUS
  <2>1. m \in R /\ AheadOf(order, R, B, m) \in SUBSET R
    BY DEF MakersOf, AheadOf
  <2> QED
    BY <1>1, <1>2, <2>1 DEF FillOf, Left, Lesser, IsFilled
<1>4. \A m \in R : AfterOf(order, R, B, m) = m
  BY <1>1, <1>3, NothingTaken DEF AfterOf
<1>5. SurvivorsOf(order, R, B) = R
  BY <1>1, <1>4 DEF SurvivorsOf, IsFilled
<1>6. RemainderOf(order, R) = order
  <2>1. Left(order.remaining_qty, UnitsOf(MakersOf(order, R))) = order.remaining_qty
    <3>1. CASE IsFilled(order)
      <4>1. UnitsOf(MakersOf(order, R)) \in Nat
        BY <1>2 DEF MakersOf
      <4> QED
        BY <3>1, <4>1 DEF Left, IsFilled
    <3>2. CASE MakersOf(order, R) = {}
      <4>1. UnitsOf({}) = 0
        BY SumStep, FS_EmptySet
      <4> QED
        BY <1>1, <3>2, <4>1 DEF Left
    <3> QED
      BY <3>1, <3>2
  <2> QED
    BY <2>1 DEF RemainderOf, Order
<1>7. Among(B, R) = B
  BY DEF Among, Queued
<1>8. {x \in MakersOf(order, R) : FillOf(order, R, B, x) > 0} = {}
  BY <1>3
<1> QED
  BY <1>5, <1>6, <1>7, <1>8 DEF OutcomeOf

LEMMA NothingLeft ==
    ASSUME NEW R, NEW B, Queued(R, B), NEW order \in Order, IsFilled(order)
    PROVE  LET outcome == OutcomeOf(order, R, B)
           IN  outcome.resting = R /\ outcome.older = B /\ outcome.trades = {}
<1> DEFINE outcome == OutcomeOf(order, R, B)
<1>1. /\ outcome.resting = R \cup (IF IsFilled(order) THEN {} ELSE {order})
      /\ outcome.older = B \cup (IF IsFilled(order) THEN {}
                                 ELSE {o.id : o \in R} \X {order.id})
      /\ outcome.trades = {}
  BY NothingToMatch
<1> HIDE DEF outcome
<1>2. outcome.resting = R /\ outcome.older = B /\ outcome.trades = {}
  BY <1>1
<1> QED
  BY <1>2 DEF outcome

\* The order of arrival among all resting orders, and among all but one.
LEMMA AmongAll ==
    ASSUME NEW R, NEW B, Queued(R, B)
    PROVE  Among(B, R) = B
BY DEF Among, Queued

LEMMA AmongOthers ==
    ASSUME NEW R, NEW B, Queued(R, B), NEW o \in R
    PROVE  Among(B, R \ {o}) = {pair \in B : pair[1] # o.id /\ pair[2] # o.id}
<1>1. \A x \in R : x.id # o.id <=> x \in R \ {o}
  BY DEF Queued
<1>2. \A pair \in B : /\ (\E x \in R \ {o} : x.id = pair[1]) <=> pair[1] # o.id
                      /\ (\E x \in R \ {o} : x.id = pair[2]) <=> pair[2] # o.id
  BY <1>1 DEF Queued
<1> QED
  BY <1>2 DEF Among

\* What the command in progress was issued to do, and to whom.
Issued(others) ==
    \/ /\ call.kind = "Add"
       /\ call.order.id \notin at_command.seen_order_ids
       /\ others = at_command.resting
    \/ /\ call.kind = "Modify"
       /\ call.order.id \in at_command.seen_order_ids
       /\ \E o \in at_command.resting :
             /\ o.id = call.order.id /\ o.side = call.order.side
             /\ others = at_command.resting \ {o}
TradesOf(c) == {c.trades[i] : i \in DOMAIN c.trades}

\* The outcome of a command is what it has done so far, and the outcome of what is
\* left of it in the book as it is now.
SameOutcome(others) ==
    LET whole == OutcomeOf(call.order, others, Among(at_command.older, others))
        rest == OutcomeOf(call.incoming, RestingOrders(book), older)
    IN  /\ rest.resting = whole.resting
        /\ rest.older = whole.older
        /\ whole.trades = rest.trades \cup TradesOf(call)

HistoryOK ==
    /\ call = None => at_command = View
    /\ call # None =>
          /\ call.order.remaining_qty > 0
          /\ seen_order_ids = at_command.seen_order_ids \cup {call.order.id}
          /\ \E others : Issued(others) /\ SameOutcome(others)

\* HistoryOK is kept, and the step is one of AtomicBook or changes nothing there.
AtomicStep == HistoryOK' /\ [Atomic!Next]_(Atomic!vars)

\* Every step is a command of AtomicBook, or nothing that its caller sees.
LEMMA RejectIsAtomic ==
    ASSUME HistoryOK, HistoryNext, call = None,
           UNCHANGED <<book, seen_order_ids, call, older>>
    PROVE  AtomicStep
<1>1. at_command' = at_command /\ at_command = View /\ View' = View /\ returned' = returned
  BY DEF HistoryNext, HistoryOK, View
<1> QED
  BY <1>1 DEF AtomicStep, HistoryOK, Atomic!vars

LEMMA AddIsAtomic ==
    ASSUME Inductive, HistoryOK, HistoryNext, NEW order \in Order, AddOrder(order)
    PROVE  AtomicStep
<1>1. call = None /\ at_command = View
  BY DEF AddOrder, Idle, HistoryOK
<1>2. /\ call' = StartMatching("Add", order) /\ call' # None
      /\ call'.kind = "Add" /\ call'.order = order /\ call'.incoming = order
      /\ call'.trades = << >>
      /\ book' = book /\ older' = older /\ seen_order_ids' = seen_order_ids \cup {order.id}
      /\ order.id \notin seen_order_ids /\ order.remaining_qty > 0
  <2>1. call' = StartMatching("Add", order) /\ order.remaining_qty # 0
    BY DEF AddOrder
  <2>2. call' \in Call
    BY <2>1, StartType
  <2> QED
    BY <2>1, <2>2, CallAssumption, QuantityFacts DEF AddOrder, StartMatching, Order
<1>3. at_command' = at_command /\ returned' = returned
  BY <1>1, <1>2 DEF HistoryNext
<1>4. /\ at_command.resting = RestingOrders(book) /\ at_command.older = older
      /\ at_command.seen_order_ids = seen_order_ids
  BY <1>1 DEF View
<1>5. Among(older, RestingOrders(book)) = older
  BY RestingQueued, AmongAll DEF Inductive
<1>6. TradesOf(call') = {}
  BY <1>2 DEF TradesOf
<1>7. SameOutcome(at_command.resting)'
  BY <1>2, <1>3, <1>4, <1>5, <1>6 DEF SameOutcome
<1>8. Issued(at_command.resting)'
  BY <1>2, <1>3, <1>4 DEF Issued
<1>9. HistoryOK'
  BY <1>2, <1>3, <1>4, <1>7, <1>8 DEF HistoryOK
<1> QED
  BY <1>3, <1>9 DEF AtomicStep, Atomic!vars

LEMMA CancelIsAtomic ==
    ASSUME Inductive, HistoryOK, HistoryNext, NEW id \in OrderIds, CancelOrder(id)
    PROVE  AtomicStep
<1> DEFINE o == OrderAt(book, book.order_slots[id])
<1>1. /\ o \in RestingOrders(book) /\ o.id = id
      /\ RestingOrders(book') = RestingOrders(book) \ {o}
  BY OrderOfId DEF CancelOrder
<1> HIDE DEF o
<1>2. /\ call = None /\ call' = None /\ at_command = View /\ at_command' = View'
      /\ returned' = returned /\ seen_order_ids' = seen_order_ids /\ older' = Leaves(o.id)
  BY <1>1 DEF CancelOrder, Idle, HistoryOK, HistoryNext
<1>3. Among(older, RestingOrders(book) \ {o}) = Leaves(o.id)
  BY <1>1, RestingQueued, AmongOthers DEF Inductive, Leaves
<1>4. /\ at_command.resting = RestingOrders(book) /\ at_command.older = older
      /\ at_command.seen_order_ids = seen_order_ids
      /\ at_command'.resting = RestingOrders(book') /\ at_command'.older = older'
      /\ at_command'.seen_order_ids = seen_order_ids'
  BY <1>2 DEF View
<1>5. Atomic!Cancel(o)
  BY <1>1, <1>2, <1>3, <1>4, AtomicValues DEF Atomic!Cancel
<1>6. HistoryOK'
  BY <1>2 DEF HistoryOK
<1> QED
  BY <1>1, <1>4, <1>5, <1>6 DEF AtomicStep, Atomic!Next

LEMMA ModifyIsAtomic ==
    ASSUME Inductive, HistoryOK, HistoryNext, NEW id \in OrderIds, NEW price \in Prices,
           NEW quantity \in Quantities, ModifyOrder(id, price, quantity)
    PROVE  AtomicStep
<1> DEFINE o == OrderAt(book, book.order_slots[id])
           order == NewOrder(id, o.side, price, quantity)
<1>1. /\ o \in RestingOrders(book) /\ o.id = id
      /\ RestingOrders(book') = RestingOrders(book) \ {o}
      /\ id \in seen_order_ids
  BY OrderOfId DEF ModifyOrder, Inductive, IndexMatchesArena
<1>2. o \in Order
  BY <1>1, RestingQueued DEF Inductive, Queued
<1>3. order \in Order /\ order.id = id /\ order.side = o.side /\ order.remaining_qty = quantity
  BY <1>2 DEF NewOrder, Order
<1>4. /\ call = None /\ at_command = View /\ call' = StartMatching("Modify", order)
      /\ older' = Leaves(id) /\ seen_order_ids' = seen_order_ids /\ quantity # 0
  BY DEF ModifyOrder, Idle, HistoryOK
<1> HIDE DEF o, order
<1>5. /\ call' # None /\ call'.kind = "Modify" /\ call'.order = order
      /\ call'.incoming = order /\ call'.trades = << >> /\ quantity > 0
  <2>1. call' \in Call
    BY <1>3, <1>4, StartType
  <2> QED
    BY <1>4, <2>1, CallAssumption, QuantityFacts DEF StartMatching
<1>6. at_command' = at_command /\ returned' = returned
  BY <1>4, <1>5 DEF HistoryNext
<1>7. /\ at_command.resting = RestingOrders(book) /\ at_command.older = older
      /\ at_command.seen_order_ids = seen_order_ids
  BY <1>4 DEF View
<1>8. PICK others : others = RestingOrders(book) \ {o}
  OBVIOUS
<1>9. Among(older, others) = Leaves(id)
  BY <1>1, <1>8, RestingQueued, AmongOthers DEF Inductive, Leaves
<1>10. TradesOf(call') = {}
  BY <1>5 DEF TradesOf
<1>11. OutcomeOf(call'.order, others, Among(at_command'.older, others))
         = OutcomeOf(call'.incoming, RestingOrders(book'), older')
  BY <1>1, <1>4, <1>5, <1>6, <1>7, <1>8, <1>9
<1>12. Issued(others)'
  BY <1>1, <1>3, <1>5, <1>6, <1>7, <1>8 DEF Issued
<1>13. SameOutcome(others)'
  BY <1>10, <1>11 DEF SameOutcome
<1>14. HistoryOK'
  BY <1>1, <1>3, <1>4, <1>5, <1>6, <1>7, <1>12, <1>13 DEF HistoryOK
<1> QED
  BY <1>6, <1>14 DEF AtomicStep, Atomic!vars

LEMMA FillIsAtomic ==
    ASSUME Inductive, Inductive', HistoryOK, HistoryNext, FillStep
    PROVE  AtomicStep
<1> DEFINE maker == OrderAt(book, BestMakerSlot(book, call.incoming))
           R == RestingOrders(book)
           incoming == call.incoming
           q == Lesser(incoming.remaining_qty, maker.remaining_qty)
           trade == NewTrade(maker.id, incoming.id, maker.price, q)
<1>1. /\ maker \in R /\ Priority!TradeWith(maker)
      /\ call # None /\ call \in Call /\ call' \in Call /\ call' # None
      /\ seen_order_ids' = seen_order_ids
  BY FillRefines, FillStepInductive, CallAssumption DEF Inductive, TypeOK, FillStep
<1>2. Queued(R, older) /\ Queued(RestingOrders(book'), older')
  BY RestingQueued DEF Inductive
<1> HIDE DEF maker, R
<1>3. /\ maker \in Order /\ incoming \in Order /\ incoming.remaining_qty \in Nat
      /\ maker.remaining_qty \in Nat /\ incoming.remaining_qty > 0
      /\ maker.remaining_qty > 0
      /\ maker \in MakersOf(incoming, R)
      /\ Foremost(R, older, maker)
  BY <1>1, <1>2, PriorityValues, QuantityFacts
     DEF Priority!TradeWith, Priority!Makers, MakersOf, Priority!HasPriority, Foremost,
         Queued, Call, Order, IsFilled, R
<1>4. /\ RestingOrders(book') = (R \ {maker}) \cup (IF IsFilled(Reduced(maker, q)) THEN {}
                                                   ELSE {Reduced(maker, q)})
      /\ older' = IF IsFilled(Reduced(maker, q)) THEN Leaves(maker.id) ELSE older
      /\ call' = [call EXCEPT !.incoming.remaining_qty = @ - q, !.trades = Append(@, trade)]
  BY <1>1, PriorityValues DEF Priority!TradeWith, Reduced, R
<1>5. /\ call'.kind = call.kind /\ call'.order = call.order
      /\ call'.incoming = Reduced(incoming, q)
      /\ call'.trades = Append(call.trades, trade)
  <2> DEFINE left == Reduced(incoming, q)
             trades == Append(call.trades, trade)
  <2> HIDE DEF q, trade
  <2>1. call' = [kind |-> call.kind, order |-> call.order, incoming |-> left,
                 trades |-> trades]
    BY <1>1, <1>4 DEF Call, Reduced
  <2> HIDE DEF left, trades
  <2>2. /\ call'.kind = call.kind /\ call'.order = call.order
        /\ call'.incoming = left /\ call'.trades = trades
    BY <2>1
  <2> QED
    BY <2>2 DEF left, trades
<1>6. TradesOf(call') = TradesOf(call) \cup {trade}
  <2> HIDE DEF trade
  <2>1. call.trades \in Seq(Trade)
    BY <1>1 DEF Call
  <2> QED
    BY <1>5, <2>1 DEF TradesOf
<1> DEFINE before == OutcomeOf(incoming, R, older)
           after == OutcomeOf(call'.incoming, RestingOrders(book'), older')
<1>7. /\ after.resting = before.resting /\ after.older = before.older
      /\ before.trades = after.trades \cup {trade}
  <2>1. CASE maker.remaining_qty <= incoming.remaining_qty
    <3>1. q = maker.remaining_qty /\ IsFilled(Reduced(maker, q))
      BY <1>3, <2>1 DEF Lesser, Reduced, IsFilled, Order
    <3>2. /\ RestingOrders(book') = R \ {maker}
          /\ older' = LeftBehind(older, maker.id)
      BY <1>4, <3>1 DEF Leaves, LeftBehind
    <3>3. call'.incoming = Reduced(incoming, maker.remaining_qty)
      BY <1>5, <3>1
    <3>4. trade = NewTrade(maker.id, incoming.id, maker.price, maker.remaining_qty)
      BY <3>1
    <3> HIDE DEF q, trade, incoming
    <3> DEFINE rest == OutcomeOf(Reduced(incoming, maker.remaining_qty), R \ {maker},
                                LeftBehind(older, maker.id))
    <3>5. after = rest
      BY <3>2, <3>3
    <3>6. /\ rest.resting = before.resting /\ rest.older = before.older
          /\ before.trades = rest.trades \cup {trade}
      <4>1. /\ rest.resting = before.resting /\ rest.older = before.older
            /\ before.trades = rest.trades \cup
                 {NewTrade(maker.id, incoming.id, maker.price, maker.remaining_qty)}
        BY <1>2, <1>3, <2>1, WholeMaker
      <4> QED
        BY <3>4, <4>1
    <3> HIDE DEF after, before, rest
    <3> QED
      BY <3>5, <3>6
  <2>2. CASE incoming.remaining_qty < maker.remaining_qty
    <3>1. /\ q = incoming.remaining_qty /\ ~ IsFilled(Reduced(maker, q))
          /\ IsFilled(Reduced(incoming, q)) /\ Reduced(incoming, q) \in Order
      BY <1>3, <2>2, QuantityFacts DEF Lesser, Reduced, IsFilled, Order
    <3>2. /\ RestingOrders(book') = (R \ {maker}) \cup {Reduced(maker, q)}
          /\ older' = older
      BY <1>4, <3>1
    <3> HIDE DEF q
    <3>3. /\ after.resting = RestingOrders(book') /\ after.older = older'
          /\ after.trades = {}
      <4>1. IsFilled(call'.incoming) /\ call'.incoming \in Order
        BY <1>5, <3>1
      <4> QED
        BY <1>2, <4>1, NothingLeft
    <3>4. /\ before.resting = RestingOrders(book')
          /\ before.older = Among(older', RestingOrders(book'))
          /\ before.trades = {trade}
      BY <1>2, <1>3, <2>2, <3>1, <3>2, PartOfMaker
    <3> QED
      BY <1>2, <3>3, <3>4, AmongAll
  <2> QED
    BY <1>3, <2>1, <2>2
<1> HIDE DEF q, trade, incoming
<1>8. PICK others : Issued(others) /\ SameOutcome(others)
  BY <1>1 DEF HistoryOK
<1>9. at_command' = at_command /\ returned' = returned
  BY <1>1 DEF HistoryNext
<1>10. Issued(others)'
  BY <1>5, <1>8, <1>9 DEF Issued
<1>11. SameOutcome(others)'
  BY <1>5, <1>6, <1>7, <1>8, <1>9 DEF SameOutcome, R, incoming
<1>12. HistoryOK'
  BY <1>1, <1>5, <1>9, <1>10, <1>11 DEF HistoryOK
<1> QED
  BY <1>9, <1>12 DEF AtomicStep, Atomic!vars

LEMMA FinishIsAtomic ==
    ASSUME Inductive, HistoryOK, HistoryNext, FinishCall
    PROVE  AtomicStep
<1> DEFINE order == call.order
           incoming == call.incoming
           R == RestingOrders(book)
<1>1. /\ Priority!Settle /\ call # None /\ call' = None /\ call \in Call
      /\ seen_order_ids' = seen_order_ids
      /\ incoming \in Order /\ order \in Order
  BY FinishRefines DEF FinishCall, Inductive, TypeOK, Call
<1>2. Queued(R, older)
  BY RestingQueued DEF Inductive
<1>3. PICK others : Issued(others) /\ SameOutcome(others)
  BY <1>1 DEF HistoryOK
<1> DEFINE whole == OutcomeOf(order, others, Among(at_command.older, others))
           rest == OutcomeOf(incoming, R, older)
<1>4. /\ IsFilled(incoming) \/ MakersOf(incoming, R) = {}
      /\ RestingOrders(book') = R \cup (IF IsFilled(incoming) THEN {} ELSE {incoming})
      /\ older' = older \cup (IF IsFilled(incoming) THEN {}
                              ELSE {o.id : o \in R} \X {incoming.id})
  BY <1>1, PriorityValues DEF Priority!Settle, Priority!Makers, Priority!Ids, MakersOf
<1> HIDE DEF R, incoming
<1>5. /\ rest.resting = RestingOrders(book') /\ rest.older = older' /\ rest.trades = {}
  BY <1>1, <1>2, <1>4, NothingToMatch
<1>6. /\ whole.resting = RestingOrders(book') /\ whole.older = older'
      /\ whole.trades = TradesOf(call)
  BY <1>3, <1>5 DEF SameOutcome, R, incoming
<1>7. /\ at_command' = View' /\ returned' = TradesOf(call)
      /\ at_command'.resting = RestingOrders(book') /\ at_command'.older = older'
      /\ at_command'.seen_order_ids = at_command.seen_order_ids \cup {order.id}
      /\ order.remaining_qty > 0
  BY <1>1 DEF HistoryNext, HistoryOK, View, TradesOf
<1> HIDE DEF order
<1>8. Atomic!Place(order, others)
  <2>1. Atomic!Outcome(order, others, Atomic!Among(at_command.older, others)) = whole
    BY AtomicOutcome, AtomicValues
  <2> HIDE DEF whole
  <2> QED
    BY <1>6, <1>7, <2>1 DEF Atomic!Place
<1>9. Atomic!Next
  <2>1. CASE call.kind = "Add"
    <3>1. others = at_command.resting /\ order.id \notin at_command.seen_order_ids
      BY <1>3, <2>1 DEF Issued, order
    <3>2. Atomic!Add(order)
      BY <1>7, <1>8, <3>1 DEF Atomic!Add
    <3> QED
      BY <1>1, <3>2, AtomicValues DEF Atomic!Next
  <2>2. CASE call.kind # "Add"
    <3>1. order.id \in at_command.seen_order_ids
      BY <1>3, <2>2 DEF Issued, order
    <3>2. PICK o \in at_command.resting : /\ o.id = order.id /\ o.side = order.side
                                          /\ others = at_command.resting \ {o}
      BY <1>3, <2>2 DEF Issued, order
    <3>3. /\ NewOrder(o.id, o.side, order.price, order.remaining_qty) = order
          /\ order.price \in Prices /\ order.remaining_qty \in Quantities
      BY <1>1, <3>2 DEF NewOrder, Order
    <3>4. at_command'.seen_order_ids = at_command.seen_order_ids
      BY <1>7, <3>1
    <3>5. Atomic!Modify(o, order.price, order.remaining_qty)
      BY <1>7, <1>8, <3>2, <3>3, <3>4, AtomicValues DEF Atomic!Modify
    <3> QED
      BY <3>2, <3>3, <3>5, AtomicValues DEF Atomic!Next
  <2> QED
    BY <2>1, <2>2
<1>10. HistoryOK'
  BY <1>1, <1>7 DEF HistoryOK
<1> QED
  BY <1>9, <1>10 DEF AtomicStep

\* To its caller every command of the engine is one step: add_order, cancel_order and
\* modify_order have the outcome that AtomicBook computes from the book before them,
\* in which every maker is filled by what those ahead of it have left.
THEOREM ImplementsAtomic == HistorySpec => ImplementsAtomicBook
<1>1. HistoryInit => Inductive /\ HistoryOK /\ Atomic!Init
  <2> SUFFICES ASSUME HistoryInit PROVE Inductive /\ HistoryOK /\ Atomic!Init
    OBVIOUS
  <2>1. RestingOrders(book) = {}
    BY DEF HistoryInit, Init, EmptyBook, EmptyArena, RestingOrders, OccupiedSlots, SlotsOf
  <2> QED
    BY <2>1, InitInductive DEF HistoryInit, Init, View, HistoryOK, Atomic!Init
<1>2. ASSUME Inductive, HistoryOK, [HistoryNext]_historyVars
      PROVE  Inductive' /\ HistoryOK' /\ [Atomic!Next]_(Atomic!vars)
  <2>1. Inductive'
    BY <1>2, StepInductive DEF HistoryNext, historyVars
  <2>2. CASE HistoryNext
    <3>1. CASE Command
      <4>1. call = None
        BY <3>1, CommandSteps
      <4>2. \A error : Reject(error) => UNCHANGED <<book, seen_order_ids, call, older>>
        BY DEF Reject
      <4>3. AtomicStep
        BY <1>2, <2>2, <3>1, <4>1, <4>2, RejectIsAtomic, AddIsAtomic, CancelIsAtomic,
           ModifyIsAtomic
           DEF Command, AddZeroQuantity, AddDuplicate, CancelUnknown,
               ModifyZeroQuantity, ModifyUnknown
      <4> QED
        BY <2>1, <4>3 DEF AtomicStep
    <3> QED
      BY <1>2, <2>1, <2>2, <3>1, FillIsAtomic, FinishIsAtomic
         DEF HistoryNext, Next, AtomicStep
  <2>3. CASE UNCHANGED historyVars
    BY <1>2, <2>1, <2>3
       DEF historyVars, vars, HistoryOK, View, Issued, SameOutcome, TradesOf, Atomic!vars
  <2> QED
    BY <1>2, <2>2, <2>3
<1> QED
  BY <1>1, <1>2, PTL DEF HistorySpec, ImplementsAtomicBook, Atomic!Spec

-----------------------------------------------------------------------------
(* Replay.  The live book of a saved log went through a chain of states;   *)
(* the book that is rebuilt goes through the same ones, because a log and  *)
(* the engine leave it no choice.                                          *)

State(b, s, e, c) == [book |-> b, seen |-> s, events |-> e, call |-> c]
Start == State(EmptyBook, {}, << >>, None)
Now == State(book, seen_order_ids, events, call)
Rebuilding == State(new_book, new_seen, new_events, new_call)

IsState(x) ==
    /\ x = State(x.book, x.seen, x.events, x.call)
    /\ x.events \in Seq(BookEvent)
    /\ x.call \in Call \cup {None}

\* What event e of a log says of the states before and after its command.
Commanded(x, e, y) ==
    \/ /\ e.kind = "OrderAccepted"
       /\ e.order.remaining_qty # 0
       /\ e.order.id \notin x.seen
       /\ y = State(x.book, x.seen \cup {e.order.id}, Append(x.events, e),
                    StartMatching("Add", e.order))
    \/ /\ e.kind = "OrderCancelled"
       /\ e.order_id \in RestingIds(x.book)
       /\ y = State(RemoveOrderById(x.book, e.order_id), x.seen, Append(x.events, e), None)
    \/ /\ e.kind = "OrderModified"
       /\ e.order_id \in RestingIds(x.book)
       /\ e.new_quantity # 0
       /\ y = State(RemoveOrderById(x.book, e.order_id), x.seen, x.events,
                    StartMatching("Modify",
                       NewOrder(e.order_id,
                                OrderAt(x.book, x.book.order_slots[e.order_id]).side,
                                e.new_price, e.new_quantity)))
       /\ y.call # None

\* A command in progress goes on in one way only.
Matches(x) ==
    LET incoming == x.call.incoming
        contra == Opposite(incoming.side)
    IN  /\ ~ IsFilled(incoming)
        /\ \E p \in PricesOf(x.book, contra) :
              IsBestPrice(x.book, contra, p) /\ Crosses(incoming, p)
Matched(x) ==
    LET incoming == x.call.incoming
        slot == BestMakerSlot(x.book, incoming)
        resting == OrderAt(x.book, slot)
        traded == Lesser(incoming.remaining_qty, resting.remaining_qty)
        trade == NewTrade(resting.id, incoming.id,
                          BestPrice(x.book, Opposite(incoming.side)), traded)
    IN  State(ConsumeMaker(x.book, slot, traded), x.seen, x.events,
              [x.call EXCEPT !.incoming.remaining_qty = @ - traded,
                             !.trades = Append(@, trade)])
Finished(x) ==
    State(IF IsFilled(x.call.incoming) THEN x.book ELSE RestOrder(x.book, x.call.incoming),
          x.seen, x.events \o FinishEvents(x.call), None)

Moves(x, y) ==
    \/ x.call = None /\ \E e \in BookEvent : Commanded(x, e, y)
    \/ x.call # None /\ Matches(x) /\ y = Matched(x) /\ y.call # None
    \/ x.call # None /\ ~ Matches(x) /\ y = Finished(x)

\* The events of a state, with the one that its command has yet to record
\* before its trades.
Announced(x) ==
    IF x.call # None /\ x.call.kind = "Modify"
      THEN x.events \o ModifiedEvents(x.call.order) ELSE x.events

Begins(s, t) == Len(s) <= Len(t) /\ \A i \in 1 .. Len(s) : s[i] = t[i]

Chain(f, m) ==
    /\ m \in Nat \ {0}
    /\ f[1] = Start
    /\ \A i \in 1 .. m : IsState(f[i]) /\ Begins(Announced(f[i]), Announced(f[m]))
    /\ \A i \in 1 .. m : i < m => Moves(f[i], f[i + 1])

\* Replay has come to the end of the command in progress, or to a trade that the
\* command before has made.
CursorOK ==
    LET known == Len(Announced(Rebuilding))
    IN  /\ cursor \in Nat \ {0}
        /\ cursor <= known + 1
        /\ new_call # None => cursor = known + 1
        /\ \A i \in cursor .. known : log[i].kind = "TradeExecuted"

ReplayOK ==
    /\ phase \in {"live", "replaying", "rebuilt"}
    /\ \E m \in Nat : \E f : /\ Chain(f, m)
                             /\ f[m] = Now
                             /\ \E j \in 1 .. m : f[j] = Rebuilding
    /\ phase = "live" => Rebuilding = Start /\ cursor = 1
    /\ phase # "live" => call = None /\ log = events /\ CursorOK
    /\ phase = "rebuilt" => new_call = None /\ cursor > Len(log)

LEMMA StateFacts ==
    ASSUME NEW b, NEW s, NEW e, NEW c
    PROVE  LET x == State(b, s, e, c)
           IN  /\ x.book = b /\ x.seen = s /\ x.events = e /\ x.call = c
               /\ x = State(x.book, x.seen, x.events, x.call)
BY DEF State

LEMMA FullEvents ==
    ASSUME EventMode = "Full"
    PROVE  /\ \A order : AcceptedEvents(order) = <<[kind |-> "OrderAccepted", order |-> order]>>
           /\ \A id : CancelledEvents(id) = <<[kind |-> "OrderCancelled", order_id |-> id]>>
           /\ \A order : ModifiedEvents(order)
                 = <<[kind |-> "OrderModified", order_id |-> order.id,
                      new_price |-> order.price, new_quantity |-> order.remaining_qty]>>
           /\ \A e : \A events_ \in Seq(BookEvent) : events_ \o <<e>> = Append(events_, e)
BY DEF AcceptedEvents, CancelledEvents, ModifiedEvents, Logged

\* A step of the live book, unless it rejects a command.
LEMMA LiveMoves ==
    ASSUME EventMode = "Full", Inductive, Next
    PROVE  Now' = Now \/ Moves(Now, Now')
<1>0. /\ Now.book = book /\ Now.seen = seen_order_ids /\ Now.events = events
      /\ Now.call = call /\ events \in Seq(BookEvent)
      /\ Now' = State(book', seen_order_ids', events', call')
  BY StateFacts DEF Now, Inductive, TypeOK
<1>1. ASSUME NEW error, Reject(error) PROVE Now' = Now
  BY <1>0, <1>1 DEF Reject, Now
<1> HIDE DEF Now
<1>2. ASSUME NEW order \in Order, AddOrder(order) PROVE Moves(Now, Now')
  <2> DEFINE e == [kind |-> "OrderAccepted", order |-> order]
  <2>1. e \in BookEvent /\ e.kind = "OrderAccepted" /\ e.order = order
    BY DEF BookEvent
  <2>2. events' = Append(events, e)
    BY <1>0, <1>2, FullEvents DEF AddOrder
  <2> HIDE DEF e
  <2>3. Commanded(Now, e, Now')
    BY <1>0, <1>2, <2>1, <2>2 DEF AddOrder, Commanded
  <2> QED
    BY <1>0, <1>2, <2>1, <2>3 DEF Moves, AddOrder, Idle
<1>3. ASSUME NEW id \in OrderIds, CancelOrder(id) PROVE Moves(Now, Now')
  <2> DEFINE e == [kind |-> "OrderCancelled", order_id |-> id]
  <2>1. e \in BookEvent /\ e.kind = "OrderCancelled" /\ e.order_id = id
    BY DEF BookEvent
  <2>2. events' = Append(events, e)
    BY <1>0, <1>3, FullEvents DEF CancelOrder
  <2> HIDE DEF e
  <2>3. Commanded(Now, e, Now')
    BY <1>0, <1>3, <2>1, <2>2 DEF CancelOrder, Commanded, Idle
  <2> QED
    BY <1>0, <1>3, <2>1, <2>3 DEF Moves, CancelOrder, Idle
<1>4. ASSUME NEW id \in OrderIds, NEW price \in Prices, NEW quantity \in Quantities,
             ModifyOrder(id, price, quantity)
      PROVE  Moves(Now, Now')
  <2> DEFINE e == [kind |-> "OrderModified", order_id |-> id, new_price |-> price,
                   new_quantity |-> quantity]
  <2>1. /\ e \in BookEvent /\ e.kind = "OrderModified" /\ e.order_id = id
        /\ e.new_price = price /\ e.new_quantity = quantity
    BY DEF BookEvent
  <2> HIDE DEF e
  <2>2. call' # None
    <3> DEFINE s == book.order_slots[id]
               order == NewOrder(id, OrderAt(book, s).side, price, quantity)
    <3>1. s \in Occupied(book) /\ call' = StartMatching("Modify", order)
      BY <1>4 DEF ModifyOrder, Inductive, BookInv, IndexOK
    <3>2. OrderAt(book, s).side \in Sides
      BY <3>1, RestingFacts DEF Inductive
    <3>3. order \in Order
      BY <3>2 DEF NewOrder, Order
    <3> HIDE DEF order
    <3> QED
      BY <3>1, <3>3, StartType, CallAssumption
  <2>3. Now'.call = call'
    BY <1>0, StateFacts
  <2>4. Commanded(Now, e, Now')
    BY <1>0, <1>4, <2>1, <2>2, <2>3 DEF ModifyOrder, Commanded
  <2> QED
    BY <1>0, <1>4, <2>1, <2>4 DEF Moves, ModifyOrder, Idle
<1>5. ASSUME FillStep PROVE Moves(Now, Now')
  <2>1. Matches(Now)
    BY <1>0, <1>5 DEF FillStep, CanTrade, Matches
  <2>2. Now' = Matched(Now)
    BY <1>0, <1>5 DEF FillStep, Matched
  <2>3. Now'.call # None
    BY <1>0, <1>5, FillStepInductive, CallAssumption, StateFacts
  <2> QED
    BY <1>0, <1>5, <2>1, <2>2, <2>3 DEF Moves, FillStep
<1>6. ASSUME FinishCall PROVE Moves(Now, Now')
  <2>1. ~ Matches(Now)
    BY <1>0, <1>6 DEF FinishCall, CanTrade, Matches
  <2>2. Now' = Finished(Now)
    BY <1>0, <1>6 DEF FinishCall, Finished
  <2> QED
    BY <1>0, <1>6, <2>1, <2>2 DEF Moves, FinishCall
<1>7. CASE Command
  BY <1>1, <1>2, <1>3, <1>4, <1>7 DEF Command, AddZeroQuantity, AddDuplicate,
     CancelUnknown, ModifyZeroQuantity, ModifyUnknown
<1> QED
  BY <1>5, <1>6, <1>7 DEF Next

\* The operators of the book being rebuilt are those of the live book.
LEMMA RebuildingValues ==
    /\ \A b, s, t : New!ConsumeMaker(b, s, t) = ConsumeMaker(b, s, t)
    /\ \A b, id : New!RemoveOrderById(b, id) = RemoveOrderById(b, id)
    /\ \A b, order : New!RestOrder(b, order) = RestOrder(b, order)
    /\ \A b, s : New!OrderAt(b, s) = OrderAt(b, s)
    /\ \A b : New!RestingIds(b) = RestingIds(b)
    /\ \A b, side : New!PricesOf(b, side) = PricesOf(b, side)
    /\ \A b, order : New!BestMakerSlot(b, order) = BestMakerSlot(b, order)
    /\ \A b, side : New!BestPrice(b, side) = BestPrice(b, side)
    /\ \A b, side, p : New!IsBestPrice(b, side, p) <=> IsBestPrice(b, side, p)
<1>1. \A b, s : New!Detach(b, s) = Detach(b, s)
  BY DEF New!Detach, Detach, New!OrderAt, OrderAt, New!Unlink, Unlink, New!SetNext,
     SetNext, New!SetPrev, SetPrev, New!IsEmptyLevel, IsEmptyLevel, New!DropLevel,
     DropLevel, New!PutLevel, PutLevel, New!Remove, Remove, New!VacantBefore,
     VacantBefore, New!Unindexed, Unindexed, New!RestingIds, RestingIds,
     New!Restrict, Restrict
<1>2. \A b, order : New!RestOrder(b, order) = RestOrder(b, order)
  BY DEF New!RestOrder, RestOrder, New!InsertSlot, InsertSlot, New!PushBack, PushBack,
     New!LevelOrDefault, LevelOrDefault, New!PricesOf, PricesOf, New!EmptyLevel,
     EmptyLevel, New!Insert, Insert, New!OccupiedBy, OccupiedBy, New!SetNext, SetNext,
     New!SetPrev, SetPrev, New!PutLevel, PutLevel, New!RestingIds, RestingIds
<1>3. \A b, s, t : New!ConsumeMaker(b, s, t) = ConsumeMaker(b, s, t)
  BY DEF New!ConsumeMaker, ConsumeMaker, New!Detach, Detach, New!OrderAt, OrderAt,
     New!Unlink, Unlink, New!SetNext, SetNext, New!SetPrev, SetPrev, New!IsEmptyLevel,
     IsEmptyLevel, New!DropLevel, DropLevel, New!PutLevel, PutLevel, New!Remove, Remove,
     New!VacantBefore, VacantBefore, New!Unindexed, Unindexed, New!RestingIds,
     RestingIds, New!Restrict, Restrict
<1>4. \A b, id : New!RemoveOrderById(b, id) = RemoveOrderById(b, id)
  BY <1>1 DEF New!RemoveOrderById, RemoveOrderById
<1>5. /\ \A b, s : New!OrderAt(b, s) = OrderAt(b, s)
      /\ \A b : New!RestingIds(b) = RestingIds(b)
      /\ \A b, side : New!PricesOf(b, side) = PricesOf(b, side)
  BY DEF New!OrderAt, OrderAt, New!RestingIds, RestingIds, New!PricesOf, PricesOf
<1>6. /\ \A b, order : New!BestMakerSlot(b, order) = BestMakerSlot(b, order)
      /\ \A b, side : New!BestPrice(b, side) = BestPrice(b, side)
      /\ \A b, side, p : New!IsBestPrice(b, side, p) <=> IsBestPrice(b, side, p)
  BY DEF New!BestMakerSlot, BestMakerSlot, New!BestPrice, BestPrice, New!IsBestPrice,
     IsBestPrice, New!PricesOf, PricesOf, New!Opposite, Opposite, New!Outranks, Outranks
<1> QED
  BY <1>2, <1>3, <1>4, <1>5, <1>6

LEMMA RebuildingEvents ==
    ASSUME EventMode = "Full"
    PROVE  /\ \A order : New!AcceptedEvents(order) = AcceptedEvents(order)
           /\ \A id : New!CancelledEvents(id) = CancelledEvents(id)
           /\ \A c : New!FinishEvents(c) = FinishEvents(c)
           /\ \A kind, order : New!StartMatching(kind, order) = StartMatching(kind, order)
           /\ \A id, side, p, q : New!NewOrder(id, side, p, q) = NewOrder(id, side, p, q)
           /\ \A order : New!IsFilled(order) <=> IsFilled(order)
           /\ \A order, p : New!Crosses(order, p) <=> Crosses(order, p)
           /\ \A side : New!Opposite(side) = Opposite(side)
           /\ \A x, y : New!Lesser(x, y) = Lesser(x, y)
           /\ \A m, t, p, q : New!NewTrade(m, t, p, q) = NewTrade(m, t, p, q)
<1>1. \A modes, e : New!Logged(modes, e) = Logged(modes, e)
  BY DEF New!Logged, Logged
<1>2. \A trades : New!TradeEvents(trades) = TradeEvents(trades)
  BY DEF New!TradeEvents, TradeEvents
<1>3. \A order : New!ModifiedEvents(order) = ModifiedEvents(order)
  BY <1>1 DEF New!ModifiedEvents, ModifiedEvents
<1>4. \A c : New!FinishEvents(c) = FinishEvents(c)
  BY <1>2, <1>3 DEF New!FinishEvents, FinishEvents
<1> QED
  BY <1>1, <1>4 DEF New!AcceptedEvents, AcceptedEvents, New!CancelledEvents,
     CancelledEvents, New!StartMatching, StartMatching, New!NewOrder, NewOrder,
     New!IsFilled, IsFilled, New!Crosses, Crosses, New!Opposite, Opposite,
     New!Lesser, Lesser, New!NewTrade, NewTrade

\* The book being rebuilt goes on with a command as the live book did.
LEMMA RebuildingMoves ==
    ASSUME EventMode = "Full", New!FillStep \/ New!FinishCall, NEW y, Moves(Rebuilding, y)
    PROVE  Rebuilding' = y
<1>0. /\ Rebuilding.book = new_book /\ Rebuilding.seen = new_seen
      /\ Rebuilding.events = new_events /\ Rebuilding.call = new_call
      /\ Rebuilding' = State(new_book', new_seen', new_events', new_call')
  BY StateFacts DEF Rebuilding
<1> HIDE DEF Rebuilding
<1>1. CASE New!FillStep
  <2>1. Rebuilding.call # None /\ Matches(Rebuilding)
    BY <1>0, <1>1, RebuildingValues, RebuildingEvents
       DEF New!FillStep, New!CanTrade, Matches
  <2>2. Rebuilding' = Matched(Rebuilding)
    BY <1>0, <1>1, RebuildingValues, RebuildingEvents DEF New!FillStep, Matched
  <2> QED
    BY <2>1, <2>2 DEF Moves
<1>2. CASE New!FinishCall
  <2>1. Rebuilding.call # None /\ ~ Matches(Rebuilding)
    BY <1>0, <1>2, RebuildingValues, RebuildingEvents
       DEF New!FinishCall, New!CanTrade, Matches
  <2>2. Rebuilding' = Finished(Rebuilding)
    BY <1>0, <1>2, RebuildingValues, RebuildingEvents DEF New!FinishCall, Finished
  <2> QED
    BY <2>1, <2>2 DEF Moves
<1> QED
  BY <1>1, <1>2

\* A command of the log is accepted by the book being rebuilt, and does to it what
\* it did to the live book.
LEMMA CommandRepeats ==
    ASSUME EventMode = "Full", new_events \in Seq(BookEvent),
           NEW e \in BookEvent, NEW y, Commanded(Rebuilding, e, y)
    PROVE  /\ e.kind = "OrderAccepted" =>
                /\ New!AddOrder(e.order) => Rebuilding' = y
                /\ ~ New!AddZeroQuantity(e.order) /\ ~ New!AddDuplicate(e.order)
           /\ e.kind = "OrderCancelled" =>
                /\ New!CancelOrder(e.order_id) => Rebuilding' = y
                /\ ~ New!CancelUnknown(e.order_id)
           /\ e.kind = "OrderModified" =>
                /\ New!ModifyOrder(e.order_id, e.new_price, e.new_quantity)
                      => Rebuilding' = y
                /\ ~ New!ModifyZeroQuantity(e.order_id, e.new_quantity)
                /\ ~ New!ModifyUnknown(e.order_id, e.new_quantity)
<1>0. /\ Rebuilding.book = new_book /\ Rebuilding.seen = new_seen
      /\ Rebuilding.events = new_events /\ Rebuilding.call = new_call
      /\ Rebuilding' = State(new_book', new_seen', new_events', new_call')
  BY StateFacts DEF Rebuilding
<1> HIDE DEF Rebuilding
<1>1. CASE e.kind = "OrderAccepted"
  <2>1. e = [kind |-> "OrderAccepted", order |-> e.order]
    BY <1>1 DEF BookEvent
  <2>2. New!AddOrder(e.order) => new_events' = Append(new_events, e)
    BY <2>1, FullEvents, RebuildingEvents DEF New!AddOrder
  <2> QED
    BY <1>0, <1>1, <2>2, RebuildingEvents
       DEF Commanded, New!AddOrder, New!AddZeroQuantity, New!AddDuplicate
<1>2. CASE e.kind = "OrderCancelled"
  <2>1. e = [kind |-> "OrderCancelled", order_id |-> e.order_id]
    BY <1>2 DEF BookEvent
  <2>2. New!CancelOrder(e.order_id) => new_events' = Append(new_events, e)
    BY <2>1, FullEvents, RebuildingEvents DEF New!CancelOrder
  <2> QED
    BY <1>0, <1>2, <2>2, RebuildingValues
       DEF Commanded, New!CancelOrder, New!CancelUnknown, New!Idle
<1>3. CASE e.kind = "OrderModified"
  BY <1>0, <1>3, RebuildingValues, RebuildingEvents
     DEF Commanded, New!ModifyOrder, New!ModifyZeroQuantity, New!ModifyUnknown
<1> QED
  BY <1>1, <1>2, <1>3

\* A command announces one event, which is no trade.
LEMMA CommandAnnounces ==
    ASSUME EventMode = "Full", NEW x, IsState(x), x.call = None,
           NEW e \in BookEvent, NEW y, Commanded(x, e, y)
    PROVE  /\ e.kind # "TradeExecuted"
           /\ Announced(x) = x.events
           /\ Announced(y) = Append(x.events, e)
<1>1. Announced(x) = x.events
  BY DEF Announced
<1>2. CASE e.kind = "OrderAccepted"
  <2>1. y.events = Append(x.events, e) /\ y.call = StartMatching("Add", e.order)
    BY <1>2 DEF Commanded, State
  <2> QED
    BY <1>1, <1>2, <2>1 DEF Announced, StartMatching
<1>3. CASE e.kind = "OrderCancelled"
  <2>1. y.events = Append(x.events, e) /\ y.call = None
    BY <1>3 DEF Commanded, State
  <2> QED
    BY <1>1, <1>3, <2>1 DEF Announced
<1>4. CASE e.kind = "OrderModified"
  <2>1. e = [kind |-> "OrderModified", order_id |-> e.order_id,
             new_price |-> e.new_price, new_quantity |-> e.new_quantity]
    BY <1>4 DEF BookEvent
  <2>2. PICK order : /\ y.events = x.events
                     /\ y.call = StartMatching("Modify", order)
                     /\ order.id = e.order_id
                     /\ order.price = e.new_price
                     /\ order.remaining_qty = e.new_quantity
    <3> DEFINE order == NewOrder(e.order_id,
                                 OrderAt(x.book, x.book.order_slots[e.order_id]).side,
                                 e.new_price, e.new_quantity)
    <3>1. y.events = x.events /\ y.call = StartMatching("Modify", order)
      BY <1>4, StateFacts DEF Commanded
    <3>2. /\ order.id = e.order_id /\ order.price = e.new_price
          /\ order.remaining_qty = e.new_quantity
      BY DEF NewOrder
    <3> HIDE DEF order
    <3> QED
      BY <3>1, <3>2
  <2>3. y.call # None /\ y.call.kind = "Modify" /\ y.call.order = order
    BY <1>4, <2>2 DEF Commanded, StartMatching
  <2>4. ModifiedEvents(order) = <<e>>
    BY <2>1, <2>2, FullEvents
  <2> QED
    BY <1>1, <1>4, <2>2, <2>3, <2>4, FullEvents DEF Announced, IsState
<1> QED
  BY <1>1, <1>2, <1>3, <1>4 DEF Commanded

\* What is announced is a sequence of events, and no step takes any of it back.
LEMMA AnnouncedType ==
    ASSUME NEW x, IsState(x)
    PROVE  Announced(x) \in Seq(BookEvent)
<1>1. CASE x.call # None /\ x.call.kind = "Modify"
  <2>1. ModifiedEvents(x.call.order) \in Seq(BookEvent)
    BY <1>1, SingleEvents DEF IsState, Call
  <2> QED
    BY <1>1, <2>1 DEF Announced, IsState
<1> QED
  BY <1>1 DEF Announced, IsState

LEMMA MatchingAnnounces ==
    ASSUME NEW x, IsState(x), x.call # None, NEW y, Moves(x, y)
    PROVE  /\ y.call # None => Announced(y) = Announced(x)
           /\ y.call = None =>
                 /\ Begins(Announced(x), Announced(y))
                 /\ \A i \in 1 .. Len(Announced(y)) :
                       i > Len(Announced(x)) => Announced(y)[i].kind = "TradeExecuted"
<1>0. x.call \in Call
  BY DEF IsState
<1>1. CASE Matches(x)
  <2>1. y = Matched(x) /\ y.call # None
    BY <1>1 DEF Moves
  <2>2. /\ y.events = x.events
        /\ y.call.kind = x.call.kind
        /\ y.call.order = x.call.order
    BY <1>0, <2>1 DEF Matched, State, Call
  <2> QED
    BY <2>1, <2>2 DEF Announced
<1>2. CASE ~ Matches(x)
  <2> DEFINE trades == TradeEvents(x.call.trades)
             modified == IF x.call.kind = "Modify" THEN ModifiedEvents(x.call.order) ELSE << >>
  <2>1. y.call = None /\ y.events = x.events \o (modified \o trades)
    <3>1. y = Finished(x)
      BY <1>2 DEF Moves
    <3>2. y.call = None /\ y.events = x.events \o FinishEvents(x.call)
      BY <3>1 DEF Finished, State
    <3>3. FinishEvents(x.call) = modified \o trades
      BY DEF FinishEvents
    <3> QED
      BY <3>2, <3>3
  <2>2. trades \in Seq(BookEvent) /\ modified \in Seq(BookEvent)
    <3>1. x.call.order \in Order /\ x.call.trades \in Seq(Trade)
      BY <1>0 DEF Call
    <3>2. ModifiedEvents(x.call.order) \in Seq(BookEvent)
      BY <3>1, SingleEvents
    <3> QED
      BY <3>1, <3>2, TradeEventsType
  <2>3. \A i \in 1 .. Len(trades) : trades[i].kind = "TradeExecuted"
    BY <1>0 DEF TradeEvents, Call
  <2>4. Announced(x) = x.events \o modified
    BY ConcatEmptySeq DEF Announced, IsState
  <2> HIDE DEF trades, modified
  <2>5. Announced(y) = Announced(x) \o trades
    <3>1. x.events \in Seq(BookEvent)
      BY DEF IsState
    <3>2. \A s, t, u \in Seq(BookEvent) : (s \o t) \o u = s \o (t \o u)
      BY ConcatAssociative
    <3> QED
      <4>1. Announced(y) = y.events
        BY <2>1 DEF Announced
      <4>2. (x.events \o modified) \o trades = x.events \o (modified \o trades)
        BY <2>2, <3>1, <3>2, Zenon
      <4> QED
        BY <2>1, <2>4, <4>1, <4>2
  <2>6. Announced(x) \in Seq(BookEvent)
    BY AnnouncedType
  <2> QED
    BY <2>1, <2>2, <2>3, <2>5, <2>6, ConcatProperties DEF Begins
<1> QED
  BY <1>1, <1>2

LEMMA MovesAnnounce ==
    ASSUME EventMode = "Full", NEW x, IsState(x), NEW y, IsState(y), Moves(x, y)
    PROVE  Begins(Announced(x), Announced(y))
<1>1. CASE x.call = None
  <2>1. PICK e \in BookEvent : Commanded(x, e, y)
    BY <1>1 DEF Moves
  <2>2. Announced(x) = x.events /\ Announced(y) = Append(x.events, e)
    BY <1>1, <2>1, CommandAnnounces
  <2> QED
    BY <2>2, AppendProperties DEF Begins, IsState
<1>2. CASE x.call # None /\ y.call # None
  BY <1>2, MatchingAnnounces, AnnouncedType DEF Begins
<1>3. CASE x.call # None /\ y.call = None
  BY <1>3, MatchingAnnounces
<1> QED
  BY <1>1, <1>2, <1>3

LEMMA BeginsTransitive ==
    ASSUME NEW s \in Seq(BookEvent), NEW t \in Seq(BookEvent), NEW u \in Seq(BookEvent),
           Begins(s, t), Begins(t, u)
    PROVE  Begins(s, u)
BY DEF Begins

\* The chain grows with the live book.
LEMMA ChainExtends ==
    ASSUME EventMode = "Full", NEW f, NEW m, Chain(f, m),
           NEW x, IsState(x), Moves(f[m], x), NEW j \in 1 .. m
    PROVE  \E g : Chain(g, m + 1) /\ g[m + 1] = x /\ g[j] = f[j]
<1> DEFINE g == [i \in 1 .. m + 1 |-> IF i <= m THEN f[i] ELSE x]
<1>1. /\ m \in Nat \ {0} /\ m + 1 \in Nat \ {0}
      /\ \A i \in 1 .. m : g[i] = f[i] /\ i \in 1 .. m + 1
      /\ g[m + 1] = x
      /\ 1 \in 1 .. m /\ m \in 1 .. m
      /\ \A i \in 1 .. m + 1 : i \in 1 .. m \/ i = m + 1
  BY DEF Chain
<1> HIDE DEF g
<1>2. Begins(Announced(f[m]), Announced(x))
  BY <1>1, MovesAnnounce DEF Chain
<1>3. Announced(x) \in Seq(BookEvent)
  BY AnnouncedType
<1>4. \A i \in 1 .. m : IsState(f[i]) /\ Begins(Announced(f[i]), Announced(x))
  BY <1>1, <1>2, <1>3, AnnouncedType, BeginsTransitive DEF Chain
<1>5. Begins(Announced(x), Announced(x))
  BY <1>3 DEF Begins
<1>6. \A i \in 1 .. m + 1 : IsState(g[i]) /\ Begins(Announced(g[i]), Announced(g[m + 1]))
  BY <1>1, <1>4, <1>5
<1>7. \A i \in 1 .. m + 1 : i < m + 1 => Moves(g[i], g[i + 1])
  <2> TAKE i \in 1 .. m + 1
  <2> HAVE i < m + 1
  <2>1. i \in 1 .. m
    BY <1>1
  <2>2. CASE i = m
    BY <1>1, <2>2
  <2>3. CASE i # m
    <3>1. i < m /\ i + 1 \in 1 .. m
      BY <1>1, <2>1, <2>3
    <3> QED
      BY <1>1, <2>1, <3>1 DEF Chain
  <2> QED
    BY <2>2, <2>3
<1>8. g[1] = Start
  BY <1>1 DEF Chain
<1> QED
  BY <1>1, <1>6, <1>7, <1>8 DEF Chain

\* Where the rebuilding stands in the chain of a log that is closed.
Behindhand(f, m, j) ==
    /\ Chain(f, m) /\ f[m] = Now
    /\ j \in 1 .. m /\ f[j] = Rebuilding
    /\ call = None /\ log = events

LEMMA BehindhandFacts ==
    ASSUME NEW f, NEW m, NEW j, Behindhand(f, m, j)
    PROVE  /\ IsState(Rebuilding)
           /\ Rebuilding.call = new_call /\ Rebuilding.events = new_events
           /\ Announced(Rebuilding) \in Seq(BookEvent)
           /\ Begins(Announced(Rebuilding), log)
           /\ log \in Seq(BookEvent)
           /\ j = m => Rebuilding = Now /\ new_call = None /\ Announced(Rebuilding) = log
           /\ j # m => /\ j + 1 \in 1 .. m
                       /\ IsState(f[j + 1])
                       /\ Moves(Rebuilding, f[j + 1])
                       /\ Begins(Announced(f[j + 1]), log)
<1>1. /\ m \in Nat \ {0} /\ j \in 1 .. m /\ m \in 1 .. m
      /\ f[m] = Now /\ f[j] = Rebuilding /\ call = None /\ log = events
      /\ \A i \in 1 .. m : IsState(f[i]) /\ Begins(Announced(f[i]), Announced(f[m]))
      /\ \A i \in 1 .. m : i < m => Moves(f[i], f[i + 1])
  BY DEF Behindhand, Chain
<1>2. /\ Now.call = call /\ Now.events = events
      /\ Rebuilding.call = new_call /\ Rebuilding.events = new_events
  BY StateFacts DEF Now, Rebuilding
<1> HIDE DEF Now, Rebuilding
<1>3. Announced(Now) = log
  BY <1>1, <1>2 DEF Announced
<1>4. /\ IsState(Now) /\ IsState(Rebuilding)
      /\ Announced(Rebuilding) \in Seq(BookEvent)
  BY <1>1, AnnouncedType
<1>5. log \in Seq(BookEvent)
  BY <1>1, <1>2, <1>4 DEF IsState
<1>6. CASE j = m
  BY <1>1, <1>2, <1>3, <1>4, <1>5, <1>6
<1>7. CASE j # m
  <2>1. j < m /\ j + 1 \in 1 .. m
    BY <1>1, <1>7
  <2> QED
    BY <1>1, <1>2, <1>3, <1>4, <1>5, <1>7, <2>1
<1> QED
  BY <1>6, <1>7

\* Between commands, what the log holds next is the next command of the chain.
LEMMA NextCommand ==
    ASSUME EventMode = "Full", NEW f, NEW m, NEW j, Behindhand(f, m, j), j # m,
           new_call = None
    PROVE  LET known == Len(Announced(Rebuilding))
           IN  /\ known + 1 <= Len(log)
               /\ log[known + 1] \in BookEvent
               /\ log[known + 1].kind # "TradeExecuted"
               /\ Commanded(Rebuilding, log[known + 1], f[j + 1])
               /\ Len(Announced(f[j + 1])) = known + 1
<1>1. PICK e \in BookEvent : Commanded(Rebuilding, e, f[j + 1])
  BY BehindhandFacts DEF Moves
<1>2. /\ IsState(Rebuilding) /\ Rebuilding.call = None
      /\ Begins(Announced(f[j + 1]), log)
      /\ Announced(Rebuilding) \in Seq(BookEvent)
  BY BehindhandFacts
<1>3. /\ e.kind # "TradeExecuted"
      /\ Announced(f[j + 1]) = Append(Announced(Rebuilding), e)
  BY <1>1, <1>2, CommandAnnounces
<1>4. /\ Len(Announced(f[j + 1])) = Len(Announced(Rebuilding)) + 1
      /\ Announced(f[j + 1])[Len(Announced(Rebuilding)) + 1] = e
  BY <1>2, <1>3, AppendProperties
<1>5. log[Len(Announced(Rebuilding)) + 1] = e
      /\ Len(Announced(Rebuilding)) + 1 <= Len(log)
  BY <1>2, <1>4 DEF Begins
<1> QED
  BY <1>1, <1>3, <1>4, <1>5

\* The book being rebuilt takes the next step of the chain, and the cursor keeps up.
LEMMA CommandFollows ==
    ASSUME EventMode = "Full", NEW f, NEW m, NEW j, Behindhand(f, m, j), CursorOK,
           Replaying, Event.kind # "TradeExecuted"
    PROVE  /\ j # m
           /\ cursor = Len(Announced(Rebuilding)) + 1
           /\ Event \in BookEvent
           /\ Commanded(Rebuilding, Event, f[j + 1])
           /\ Len(Announced(f[j + 1])) = cursor
<1>1. /\ new_call = None /\ cursor <= Len(log)
      /\ cursor \in Nat /\ cursor <= Len(Announced(Rebuilding)) + 1
      /\ Len(Announced(Rebuilding)) \in Nat
      /\ \A i \in cursor .. Len(Announced(Rebuilding)) : log[i].kind = "TradeExecuted"
  BY BehindhandFacts DEF Replaying, CursorOK
<1>2. cursor = Len(Announced(Rebuilding)) + 1
  BY <1>1 DEF Event
<1>3. j # m
  BY <1>1, <1>2, BehindhandFacts
<1> QED
  BY <1>1, <1>2, <1>3, NextCommand DEF Event

LEMMA SkippedTrade ==
    ASSUME EventMode = "Full", NEW f, NEW m, NEW j, Behindhand(f, m, j), CursorOK,
           Replaying, Event.kind = "TradeExecuted"
    PROVE  cursor <= Len(Announced(Rebuilding))
<1>1. /\ new_call = None /\ cursor <= Len(log)
      /\ cursor \in Nat /\ cursor <= Len(Announced(Rebuilding)) + 1
      /\ Len(Announced(Rebuilding)) \in Nat
  BY BehindhandFacts DEF Replaying, CursorOK
<1>2. SUFFICES ASSUME cursor = Len(Announced(Rebuilding)) + 1 PROVE FALSE
  BY <1>1
<1>3. j # m
  BY <1>1, <1>2, BehindhandFacts
<1> QED
  BY <1>1, <1>2, <1>3, NextCommand DEF Event

LEMMA ReplayInitOK ==
    ASSUME ReplayInit
    PROVE  ReplayOK
<1>1. Now = Start /\ Rebuilding = Start
  BY DEF ReplayInit, Init, New!Init, EmptyBook, New!EmptyBook, EmptyArena, New!EmptyArena,
     EmptyMap, New!EmptyMap, Sides, New!Sides, Now, Rebuilding, Start, State
<1> DEFINE f == [i \in {1} |-> Start]
<1>2. f[1] = Start
  OBVIOUS
<1>3. IsState(Start)
  BY DEF IsState, Start, State
<1>4. Begins(Announced(Start), Announced(Start))
  <2>1. Announced(Start) \in Seq(BookEvent)
    BY <1>3, AnnouncedType
  <2> QED
    BY <2>1 DEF Begins
<1> HIDE DEF f
<1>5. Chain(f, 1)
  BY <1>2, <1>3, <1>4 DEF Chain
<1> QED
  BY <1>1, <1>2, <1>5 DEF ReplayOK, ReplayInit

\* A step of the live book makes the chain longer.
LEMMA LiveReplays ==
    ASSUME EventMode = "Full", Inductive, Inductive', ReplayOK, Live
    PROVE  ReplayOK'
<1>1. /\ phase = "live" /\ Rebuilding = Start /\ cursor = 1
      /\ phase' = "live" /\ Rebuilding' = Rebuilding /\ cursor' = cursor /\ Next
  BY DEF Live, ReplayOK, newVars, Rebuilding
<1>2. PICK m, f : /\ m \in Nat /\ Chain(f, m) /\ f[m] = Now
                 /\ \E j \in 1 .. m : f[j] = Rebuilding
  BY DEF ReplayOK
<1>3. PICK j \in 1 .. m : f[j] = Rebuilding
  BY <1>2
<1>4. Now' = Now \/ Moves(Now, Now')
  BY <1>1, LiveMoves
<1>5. IsState(Now')
  <2>1. events' \in Seq(BookEvent) /\ call' \in Call \cup {None}
    BY DEF Inductive, TypeOK
  <2> QED
    BY <2>1 DEF IsState, Now, State
<1> HIDE DEF Now, Rebuilding, Start
<1>6. \E n \in Nat : \E g : /\ Chain(g, n) /\ g[n] = Now'
                            /\ \E i \in 1 .. n : g[i] = Rebuilding'
  <2>1. CASE Now' = Now
    BY <1>1, <1>2, <2>1
  <2>2. CASE Moves(Now, Now')
    <3>1. PICK g : Chain(g, m + 1) /\ g[m + 1] = Now' /\ g[j] = f[j]
      BY <1>2, <1>5, <2>2, ChainExtends
    <3>2. j \in 1 .. m + 1 /\ m + 1 \in Nat
      BY <1>2
    <3> QED
      BY <1>1, <1>3, <3>1, <3>2
  <2> QED
    BY <1>4, <2>1, <2>2
<1> QED
  BY <1>1, <1>6 DEF ReplayOK

\* A step of the replay: the rest of ReplayOK follows from the new place in the chain.
LEMMA StillReplaying ==
    ASSUME NEW f, NEW m, NEW j, Behindhand(f, m, j),
           phase' = "replaying", UNCHANGED <<liveVars, log>>,
           NEW i \in 1 .. m, f[i] = Rebuilding', CursorOK'
    PROVE  ReplayOK'
<1>1. Now' = Now /\ log' = log /\ call' = call /\ events' = events
  BY DEF liveVars, vars, Now
<1>2. Chain(f, m) /\ f[m] = Now /\ m \in Nat /\ call = None /\ log = events
  BY DEF Behindhand, Chain
<1> HIDE DEF Now, Rebuilding
<1> QED
  BY <1>1, <1>2 DEF ReplayOK

LEMMA ReplayingCommand ==
    ASSUME EventMode = "Full", ReplayOK, ReplayAccepted \/ ReplayCancelled \/ ReplayModified
    PROVE  ReplayOK'
<1>1. /\ Replaying /\ cursor' = cursor + 1 /\ UNCHANGED <<liveVars, log>>
      /\ phase = "replaying" /\ new_call = None
      /\ Event.kind \in {"OrderAccepted", "OrderCancelled", "OrderModified"}
  BY DEF ReplayAccepted, ReplayCancelled, ReplayModified, Replaying
<1>2. PICK m, f : /\ m \in Nat /\ Chain(f, m) /\ f[m] = Now
                 /\ \E j \in 1 .. m : f[j] = Rebuilding
  BY DEF ReplayOK
<1>3. PICK j \in 1 .. m : f[j] = Rebuilding
  BY <1>2
<1>4. Behindhand(f, m, j) /\ CursorOK
  BY <1>1, <1>2, <1>3 DEF Behindhand, ReplayOK
<1>5. /\ j # m /\ Event \in BookEvent /\ Commanded(Rebuilding, Event, f[j + 1])
      /\ Len(Announced(f[j + 1])) = cursor
  BY <1>1, <1>4, CommandFollows
<1>6. new_events \in Seq(BookEvent) /\ j + 1 \in 1 .. m
  BY <1>4, <1>5, BehindhandFacts DEF IsState
<1>7. Rebuilding' = f[j + 1] /\ phase' = "replaying"
  <2> HIDE DEF Event
  <2>1. CASE ReplayAccepted
    BY <1>1, <1>5, <1>6, <2>1, CommandRepeats DEF ReplayAccepted, Apply
  <2>2. CASE ReplayCancelled
    BY <1>1, <1>5, <1>6, <2>2, CommandRepeats DEF ReplayCancelled, Apply
  <2>3. CASE ReplayModified
    BY <1>1, <1>5, <1>6, <2>3, CommandRepeats DEF ReplayModified, Apply
  <2> QED
    BY <2>1, <2>2, <2>3
<1>8. CursorOK'
  <2>1. Len(Announced(Rebuilding')) = cursor /\ cursor \in Nat \ {0}
    BY <1>4, <1>5, <1>7 DEF CursorOK
  <2> QED
    BY <1>1, <2>1 DEF CursorOK
<1> QED
  BY <1>1, <1>4, <1>6, <1>7, <1>8, StillReplaying

LEMMA ReplayingTrade ==
    ASSUME EventMode = "Full", ReplayOK, SkipTrade
    PROVE  ReplayOK'
<1>1. /\ Replaying /\ cursor' = cursor + 1 /\ UNCHANGED <<liveVars, log>>
      /\ phase = "replaying" /\ phase' = "replaying" /\ new_call = None
      /\ new_call' = new_call
      /\ Event.kind = "TradeExecuted" /\ Rebuilding' = Rebuilding
  BY DEF SkipTrade, Replaying, newVars, Rebuilding
<1>2. PICK m, f : /\ m \in Nat /\ Chain(f, m) /\ f[m] = Now
                 /\ \E j \in 1 .. m : f[j] = Rebuilding
  BY DEF ReplayOK
<1>3. PICK j \in 1 .. m : f[j] = Rebuilding
  BY <1>2
<1>4. Behindhand(f, m, j) /\ CursorOK
  BY <1>1, <1>2, <1>3 DEF Behindhand, ReplayOK
<1>5. cursor <= Len(Announced(Rebuilding))
  BY <1>1, <1>4, SkippedTrade
<1>6. CursorOK'
  BY <1>1, <1>4, <1>5 DEF CursorOK
<1> QED
  BY <1>1, <1>3, <1>4, <1>6, StillReplaying

LEMMA ReplayingMatch ==
    ASSUME EventMode = "Full", ReplayOK, ReplayMatching
    PROVE  ReplayOK'
<1>1. /\ cursor' = cursor /\ UNCHANGED <<liveVars, log>> /\ log' = log
      /\ phase = "replaying" /\ phase' = "replaying"
      /\ New!FillStep \/ New!FinishCall
      /\ new_call # None
  BY DEF ReplayMatching, New!FillStep, New!FinishCall
<1>2. PICK m, f : /\ m \in Nat /\ Chain(f, m) /\ f[m] = Now
                 /\ \E j \in 1 .. m : f[j] = Rebuilding
  BY DEF ReplayOK
<1>3. PICK j \in 1 .. m : f[j] = Rebuilding
  BY <1>2
<1>4. Behindhand(f, m, j) /\ CursorOK
  BY <1>1, <1>2, <1>3 DEF Behindhand, ReplayOK
<1> DEFINE y == f[j + 1]
<1>5. /\ j + 1 \in 1 .. m /\ IsState(Rebuilding) /\ IsState(y) /\ Moves(Rebuilding, y)
      /\ Rebuilding.call = new_call
      /\ Begins(Announced(y), log)
      /\ Announced(Rebuilding) \in Seq(BookEvent) /\ Announced(y) \in Seq(BookEvent)
  BY <1>1, <1>4, BehindhandFacts, AnnouncedType
<1>6. Rebuilding' = y
  BY <1>1, <1>5, RebuildingMoves
<1>7. new_call' = y.call
  BY <1>6, StateFacts DEF Rebuilding
<1> HIDE DEF y
<1>8. cursor = Len(Announced(Rebuilding)) + 1
  BY <1>1, <1>4 DEF CursorOK
<1>9. CursorOK'
  <2>1. CASE y.call # None
    <3>1. Announced(y) = Announced(Rebuilding)
      BY <1>1, <1>5, <2>1, MatchingAnnounces
    <3> QED
      BY <1>1, <1>5, <1>6, <1>8, <3>1 DEF CursorOK
  <2>2. CASE y.call = None
    <3>1. /\ Len(Announced(Rebuilding)) <= Len(Announced(y))
          /\ \A i \in 1 .. Len(Announced(y)) :
                i > Len(Announced(Rebuilding)) => Announced(y)[i].kind = "TradeExecuted"
      BY <1>1, <1>5, <2>2, MatchingAnnounces DEF Begins
    <3>2. \A i \in 1 .. Len(Announced(y)) : Announced(y)[i] = log[i]
      BY <1>5 DEF Begins
    <3>3. Len(Announced(Rebuilding)) \in Nat /\ Len(Announced(y)) \in Nat
      BY <1>5
    <3>4. \A i \in cursor .. Len(Announced(y)) : log[i].kind = "TradeExecuted"
      BY <1>8, <3>1, <3>2, <3>3
    <3> QED
      BY <1>1, <1>6, <1>7, <1>8, <2>2, <3>1, <3>3, <3>4 DEF CursorOK
  <2> QED
    BY <2>1, <2>2
<1> QED
  BY <1>1, <1>4, <1>5, <1>6, <1>9, StillReplaying DEF y

\* Whatever the books and the file do, the rebuilt book is on the way to the live one.
LEMMA ReplayStep ==
    ASSUME EventMode = "Full", Inductive, Inductive', ReplayOK, [ReplayNext]_replayVars
    PROVE  ReplayOK'
<1>1. CASE SaveEvents
  <2>1. /\ phase = "live" /\ Rebuilding = Start /\ cursor = 1 /\ call = None
        /\ phase' = "replaying" /\ Now' = Now /\ Rebuilding' = Rebuilding
        /\ cursor' = 1 /\ call' = None /\ events' = events /\ log' = events
        /\ new_call' = new_call
    BY <1>1 DEF SaveEvents, ReplayOK, liveVars, vars, newVars, Now, Rebuilding
  <2>2. Announced(Rebuilding) = << >> /\ new_call = None
    BY <2>1 DEF Start, Rebuilding, Announced, State
  <2>3. CursorOK'
    BY <2>1, <2>2 DEF CursorOK
  <2> HIDE DEF Now, Rebuilding
  <2> QED
    BY <2>1, <2>3 DEF ReplayOK
<1>2. CASE Rebuilt
  <2>1. /\ phase = "replaying" /\ phase' = "rebuilt" /\ new_call' = None
        /\ cursor' = cursor /\ cursor > Len(log) /\ log' = log /\ call' = call
        /\ events' = events /\ Now' = Now /\ Rebuilding' = Rebuilding
        /\ new_call' = new_call
    BY <1>2 DEF Rebuilt, liveVars, vars, newVars, Now, Rebuilding
  <2>2. CursorOK'
    BY <2>1 DEF ReplayOK, CursorOK
  <2> HIDE DEF Now, Rebuilding
  <2> QED
    BY <2>1, <2>2 DEF ReplayOK
<1>3. CASE UNCHANGED replayVars
  BY <1>3 DEF replayVars, liveVars, vars, newVars, ReplayOK, CursorOK, Now, Rebuilding
<1> QED
  BY <1>1, <1>2, <1>3, LiveReplays, ReplayingCommand, ReplayingTrade, ReplayingMatch
     DEF ReplayNext

LEMMA ReplayedToTheEnd ==
    ASSUME EventMode = "Full", ReplayOK
    PROVE  ReplayRebuildsBook
<1>1. phase # "failed"
  BY DEF ReplayOK
<1>2. ASSUME phase = "rebuilt" PROVE Rebuilding = Now /\ log = events
  <2>1. PICK m, f : /\ m \in Nat /\ Chain(f, m) /\ f[m] = Now
                   /\ \E j \in 1 .. m : f[j] = Rebuilding
    BY DEF ReplayOK
  <2>2. PICK j \in 1 .. m : f[j] = Rebuilding
    BY <2>1
  <2>3. Behindhand(f, m, j) /\ CursorOK /\ new_call = None /\ cursor > Len(log)
    BY <1>2, <2>1, <2>2 DEF Behindhand, ReplayOK
  <2>4. /\ Len(Announced(Rebuilding)) \in Nat /\ Len(log) \in Nat
        /\ cursor \in Nat /\ cursor <= Len(Announced(Rebuilding)) + 1
    BY <2>3, BehindhandFacts DEF CursorOK
  <2>5. j = m
    BY <2>3, <2>4, NextCommand
  <2> QED
    BY <2>3, <2>5, BehindhandFacts DEF Behindhand
<1>3. ASSUME phase = "rebuilt"
      PROVE  new_book = book /\ new_seen = seen_order_ids /\ new_events = log
  BY <1>2, <1>3 DEF Rebuilding, Now, State
<1> QED
  BY <1>1, <1>3 DEF ReplayRebuildsBook

\* A log that a book in Full mode saved is accepted to the last event, and the book
\* it rebuilds is the one that saved it.
THEOREM ReplayAlwaysRebuilds ==
    ASSUME EventMode = "Full"
    PROVE  ReplaySpec => []ReplayRebuildsBook
<1>1. ReplayInit => Inductive /\ ReplayOK
  BY InitInductive, ReplayInitOK DEF ReplayInit
<1>2. [ReplayNext]_replayVars => [Next]_vars
  BY DEF ReplayNext, Live, SaveEvents, ReplayAccepted, ReplayCancelled, ReplayModified,
     SkipTrade, ReplayMatching, Rebuilt, replayVars, liveVars
<1>3. Inductive /\ ReplayOK /\ [ReplayNext]_replayVars => Inductive' /\ ReplayOK'
  <2> SUFFICES ASSUME Inductive, ReplayOK, [ReplayNext]_replayVars
               PROVE  Inductive' /\ ReplayOK'
    OBVIOUS
  <2>1. Inductive'
    BY <1>2, StepInductive
  <2> QED
    BY <2>1, ReplayStep
<1>4. Inductive /\ ReplayOK => ReplayRebuildsBook
  BY ReplayedToTheEnd
<1> QED
  BY <1>1, <1>3, <1>4, PTL DEF ReplaySpec
=============================================================================
