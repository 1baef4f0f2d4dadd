---------------------------- MODULE ObjectsProofs ----------------------------
(***************************************************************************)
(* The heap: whatever its size, those of headers and of requests, the      *)
(* blocks of heap_4.c tile it: none overlaps another and none is lost,     *)
(* free neighbours are merged, the free bytes are counted, and nobody gets *)
(* less than was asked for.                                                *)
(* The objects: however many are created and deleted, and by how many      *)
(* tasks at a time, the heap only ever takes steps of module Heap, so this *)
(* holds of the kernel that uses it.  And every block that is not free has *)
(* one owner, by the invariant ObjectsInv: what an object notes of where   *)
(* its parts came from is true of them.                                    *)
(***************************************************************************)
EXTENDS Objects, FiniteSetTheorems, FunctionTheorems, SequenceTheorems, TLAPS

(* What is taken off the heap is a number.                                  *)
LEMMA WantedNat == \A n \in Requests : Wanted(n) \in Nat
<1> SUFFICES ASSUME NEW n \in Requests PROVE Wanted(n) \in Nat
  OBVIOUS
<1>1. n \in Nat
  BY RequestsAssumption, SizesAssumption
<1>2. CASE n = 0 \/ n >= AllocatedBit
  BY <1>2 DEF Wanted
<1>3. CASE ~(n = 0 \/ n >= AllocatedBit)
  <2> DEFINE m == (n + HeaderSize) % Word
  <2>1. Word \in Nat \ {0}
    BY SizesAssumption DEF Word
  <2>2. m \in Nat
    BY <1>1, <2>1, SizesAssumption
  <2> HIDE DEF m
  <2>3. m % Alignment \in Nat /\ m % Alignment < Alignment
    BY <2>2, SizesAssumption
  <2>4. (m + (Alignment - (m % Alignment))) % Word \in Nat
    <3> DEFINE r == m + (Alignment - (m % Alignment))
    <3>1. r \in Int
      BY <2>2, <2>3, SizesAssumption
    <3> HIDE DEF r
    <3>2. r % Word \in Nat
      BY <3>1, <2>1
    <3> QED BY <3>2 DEF r
  <2>5. Wanted(n) = RoundedUp(m)
    BY <1>3 DEF Wanted, m
  <2> QED BY <2>2, <2>4, <2>5 DEF RoundedUp
<1> QED BY <1>2, <1>3

(* What Tiles says of the blocks, one by one.                               *)
LEMMA TilesFacts ==
  ASSUME NEW heap, Tiles(heap)
  PROVE  /\ HeapSize \in Nat /\ 0 \in DOMAIN heap /\ DOMAIN heap \subseteq Int
         /\ \A b \in DOMAIN heap : /\ b \in Int /\ b >= 0 /\ b < HeapSize
                                   /\ heap[b].size \in Int /\ heap[b].size > 0
                                   /\ heap[b].size <= HeapSize
                                   /\ EndOf(heap, b) = b + heap[b].size
                                   /\ EndOf(heap, b) \in DOMAIN heap \cup {HeapSize}
                                   /\ heap[b] \in Entries
         /\ \A b, c \in DOMAIN heap : c <= b \/ EndOf(heap, b) <= c
BY SizesAssumption DEF Tiles, Typed, Addresses, Entries, EndOf

(* The blocks that are not free, the addresses in a block, those in all the *)
(* free ones, and Merged as an operator.                                    *)
Busy(heap) == {b \in DOMAIN heap : heap[b].state # "free"}
BlockSpace(heap, a) == {x \in Addresses : a <= x /\ x < EndOf(heap, a)}

FreeSpace(heap) ==
  {x \in Addresses : \E a \in DOMAIN heap :
                        heap[a].state = "free" /\ a <= x /\ x < EndOf(heap, a)}

NeighboursMerged(heap) ==
  \A a, b \in DOMAIN heap :
    heap[a].state = "free" /\ heap[b].state = "free" => EndOf(heap, a) # b

(* What prvInsertBlockIntoFreeList makes of the heap: one free block from   *)
(* `start` to `end`, which is the block given and the free neighbours it    *)
(* has.                                                                     *)
InsertMakes(heap, a, start, end) ==
  LET new == InsertBlockIntoFreeList(heap, a)
  IN  /\ start \in DOMAIN heap /\ start <= a
      /\ IF start = a THEN Preceding(heap, a) = {}
         ELSE heap[start].state = "free" /\ EndOf(heap, start) = a
      /\ end \in DOMAIN heap \cup {HeapSize} /\ EndOf(heap, a) <= end
      /\ IF end = EndOf(heap, a) THEN Following(heap, a) = {}
         ELSE /\ EndOf(heap, a) \in DOMAIN heap
              /\ heap[EndOf(heap, a)].state = "free"
              /\ EndOf(heap, EndOf(heap, a)) = end
      /\ \A b \in DOMAIN heap : b <= start \/ a <= b
      /\ DOMAIN new = {b \in DOMAIN heap : b <= start \/ end <= b}
      /\ new[start] = [size |-> end - start, state |-> "free"]
      /\ \A b \in DOMAIN new \ {start} : new[b] = heap[b]
      /\ new = [b \in DOMAIN new |-> new[b]]

LEMMA InsertShape ==
  ASSUME NEW heap, NEW a \in DOMAIN heap, Tiles(heap), heap[a].state # "free"
  PROVE  \E start \in DOMAIN heap, end \in Int : InsertMakes(heap, a, start, end)
<1> DEFINE before == Preceding(heap, a)
           after == Following(heap, a)
           start == IF before = {} THEN a ELSE CHOOSE p \in before : TRUE
           size == SizeOr0(heap, before) + heap[a].size + SizeOr0(heap, after)
           new == InsertBlockIntoFreeList(heap, a)
<1>0. /\ DOMAIN heap \subseteq Int
      /\ \A b \in DOMAIN heap : /\ b \in Int /\ b >= 0 /\ b < HeapSize
                                /\ heap[b].size \in Int /\ heap[b].size > 0
                                /\ EndOf(heap, b) = b + heap[b].size
                                /\ EndOf(heap, b) \in DOMAIN heap \cup {HeapSize}
      /\ \A b, c \in DOMAIN heap : c <= b \/ EndOf(heap, b) <= c
      /\ HeapSize \in Nat
  BY TilesFacts
<1>1. /\ start \in DOMAIN heap /\ start <= a
      /\ start + SizeOr0(heap, before) = a
      /\ IF start = a THEN before = {}
         ELSE heap[start].state = "free" /\ EndOf(heap, start) = a
      /\ \A b \in DOMAIN heap : b <= start \/ a <= b
  <2>1. CASE before = {}
    BY <2>1, <1>0 DEF SizeOr0
  <2>2. CASE before # {}
    <3>1. start \in before /\ SizeOr0(heap, before) = heap[start].size
      BY <2>2 DEF SizeOr0
    <3>2. start \in DOMAIN heap /\ start + heap[start].size = a /\ heap[start].state = "free"
      BY <3>1 DEF Preceding
    <3> HIDE DEF before, start
    <3>3. EndOf(heap, start) = a /\ start < a
      BY <3>2, <1>0
    <3> QED BY <3>1, <3>2, <3>3, <1>0
  <2> QED BY <2>1, <2>2
<1>2. /\ SizeOr0(heap, after) \in Int /\ SizeOr0(heap, after) >= 0
      /\ EndOf(heap, a) + SizeOr0(heap, after) \in DOMAIN heap \cup {HeapSize}
      /\ IF SizeOr0(heap, after) = 0 THEN after = {}
         ELSE /\ EndOf(heap, a) \in DOMAIN heap
              /\ heap[EndOf(heap, a)].state = "free"
              /\ EndOf(heap, EndOf(heap, a)) = EndOf(heap, a) + SizeOr0(heap, after)
      /\ after = {b \in DOMAIN heap :
                     EndOf(heap, a) <= b /\ b < EndOf(heap, a) + SizeOr0(heap, after)}
  <2>1. CASE after = {}
    <3>1. SizeOr0(heap, after) = 0
      BY <2>1 DEF SizeOr0
    <3> QED BY <2>1, <3>1, <1>0
  <2>2. CASE after # {}
    <3> DEFINE q == CHOOSE q \in after : TRUE
    <3>1. q \in after /\ SizeOr0(heap, after) = heap[q].size
      BY <2>2 DEF SizeOr0
    <3>2. q \in DOMAIN heap /\ q = EndOf(heap, a) /\ heap[q].state = "free"
      BY <3>1 DEF Following, EndOf
    <3>3. after = {q}
      BY <3>1, <3>2 DEF Following, EndOf
    <3> HIDE DEF q, after
    <3>4. \A b \in DOMAIN heap : EndOf(heap, a) <= b /\ b < EndOf(heap, a) + heap[q].size
                                   <=> b = q
      BY <3>2, <1>0
    <3> QED BY <3>1, <3>2, <3>3, <3>4, <1>0
  <2> QED BY <2>1, <2>2
<1>3. /\ size \in Int /\ size > 0
      /\ start + size = EndOf(heap, a) + SizeOr0(heap, after)
      /\ start + size <= HeapSize
  <2> DEFINE left == SizeOr0(heap, before)
             right == SizeOr0(heap, after)
  <2>1. size \in Int /\ size > 0 /\ start + size = EndOf(heap, a) + SizeOr0(heap, after)
    <3>1. /\ left \in Int /\ left >= 0 /\ start + left = a
      <4>1. CASE before = {}
        BY <4>1, <1>0 DEF SizeOr0
      <4>2. CASE before # {}
        BY <4>2, <1>0 DEF SizeOr0, Preceding
      <4> QED BY <4>1, <4>2, <1>1
    <3>2. right \in Int /\ right >= 0
      BY <1>2
    <3>3. size = left + heap[a].size + right /\ EndOf(heap, a) = a + heap[a].size
      BY <1>0
    <3>4. start \in Int /\ a \in Int /\ heap[a].size \in Int /\ heap[a].size > 0
      BY <1>0, <1>1
    <3> HIDE DEF left, right, size, start
    <3>5. size \in Int /\ size > 0 /\ start + size = EndOf(heap, a) + right
      BY <3>1, <3>2, <3>3, <3>4
    <3> QED BY <3>5 DEF right
  <2> QED BY <2>1, <1>2, <1>0
<1>4. /\ DOMAIN new = (DOMAIN heap \ ({a} \cup after)) \cup {start}
      /\ \A b \in DOMAIN new :
           new[b] = IF b = start THEN [size |-> size, state |-> "free"] ELSE heap[b]
      /\ new = [b \in DOMAIN new |-> new[b]]
  BY DEF InsertBlockIntoFreeList
<1> HIDE DEF before, after, start, size, new
<1>5. \A b \in DOMAIN new : b \in DOMAIN heap
  BY <1>1, <1>4
<1>6. \A b \in DOMAIN heap : b \in DOMAIN new <=> b <= start \/ start + size <= b
  <2> SUFFICES ASSUME NEW b \in DOMAIN heap
               PROVE  b \in DOMAIN new <=> b <= start \/ start + size <= b
    OBVIOUS
  <2>1. CASE b = start
    BY <2>1, <1>0, <1>4
  <2>2. CASE b # start
    <3>1. b \in DOMAIN new <=> b # a /\ b \notin after
      BY <2>2, <1>4
    <3>2. b \in after <=> EndOf(heap, a) <= b /\ b < start + size
      BY <1>2, <1>3
    <3>3. b <= a \/ EndOf(heap, a) <= b
      BY <1>0
    <3>4. b <= start \/ a <= b
      BY <1>1
    <3>5. b \in Int /\ start \in Int /\ a \in Int /\ size \in Int /\ EndOf(heap, a) \in Int
          /\ a < EndOf(heap, a) /\ start <= a /\ EndOf(heap, a) <= start + size
      BY <1>0, <1>1, <1>2, <1>3
    <3> QED BY <2>2, <3>1, <3>2, <3>3, <3>4, <3>5
  <2> QED BY <2>1, <2>2
<1>7. InsertMakes(heap, a, start, start + size)
  <2> DEFINE end == start + size
  <2>1. /\ end \in DOMAIN heap \cup {HeapSize} /\ EndOf(heap, a) <= end
        /\ IF end = EndOf(heap, a) THEN after = {}
           ELSE /\ EndOf(heap, a) \in DOMAIN heap
                /\ heap[EndOf(heap, a)].state = "free"
                /\ EndOf(heap, EndOf(heap, a)) = end
    BY <1>0, <1>2, <1>3
  <2>2. DOMAIN new = {b \in DOMAIN heap : b <= start \/ end <= b}
    BY <1>5, <1>6
  <2>3. size = end - start
    BY <1>0, <1>1, <1>3
  <2>4. new[start] = [size |-> end - start, state |-> "free"]
    BY <1>4, <2>3
  <2> QED BY <1>1, <1>4, <2>1, <2>2, <2>4 DEF InsertMakes, before, after, new
<1> QED BY <1>0, <1>1, <1>3, <1>7

(* prvInsertBlockIntoFreeList keeps the heap tiled, whether the block is    *)
(* merged with the one before, the one after, both or none.                 *)
LEMMA InsertTiles ==
  ASSUME NEW heap, NEW a \in DOMAIN heap, Tiles(heap), heap[a].state # "free"
  PROVE  Tiles(InsertBlockIntoFreeList(heap, a))
<1> DEFINE new == InsertBlockIntoFreeList(heap, a)
<1>1. PICK start \in DOMAIN heap, end \in Int : InsertMakes(heap, a, start, end)
  BY InsertShape
<1>2. /\ start <= a /\ start < end /\ end <= HeapSize
      /\ end \in DOMAIN heap \cup {HeapSize}
      /\ DOMAIN new = {b \in DOMAIN heap : b <= start \/ end <= b}
      /\ new[start] = [size |-> end - start, state |-> "free"]
      /\ \A b \in DOMAIN new \ {start} : new[b] = heap[b]
      /\ new = [b \in DOMAIN new |-> new[b]]
  BY <1>1, TilesFacts DEF InsertMakes
<1> HIDE DEF new
<1>3. Typed(new)
  <2>1. [size |-> end - start, state |-> "free"] \in Entries
    BY <1>2, TilesFacts DEF Entries, States
  <2>2. \A b \in DOMAIN new : new[b] \in Entries
    BY <2>1, <1>2, TilesFacts
  <2>3. DOMAIN new \subseteq Addresses
    BY <1>2, TilesFacts DEF Addresses
  <2> QED BY <2>2, <2>3, <1>2 DEF Typed
<1>4. 0 \in DOMAIN new
  BY <1>2, TilesFacts
<1>5. ASSUME NEW b \in DOMAIN new
      PROVE  /\ EndOf(new, b) \in DOMAIN new \cup {HeapSize}
             /\ \A c \in DOMAIN new : c <= b \/ EndOf(new, b) <= c
  <2>1. CASE b = start
    <3>1. EndOf(new, b) = end
      BY <2>1, <1>2, TilesFacts DEF EndOf
    <3> QED BY <2>1, <3>1, <1>2, TilesFacts
  <2>2. CASE b # start
    <3>1. EndOf(new, b) = EndOf(heap, b)
      BY <2>2, <1>2 DEF EndOf
    <3>2. b < start \/ end <= b
      BY <2>2, <1>2, TilesFacts
    <3>3. EndOf(heap, b) <= start \/ end <= EndOf(heap, b)
      BY <3>2, <1>2, TilesFacts
    <3> QED BY <3>1, <3>3, <1>2, TilesFacts
  <2> QED BY <2>1, <2>2
<1> QED BY <1>3, <1>4, <1>5 DEF Tiles, new

(* No block but the one given is touched, unless it is free.                *)
LEMMA InsertOthers ==
  ASSUME NEW heap, NEW a \in DOMAIN heap, Tiles(heap), heap[a].state # "free"
  PROVE  LET new == InsertBlockIntoFreeList(heap, a)
         IN  /\ Busy(new) = Busy(heap) \ {a}
             /\ \A b \in Busy(new) : new[b] = heap[b]
<1> DEFINE new == InsertBlockIntoFreeList(heap, a)
<1>1. PICK start \in DOMAIN heap, end \in Int : InsertMakes(heap, a, start, end)
  BY InsertShape
<1>2. /\ \A b \in DOMAIN heap : b \in DOMAIN new <=> b <= start \/ end <= b
      /\ DOMAIN new \subseteq DOMAIN heap
      /\ new[start].state = "free"
      /\ \A b \in DOMAIN new \ {start} : new[b] = heap[b]
      /\ start <= a /\ EndOf(heap, a) <= end
      /\ start # a => heap[start].state = "free"
      /\ end # EndOf(heap, a) =>
           /\ EndOf(heap, a) \in DOMAIN heap
           /\ heap[EndOf(heap, a)].state = "free"
           /\ EndOf(heap, EndOf(heap, a)) = end
      /\ \A b \in DOMAIN heap : b <= start \/ a <= b
  BY <1>1 DEF InsertMakes
<1> HIDE DEF new
<1>3. ASSUME NEW b \in Busy(heap), b # a PROVE b \in DOMAIN new /\ b # start
  <2>1. b \in DOMAIN heap /\ heap[b].state # "free"
    BY <1>3 DEF Busy
  <2>2. b # start
    BY <1>2, <1>3, <2>1
  <2>3. CASE b <= start
    BY <1>2, <2>1, <2>2, <2>3
  <2>4. CASE ~(b <= start)
    <3>1. a <= b /\ EndOf(heap, a) <= b
      BY <1>2, <1>3, <2>1, <2>4, TilesFacts
    <3>2. CASE end = EndOf(heap, a)
      BY <1>2, <2>1, <2>2, <3>1, <3>2
    <3>3. CASE end # EndOf(heap, a)
      <4>1. b # EndOf(heap, a) /\ EndOf(heap, a) \in DOMAIN heap
        BY <1>2, <2>1, <3>3
      <4>2. end <= b
        BY <1>2, <2>1, <3>1, <3>3, <4>1, TilesFacts
      <4> QED BY <1>2, <2>1, <2>2, <4>2
    <3> QED BY <3>2, <3>3
  <2> QED BY <2>3, <2>4
<1>4. ASSUME NEW b \in Busy(new) PROVE b \in Busy(heap) /\ b # a /\ new[b] = heap[b]
  <2>1. b \in DOMAIN new /\ b # start /\ new[b] = heap[b] /\ b \in DOMAIN heap
    BY <1>2, <1>4 DEF Busy
  <2>2. b # a
    BY <1>2, <2>1, TilesFacts
  <2> QED BY <2>1, <2>2, <1>4 DEF Busy
<1>5. \A b \in Busy(heap) \ {a} : b \in Busy(new)
  BY <1>2, <1>3 DEF Busy
<1> QED BY <1>4, <1>5 DEF new

(* No two free blocks are neighbours afterwards if none were before.        *)
LEMMA InsertMerges ==
  ASSUME NEW heap, NEW a \in DOMAIN heap, Tiles(heap), heap[a].state # "free",
         NeighboursMerged(heap)
  PROVE  NeighboursMerged(InsertBlockIntoFreeList(heap, a))
<1> DEFINE new == InsertBlockIntoFreeList(heap, a)
<1>1. PICK start \in DOMAIN heap, end \in Int : InsertMakes(heap, a, start, end)
  BY InsertShape
<1>2. /\ DOMAIN new \subseteq DOMAIN heap
      /\ new[start] = [size |-> end - start, state |-> "free"]
      /\ \A b \in DOMAIN new \ {start} : new[b] = heap[b]
      /\ start <= a /\ EndOf(heap, a) <= end
      /\ IF start = a THEN Preceding(heap, a) = {}
         ELSE heap[start].state = "free" /\ EndOf(heap, start) = a
      /\ IF end = EndOf(heap, a) THEN Following(heap, a) = {}
         ELSE /\ EndOf(heap, a) \in DOMAIN heap
              /\ heap[EndOf(heap, a)].state = "free"
              /\ EndOf(heap, EndOf(heap, a)) = end
  BY <1>1 DEF InsertMakes
<1>3. EndOf(new, start) = end
  BY <1>2, TilesFacts DEF EndOf
<1>4. \A b \in DOMAIN new \ {start} : EndOf(new, b) = EndOf(heap, b)
  BY <1>2 DEF EndOf
<1> HIDE DEF new
<1>5. ASSUME NEW b \in DOMAIN heap, heap[b].state = "free" PROVE EndOf(heap, b) # start
  <2>1. CASE start = a
    BY <1>2, <1>5, <2>1 DEF Preceding, EndOf
  <2>2. CASE start # a
    BY <1>2, <1>5, <2>2 DEF NeighboursMerged
  <2> QED BY <2>1, <2>2
<1>6. ASSUME NEW b \in DOMAIN heap, heap[b].state = "free" PROVE end # b
  <2>1. CASE end = EndOf(heap, a)
    BY <1>2, <1>6, <2>1 DEF Following, EndOf
  <2>2. CASE end # EndOf(heap, a)
    BY <1>2, <1>6, <2>2 DEF NeighboursMerged
  <2> QED BY <2>1, <2>2
<1>7. end # start
  BY <1>2, TilesFacts
<1>8. ASSUME NEW b \in DOMAIN new, NEW c \in DOMAIN new,
             new[b].state = "free", new[c].state = "free"
      PROVE  EndOf(new, b) # c
  <2>1. CASE b = start /\ c = start
    BY <1>3, <1>7, <2>1
  <2>2. CASE b = start /\ c # start
    BY <1>2, <1>3, <1>6, <1>8, <2>2
  <2>3. CASE b # start /\ c = start
    BY <1>2, <1>4, <1>5, <1>8, <2>3
  <2>4. CASE b # start /\ c # start
    BY <1>2, <1>4, <1>8, <2>4 DEF NeighboursMerged
  <2> QED BY <2>1, <2>2, <2>3, <2>4
<1> QED BY <1>8 DEF NeighboursMerged, new

(* The free space grows by the block given.                                 *)
LEMMA InsertSpace ==
  ASSUME NEW heap, NEW a \in DOMAIN heap, Tiles(heap), heap[a].state # "free"
  PROVE  FreeSpace(InsertBlockIntoFreeList(heap, a)) = FreeSpace(heap) \cup BlockSpace(heap, a)
<1> DEFINE new == InsertBlockIntoFreeList(heap, a)
<1>1. PICK start \in DOMAIN heap, end \in Int : InsertMakes(heap, a, start, end)
  BY InsertShape
<1>2. /\ DOMAIN new = {b \in DOMAIN heap : b <= start \/ end <= b}
      /\ new[start] = [size |-> end - start, state |-> "free"]
      /\ \A b \in DOMAIN new \ {start} : new[b] = heap[b]
      /\ start <= a /\ EndOf(heap, a) <= end
      /\ start # a => heap[start].state = "free" /\ EndOf(heap, start) = a
      /\ end # EndOf(heap, a) =>
           /\ EndOf(heap, a) \in DOMAIN heap
           /\ heap[EndOf(heap, a)].state = "free"
           /\ EndOf(heap, EndOf(heap, a)) = end
      /\ end \in DOMAIN heap \cup {HeapSize}
      /\ \A b \in DOMAIN heap : b <= start \/ a <= b
  BY <1>1 DEF InsertMakes
<1>3. EndOf(new, start) = end /\ start \in DOMAIN new /\ new[start].state = "free"
  BY <1>2, TilesFacts DEF EndOf
<1>4. \A b \in DOMAIN new \ {start} : EndOf(new, b) = EndOf(heap, b)
  BY <1>2 DEF EndOf
<1> HIDE DEF new
<1>5. ASSUME NEW x \in FreeSpace(new) PROVE x \in FreeSpace(heap) \cup BlockSpace(heap, a)
  <2>1. PICK b \in DOMAIN new : new[b].state = "free" /\ b <= x /\ x < EndOf(new, b)
    BY <1>5 DEF FreeSpace
  <2>2. x \in Addresses /\ x \in Int
    BY <1>5, SizesAssumption DEF FreeSpace, Addresses
  <2>3. CASE b # start
    BY <1>2, <1>4, <2>1, <2>2, <2>3 DEF FreeSpace
  <2>4. CASE b = start
    <3>0. start <= x /\ x < end
      BY <1>3, <2>1, <2>4
    <3>1. CASE x < a
      <4>1. heap[start].state = "free" /\ EndOf(heap, start) = a
        BY <1>2, <3>0, <3>1, <2>2, TilesFacts
      <4> QED BY <4>1, <3>0, <3>1, <2>2 DEF FreeSpace
    <3>2. CASE a <= x /\ x < EndOf(heap, a)
      BY <2>2, <3>2 DEF BlockSpace
    <3>3. CASE EndOf(heap, a) <= x
      <4>1. EndOf(heap, a) # end
        BY <3>0, <3>3, <2>2, <1>2, TilesFacts
      <4> QED BY <4>1, <1>2, <3>0, <3>3, <2>2 DEF FreeSpace
    <3> QED BY <3>1, <3>2, <3>3, <2>2, TilesFacts
  <2> QED BY <2>3, <2>4
<1>6. ASSUME NEW x \in Addresses, start <= x, x < end PROVE x \in FreeSpace(new)
  BY <1>3, <1>6 DEF FreeSpace
<1>7. ASSUME NEW x \in BlockSpace(heap, a) PROVE x \in FreeSpace(new)
  <2>1. x \in Addresses /\ a <= x /\ x < EndOf(heap, a) /\ x \in Int
    BY SizesAssumption DEF BlockSpace, Addresses
  <2>2. start <= x /\ x < end
    BY <1>2, <2>1, TilesFacts
  <2> QED BY <1>6, <2>1, <2>2
<1>8. ASSUME NEW x \in FreeSpace(heap) PROVE x \in FreeSpace(new)
  <2>1. PICK b \in DOMAIN heap : heap[b].state = "free" /\ b <= x /\ x < EndOf(heap, b)
    BY DEF FreeSpace
  <2>2. x \in Addresses /\ x \in Int
    BY SizesAssumption DEF FreeSpace, Addresses
  <2>3. CASE b \in DOMAIN new /\ b # start
    <3>1. new[b].state = "free" /\ EndOf(new, b) = EndOf(heap, b)
      BY <1>2, <1>4, <2>1, <2>3
    <3> QED BY <2>1, <2>2, <2>3, <3>1 DEF FreeSpace
  <2>4. CASE b \notin DOMAIN new \/ b = start
    <3>1. start <= b /\ b < end
      BY <1>2, <2>4, TilesFacts
    <3>2. EndOf(heap, b) <= end
      BY <1>2, <3>1, TilesFacts
    <3> QED BY <1>6, <2>1, <2>2, <3>1, <3>2, TilesFacts
  <2> QED BY <2>3, <2>4
<1> QED BY <1>5, <1>7, <1>8 DEF new

(* A free block that is taken as it is.                                     *)
LEMMA WholeBlockTaken ==
  ASSUME NEW heap, NEW a \in DOMAIN heap, Tiles(heap), heap[a].state = "free"
  PROVE  LET new == [heap EXCEPT ![a].state = "used"]
         IN  /\ Tiles(new)
             /\ Busy(new) = Busy(heap) \cup {a}
             /\ \A b \in Busy(heap) : new[b] = heap[b]
             /\ new[a] = [size |-> heap[a].size, state |-> "used"]
             /\ NeighboursMerged(heap) => NeighboursMerged(new)
             /\ FreeSpace(new) = FreeSpace(heap) \ BlockSpace(heap, a)
<1> DEFINE new == [heap EXCEPT ![a].state = "used"]
<1>1. /\ DOMAIN new = DOMAIN heap /\ new = [b \in DOMAIN new |-> new[b]]
      /\ new[a] = [size |-> heap[a].size, state |-> "used"]
      /\ \A b \in DOMAIN heap \ {a} : new[b] = heap[b]
  <2>1. heap[a] \in Entries
    BY TilesFacts
  <2>2. [heap[a] EXCEPT !.state = "used"] = [size |-> heap[a].size, state |-> "used"]
    BY <2>1 DEF Entries
  <2> QED BY <2>2
<1> HIDE DEF new
<1>2. \A b \in DOMAIN heap : EndOf(new, b) = EndOf(heap, b)
  BY <1>1 DEF EndOf
<1>3. Tiles(new)
  <2>1. \A b \in DOMAIN new : new[b] \in Entries
    BY <1>1, TilesFacts DEF Entries, States
  <2> QED BY <1>1, <1>2, <2>1 DEF Tiles, Typed
<1>4. Busy(new) = Busy(heap) \cup {a} /\ \A b \in Busy(heap) : new[b] = heap[b]
  BY <1>1 DEF Busy
<1>5. NeighboursMerged(heap) => NeighboursMerged(new)
  BY <1>1, <1>2 DEF NeighboursMerged
<1>6. FreeSpace(new) = FreeSpace(heap) \ BlockSpace(heap, a)
  <2>1. ASSUME NEW x \in FreeSpace(new) PROVE x \in FreeSpace(heap) /\ x \notin BlockSpace(heap, a)
    <3>1. PICK b \in DOMAIN heap : new[b].state = "free" /\ b <= x /\ x < EndOf(heap, b) /\ b # a
      BY <1>1, <1>2 DEF FreeSpace
    <3>2. x \in Int /\ x \in Addresses
      BY SizesAssumption DEF FreeSpace, Addresses
    <3> QED BY <1>1, <3>1, <3>2, TilesFacts DEF FreeSpace, BlockSpace
  <2>2. ASSUME NEW x \in FreeSpace(heap), x \notin BlockSpace(heap, a) PROVE x \in FreeSpace(new)
    BY <1>1, <1>2, <2>2 DEF FreeSpace, BlockSpace
  <2> QED BY <2>1, <2>2
<1> QED BY <1>1, <1>3, <1>4, <1>5, <1>6 DEF new

(* A free block that is cut in two.                                         *)
LEMMA SplitFacts ==
  ASSUME NEW heap, NEW a \in DOMAIN heap, NEW wanted \in Nat, Tiles(heap),
         heap[a].state = "free", 0 < wanted, wanted < heap[a].size
  PROVE  LET new == Split(heap, a, wanted)
             rest == a + wanted
         IN  /\ Tiles(new)
             /\ rest \in DOMAIN new /\ new[rest].state # "free" /\ rest # a
             /\ Busy(new) = Busy(heap) \cup {a, rest} /\ rest \notin Busy(heap)
             /\ \A b \in Busy(heap) : new[b] = heap[b]
             /\ new[a] = [size |-> wanted, state |-> "used"]
             /\ NeighboursMerged(heap) => NeighboursMerged(new)
             /\ FreeSpace(new) = FreeSpace(heap) \ BlockSpace(heap, a)
             /\ BlockSpace(heap, a) = BlockSpace(new, a) \cup BlockSpace(new, rest)
             /\ BlockSpace(new, a) \cap BlockSpace(new, rest) = {}
<1> DEFINE new == Split(heap, a, wanted)
           rest == a + wanted
<1>1. /\ rest \in Int /\ a < rest /\ rest < EndOf(heap, a) /\ rest < HeapSize
      /\ EndOf(heap, a) <= HeapSize
  BY TilesFacts
<1>2. /\ DOMAIN new = DOMAIN heap \cup {rest}
      /\ new[a] = [size |-> wanted, state |-> "used"]
      /\ new[rest] = [size |-> heap[a].size - wanted, state |-> "leaving"]
      /\ \A b \in DOMAIN heap \ {a, rest} : new[b] = heap[b]
      /\ new = [b \in DOMAIN new |-> new[b]]
  BY <1>1, TilesFacts DEF Split
<1>3. rest \notin DOMAIN heap
  BY <1>1, TilesFacts
<1> HIDE DEF new
<1>4. EndOf(new, a) = rest
  BY <1>2 DEF EndOf
<1>5. EndOf(new, rest) = EndOf(heap, a)
  BY <1>1, <1>2, TilesFacts DEF EndOf
<1>6. \A b \in DOMAIN heap \ {a} : EndOf(new, b) = EndOf(heap, b) /\ new[b] = heap[b]
  BY <1>2, <1>3 DEF EndOf
<1> HIDE DEF rest
<1>7. Tiles(new)
  <2>1. Typed(new)
    <3>1. new[a] \in Entries /\ new[rest] \in Entries
      BY <1>1, <1>2, TilesFacts DEF Entries, States, rest
    <3>2. \A b \in DOMAIN new : new[b] \in Entries
      BY <3>1, <1>2, <1>6, TilesFacts
    <3>3. DOMAIN new \subseteq Addresses
      BY <1>1, <1>2, TilesFacts DEF Addresses
    <3> QED BY <3>2, <3>3, <1>2 DEF Typed
  <2>2. ASSUME NEW b \in DOMAIN new
        PROVE  /\ EndOf(new, b) \in DOMAIN new \cup {HeapSize}
               /\ \A c \in DOMAIN new : c <= b \/ EndOf(new, b) <= c
    <3>1. CASE b = a
      BY <3>1, <1>1, <1>2, <1>4, TilesFacts
    <3>2. CASE b = rest
      BY <3>2, <1>1, <1>2, <1>5, TilesFacts
    <3>3. CASE b # a /\ b # rest
      <4>1. b \in DOMAIN heap /\ EndOf(new, b) = EndOf(heap, b)
        BY <3>3, <1>2, <1>6
      <4>2. rest <= b \/ EndOf(heap, b) <= rest
        BY <4>1, <3>3, <1>1, TilesFacts
      <4> QED BY <4>1, <4>2, <1>2, TilesFacts
    <3> QED BY <3>1, <3>2, <3>3
  <2> QED BY <2>1, <2>2, <1>2, TilesFacts DEF Tiles
<1>8. /\ rest \in DOMAIN new /\ new[rest].state # "free" /\ rest # a
      /\ Busy(new) = Busy(heap) \cup {a, rest} /\ rest \notin Busy(heap)
      /\ \A b \in Busy(heap) : new[b] = heap[b]
  BY <1>1, <1>2, <1>3, <1>6, TilesFacts DEF Busy
<1>9. NeighboursMerged(heap) => NeighboursMerged(new)
  BY <1>2, <1>6 DEF NeighboursMerged
<1>10. FreeSpace(new) = FreeSpace(heap) \ BlockSpace(heap, a)
  <2>1. ASSUME NEW x \in FreeSpace(new) PROVE x \in FreeSpace(heap) /\ x \notin BlockSpace(heap, a)
    <3>1. PICK b \in DOMAIN new : new[b].state = "free" /\ b <= x /\ x < EndOf(new, b)
      BY DEF FreeSpace
    <3>2. b \in DOMAIN heap \ {a} /\ heap[b].state = "free" /\ x < EndOf(heap, b)
      BY <1>2, <1>6, <3>1
    <3>3. x \in Int /\ x \in Addresses
      BY SizesAssumption DEF FreeSpace, Addresses
    <3> QED BY <3>1, <3>2, <3>3, TilesFacts DEF FreeSpace, BlockSpace
  <2>2. ASSUME NEW x \in FreeSpace(heap), x \notin BlockSpace(heap, a) PROVE x \in FreeSpace(new)
    BY <1>2, <1>6, <2>2 DEF FreeSpace, BlockSpace
  <2> QED BY <2>1, <2>2
<1>11. /\ BlockSpace(heap, a) = BlockSpace(new, a) \cup BlockSpace(new, rest)
       /\ BlockSpace(new, a) \cap BlockSpace(new, rest) = {}
  <2>1. \A x \in Addresses : x \in Int
    BY SizesAssumption DEF Addresses
  <2> QED BY <2>1, <1>1, <1>4, <1>5, TilesFacts DEF BlockSpace
<1> QED BY <1>2, <1>7, <1>8, <1>9, <1>10, <1>11 DEF new, rest

(* Taking a block, and splitting it if it is larger than needed: the heap   *)
(* stays tiled and its free neighbours merged, no other block is touched,   *)
(* and exactly the block taken is no longer free.                           *)
LEMMA TakenFacts ==
  ASSUME NEW heap, NEW a \in DOMAIN heap, NEW wanted \in Nat, Tiles(heap),
         heap[a].state = "free", 0 < wanted, wanted <= heap[a].size
  PROVE  LET new == Taken(heap, a, wanted)
         IN  /\ Tiles(new)
             /\ Busy(new) = Busy(heap) \cup {a}
             /\ \A b \in Busy(heap) : new[b] = heap[b]
             /\ new[a].state = "used" /\ wanted <= new[a].size
             /\ NeighboursMerged(heap) => NeighboursMerged(new)
             /\ FreeSpace(new) = FreeSpace(heap) \ BlockSpace(new, a)
             /\ BlockSpace(new, a) \subseteq FreeSpace(heap)
<1>0. BlockSpace(heap, a) \subseteq FreeSpace(heap) /\ a \notin Busy(heap)
  BY DEF BlockSpace, FreeSpace, Busy
<1>1. CASE heap[a].size - wanted > MinimumBlockSize
  <2> DEFINE cut == Split(heap, a, wanted)
             rest == a + wanted
             new == InsertBlockIntoFreeList(cut, rest)
  <2>1. wanted < heap[a].size
    BY <1>1, TilesFacts, SizesAssumption DEF MinimumBlockSize
  <2>2. /\ Tiles(cut)
        /\ rest \in DOMAIN cut /\ cut[rest].state # "free" /\ rest # a
        /\ Busy(cut) = Busy(heap) \cup {a, rest} /\ rest \notin Busy(heap)
        /\ \A b \in Busy(heap) : cut[b] = heap[b]
        /\ cut[a] = [size |-> wanted, state |-> "used"]
        /\ NeighboursMerged(heap) => NeighboursMerged(cut)
        /\ FreeSpace(cut) = FreeSpace(heap) \ BlockSpace(heap, a)
        /\ BlockSpace(heap, a) = BlockSpace(cut, a) \cup BlockSpace(cut, rest)
        /\ BlockSpace(cut, a) \cap BlockSpace(cut, rest) = {}
    BY <2>1, SplitFacts
  <2> HIDE DEF cut, rest
  <2>3. /\ Tiles(new)
        /\ Busy(new) = Busy(cut) \ {rest}
        /\ \A b \in Busy(new) : new[b] = cut[b]
        /\ FreeSpace(new) = FreeSpace(cut) \cup BlockSpace(cut, rest)
        /\ NeighboursMerged(cut) => NeighboursMerged(new)
    BY <2>2, InsertTiles, InsertOthers, InsertSpace, InsertMerges
  <2>4. new = Taken(heap, a, wanted)
    BY <1>1 DEF Taken, cut, rest
  <2> HIDE DEF new
  <2>5. Busy(new) = Busy(heap) \cup {a}
    BY <2>2, <2>3
  <2>6. /\ \A b \in Busy(heap) : new[b] = heap[b]
        /\ new[a] = [size |-> wanted, state |-> "used"]
    BY <2>2, <2>3, <2>5
  <2>7. BlockSpace(new, a) = BlockSpace(cut, a)
    BY <2>2, <2>6 DEF BlockSpace, EndOf
  <2>8. FreeSpace(new) = FreeSpace(heap) \ BlockSpace(new, a)
    BY <2>2, <2>3, <2>7, <1>0
  <2> QED BY <2>2, <2>3, <2>4, <2>5, <2>6, <2>7, <2>8, <1>0
<1>2. CASE ~(heap[a].size - wanted > MinimumBlockSize)
  <2> DEFINE new == [heap EXCEPT ![a].state = "used"]
  <2>1. /\ Tiles(new)
        /\ Busy(new) = Busy(heap) \cup {a}
        /\ \A b \in Busy(heap) : new[b] = heap[b]
        /\ new[a] = [size |-> heap[a].size, state |-> "used"]
        /\ NeighboursMerged(heap) => NeighboursMerged(new)
        /\ FreeSpace(new) = FreeSpace(heap) \ BlockSpace(heap, a)
    BY WholeBlockTaken
  <2>2. new = Taken(heap, a, wanted)
    BY <1>2 DEF Taken
  <2> HIDE DEF new
  <2>3. BlockSpace(new, a) = BlockSpace(heap, a)
    BY <2>1 DEF BlockSpace, EndOf
  <2> QED BY <2>1, <2>2, <2>3, <1>0
<1> QED BY <1>1, <1>2

----------------------------------------------------------------------------
(* Sizes and counts. *)

LEMMA BlockSpaceCounted ==
  ASSUME NEW heap, NEW a \in DOMAIN heap, Tiles(heap)
  PROVE  /\ IsFiniteSet(BlockSpace(heap, a))
         /\ Cardinality(BlockSpace(heap, a)) = heap[a].size
<1>1. EndOf(heap, a) <= HeapSize
  BY TilesFacts
<1>2. BlockSpace(heap, a) = a..(a + heap[a].size - 1)
  BY <1>1, TilesFacts DEF BlockSpace, Addresses
<1>3. a \in Int /\ a + heap[a].size - 1 \in Int /\ a <= a + heap[a].size - 1
      /\ (a + heap[a].size - 1) - a + 1 = heap[a].size
  BY TilesFacts
<1> DEFINE last == a + heap[a].size - 1
<1> HIDE DEF last
<1>4. IsFiniteSet(a..last) /\ Cardinality(a..last) = last - a + 1
  <2>1. a \in Int /\ last \in Int /\ ~(a > last)
    BY <1>3 DEF last
  <2> QED BY <2>1, FS_Interval
<1> QED BY <1>2, <1>3, <1>4 DEF last

LEMMA FreeSpaceFinite == \A heap : IsFiniteSet(FreeSpace(heap)) /\ IsFiniteSet(Addresses)
<1>1. IsFiniteSet(Addresses)
  BY SizesAssumption, FS_Interval DEF Addresses
<1> QED BY <1>1, FS_Subset DEF FreeSpace

(* No address is in two blocks.                                             *)
LEMMA BusySpaceApart ==
  ASSUME NEW heap, NEW a \in DOMAIN heap, Tiles(heap), heap[a].state # "free"
  PROVE  BlockSpace(heap, a) \cap FreeSpace(heap) = {}
<1> SUFFICES ASSUME NEW x \in BlockSpace(heap, a), NEW b \in DOMAIN heap,
                    heap[b].state = "free", b <= x, x < EndOf(heap, b)
             PROVE  FALSE
  BY DEF FreeSpace
<1>1. x \in Int /\ a <= x /\ x < EndOf(heap, a)
  BY SizesAssumption DEF BlockSpace, Addresses
<1> QED BY <1>1, TilesFacts

(* The pairs that Accounted counts are the addresses in free blocks.        *)
LEMMA FreeBytesCounted == Tiled => Cardinality(FreeBytes) = Cardinality(FreeSpace(block))
<1> SUFFICES ASSUME Tiled PROVE Cardinality(FreeBytes) = Cardinality(FreeSpace(block))
  OBVIOUS
<1>0. Tiles(block)
  BY DEF Tiled
<1> DEFINE f == [p \in FreeBytes |-> p[1] + p[2]]
<1>1. ASSUME NEW p \in FreeBytes
      PROVE  /\ p[1] \in DOMAIN block /\ block[p[1]].state = "free"
             /\ p[2] \in Nat /\ p[2] < block[p[1]].size /\ p = <<p[1], p[2]>>
  BY SizesAssumption DEF FreeBytes, In, Addresses
<1>2. ASSUME NEW p \in FreeBytes PROVE f[p] \in FreeSpace(block)
  <2>1. p[1] <= f[p] /\ f[p] < EndOf(block, p[1]) /\ EndOf(block, p[1]) <= HeapSize
    BY <1>0, <1>1, TilesFacts
  <2>2. f[p] \in Addresses
    BY <1>0, <1>1, <2>1, TilesFacts DEF Addresses
  <2> QED BY <1>1, <2>1, <2>2 DEF FreeSpace
<1>3. ASSUME NEW p \in FreeBytes, NEW q \in FreeBytes, f[p] = f[q] PROVE p = q
  <2>1. p[1] + p[2] = q[1] + q[2]
    BY <1>3
  <2>2. p[1] = q[1]
    BY <1>0, <1>1, <2>1, TilesFacts
  <2>3. p[2] = q[2]
    BY <1>0, <1>1, <2>1, <2>2, TilesFacts
  <2> QED BY <1>1, <2>2, <2>3
<1>4. ASSUME NEW x \in FreeSpace(block) PROVE \E p \in FreeBytes : f[p] = x
  <2>1. PICK a \in DOMAIN block : block[a].state = "free" /\ a <= x /\ x < EndOf(block, a)
    BY DEF FreeSpace
  <2>2. x \in Int /\ x < HeapSize /\ x >= 0
    BY SizesAssumption DEF FreeSpace, Addresses
  <2>3. x - a \in Addresses /\ x - a < block[a].size /\ a + (x - a) = x
    BY <1>0, <2>1, <2>2, TilesFacts DEF Addresses
  <2>4. <<a, x - a>> \in FreeBytes
    BY <2>1, <2>3 DEF FreeBytes, In
  <2> QED BY <2>3, <2>4
<1>5. f \in Injection(FreeBytes, FreeSpace(block))
  BY <1>2, <1>3, Fun_IsInj
<1>6. f \in Surjection(FreeBytes, FreeSpace(block))
  BY <1>2, <1>4, Fun_IsSurj
<1> QED BY <1>5, <1>6, FreeSpaceFinite, FS_Injection

(* The size taken off the heap holds what was asked for and the header: it  *)
(* does not wrap around.                                                    *)
LEMMA WantedSuffices ==
  ASSUME NEW n \in Requests, Wanted(n) > 0
  PROVE  Wanted(n) >= n + HeaderSize
<1>1. n \in Nat /\ n < AllocatedBit /\ n # 0
  BY WantedNat, RequestsAssumption, SizesAssumption DEF Wanted
<1> DEFINE m == n + HeaderSize
<1>2. m \in Nat /\ m < Word /\ m + Alignment < Word /\ Word \in Nat
  BY <1>1, SizesAssumption, RequestsAssumption DEF Word
<1>3. m % Word = m
  BY <1>2
<1>4. Wanted(n) = RoundedUp(m)
  BY <1>1, <1>3 DEF Wanted
<1> HIDE DEF m
<1>5. m % Alignment \in Nat /\ m % Alignment < Alignment
  BY <1>2, SizesAssumption
<1>6. RoundedUp(m) >= m
  <2> DEFINE r == m + (Alignment - (m % Alignment))
  <2>1. r \in Nat /\ r >= m /\ r < Word
    BY <1>2, <1>5, SizesAssumption
  <2>2. r % Word = r
    <3> HIDE DEF r
    <3> QED BY <1>2, <2>1
  <2> QED BY <1>2, <2>1, <2>2 DEF RoundedUp
<1> QED BY <1>4, <1>6 DEF m

----------------------------------------------------------------------------
(* The invariant. *)

AskedFor ==
  /\ DOMAIN asked = In("used")
  /\ \A a \in In("used") : asked[a] \in Requests /\ block[a].size >= asked[a] + HeaderSize

HeapInv ==
  /\ Tiles(block)
  /\ NeighboursMerged(block)
  /\ remaining = Cardinality(FreeSpace(block))
  /\ AskedFor

LEMMA InitHeap == Init => HeapInv
<1> SUFFICES ASSUME Init PROVE HeapInv
  OBVIOUS
<1>1. /\ DOMAIN block = {0} /\ block[0] = [size |-> HeapSize, state |-> "free"]
      /\ block = [a \in DOMAIN block |-> block[a]]
  BY DEF Init
<1>2. EndOf(block, 0) = HeapSize
  BY <1>1, SizesAssumption DEF EndOf
<1>3. Tiles(block)
  <2>1. Typed(block)
    BY <1>1, SizesAssumption DEF Typed, Addresses, Entries, States
  <2> QED BY <1>1, <1>2, <2>1 DEF Tiles
<1>4. NeighboursMerged(block)
  BY <1>1, <1>2, SizesAssumption DEF NeighboursMerged
<1>5. FreeSpace(block) = BlockSpace(block, 0)
  BY <1>1 DEF FreeSpace, BlockSpace
<1>6. remaining = Cardinality(FreeSpace(block))
  BY <1>1, <1>3, <1>5, BlockSpaceCounted DEF Init
<1>7. AskedFor
  BY <1>1 DEF Init, AskedFor, In
<1> QED BY <1>3, <1>4, <1>6, <1>7 DEF HeapInv

LEMMA MallocHeap == \A n \in Requests : HeapInv /\ Malloc(n) => HeapInv'
<1> SUFFICES ASSUME NEW n \in Requests, HeapInv, Malloc(n) PROVE HeapInv'
  OBVIOUS
<1> DEFINE wanted == Wanted(n)
<1>1. wanted \in Nat /\ wanted > 0 /\ wanted >= n + HeaderSize
  BY WantedNat, WantedSuffices DEF Malloc
<1>2. PICK a \in Fitting(wanted) :
        /\ block' = Taken(block, a, wanted)
        /\ remaining' = remaining - block'[a].size
        /\ asked' = [b \in DOMAIN asked \cup {a} |-> IF b = a THEN n ELSE asked[b]]
  BY DEF Malloc
<1>3. a \in DOMAIN block /\ block[a].state = "free" /\ wanted <= block[a].size
  BY <1>1, <1>2, TilesFacts DEF Fitting, In, HeapInv
<1> HIDE DEF wanted
<1>4. /\ Tiles(block')
      /\ Busy(block') = Busy(block) \cup {a}
      /\ \A b \in Busy(block) : block'[b] = block[b]
      /\ block'[a].state = "used" /\ wanted <= block'[a].size
      /\ NeighboursMerged(block')
      /\ FreeSpace(block') = FreeSpace(block) \ BlockSpace(block', a)
      /\ BlockSpace(block', a) \subseteq FreeSpace(block)
  BY <1>1, <1>2, <1>3, TakenFacts DEF HeapInv
<1>5. a \in DOMAIN block'
  BY <1>4 DEF Busy
<1>6. remaining' = Cardinality(FreeSpace(block'))
  <2>1. FreeSpace(block) \cap BlockSpace(block', a) = BlockSpace(block', a)
    BY <1>4
  <2>2. Cardinality(FreeSpace(block'))
          = Cardinality(FreeSpace(block)) - Cardinality(BlockSpace(block', a))
    BY <1>4, <2>1, FreeSpaceFinite, FS_Difference
  <2> QED BY <1>2, <1>4, <1>5, <2>2, BlockSpaceCounted DEF HeapInv
<1>7. AskedFor'
  <2>1. In("used")' = In("used") \cup {a}
    BY <1>3, <1>4, <1>5 DEF In, Busy
  <2>2. \A b \in In("used") : b \in Busy(block) /\ b # a
    BY <1>3 DEF In, Busy
  <2>3. DOMAIN asked' = In("used")'
    BY <1>2, <2>1 DEF HeapInv, AskedFor
  <2>4. asked'[a] = n /\ \A b \in In("used") : asked'[b] = asked[b] /\ block'[b] = block[b]
    BY <1>2, <1>4, <2>2 DEF HeapInv, AskedFor
  <2>5. block'[a].size >= n + HeaderSize
    BY <1>1, <1>4, <1>5, TilesFacts, RequestsAssumption, SizesAssumption
  <2> QED BY <2>1, <2>2, <2>3, <2>4, <2>5 DEF HeapInv, AskedFor
<1> QED BY <1>4, <1>6, <1>7 DEF HeapInv

LEMMA ClearAllocatedHeap ==
  \A a \in DOMAIN block : HeapInv /\ ClearAllocated(a) => HeapInv'
<1> SUFFICES ASSUME NEW a \in DOMAIN block, HeapInv, ClearAllocated(a) PROVE HeapInv'
  OBVIOUS
<1>1. /\ block[a].state = "used" /\ block' = [block EXCEPT ![a].state = "leaving"]
      /\ asked' = [b \in DOMAIN asked \ {a} |-> asked[b]] /\ remaining' = remaining
  BY DEF ClearAllocated, In
<1>2. /\ DOMAIN block' = DOMAIN block /\ block' = [b \in DOMAIN block' |-> block'[b]]
      /\ block'[a] = [size |-> block[a].size, state |-> "leaving"]
      /\ \A b \in DOMAIN block \ {a} : block'[b] = block[b]
  <2>1. block[a] \in Entries
    BY TilesFacts DEF HeapInv
  <2>2. [block[a] EXCEPT !.state = "leaving"] = [size |-> block[a].size, state |-> "leaving"]
    BY <2>1 DEF Entries
  <2> QED BY <1>1, <2>2
<1>3. \A b \in DOMAIN block : EndOf(block', b) = EndOf(block, b)
  BY <1>2 DEF EndOf
<1>4. Tiles(block')
  <2>1. \A b \in DOMAIN block' : block'[b] \in Entries
    BY <1>2, TilesFacts DEF Entries, States, HeapInv
  <2> QED BY <1>2, <1>3, <2>1 DEF Tiles, Typed, HeapInv
<1>5. NeighboursMerged(block')
  BY <1>2, <1>3 DEF NeighboursMerged, HeapInv
<1>6. FreeSpace(block') = FreeSpace(block)
  BY <1>1, <1>2, <1>3 DEF FreeSpace
<1>7. AskedFor'
  <2>1. In("used")' = In("used") \ {a}
    BY <1>1, <1>2 DEF In
  <2> QED BY <1>1, <1>2, <2>1 DEF HeapInv, AskedFor, In
<1> QED BY <1>1, <1>4, <1>5, <1>6, <1>7 DEF HeapInv

LEMMA FreeHeap == \A a \in DOMAIN block : HeapInv /\ Free(a) => HeapInv'
<1> SUFFICES ASSUME NEW a \in DOMAIN block, HeapInv, Free(a) PROVE HeapInv'
  OBVIOUS
<1>1. /\ block[a].state = "leaving" /\ block' = InsertBlockIntoFreeList(block, a)
      /\ asked' = asked /\ remaining' = remaining + block[a].size
  BY DEF Free, In
<1>2. /\ Tiles(block')
      /\ Busy(block') = Busy(block) \ {a}
      /\ \A b \in Busy(block') : block'[b] = block[b]
      /\ FreeSpace(block') = FreeSpace(block) \cup BlockSpace(block, a)
      /\ NeighboursMerged(block')
  BY <1>1, InsertTiles, InsertOthers, InsertSpace, InsertMerges DEF HeapInv
<1>3. remaining' = Cardinality(FreeSpace(block'))
  <2>1. FreeSpace(block) \cap BlockSpace(block, a) = {}
    BY <1>1, BusySpaceApart DEF HeapInv
  <2>2. IsFiniteSet(BlockSpace(block, a)) /\ Cardinality(BlockSpace(block, a)) = block[a].size
    BY BlockSpaceCounted DEF HeapInv
  <2>3. Cardinality(FreeSpace(block')) = Cardinality(FreeSpace(block)) + block[a].size - 0
    BY <1>2, <2>1, <2>2, FreeSpaceFinite, FS_Union, FS_EmptySet
  <2>4. block[a].size \in Int /\ Cardinality(FreeSpace(block)) \in Int
    BY TilesFacts, FreeSpaceFinite, FS_CardinalityType DEF HeapInv
  <2> QED BY <1>1, <2>3, <2>4 DEF HeapInv
<1>4. AskedFor'
  <2>1. In("used")' = In("used") /\ \A b \in In("used") : block'[b] = block[b]
    BY <1>1, <1>2 DEF In, Busy
  <2> QED BY <1>1, <2>1 DEF HeapInv, AskedFor
<1> QED BY <1>2, <1>3, <1>4 DEF HeapInv

(* The inductive invariant: tiled, merged, accounted for, and large enough.  *)
THEOREM HeapInvariant == Spec => []HeapInv
<1>1. HeapInv /\ [Next]_vars => HeapInv'
  <2> SUFFICES ASSUME HeapInv, [Next]_vars PROVE HeapInv'
    OBVIOUS
  <2>1. CASE UNCHANGED vars
    BY <2>1 DEF vars, HeapInv, AskedFor, In
  <2>2. ASSUME NEW n \in Requests, MallocFails(n) PROVE HeapInv'
    BY <2>1, <2>2 DEF MallocFails
  <2> QED BY <2>1, <2>2, MallocHeap, ClearAllocatedHeap, FreeHeap DEF Next
<1> QED BY <1>1, InitHeap, PTL DEF Spec

(* The blocks tile the heap at all times (heap_4.c): no two blocks overlap  *)
(* and none is lost, whichever requests are made and however the two halves *)
(* of vPortFree of several tasks interleave.                                *)
THEOREM TiledTheorem == Spec => []Tiled
<1>1. HeapInv => Tiled
  BY DEF HeapInv, Tiled
<1> QED BY <1>1, HeapInvariant, PTL

(* Free neighbours are always merged (prvInsertBlockIntoFreeList).          *)
THEOREM MergedTheorem == Spec => []Merged
<1>1. HeapInv => Merged
  BY DEF HeapInv, NeighboursMerged, EndOf, Merged, In
<1> QED BY <1>1, HeapInvariant, PTL

(* xFreeBytesRemaining is the number of bytes in free blocks, however many  *)
(* tasks are between the two halves of vPortFree.                           *)
THEOREM AccountedTheorem == Spec => []Accounted
<1>1. HeapInv => Accounted
  BY FreeBytesCounted DEF HeapInv, Tiled, Accounted
<1> QED BY <1>1, HeapInvariant, PTL

(* Every block in use is as large as was asked for, its header included     *)
(* (pvPortMalloc): the rounded size never wraps around.                     *)
THEOREM LargeEnoughTheorem == Spec => []LargeEnough
<1>1. HeapInv => LargeEnough
  BY DEF HeapInv, AskedFor, LargeEnough
<1> QED BY <1>1, HeapInvariant, PTL

----------------------------------------------------------------------------
(* The objects of the kernel. *)

(* What is left to be allocated for a creation has a known size.            *)
PartsKnown ==
  /\ DOMAIN call = Agents
  /\ \A agent \in Agents :
       "parts" \in DOMAIN call[agent] /\ call[agent].parts \in Seq(DOMAIN SizeOf)

LEMMA NoCallKnown == "parts" \in DOMAIN NoCall /\ NoCall.parts \in Seq(DOMAIN SizeOf)
<1>1. NoCall.parts = << >> /\ "parts" \in DOMAIN NoCall
  BY DEF NoCall
<1> QED BY <1>1, EmptySeq

LEMMA PartsKnownAtFirst == ObjectsInit => PartsKnown
BY NoCallKnown DEF ObjectsInit, PartsKnown

LEMMA StartsKeepsParts ==
  ASSUME PartsKnown, NEW caller \in Callers, NEW handle, NEW kind, NEW note,
         NEW parts \in Seq(DOMAIN SizeOf), Starts(caller, handle, kind, parts, note)
  PROVE  PartsKnown' /\ UNCHANGED memory
BY DEF Starts, PartsKnown, Agents, memory

LEMMA FreesKeepsParts ==
  ASSUME PartsKnown, NEW agent \in Agents, NEW blocks, Frees(agent, blocks)
  PROVE  PartsKnown'
<1> DEFINE new == [NoCall EXCEPT !.at = "free", !.object.blocks = blocks]
<1>1. "parts" \in DOMAIN new /\ new.parts = NoCall.parts
  BY NoCallKnown
<1> HIDE DEF new
<1>2. call' = [call EXCEPT ![agent] = new]
  BY DEF Frees, new
<1> QED BY <1>1, <1>2, NoCallKnown DEF PartsKnown

LEMMA CreatesKeepsParts ==
  ASSUME PartsKnown, NEW caller \in Callers, NEW handle, Creates(caller, handle)
  PROVE  PartsKnown' /\ UNCHANGED memory
<1>1. /\ << >> \in Seq(DOMAIN SizeOf)
      /\ <<"stack", "tcb">> \in Seq(DOMAIN SizeOf)
      /\ \A part \in DOMAIN SizeOf : <<part>> \in Seq(DOMAIN SizeOf)
      /\ {"tcb", "queue", "eventGroup", "timer", "buffer", "largeBuffer",
          "nothing", "bytes", "tooMuch"} \subseteq DOMAIN SizeOf
  BY OwnersAssumption
<1>2. CASE CreateTask(caller, handle)
  BY <1>1, <1>2, StartsKeepsParts DEF CreateTask
<1>3. CASE CreateTaskStatic(caller, handle)
  BY <1>1, <1>3, StartsKeepsParts DEF CreateTaskStatic
<1>4. CASE CreateTaskRestricted(caller, handle)
  BY <1>1, <1>4, StartsKeepsParts DEF CreateTaskRestricted
<1>5. CASE CreateTaskRestrictedStatic(caller, handle)
  BY <1>1, <1>5, StartsKeepsParts DEF CreateTaskRestrictedStatic
<1>6. CASE CreateQueue(caller, handle)
  BY <1>1, <1>6, StartsKeepsParts DEF CreateQueue
<1>7. CASE CreateQueueStatic(caller, handle)
  BY <1>1, <1>7, StartsKeepsParts DEF CreateQueueStatic
<1>8. CASE CreateMutexStatic(caller, handle)
  BY <1>1, <1>8, StartsKeepsParts DEF CreateMutexStatic, CreateQueueStatic
<1>9. CASE CreateEventGroup(caller, handle)
  BY <1>1, <1>9, StartsKeepsParts DEF CreateEventGroup
<1>10. CASE CreateEventGroupStatic(caller, handle)
  BY <1>1, <1>10, StartsKeepsParts DEF CreateEventGroupStatic
<1>11. CASE CreateStreamBuffer(caller, handle)
  BY <1>1, <1>11, StartsKeepsParts DEF CreateStreamBuffer
<1>12. CASE CreateStreamBufferStatic(caller, handle)
  BY <1>1, <1>12, StartsKeepsParts DEF CreateStreamBufferStatic
<1>13. CASE CreateTimer(caller, handle)
  BY <1>1, <1>13, StartsKeepsParts DEF CreateTimer
<1>14. CASE CreateTimerStatic(caller, handle)
  BY <1>1, <1>14, StartsKeepsParts DEF CreateTimerStatic
<1>15. CASE TakeMemory(caller, handle)
  BY <1>1, <1>15, StartsKeepsParts DEF TakeMemory
<1> QED BY <1>2, <1>3, <1>4, <1>5, <1>6, <1>7, <1>8, <1>9, <1>10, <1>11, <1>12,
        <1>13, <1>14, <1>15 DEF Creates

LEMMA DeletesKeepsParts ==
  ASSUME PartsKnown, NEW caller \in Agents, NEW handle, NEW kind, NEW blocks, NEW excludes,
         Deletes(caller, handle, kind, blocks, excludes)
  PROVE  PartsKnown' /\ UNCHANGED memory
BY FreesKeepsParts DEF Deletes, memory

(* Every step of an object is a step of the heap, or leaves it alone.       *)
LEMMA StepUsesHeap ==
  ASSUME PartsKnown, [ObjectsNext]_allVars
  PROVE  PartsKnown' /\ [Next]_vars
<1> USE DEF Agents
<1>1. ASSUME NEW caller \in Callers, NEW handle \in Handles, Creates(caller, handle)
      PROVE  PartsKnown' /\ UNCHANGED memory
  BY <1>1, CreatesKeepsParts
<1>2. ASSUME NEW caller \in Callers, NEW handle \in Handles, Deletion(caller, handle)
      PROVE  PartsKnown' /\ UNCHANGED memory
  <2>1. PICK kind, blocks, excludes : Deletes(caller, handle, kind, blocks, excludes)
    BY <1>2 DEF Deletion, DeleteTask, DeleteQueue, DeleteEventGroup, DeleteStreamBuffer,
       GiveMemory
  <2> QED BY <2>1, DeletesKeepsParts
<1>3. ASSUME NEW caller \in Callers, Allocate(caller)
      PROVE  PartsKnown' /\ [Next]_vars
  <2>1. call[caller].parts # << >> /\ call[caller].parts \in Seq(DOMAIN SizeOf)
    BY <1>3 DEF Allocate, Missing, PartsKnown
  <2>2. /\ Head(call[caller].parts) \in DOMAIN SizeOf
        /\ Tail(call[caller].parts) \in Seq(DOMAIN SizeOf)
    BY <2>1, HeadTailProperties
  <2>3. NextSize(caller) \in Requests
    BY <2>2, OwnersAssumption DEF NextSize
  <2>4. Next
    BY <1>3, <2>3 DEF Allocate, Next
  <2>5. PartsKnown'
    BY <1>3, <2>2 DEF Allocate, PartsKnown
  <2> QED BY <2>4, <2>5
<1>4. ASSUME NEW caller \in Callers, CreateFails(caller)
      PROVE  PartsKnown' /\ [Next]_vars
  <2>1. PartsKnown'
    BY <1>4, FreesKeepsParts DEF CreateFails
  <2>2. UNCHANGED vars
    BY <1>4 DEF CreateFails, MallocFails
  <2> QED BY <2>1, <2>2
<1>5. ASSUME NEW caller \in Callers, Created(caller)
      PROVE  PartsKnown' /\ UNCHANGED memory
  BY <1>5, NoCallKnown DEF Created, PartsKnown, memory
<1>6. ASSUME NEW handle \in Handles, DeleteItself(handle) \/ DeleteTimer(handle)
      PROVE  PartsKnown' /\ UNCHANGED memory
  <2>1. CASE DeleteItself(handle)
    BY <2>1 DEF DeleteItself, PartsKnown, memory
  <2>2. CASE DeleteTimer(handle)
    BY <2>2, DeletesKeepsParts, OwnersAssumption DEF DeleteTimer
  <2> QED BY <1>6, <2>1, <2>2
<1>7. ASSUME CheckTasksWaitingTermination
      PROVE  PartsKnown' /\ UNCHANGED memory
  BY <1>7, FreesKeepsParts DEF CheckTasksWaitingTermination, memory
<1>8. ASSUME NEW agent \in Agents, FreeBegins(agent)
      PROVE  PartsKnown' /\ [Next]_vars
  <2>1. PartsKnown'
    BY <1>8 DEF FreeBegins, PartsKnown
  <2>2. Next
    BY <1>8 DEF FreeBegins, ClearAllocated, In, Next
  <2> QED BY <2>1, <2>2
<1>9. ASSUME NEW agent \in Agents, FreeEnds(agent)
      PROVE  PartsKnown' /\ [Next]_vars
  <2>1. PartsKnown'
    BY <1>9 DEF FreeEnds, PartsKnown
  <2>2. Next
    BY <1>9 DEF FreeEnds, Free, In, Next
  <2> QED BY <2>1, <2>2
<1>10. ASSUME NEW agent \in Agents, Freed(agent)
       PROVE  PartsKnown' /\ UNCHANGED memory
  BY <1>10, NoCallKnown DEF Freed, PartsKnown, memory
<1>11. CASE UNCHANGED allVars
  BY <1>11 DEF allVars, PartsKnown, vars
<1>12. UNCHANGED memory => UNCHANGED vars
  BY DEF memory, vars
<1> QED BY <1>1, <1>2, <1>3, <1>4, <1>5, <1>6, <1>7, <1>8, <1>9, <1>10, <1>11, <1>12
        DEF ObjectsNext

(* The kernel's use of its heap implements the heap: no object reaches into *)
(* the lists of heap_4.c but through pvPortMalloc and vPortFree.            *)
THEOREM ObjectsUseHeap == ObjectsSpec => Spec
<1>1. ObjectsInit => Init /\ PartsKnown
  BY PartsKnownAtFirst DEF ObjectsInit
<1>2. PartsKnown /\ [ObjectsNext]_allVars => PartsKnown' /\ [Next]_vars
  BY StepUsesHeap
<1> QED BY <1>1, <1>2, PTL DEF ObjectsSpec, Spec

(* Whatever is created and deleted, blocks neither overlap nor get lost.    *)
THEOREM ObjectsTiled == ObjectsSpec => []Tiled
BY ObjectsUseHeap, TiledTheorem, PTL

----------------------------------------------------------------------------
(* Who holds which blocks.  `held` is a function from owners to sequences   *)
(* of blocks.                                                               *)

(* Every block of a set is held by one owner, once, and no other block is.  *)
HeldOnce(held, blocks) ==
  /\ \A o, p \in DOMAIN held : \A i \in DOMAIN held[o] : \A j \in DOMAIN held[p] :
       held[o][i] = held[p][j] => o = p /\ i = j
  /\ \A o \in DOMAIN held : \A i \in DOMAIN held[o] : held[o][i] \in blocks
  /\ \A a \in blocks : \E o \in DOMAIN held : \E i \in DOMAIN held[o] : held[o][i] = a

(* Blocks change hands: `from` says who held what an owner holds now.       *)
LEMMA ChangeOfHands ==
  ASSUME NEW held, NEW new, NEW blocks, NEW from, HeldOnce(held, blocks),
         \A o \in DOMAIN new : new[o] # << >> =>
           from[o] \in DOMAIN held /\ new[o] = held[from[o]],
         \A o, p \in DOMAIN new :
           new[o] # << >> /\ new[p] # << >> /\ from[o] = from[p] => o = p,
         \A p \in DOMAIN held : held[p] # << >> =>
           \E o \in DOMAIN new : new[o] # << >> /\ from[o] = p
  PROVE  HeldOnce(new, blocks)
<1>0. \A s : DOMAIN s # {} => s # << >>
  OBVIOUS
<1>1. ASSUME NEW o \in DOMAIN new, NEW p \in DOMAIN new,
             NEW i \in DOMAIN new[o], NEW j \in DOMAIN new[p], new[o][i] = new[p][j]
      PROVE  o = p /\ i = j
  BY <1>0, <1>1 DEF HeldOnce
<1>2. ASSUME NEW o \in DOMAIN new, NEW i \in DOMAIN new[o] PROVE new[o][i] \in blocks
  BY <1>0 DEF HeldOnce
<1>3. ASSUME NEW a \in blocks
      PROVE  \E o \in DOMAIN new : \E i \in DOMAIN new[o] : new[o][i] = a
  <2>1. PICK p \in DOMAIN held : \E i \in DOMAIN held[p] : held[p][i] = a
    BY DEF HeldOnce
  <2>2. PICK o \in DOMAIN new : new[o] # << >> /\ from[o] = p
    BY <1>0, <2>1
  <2> QED BY <2>1, <2>2
<1> QED BY <1>1, <1>2, <1>3 DEF HeldOnce

(* One owner gets a block nobody held.                                      *)
LEMMA OneMore ==
  ASSUME NEW held, NEW new, NEW blocks, NEW who \in DOMAIN held, NEW a, NEW S,
         HeldOnce(held, blocks), a \notin blocks, a \in S, held[who] \in Seq(S),
         DOMAIN new = DOMAIN held, new[who] = Append(held[who], a),
         \A o \in DOMAIN held \ {who} : new[o] = held[o]
  PROVE  HeldOnce(new, blocks \cup {a})
<1> DEFINE n == Len(held[who])
<1>1. /\ n \in Nat /\ DOMAIN held[who] = 1..n /\ DOMAIN new[who] = 1..(n + 1)
      /\ new[who][n + 1] = a /\ \A i \in 1..n : new[who][i] = held[who][i]
  <2>1. n \in Nat /\ DOMAIN held[who] = 1..n
    BY LenProperties
  <2>2. Append(held[who], a) \in Seq(S) /\ Len(Append(held[who], a)) = n + 1
    BY AppendProperties
  <2>3. DOMAIN Append(held[who], a) = 1..(n + 1)
    BY <2>2, LenProperties
  <2> QED BY <2>1, <2>3, AppendProperties
<1> HIDE DEF n
<1>2. ASSUME NEW o \in DOMAIN new, NEW i \in DOMAIN new[o]
      PROVE  \/ i \in DOMAIN held[o] /\ new[o][i] = held[o][i]
             \/ o = who /\ i = n + 1 /\ new[o][i] = a
  BY <1>1
<1>3. \A o \in DOMAIN held : \A i \in DOMAIN held[o] : i \in DOMAIN new[o] /\ new[o][i] = held[o][i]
  BY <1>1
<1>4. n + 1 \in DOMAIN new[who] /\ new[who][n + 1] = a
  BY <1>1
<1>5. ASSUME NEW o \in DOMAIN new, NEW p \in DOMAIN new,
             NEW i \in DOMAIN new[o], NEW j \in DOMAIN new[p], new[o][i] = new[p][j]
      PROVE  o = p /\ i = j
  <2>1. \A q \in DOMAIN held : \A k \in DOMAIN held[q] : held[q][k] # a
    BY DEF HeldOnce
  <2> QED BY <1>2, <1>5, <2>1 DEF HeldOnce
<1>6. ASSUME NEW o \in DOMAIN new, NEW i \in DOMAIN new[o] PROVE new[o][i] \in blocks \cup {a}
  BY <1>2 DEF HeldOnce
<1>7. ASSUME NEW b \in blocks \cup {a}
      PROVE  \E o \in DOMAIN new : \E i \in DOMAIN new[o] : new[o][i] = b
  BY <1>3, <1>4 DEF HeldOnce
<1> QED BY <1>5, <1>6, <1>7 DEF HeldOnce

(* One owner gives up the first block it holds.                             *)
LEMMA OneLess ==
  ASSUME NEW held, NEW new, NEW blocks, NEW who \in DOMAIN held, NEW S,
         HeldOnce(held, blocks), held[who] \in Seq(S), held[who] # << >>,
         DOMAIN new = DOMAIN held, new[who] = Tail(held[who]),
         \A o \in DOMAIN held \ {who} : new[o] = held[o]
  PROVE  HeldOnce(new, blocks \ {Head(held[who])})
<1> DEFINE n == Len(held[who])
           a == Head(held[who])
<1>1. /\ n \in Nat /\ n > 0 /\ DOMAIN held[who] = 1..n /\ DOMAIN new[who] = 1..(n - 1)
      /\ a = held[who][1] /\ \A i \in 1..(n - 1) : new[who][i] = held[who][i + 1]
  <2>1. n \in Nat /\ DOMAIN held[who] = 1..n
    BY LenProperties
  <2>2. n > 0
    BY EmptySeq
  <2>3. Tail(held[who]) \in Seq(S) /\ Len(Tail(held[who])) = n - 1
    BY HeadTailProperties
  <2>4. DOMAIN Tail(held[who]) = 1..(n - 1)
    BY <2>3, LenProperties
  <2> QED BY <2>1, <2>2, <2>3, <2>4, HeadTailProperties
<1> DEFINE Old(o, i) == IF o = who THEN i + 1 ELSE i
<1> HIDE DEF n, a
<1>2. ASSUME NEW o \in DOMAIN new, NEW i \in DOMAIN new[o]
      PROVE  /\ Old(o, i) \in DOMAIN held[o] /\ new[o][i] = held[o][Old(o, i)]
             /\ o = who => Old(o, i) # 1
  BY <1>1
<1>3. \A o \in DOMAIN held : \A i \in DOMAIN held[o] :
        o # who \/ i # 1 => \E j \in DOMAIN new[o] : Old(o, j) = i
  <2> SUFFICES ASSUME NEW o \in DOMAIN held, NEW i \in DOMAIN held[o], o # who \/ i # 1
               PROVE  \E j \in DOMAIN new[o] : Old(o, j) = i
    OBVIOUS
  <2>1. CASE o # who
    BY <2>1
  <2>2. CASE o = who
    <3>1. i - 1 \in DOMAIN new[who] /\ (i - 1) + 1 = i
      BY <1>1, <2>2
    <3> QED BY <2>2, <3>1
  <2> QED BY <2>1, <2>2
<1>4. \A i \in DOMAIN new[who], j \in DOMAIN new[who] : Old(who, i) = Old(who, j) => i = j
  BY <1>1
<1>5. 1 \in DOMAIN held[who] /\ held[who][1] = a
  BY <1>1
<1>6. ASSUME NEW o \in DOMAIN new, NEW p \in DOMAIN new,
             NEW i \in DOMAIN new[o], NEW j \in DOMAIN new[p], new[o][i] = new[p][j]
      PROVE  o = p /\ i = j
  <2>1. o = p /\ Old(o, i) = Old(p, j)
    BY <1>2, <1>6 DEF HeldOnce
  <2> QED BY <1>4, <2>1
<1> HIDE DEF Old
<1>7. ASSUME NEW o \in DOMAIN new, NEW i \in DOMAIN new[o] PROVE new[o][i] \in blocks \ {a}
  BY <1>2, <1>5 DEF HeldOnce
<1>8. ASSUME NEW b \in blocks \ {a}
      PROVE  \E o \in DOMAIN new : \E i \in DOMAIN new[o] : new[o][i] = b
  <2>0. PICK o \in DOMAIN held : \E i \in DOMAIN held[o] : held[o][i] = b
    BY DEF HeldOnce
  <2>1. PICK i \in DOMAIN held[o] : held[o][i] = b
    BY <2>0
  <2>2. o # who \/ i # 1
    BY <1>5, <2>1
  <2>3. PICK j \in DOMAIN new[o] : Old(o, j) = i
    BY <1>3, <2>2
  <2> QED BY <1>2, <2>1, <2>3
<1> QED BY <1>6, <1>7, <1>8 DEF HeldOnce, a

----------------------------------------------------------------------------
(* The owners of the kernel's memory: objects, creations and deletions in   *)
(* progress, and tasks that await their end.                                *)
OwnersIn(obs, term) ==
  ({"object"} \X DOMAIN obs) \cup ({"call"} \X Agents) \cup ({"terminating"} \X DOMAIN term)

HeldIn(obs, calls, term) ==
  [o \in OwnersIn(obs, term) |->
     CASE o[1] = "object" -> obs[o[2]].blocks
       [] o[1] = "call" -> calls[o[2]].object.blocks
       [] OTHER -> term[o[2]].blocks]

Held == HeldIn(objects, call, terminating)

HeldFacts(held, obs, calls, term) ==
  /\ \A h \in DOMAIN obs : <<"object", h>> \in DOMAIN held
                           /\ held[<<"object", h>>] = obs[h].blocks
  /\ \A g \in Agents : <<"call", g>> \in DOMAIN held
                      /\ held[<<"call", g>>] = calls[g].object.blocks
  /\ \A i \in DOMAIN term : <<"terminating", i>> \in DOMAIN held
                           /\ held[<<"terminating", i>>] = term[i].blocks
  /\ \A o \in DOMAIN held : \/ \E h \in DOMAIN obs : o = <<"object", h>>
                            \/ \E g \in Agents : o = <<"call", g>>
                            \/ \E i \in DOMAIN term : o = <<"terminating", i>>

LEMMA HeldInIs ==
  ASSUME NEW obs, NEW calls, NEW term
  PROVE  HeldFacts(HeldIn(obs, calls, term), obs, calls, term)
BY DEF HeldIn, OwnersIn, HeldFacts

(* Nothing changes hands.                                                   *)
LEMMA SameHands ==
  ASSUME NEW obs, NEW calls, NEW new, NEW term,
         \A g \in Agents : new[g].object.blocks = calls[g].object.blocks
  PROVE  HeldIn(obs, new, term) = HeldIn(obs, calls, term)
BY DEF HeldIn, OwnersIn

(* What a creation has allocated becomes the object's.                      *)
LEMMA CallToObject ==
  ASSUME NEW obs, NEW calls, NEW term, NEW blocks, NEW newObs, NEW new, NEW c \in Agents, NEW h,
         HeldOnce(HeldIn(obs, calls, term), blocks),
         h \notin DOMAIN obs, DOMAIN newObs = DOMAIN obs \cup {h},
         newObs[h].blocks = calls[c].object.blocks, new[c].object.blocks = << >>,
         \A k \in DOMAIN obs : newObs[k] = obs[k],
         \A g \in Agents \ {c} : new[g] = calls[g]
  PROVE  HeldOnce(HeldIn(newObs, new, term), blocks)
<1> DEFINE old == HeldIn(obs, calls, term)
           now == HeldIn(newObs, new, term)
           from == [o \in DOMAIN now |-> IF o = <<"object", h>> THEN <<"call", c>> ELSE o]
<1>1. HeldFacts(old, obs, calls, term)
  BY HeldInIs
<1>2. HeldFacts(now, newObs, new, term)
  BY HeldInIs
<1> HIDE DEF old, now
<1>3. ASSUME NEW o \in DOMAIN now, now[o] # << >>
      PROVE  from[o] \in DOMAIN old /\ now[o] = old[from[o]]
  BY <1>1, <1>2, <1>3 DEF HeldFacts
<1>4. ASSUME NEW o \in DOMAIN now, NEW p \in DOMAIN now, now[o] # << >>, now[p] # << >>,
             from[o] = from[p]
      PROVE  o = p
  BY <1>2, <1>4 DEF HeldFacts
<1>5. ASSUME NEW p \in DOMAIN old, old[p] # << >>
      PROVE  \E o \in DOMAIN now : now[o] # << >> /\ from[o] = p
  <2>1. CASE p = <<"call", c>>
    <3>1. <<"object", h>> \in DOMAIN now /\ now[<<"object", h>>] = old[p]
      BY <1>1, <1>2, <2>1 DEF HeldFacts
    <3> QED BY <1>5, <2>1, <3>1
  <2>2. CASE p # <<"call", c>>
    <3>1. p \in DOMAIN now /\ now[p] = old[p] /\ p # <<"object", h>>
      BY <1>1, <1>2, <2>2 DEF HeldFacts
    <3> QED BY <1>5, <3>1
  <2> QED BY <2>1, <2>2
<1> HIDE DEF from
<1> QED BY <1>3, <1>4, <1>5, ChangeOfHands DEF old, now

(* A deletion takes the object's blocks over, to free them.                 *)
CallTakesObject(obs, calls, newObs, new, c, h) ==
  /\ c \in Agents /\ h \in DOMAIN obs
  /\ calls[c].object.blocks = << >> /\ DOMAIN newObs = DOMAIN obs \ {h}
  /\ new[c].object.blocks = obs[h].blocks
  /\ \A k \in DOMAIN newObs : newObs[k] = obs[k]
  /\ \A g \in Agents \ {c} : new[g] = calls[g]

LEMMA ObjectToCall ==
  ASSUME NEW obs, NEW calls, NEW term, NEW blocks, NEW newObs, NEW new, NEW c, NEW h,
         HeldOnce(HeldIn(obs, calls, term), blocks),
         CallTakesObject(obs, calls, newObs, new, c, h)
  PROVE  HeldOnce(HeldIn(newObs, new, term), blocks)
<1> USE DEF CallTakesObject
<1> DEFINE old == HeldIn(obs, calls, term)
           now == HeldIn(newObs, new, term)
           from == [o \in DOMAIN now |-> IF o = <<"call", c>> THEN <<"object", h>> ELSE o]
<1>1. HeldFacts(old, obs, calls, term)
  BY HeldInIs
<1>2. HeldFacts(now, newObs, new, term)
  BY HeldInIs
<1> HIDE DEF old, now
<1>3. ASSUME NEW o \in DOMAIN now, now[o] # << >>
      PROVE  from[o] \in DOMAIN old /\ now[o] = old[from[o]]
  BY <1>1, <1>2, <1>3 DEF HeldFacts
<1>4. ASSUME NEW o \in DOMAIN now, NEW p \in DOMAIN now, now[o] # << >>, now[p] # << >>,
             from[o] = from[p]
      PROVE  o = p
  BY <1>2, <1>4 DEF HeldFacts
<1>5. ASSUME NEW p \in DOMAIN old, old[p] # << >>
      PROVE  \E o \in DOMAIN now : now[o] # << >> /\ from[o] = p
  <2>1. CASE p = <<"object", h>>
    <3>1. <<"call", c>> \in DOMAIN now /\ now[<<"call", c>>] = old[p]
      BY <1>1, <1>2, <2>1 DEF HeldFacts
    <3> QED BY <1>5, <2>1, <3>1
  <2>2. CASE p # <<"object", h>>
    <3>1. p \in DOMAIN now /\ now[p] = old[p] /\ p # <<"call", c>>
      BY <1>1, <1>2, <1>5, <2>2 DEF HeldFacts
    <3> QED BY <1>5, <3>1
  <2> QED BY <2>1, <2>2
<1> HIDE DEF from
<1> QED BY <1>3, <1>4, <1>5, ChangeOfHands DEF old, now

(* A task that deletes itself keeps its blocks for the time being.          *)
ObjectAwaitsEnd(obs, term, newObs, newTerm, h, n) ==
  /\ h \in DOMAIN obs /\ DOMAIN newObs = DOMAIN obs \ {h}
  /\ n \in Nat /\ DOMAIN term = 1..n /\ DOMAIN newTerm = 1..(n + 1)
  /\ newTerm[n + 1].blocks = obs[h].blocks
  /\ \A i \in DOMAIN term : newTerm[i] = term[i]
  /\ \A k \in DOMAIN newObs : newObs[k] = obs[k]

LEMMA ObjectToTerminating ==
  ASSUME NEW obs, NEW calls, NEW term, NEW blocks, NEW newObs, NEW newTerm, NEW h, NEW n,
         HeldOnce(HeldIn(obs, calls, term), blocks),
         ObjectAwaitsEnd(obs, term, newObs, newTerm, h, n)
  PROVE  HeldOnce(HeldIn(newObs, calls, newTerm), blocks)
<1> USE DEF ObjectAwaitsEnd
<1> DEFINE last == <<"terminating", n + 1>>
           old == HeldIn(obs, calls, term)
           now == HeldIn(newObs, calls, newTerm)
           from == [o \in DOMAIN now |-> IF o = last THEN <<"object", h>> ELSE o]
<1>1. HeldFacts(old, obs, calls, term)
  BY HeldInIs
<1>2. HeldFacts(now, newObs, calls, newTerm)
  BY HeldInIs
<1> HIDE DEF old, now
<1>3. ASSUME NEW o \in DOMAIN now, now[o] # << >>
      PROVE  from[o] \in DOMAIN old /\ now[o] = old[from[o]]
  BY <1>1, <1>2, <1>3 DEF HeldFacts
<1>4. ASSUME NEW o \in DOMAIN now, NEW p \in DOMAIN now, now[o] # << >>, now[p] # << >>,
             from[o] = from[p]
      PROVE  o = p
  BY <1>2, <1>4 DEF HeldFacts
<1>5. ASSUME NEW p \in DOMAIN old, old[p] # << >>
      PROVE  \E o \in DOMAIN now : now[o] # << >> /\ from[o] = p
  <2>1. CASE p = <<"object", h>>
    <3>1. last \in DOMAIN now /\ now[last] = old[p]
      BY <1>1, <1>2, <2>1 DEF HeldFacts
    <3> QED BY <1>5, <2>1, <3>1
  <2>2. CASE p # <<"object", h>>
    <3>1. p \in DOMAIN now /\ now[p] = old[p] /\ p # last
      BY <1>1, <1>2, <1>5, <2>2 DEF HeldFacts
    <3> QED BY <1>5, <3>1
  <2> QED BY <2>1, <2>2
<1> HIDE DEF from
<1> QED BY <1>3, <1>4, <1>5, ChangeOfHands DEF old, now

(* The idle task takes over from the first task that awaits its end.        *)
CallTakesFirst(calls, term, new, newTerm, c, n) ==
  /\ c \in Agents /\ calls[c].object.blocks = << >>
  /\ n \in Nat /\ n > 0 /\ DOMAIN term = 1..n /\ DOMAIN newTerm = 1..(n - 1)
  /\ new[c].object.blocks = term[1].blocks
  /\ \A i \in DOMAIN newTerm : newTerm[i] = term[i + 1]
  /\ \A g \in Agents \ {c} : new[g] = calls[g]

LEMMA TerminatingToCall ==
  ASSUME NEW obs, NEW calls, NEW term, NEW blocks, NEW new, NEW newTerm, NEW c, NEW n,
         HeldOnce(HeldIn(obs, calls, term), blocks),
         CallTakesFirst(calls, term, new, newTerm, c, n)
  PROVE  HeldOnce(HeldIn(obs, new, newTerm), blocks)
<1> USE DEF CallTakesFirst
<1> DEFINE old == HeldIn(obs, calls, term)
           now == HeldIn(obs, new, newTerm)
           from == [o \in DOMAIN now |->
                      IF o = <<"call", c>> THEN <<"terminating", 1>>
                      ELSE IF o[1] = "terminating" THEN <<"terminating", o[2] + 1>> ELSE o]
<1>1. HeldFacts(old, obs, calls, term)
  BY HeldInIs
<1>2. HeldFacts(now, obs, new, newTerm)
  BY HeldInIs
<1>a. /\ \A h \in DOMAIN obs : from[<<"object", h>>] = <<"object", h>>
      /\ \A g \in Agents : from[<<"call", g>>] = IF g = c THEN <<"terminating", 1>> ELSE <<"call", g>>
      /\ \A i \in 1..(n - 1) : from[<<"terminating", i>>] = <<"terminating", i + 1>>
  <2> HIDE DEF now
  <2> QED BY <1>2 DEF HeldFacts
<1>b. \A i \in 1..(n - 1) : i + 1 \in 1..n /\ i + 1 # 1
  OBVIOUS
<1> HIDE DEF old, now, from
<1>3. ASSUME NEW o \in DOMAIN now, now[o] # << >>
      PROVE  from[o] \in DOMAIN old /\ now[o] = old[from[o]]
  <2>1. ASSUME NEW i \in 1..(n - 1), o = <<"terminating", i>>
        PROVE  from[o] \in DOMAIN old /\ now[o] = old[from[o]]
    BY <1>1, <1>2, <1>a, <1>b, <2>1 DEF HeldFacts
  <2>2. ASSUME NEW g \in Agents, o = <<"call", g>>
        PROVE  from[o] \in DOMAIN old /\ now[o] = old[from[o]]
    <3>1. 1 \in DOMAIN term
      OBVIOUS
    <3> QED BY <1>1, <1>2, <1>a, <2>2, <3>1 DEF HeldFacts
  <2>3. ASSUME NEW h \in DOMAIN obs, o = <<"object", h>>
        PROVE  from[o] \in DOMAIN old /\ now[o] = old[from[o]]
    BY <1>1, <1>2, <1>a, <2>3 DEF HeldFacts
  <2> QED BY <1>2, <2>1, <2>2, <2>3 DEF HeldFacts
<1>4. ASSUME NEW o \in DOMAIN now, NEW p \in DOMAIN now, now[o] # << >>, now[p] # << >>,
             from[o] = from[p]
      PROVE  o = p
  <2>1. \/ \E h \in DOMAIN obs : o = <<"object", h>>
        \/ \E g \in Agents : o = <<"call", g>>
        \/ \E i \in 1..(n - 1) : o = <<"terminating", i>>
    BY <1>2 DEF HeldFacts
  <2>2. \/ \E h \in DOMAIN obs : p = <<"object", h>>
        \/ \E g \in Agents : p = <<"call", g>>
        \/ \E i \in 1..(n - 1) : p = <<"terminating", i>>
    BY <1>2 DEF HeldFacts
  <2> QED BY <1>a, <1>b, <1>4, <2>1, <2>2
<1>5. ASSUME NEW p \in DOMAIN old, old[p] # << >>
      PROVE  \E o \in DOMAIN now : now[o] # << >> /\ from[o] = p
  <2>1. ASSUME NEW i \in 1..n, p = <<"terminating", i>>
        PROVE  \E o \in DOMAIN now : now[o] # << >> /\ from[o] = p
    <3>1. CASE i = 1
      <4>1. <<"call", c>> \in DOMAIN now /\ now[<<"call", c>>] = old[p] /\ from[<<"call", c>>] = p
        BY <1>1, <1>2, <1>a, <2>1, <3>1 DEF HeldFacts
      <4> QED BY <1>5, <4>1
    <3>2. CASE i # 1
      <4>1. PICK k \in 1..(n - 1) : k + 1 = i
        <5>1. i - 1 \in 1..(n - 1) /\ (i - 1) + 1 = i
          BY <3>2
        <5> QED BY <5>1
      <4>2. newTerm[k] = term[i]
        BY <4>1
      <4>3. <<"terminating", k>> \in DOMAIN now /\ now[<<"terminating", k>>] = term[i].blocks
        BY <1>2, <4>2 DEF HeldFacts
      <4>4. old[p] = term[i].blocks /\ from[<<"terminating", k>>] = p
        BY <1>1, <1>a, <2>1, <4>1 DEF HeldFacts
      <4> QED BY <1>5, <4>3, <4>4
    <3> QED BY <3>1, <3>2
  <2>2. ASSUME NEW g \in Agents, p = <<"call", g>>
        PROVE  \E o \in DOMAIN now : now[o] # << >> /\ from[o] = p
    <3>1. p \in DOMAIN now /\ now[p] = old[p] /\ from[p] = p
      BY <1>1, <1>2, <1>5, <1>a, <2>2 DEF HeldFacts
    <3> QED BY <1>5, <3>1
  <2>3. ASSUME NEW h \in DOMAIN obs, p = <<"object", h>>
        PROVE  \E o \in DOMAIN now : now[o] # << >> /\ from[o] = p
    <3>1. p \in DOMAIN now /\ now[p] = old[p] /\ from[p] = p
      BY <1>1, <1>2, <1>a, <2>3 DEF HeldFacts
    <3> QED BY <1>5, <3>1
  <2> QED BY <1>1, <2>1, <2>2, <2>3 DEF HeldFacts
<1> QED BY <1>3, <1>4, <1>5, ChangeOfHands DEF old, now

----------------------------------------------------------------------------
(* The invariant. *)

Notes == {"dynamic", "static", "stack static"}
KindNames == {"none", "task", "queue", "eventGroup", "streamBuffer", "timer", "memory"}
Object == [kind : KindNames, note : Notes, blocks : Seq(Addresses)]
CallRecord == [at : {"none", "create", "free", "insert"}, handle : Handles \cup {Nobody},
               parts : Seq(DOMAIN SizeOf), object : Object]

(* The note of an object tells which of its parts are in the heap; `parts`  *)
(* are those that are still to be allocated.                                *)
NoteTrue(object, parts) ==
  /\ object.note = "static" => object.blocks = << >> /\ parts = << >>
  /\ object.note = "stack static" =>
       object.kind = "task" /\ Len(object.blocks) + Len(parts) = 1

ObjectsKnown ==
  /\ objects \in [DOMAIN objects -> Object]
  /\ \A h \in DOMAIN objects : NoteTrue(objects[h], << >>)
  /\ terminating \in Seq(Object)
  /\ \A i \in 1..Len(terminating) :
       terminating[i].kind = "task" /\ NoteTrue(terminating[i], << >>)

(* No two creations are for the same handle, nor is one for a handle in use.*)
CallsKnown ==
  /\ call \in [Agents -> CallRecord] /\ call[Idle].at # "create"
  /\ \A g \in Agents :
       /\ call[g].at = "none" => call[g].object.blocks = << >>
       /\ call[g].at = "insert" => call[g].object.blocks # << >>
       /\ call[g].at = "create" => /\ NoteTrue(call[g].object, call[g].parts)
                                   /\ call[g].handle \notin DOMAIN objects
       /\ \A h \in Agents : call[g].at = "create" /\ call[h].at = "create"
                             /\ call[g].handle = call[h].handle => g = h

Owned == HeldOnce(Held, Busy(block))

ObjectsInv == ObjectsKnown /\ CallsKnown /\ Owned

(* What is freed is all that the object has in the heap, whatever its note. *)
LEMMA PartsToFreeIs ==
  ASSUME NEW object \in Object, NoteTrue(object, << >>)
  PROVE  /\ object.kind = "task" => PartsToFree(object) = object.blocks
         /\ object.kind # "task" => Whole(object) = object.blocks
<1>1. object.note \in Notes /\ object.blocks \in Seq(Addresses) /\ Len(<< >>) = 0
  BY DEF Object
<1>2. CASE object.note = "dynamic"
  BY <1>2 DEF PartsToFree, Whole
<1>3. CASE object.note = "static"
  BY <1>3 DEF PartsToFree, Whole, NoteTrue
<1>4. CASE object.note = "stack static"
  <2>1. object.kind = "task" /\ Len(object.blocks) = 1
    <3>1. Len(object.blocks) \in Nat
      BY <1>1, LenProperties
    <3>2. object.kind = "task" /\ Len(object.blocks) + Len(<< >>) = 1
      BY <1>4 DEF NoteTrue
    <3>3. Len(<< >>) = 0
      OBVIOUS
    <3> QED BY <3>1, <3>2, <3>3
  <2>2. /\ object.blocks[1] \in Addresses /\ <<object.blocks[1]>> \in Seq(Addresses)
        /\ Len(<<object.blocks[1]>>) = 1 /\ <<object.blocks[1]>>[1] = object.blocks[1]
    BY <1>1, <2>1
  <2>3. object.blocks = <<object.blocks[1]>>
    BY <1>1, <2>1, <2>2, SeqEqual
  <2> QED BY <1>4, <2>1, <2>3 DEF PartsToFree
<1> QED BY <1>1, <1>2, <1>3, <1>4 DEF Notes

LEMMA NoCallIs ==
  /\ NoCall \in CallRecord /\ NoCall.at = "none" /\ NoCall.object.blocks = << >>
  /\ NoObject \in Object
<1>1. << >> \in Seq(Addresses) /\ << >> \in Seq(DOMAIN SizeOf)
  BY EmptySeq
<1> QED BY <1>1 DEF NoCall, NoObject, CallRecord, Object, KindNames, Notes

(* A deletion's record: only the blocks to be freed matter.                 *)
LEMMA FreesIs ==
  ASSUME CallsKnown, NEW agent \in Agents, NEW blocks \in Seq(Addresses), Frees(agent, blocks)
  PROVE  /\ call' \in [Agents -> CallRecord]
         /\ call'[agent].at = "free" /\ call'[agent].object.blocks = blocks
         /\ \A g \in Agents \ {agent} : call'[g] = call[g]
<1> DEFINE new == [NoCall EXCEPT !.at = "free", !.object.blocks = blocks]
<1>1. /\ new \in CallRecord /\ new.at = "free" /\ new.object.blocks = blocks
  BY EmptySeq DEF NoCall, NoObject, CallRecord, Object, KindNames, Notes
<1>2. call' = [call EXCEPT ![agent] = new]
  BY DEF Frees
<1> HIDE DEF new
<1> QED BY <1>1, <1>2 DEF CallsKnown

LEMMA InitObjects == ObjectsInit => ObjectsInv
<1> SUFFICES ASSUME ObjectsInit PROVE ObjectsInv
  OBVIOUS
<1>1. /\ objects = << >> /\ terminating = << >> /\ DOMAIN objects = {}
      /\ call = [agent \in Agents |-> NoCall]
  BY DEF ObjectsInit
<1>2. ObjectsKnown
  BY <1>1, EmptySeq DEF ObjectsKnown
<1>3. CallsKnown
  BY <1>1, NoCallIs DEF CallsKnown, Agents
<1>4. Busy(block) = {}
  BY DEF ObjectsInit, Init, Busy
<1>5. Owned
  <2>1. HeldFacts(Held, objects, call, terminating)
    BY HeldInIs DEF Held
  <2>2. \A o \in DOMAIN Held : Held[o] = << >>
    BY <1>1, <2>1, NoCallIs DEF HeldFacts
  <2> HIDE DEF Held
  <2> QED BY <1>4, <2>2 DEF Owned, HeldOnce
<1> QED BY <1>2, <1>3, <1>5 DEF ObjectsInv

LEMMA StartsOwn ==
  ASSUME ObjectsInv, NEW caller \in Callers, NEW handle \in Handles, NEW kind \in KindNames,
         NEW note \in Notes, NEW parts \in Seq(DOMAIN SizeOf),
         NoteTrue([kind |-> kind, note |-> note, blocks |-> << >>], parts),
         Starts(caller, handle, kind, parts, note)
  PROVE  ObjectsInv'
<1> DEFINE object == [kind |-> kind, note |-> note, blocks |-> << >>]
           new == [at |-> "create", handle |-> handle, parts |-> parts, object |-> object]
<1>1. /\ call[caller].at = "none" /\ handle \notin DOMAIN objects
      /\ \A other \in Callers : call[other].handle # handle
      /\ call' = [call EXCEPT ![caller] = new]
      /\ UNCHANGED <<memory, objects, terminating>>
  BY DEF Starts, Doing
<1>2. new \in CallRecord /\ object.blocks = << >>
  BY EmptySeq DEF CallRecord, Object
<1>3. caller \in Agents /\ caller # Idle
  BY OwnersAssumption DEF Agents
<1>4. ObjectsKnown'
  BY <1>1 DEF ObjectsInv, ObjectsKnown
<1>5. /\ call' \in [Agents -> CallRecord] /\ call'[caller] = new
      /\ \A g \in Agents \ {caller} : call'[g] = call[g]
  BY <1>1, <1>2, <1>3 DEF ObjectsInv, CallsKnown
<1>6. new.at = "create" /\ new.handle = handle /\ NoteTrue(new.object, new.parts)
  OBVIOUS
<1> HIDE DEF new
<1>7. CallsKnown'
  <2>1. ASSUME NEW g \in Agents
        PROVE  /\ call'[g].at = "none" => call'[g].object.blocks = << >>
               /\ call'[g].at = "insert" => call'[g].object.blocks # << >>
               /\ call'[g].at = "create" => /\ NoteTrue(call'[g].object, call'[g].parts)
                                            /\ call'[g].handle \notin DOMAIN objects'
    BY <1>1, <1>5, <1>6 DEF ObjectsInv, CallsKnown
  <2>2. ASSUME NEW g \in Agents, NEW h \in Agents, call'[g].at = "create",
               call'[h].at = "create", call'[g].handle = call'[h].handle
        PROVE  g = h
    <3>1. \A k \in Agents \ {caller} : call[k].at = "create" => call[k].handle # handle
      BY <1>1 DEF ObjectsInv, CallsKnown, Agents
    <3> QED BY <1>5, <1>6, <2>2, <3>1 DEF ObjectsInv, CallsKnown
  <2>3. call'[Idle].at # "create"
    BY <1>3, <1>5 DEF ObjectsInv, CallsKnown, Agents
  <2> QED BY <1>5, <2>1, <2>2, <2>3 DEF CallsKnown
<1>8. Owned'
  <2>1. new.object.blocks = << >> /\ call[caller].object.blocks = << >>
    BY <1>1, <1>3 DEF new, ObjectsInv, CallsKnown
  <2>2. \A g \in Agents : call'[g].object.blocks = call[g].object.blocks
    BY <1>5, <2>1
  <2>3. Held' = Held
    <3>1. HeldIn(objects, call', terminating) = HeldIn(objects, call, terminating)
      BY <2>2, SameHands
    <3>2. objects' = objects /\ terminating' = terminating
      BY <1>1
    <3> QED BY <3>1, <3>2 DEF Held
  <2> QED BY <1>1, <2>3 DEF ObjectsInv, Owned, memory, Busy
<1> QED BY <1>4, <1>7, <1>8 DEF ObjectsInv

LEMMA CreatesOwn ==
  ASSUME ObjectsInv, NEW caller \in Callers, NEW handle \in Handles, Creates(caller, handle)
  PROVE  ObjectsInv'
<1>1. /\ << >> \in Seq(DOMAIN SizeOf)
      /\ <<"stack", "tcb">> \in Seq(DOMAIN SizeOf)
      /\ \A part \in DOMAIN SizeOf : <<part>> \in Seq(DOMAIN SizeOf) /\ Len(<<part>>) = 1
      /\ {"tcb", "queue", "eventGroup", "timer", "buffer", "largeBuffer",
          "nothing", "bytes", "tooMuch"} \subseteq DOMAIN SizeOf
      /\ Len(<< >>) = 0
  BY OwnersAssumption
<1>2. /\ \A kind \in KindNames, parts \in Seq(DOMAIN SizeOf) :
           NoteTrue([kind |-> kind, note |-> "dynamic", blocks |-> << >>], parts)
      /\ \A kind \in KindNames :
           NoteTrue([kind |-> kind, note |-> "static", blocks |-> << >>], << >>)
      /\ NoteTrue([kind |-> "task", note |-> "stack static", blocks |-> << >>], <<"tcb">>)
  BY <1>1 DEF NoteTrue
<1>3. /\ {"task", "queue", "eventGroup", "streamBuffer", "timer", "memory"} \subseteq KindNames
      /\ {"dynamic", "static", "stack static"} \subseteq Notes
  BY DEF KindNames, Notes
<1>4. CASE CreateTask(caller, handle)
  BY <1>1, <1>2, <1>3, <1>4, StartsOwn DEF CreateTask
<1>5. CASE CreateTaskStatic(caller, handle)
  BY <1>1, <1>2, <1>3, <1>5, StartsOwn DEF CreateTaskStatic
<1>6. CASE CreateTaskRestricted(caller, handle)
  BY <1>1, <1>2, <1>3, <1>6, StartsOwn DEF CreateTaskRestricted
<1>7. CASE CreateTaskRestrictedStatic(caller, handle)
  BY <1>1, <1>2, <1>3, <1>7, StartsOwn DEF CreateTaskRestrictedStatic
<1>8. CASE CreateQueue(caller, handle)
  BY <1>1, <1>2, <1>3, <1>8, StartsOwn DEF CreateQueue
<1>9. CASE CreateQueueStatic(caller, handle) \/ CreateMutexStatic(caller, handle)
  BY <1>1, <1>2, <1>3, <1>9, StartsOwn DEF CreateQueueStatic, CreateMutexStatic
<1>10. CASE CreateEventGroup(caller, handle)
  BY <1>1, <1>2, <1>3, <1>10, StartsOwn DEF CreateEventGroup
<1>11. CASE CreateEventGroupStatic(caller, handle)
  BY <1>1, <1>2, <1>3, <1>11, StartsOwn DEF CreateEventGroupStatic
<1>12. CASE CreateStreamBuffer(caller, handle)
  BY <1>1, <1>2, <1>3, <1>12, StartsOwn DEF CreateStreamBuffer
<1>13. CASE CreateStreamBufferStatic(caller, handle)
  BY <1>1, <1>2, <1>3, <1>13, StartsOwn DEF CreateStreamBufferStatic
<1>14. CASE CreateTimer(caller, handle)
  BY <1>1, <1>2, <1>3, <1>14, StartsOwn DEF CreateTimer
<1>15. CASE CreateTimerStatic(caller, handle)
  BY <1>1, <1>2, <1>3, <1>15, StartsOwn DEF CreateTimerStatic
<1>16. CASE TakeMemory(caller, handle)
  BY <1>1, <1>2, <1>3, <1>16, StartsOwn DEF TakeMemory
<1> QED BY <1>4, <1>5, <1>6, <1>7, <1>8, <1>9, <1>10, <1>11, <1>12, <1>13, <1>14, <1>15, <1>16
        DEF Creates

(* What pvPortMalloc returns was free, and is now the only block that is    *)
(* new.                                                                     *)
LEMMA MallocReturns ==
  ASSUME HeapInv, NEW n \in Requests, Malloc(n)
  PROVE  /\ Returned \in Addresses /\ Returned \notin Busy(block)
         /\ Busy(block') = Busy(block) \cup {Returned}
<1>1. Wanted(n) \in Nat /\ Wanted(n) > 0
  BY WantedNat DEF Malloc
<1>2. PICK a \in Fitting(Wanted(n)) :
        /\ block' = Taken(block, a, Wanted(n))
        /\ asked' = [b \in DOMAIN asked \cup {a} |-> IF b = a THEN n ELSE asked[b]]
  BY DEF Malloc
<1>3. a \in DOMAIN block /\ block[a].state = "free" /\ Wanted(n) <= block[a].size
  BY <1>1, <1>2, TilesFacts DEF Fitting, In, HeapInv
<1>4. Busy(block') = Busy(block) \cup {a}
  BY <1>1, <1>2, <1>3, TakenFacts DEF HeapInv
<1>5. a \notin DOMAIN asked
  BY <1>3 DEF HeapInv, AskedFor, In
<1>6. Returned = a
  BY <1>2, <1>5 DEF Returned
<1>7. a \in Addresses
  BY <1>3 DEF HeapInv, Tiles, Typed
<1> QED BY <1>3, <1>4, <1>6, <1>7 DEF Busy

LEMMA AllocateOwn ==
  ASSUME ObjectsInv, HeapInv, NEW caller \in Callers, Allocate(caller)
  PROVE  ObjectsInv'
<1> DEFINE c == call[caller]
           parts == Tail(c.parts)
           blocks == Append(c.object.blocks, Returned)
           new == [c EXCEPT !.parts = Tail(@), !.object.blocks = Append(@, Returned)]
<1>1. /\ c.at = "create" /\ c.parts # << >> /\ Malloc(NextSize(caller))
      /\ call' = [call EXCEPT ![caller] = new]
      /\ UNCHANGED <<objects, terminating>>
  BY DEF Allocate, Doing, Missing
<1>2. caller \in Agents /\ caller # Idle /\ c \in CallRecord
  BY OwnersAssumption DEF Agents, ObjectsInv, CallsKnown
<1>3. /\ c.parts \in Seq(DOMAIN SizeOf) /\ c.object \in Object
      /\ c.object.blocks \in Seq(Addresses)
  BY <1>2 DEF CallRecord, Object
<1>4. NextSize(caller) \in Requests
  <2>1. Head(c.parts) \in DOMAIN SizeOf
    BY <1>1, <1>3, HeadTailProperties
  <2> QED BY <2>1, OwnersAssumption DEF NextSize
<1>5. /\ Returned \in Addresses /\ Returned \notin Busy(block)
      /\ Busy(block') = Busy(block) \cup {Returned}
  BY <1>1, <1>4, MallocReturns
<1>6. /\ parts \in Seq(DOMAIN SizeOf) /\ blocks \in Seq(Addresses)
      /\ Len(parts) = Len(c.parts) - 1 /\ Len(blocks) = Len(c.object.blocks) + 1
      /\ Len(c.parts) \in Nat /\ Len(c.object.blocks) \in Nat
  <2>1. parts \in Seq(DOMAIN SizeOf) /\ Len(parts) = Len(c.parts) - 1
    BY <1>1, <1>3, HeadTailProperties
  <2>2. blocks \in Seq(Addresses) /\ Len(blocks) = Len(c.object.blocks) + 1
    BY <1>3, <1>5, AppendProperties
  <2>3. Len(c.parts) \in Nat /\ Len(c.object.blocks) \in Nat
    BY <1>3, LenProperties
  <2> QED BY <2>1, <2>2, <2>3
<1>7. /\ new \in CallRecord /\ new.at = "create" /\ new.handle = c.handle
      /\ new.parts = parts /\ new.object.blocks = blocks
      /\ new.object.kind = c.object.kind /\ new.object.note = c.object.note
  BY <1>1, <1>2, <1>3, <1>6 DEF CallRecord, Object
<1>8. NoteTrue(new.object, new.parts)
  <2>1. NoteTrue(c.object, c.parts)
    BY <1>1, <1>2 DEF ObjectsInv, CallsKnown
  <2>2. /\ c.object.note # "static"
        /\ c.object.note = "stack static" =>
             c.object.kind = "task" /\ Len(c.object.blocks) + Len(c.parts) = 1
    BY <1>1, <2>1 DEF NoteTrue
  <2>3. Len(c.object.blocks) + Len(c.parts) = 1 => Len(blocks) + Len(parts) = 1
    <3> DEFINE n == Len(c.object.blocks)
               m == Len(c.parts)
    <3>1. n \in Int /\ m \in Int /\ Len(parts) = m - 1 /\ Len(blocks) = n + 1
      BY <1>6
    <3> HIDE DEF n, m, c, blocks, parts
    <3>2. n + m = (n + 1) + (m - 1)
      BY <3>1
    <3>3. n + m = Len(blocks) + Len(parts)
      BY <3>1, <3>2
    <3> QED BY <3>3 DEF n, m
  <2> HIDE DEF new, blocks, parts
  <2> QED BY <1>7, <2>2, <2>3 DEF NoteTrue
<1>9. /\ call' \in [Agents -> CallRecord] /\ call'[caller] = new
      /\ \A g \in Agents \ {caller} : call'[g] = call[g]
  BY <1>1, <1>2, <1>7 DEF ObjectsInv, CallsKnown
<1> HIDE DEF new
<1>10. CallsKnown'
  BY <1>1, <1>2, <1>7, <1>8, <1>9 DEF ObjectsInv, CallsKnown, Agents
<1>11. ObjectsKnown'
  BY <1>1 DEF ObjectsInv, ObjectsKnown
<1>12. Owned'
  <2> DEFINE new2 == HeldIn(objects, call', terminating)
  <2>1. HeldFacts(Held, objects, call, terminating)
    BY HeldInIs DEF Held
  <2>2. HeldFacts(new2, objects, call', terminating)
    BY HeldInIs
  <2>3. DOMAIN new2 = DOMAIN Held
    BY DEF HeldIn, Held
  <2> HIDE DEF new2, Held
  <2>4. <<"call", caller>> \in DOMAIN Held /\ Held[<<"call", caller>>] = c.object.blocks
    BY <1>2, <2>1 DEF HeldFacts
  <2>5. new2[<<"call", caller>>] = blocks
    BY <1>2, <1>7, <1>9, <2>2 DEF HeldFacts
  <2>6. \A o \in DOMAIN Held \ {<<"call", caller>>} : new2[o] = Held[o]
    BY <1>9, <2>1, <2>2, <2>3 DEF HeldFacts
  <2>7. HeldOnce(new2, Busy(block) \cup {Returned})
    BY <1>3, <1>5, <2>3, <2>4, <2>5, <2>6, OneMore DEF ObjectsInv, Owned
  <2> QED BY <1>1, <1>5, <2>7 DEF Owned, Held, new2
<1> QED BY <1>10, <1>11, <1>12 DEF ObjectsInv

(* A call that ends, or turns to freeing the blocks it has.                 *)
LEMMA TurnsToFreeing ==
  ASSUME ObjectsInv, NEW agent \in Agents,
         call' \in [Agents -> CallRecord], call'[agent].at \in {"none", "free", "insert"},
         call'[agent].at = "none" => call'[agent].object.blocks = << >>,
         call'[agent].at = "insert" => call'[agent].object.blocks # << >>,
         \A g \in Agents \ {agent} : call'[g] = call[g],
         DOMAIN objects' \subseteq DOMAIN objects
  PROVE  CallsKnown'
<1>1. ASSUME NEW g \in Agents
      PROVE  /\ call'[g].at = "none" => call'[g].object.blocks = << >>
             /\ call'[g].at = "insert" => call'[g].object.blocks # << >>
             /\ call'[g].at = "create" => /\ NoteTrue(call'[g].object, call'[g].parts)
                                          /\ call'[g].handle \notin DOMAIN objects'
  BY DEF ObjectsInv, CallsKnown
<1>2. ASSUME NEW g \in Agents, NEW h \in Agents, call'[g].at = "create",
             call'[h].at = "create", call'[g].handle = call'[h].handle
      PROVE  g = h
  BY <1>2 DEF ObjectsInv, CallsKnown
<1>3. call'[Idle].at # "create"
  BY DEF ObjectsInv, CallsKnown, Agents
<1> QED BY <1>1, <1>2, <1>3 DEF CallsKnown

(* No block changes hands, and none is allocated or freed.                  *)
LEMMA SameOwners ==
  ASSUME Owned, UNCHANGED <<objects, terminating>>, Busy(block') = Busy(block),
         \A g \in Agents : call'[g].object.blocks = call[g].object.blocks
  PROVE  Owned'
<1>1. HeldIn(objects, call', terminating) = HeldIn(objects, call, terminating)
  BY SameHands
<1>2. objects' = objects /\ terminating' = terminating
  OBVIOUS
<1> QED BY <1>1, <1>2 DEF Held, Owned

LEMMA CreateFailsOwn ==
  ASSUME ObjectsInv, NEW caller \in Callers, CreateFails(caller)
  PROVE  ObjectsInv'
<1> DEFINE blocks == call[caller].object.blocks
<1>1. caller \in Agents /\ blocks \in Seq(Addresses)
  BY DEF Agents, ObjectsInv, CallsKnown, CallRecord, Object
<1>2. Frees(caller, blocks) /\ UNCHANGED <<block, objects, terminating>>
  BY DEF CreateFails, Undo, MallocFails, vars
<1>3. /\ call' \in [Agents -> CallRecord]
      /\ call'[caller].at = "free" /\ call'[caller].object.blocks = blocks
      /\ \A g \in Agents \ {caller} : call'[g] = call[g]
  BY <1>1, <1>2, FreesIs DEF ObjectsInv
<1>4. CallsKnown'
  BY <1>1, <1>2, <1>3, TurnsToFreeing
<1>5. Owned'
  BY <1>2, <1>3, SameOwners DEF ObjectsInv
<1> QED BY <1>2, <1>4, <1>5 DEF ObjectsInv, ObjectsKnown

LEMMA CreatedOwn ==
  ASSUME ObjectsInv, NEW caller \in Callers, Created(caller)
  PROVE  ObjectsInv'
<1> DEFINE c == call[caller]
<1>1. /\ c.at = "create" /\ c.parts = << >>
      /\ objects' = [h \in DOMAIN objects \cup {c.handle} |->
                        IF h = c.handle THEN c.object ELSE objects[h]]
      /\ call' = [call EXCEPT ![caller] = NoCall]
      /\ UNCHANGED <<memory, terminating>>
  BY DEF Created, Doing, Missing
<1>2. caller \in Agents /\ c \in CallRecord /\ c.object \in Object
      /\ c.handle \notin DOMAIN objects /\ NoteTrue(c.object, << >>)
  BY <1>1 DEF Agents, ObjectsInv, CallsKnown, CallRecord
<1>3. /\ call' \in [Agents -> CallRecord] /\ call'[caller] = NoCall
      /\ \A g \in Agents \ {caller} : call'[g] = call[g]
  BY <1>1, <1>2, NoCallIs DEF ObjectsInv, CallsKnown
<1>4. /\ DOMAIN objects' = DOMAIN objects \cup {c.handle} /\ objects'[c.handle] = c.object
      /\ \A h \in DOMAIN objects : objects'[h] = objects[h]
  BY <1>1, <1>2
<1> HIDE DEF c
<1>5. ObjectsKnown'
  <2>1. \A h \in DOMAIN objects' : objects'[h] \in Object /\ NoteTrue(objects'[h], << >>)
    BY <1>2, <1>4 DEF ObjectsInv, ObjectsKnown
  <2>2. objects' \in [DOMAIN objects' -> Object]
    BY <1>1, <2>1
  <2> QED BY <1>1, <2>1, <2>2 DEF ObjectsInv, ObjectsKnown
<1>6. CallsKnown'
  <2>1. ASSUME NEW g \in Agents
        PROVE  /\ call'[g].at = "none" => call'[g].object.blocks = << >>
               /\ call'[g].at = "insert" => call'[g].object.blocks # << >>
               /\ call'[g].at = "create" => /\ NoteTrue(call'[g].object, call'[g].parts)
                                            /\ call'[g].handle \notin DOMAIN objects'
    <3>1. CASE g = caller
      BY <1>3, <3>1, NoCallIs
    <3>2. CASE g # caller
      BY <1>1, <1>2, <1>3, <1>4, <3>2 DEF ObjectsInv, CallsKnown, c
    <3> QED BY <3>1, <3>2
  <2>2. ASSUME NEW g \in Agents, NEW h \in Agents, call'[g].at = "create",
               call'[h].at = "create", call'[g].handle = call'[h].handle
        PROVE  g = h
    BY <1>3, <2>2, NoCallIs DEF ObjectsInv, CallsKnown
  <2>3. call'[Idle].at # "create"
    BY <1>3, NoCallIs DEF ObjectsInv, CallsKnown, Agents
  <2> QED BY <1>3, <2>1, <2>2, <2>3 DEF CallsKnown
<1>7. Owned'
  <2>1. HeldOnce(HeldIn(objects, call, terminating), Busy(block))
    BY DEF ObjectsInv, Owned, Held
  <2>2. call'[caller].object.blocks = << >>
    BY <1>3, NoCallIs
  <2>3. objects'[c.handle].blocks = call[caller].object.blocks
    BY <1>4 DEF c
  <2>4. HeldOnce(HeldIn(objects', call', terminating), Busy(block))
    BY <1>2, <1>3, <1>4, <2>1, <2>2, <2>3, CallToObject
  <2> QED BY <1>1, <2>4 DEF Owned, Held, memory, Busy
<1> QED BY <1>5, <1>6, <1>7 DEF ObjectsInv

(* An object that is forgotten leaves the others as they are.               *)
LEMMA ForgetIs ==
  ASSUME ObjectsInv, NEW handle, NEW kind, Forget(handle, kind)
  PROVE  /\ handle \in DOMAIN objects /\ objects[handle] \in Object
         /\ objects[handle].kind = kind /\ NoteTrue(objects[handle], << >>)
         /\ DOMAIN objects' = DOMAIN objects \ {handle}
         /\ \A h \in DOMAIN objects' : objects'[h] = objects[h]
         /\ objects' \in [DOMAIN objects' -> Object]
         /\ \A h \in DOMAIN objects' : NoteTrue(objects'[h], << >>)
<1>1. /\ handle \in DOMAIN objects /\ objects[handle].kind = kind
      /\ objects' = [h \in DOMAIN objects \ {handle} |-> objects[h]]
  BY DEF Forget
<1>2. \A h \in DOMAIN objects : objects[h] \in Object /\ NoteTrue(objects[h], << >>)
  BY DEF ObjectsInv, ObjectsKnown
<1> QED BY <1>1, <1>2

LEMMA DeletesOwn ==
  ASSUME ObjectsInv, NEW caller \in Agents, NEW handle, NEW kind, NEW blocks, NEW excludes,
         Deletes(caller, handle, kind, blocks, excludes), blocks = objects[handle].blocks
  PROVE  ObjectsInv'
<1>1. /\ call[caller].at = "none" /\ Forget(handle, kind) /\ Frees(caller, blocks)
      /\ UNCHANGED <<block, terminating>>
  BY DEF Deletes, Doing, memory
<1>2. /\ handle \in DOMAIN objects /\ objects[handle] \in Object
      /\ DOMAIN objects' = DOMAIN objects \ {handle}
      /\ \A h \in DOMAIN objects' : objects'[h] = objects[h]
      /\ objects' \in [DOMAIN objects' -> Object]
      /\ \A h \in DOMAIN objects' : NoteTrue(objects'[h], << >>)
  BY <1>1, ForgetIs
<1>3. blocks \in Seq(Addresses)
  BY <1>2 DEF Object
<1>4. /\ call' \in [Agents -> CallRecord]
      /\ call'[caller].at = "free" /\ call'[caller].object.blocks = blocks
      /\ \A g \in Agents \ {caller} : call'[g] = call[g]
  BY <1>1, <1>3, FreesIs DEF ObjectsInv
<1>5. ObjectsKnown'
  BY <1>1, <1>2 DEF ObjectsInv, ObjectsKnown
<1>6. CallsKnown'
  BY <1>2, <1>4, TurnsToFreeing
<1>7. Owned'
  <2>1. HeldOnce(HeldIn(objects, call, terminating), Busy(block))
    BY DEF ObjectsInv, Owned, Held
  <2>2. call[caller].object.blocks = << >>
    BY <1>1 DEF ObjectsInv, CallsKnown
  <2>3. call'[caller].object.blocks = objects[handle].blocks
    BY <1>4
  <2>4. \A g \in Agents \ {caller} : call'[g] = call[g]
    BY <1>4
  <2>5. HeldOnce(HeldIn(objects', call', terminating), Busy(block))
    <3>1. CallTakesObject(objects, call, objects', call', caller, handle)
      BY <1>2, <2>2, <2>3, <2>4 DEF CallTakesObject
    <3> QED BY <2>1, <3>1, ObjectToCall
  <2> QED BY <1>1, <2>5 DEF Owned, Held
<1> QED BY <1>5, <1>6, <1>7 DEF ObjectsInv

(* Each deletion frees all that its object has.                             *)
LEMMA DeletesKind ==
  ASSUME ObjectsInv, NEW caller \in Agents, NEW handle, NEW kind, NEW blocks, NEW excludes,
         Deletes(caller, handle, kind, blocks, excludes),
         \/ kind = "task" /\ blocks = PartsToFree(objects[handle])
         \/ kind # "task" /\ blocks = Whole(objects[handle])
         \/ blocks = objects[handle].blocks
  PROVE  ObjectsInv'
<1>1. Forget(handle, kind)
  BY DEF Deletes
<1>2. /\ objects[handle] \in Object /\ objects[handle].kind = kind
      /\ NoteTrue(objects[handle], << >>)
  BY <1>1, ForgetIs
<1>3. blocks = objects[handle].blocks
  BY <1>2, PartsToFreeIs
<1> QED BY <1>3, DeletesOwn

LEMMA DeletionOwn ==
  ASSUME ObjectsInv, NEW handle \in Handles,
         (\E caller \in Callers : Deletion(caller, handle)) \/ DeleteTimer(handle)
  PROVE  ObjectsInv'
<1>1. ASSUME NEW caller \in Callers, Deletion(caller, handle) PROVE ObjectsInv'
  <2>0. caller \in Agents
    BY DEF Agents
  <2>1. CASE DeleteTask(caller, handle)
    BY <2>0, <2>1, DeletesKind DEF DeleteTask
  <2>2. CASE DeleteQueue(caller, handle)
    BY <2>0, <2>2, DeletesKind DEF DeleteQueue
  <2>3. CASE DeleteEventGroup(caller, handle)
    BY <2>0, <2>3, DeletesKind DEF DeleteEventGroup
  <2>4. CASE DeleteStreamBuffer(caller, handle)
    BY <2>0, <2>4, DeletesKind DEF DeleteStreamBuffer
  <2>5. CASE GiveMemory(caller, handle)
    BY <2>0, <2>5, DeletesKind DEF GiveMemory
  <2> QED BY <1>1, <2>1, <2>2, <2>3, <2>4, <2>5 DEF Deletion
<1>2. CASE DeleteTimer(handle)
  BY <1>2, DeletesKind, OwnersAssumption DEF DeleteTimer, Agents
<1> QED BY <1>1, <1>2

LEMMA DeleteItselfOwn ==
  ASSUME ObjectsInv, NEW handle \in Handles, DeleteItself(handle)
  PROVE  ObjectsInv'
<1> DEFINE task == objects[handle]
           n == Len(terminating)
<1>1. /\ Forget(handle, "task") /\ terminating' = Append(terminating, task)
      /\ UNCHANGED <<block, call>>
  BY DEF DeleteItself, memory
<1>2. /\ handle \in DOMAIN objects /\ task \in Object /\ NoteTrue(task, << >>) /\ task.kind = "task"
      /\ DOMAIN objects' = DOMAIN objects \ {handle}
      /\ \A h \in DOMAIN objects' : objects'[h] = objects[h]
      /\ objects' \in [DOMAIN objects' -> Object]
      /\ \A h \in DOMAIN objects' : NoteTrue(objects'[h], << >>)
  BY <1>1, ForgetIs
<1>3. terminating \in Seq(Object) /\ n \in Nat /\ DOMAIN terminating = 1..n
  BY LenProperties DEF ObjectsInv, ObjectsKnown
<1>4. /\ terminating' \in Seq(Object) /\ Len(terminating') = n + 1
      /\ DOMAIN terminating' = 1..(n + 1) /\ terminating'[n + 1] = task
      /\ \A i \in 1..n : terminating'[i] = terminating[i]
  BY <1>1, <1>2, <1>3, AppendProperties, LenProperties
<1> HIDE DEF task, n
<1>5. ObjectsKnown'
  <2>1. \A i \in 1..n : terminating[i].kind = "task" /\ NoteTrue(terminating[i], << >>)
    BY DEF ObjectsInv, ObjectsKnown, n
  <2>2. \A i \in 1..(n + 1) : i \in 1..n \/ i = n + 1
    BY <1>3
  <2>3. \A i \in 1..(n + 1) :
          terminating'[i].kind = "task" /\ NoteTrue(terminating'[i], << >>)
    BY <1>2, <1>4, <2>1, <2>2
  <2> QED BY <1>2, <1>4, <2>3 DEF ObjectsKnown
<1>6. CallsKnown'
  BY <1>1, <1>2 DEF ObjectsInv, CallsKnown
<1>7. Owned'
  <2>1. HeldOnce(HeldIn(objects, call, terminating), Busy(block))
    BY DEF ObjectsInv, Owned, Held
  <2>2. terminating'[n + 1].blocks = objects[handle].blocks
    BY <1>4 DEF task
  <2>3. \A i \in DOMAIN terminating : terminating'[i] = terminating[i]
    BY <1>3, <1>4
  <2>4. DOMAIN terminating' = 1..(n + 1)
    BY <1>4
  <2>5. n \in Nat /\ DOMAIN terminating = 1..n
    BY <1>3
  <2>6. HeldOnce(HeldIn(objects', call, terminating'), Busy(block))
    <3>1. ObjectAwaitsEnd(objects, terminating, objects', terminating', handle, n)
      BY <1>2, <2>2, <2>3, <2>4, <2>5 DEF ObjectAwaitsEnd
    <3> QED BY <2>1, <3>1, ObjectToTerminating
  <2> QED BY <1>1, <2>6 DEF Owned, Held
<1> QED BY <1>5, <1>6, <1>7 DEF ObjectsInv

LEMMA CheckTasksWaitingTerminationOwn ==
  ASSUME ObjectsInv, CheckTasksWaitingTermination
  PROVE  ObjectsInv'
<1> DEFINE task == Head(terminating)
           n == Len(terminating)
<1>1. /\ call[Idle].at = "none" /\ terminating # << >>
      /\ terminating' = Tail(terminating) /\ Frees(Idle, PartsToFree(task))
      /\ UNCHANGED <<block, objects>>
  BY DEF CheckTasksWaitingTermination, Doing, memory
<1>2. terminating \in Seq(Object) /\ n \in Nat /\ DOMAIN terminating = 1..n
  BY LenProperties DEF ObjectsInv, ObjectsKnown
<1>3. /\ n > 0 /\ task = terminating[1]
      /\ terminating' \in Seq(Object) /\ Len(terminating') = n - 1
      /\ DOMAIN terminating' = 1..(n - 1)
      /\ \A i \in 1..(n - 1) : terminating'[i] = terminating[i + 1]
  <2>1. n > 0
    BY <1>1, <1>2, EmptySeq
  <2>2. terminating' \in Seq(Object) /\ Len(terminating') = n - 1
    BY <1>1, <1>2, HeadTailProperties
  <2>3. DOMAIN terminating' = 1..(n - 1)
    BY <2>2, LenProperties
  <2> QED BY <1>1, <1>2, <2>1, <2>2, <2>3, HeadTailProperties
<1>4. task \in Object /\ NoteTrue(task, << >>) /\ task.kind = "task"
  <2>1. 1 \in 1..n
    BY <1>2, <1>3
  <2>2. terminating[1] \in Object
    BY <1>2, <2>1
  <2> QED BY <1>3, <2>1, <2>2 DEF ObjectsInv, ObjectsKnown
<1>5. \A i \in 1..(n - 1) : i + 1 \in 1..n
  BY <1>2
<1>6. \A i \in 1..n : terminating[i].kind = "task" /\ NoteTrue(terminating[i], << >>)
  BY DEF ObjectsInv, ObjectsKnown
<1> HIDE DEF task, n
<1>7. PartsToFree(task) = task.blocks /\ task.blocks \in Seq(Addresses)
  BY <1>4, PartsToFreeIs DEF Object
<1>8. Idle \in Agents
  BY DEF Agents
<1>9. /\ call' \in [Agents -> CallRecord]
      /\ call'[Idle].at = "free" /\ call'[Idle].object.blocks = task.blocks
      /\ \A g \in Agents \ {Idle} : call'[g] = call[g]
  BY <1>1, <1>7, <1>8, FreesIs DEF ObjectsInv
<1>10. ObjectsKnown'
  BY <1>1, <1>3, <1>5, <1>6 DEF ObjectsInv, ObjectsKnown
<1>11. CallsKnown'
  BY <1>1, <1>8, <1>9, TurnsToFreeing
<1>12. Owned'
  <2>1. HeldOnce(HeldIn(objects, call, terminating), Busy(block))
    BY DEF ObjectsInv, Owned, Held
  <2>2. call[Idle].object.blocks = << >>
    BY <1>1, <1>8 DEF ObjectsInv, CallsKnown
  <2>3. call'[Idle].object.blocks = terminating[1].blocks
    BY <1>3, <1>9
  <2>4. \A i \in DOMAIN terminating' : terminating'[i] = terminating[i + 1]
    BY <1>3
  <2>5. n \in Nat /\ n > 0 /\ DOMAIN terminating = 1..n /\ DOMAIN terminating' = 1..(n - 1)
    BY <1>2, <1>3
  <2>6. \A g \in Agents \ {Idle} : call'[g] = call[g]
    BY <1>9
  <2>7. HeldOnce(HeldIn(objects, call', terminating'), Busy(block))
    <3>1. CallTakesFirst(call, terminating, call', terminating', Idle, n)
      BY <1>8, <2>2, <2>3, <2>4, <2>5, <2>6 DEF CallTakesFirst
    <3> QED BY <2>1, <3>1, TerminatingToCall
  <2> QED BY <1>1, <2>7 DEF Owned, Held
<1> QED BY <1>10, <1>11, <1>12 DEF ObjectsInv

(* A block whose allocated bit is clear is still its owner's.               *)
LEMMA FreeBeginsOwn ==
  ASSUME ObjectsInv, HeapInv, NEW agent \in Agents, FreeBegins(agent)
  PROVE  ObjectsInv'
<1> DEFINE c == call[agent]
           new == [c EXCEPT !.at = "insert"]
           a == Head(c.object.blocks)
<1>1. /\ c.at = "free" /\ c.object.blocks # << >> /\ ClearAllocated(a)
      /\ UNCHANGED <<objects, terminating>>
      /\ call' = [call EXCEPT ![agent] = new]
  BY DEF FreeBegins, Doing
<1>2. c \in CallRecord
  BY DEF ObjectsInv, CallsKnown
<1>3. new \in CallRecord /\ new.at = "insert" /\ new.object = c.object
  BY <1>2 DEF CallRecord
<1> HIDE DEF new
<1>4. /\ call' \in [Agents -> CallRecord] /\ call'[agent] = new
      /\ \A g \in Agents \ {agent} : call'[g] = call[g]
  BY <1>1, <1>3 DEF ObjectsInv, CallsKnown
<1>5. CallsKnown'
  BY <1>1, <1>3, <1>4, TurnsToFreeing
<1>6. Busy(block') = Busy(block)
  <2>1. a \in DOMAIN block /\ block[a].state = "used"
        /\ block' = [block EXCEPT ![a].state = "leaving"]
    BY <1>1 DEF ClearAllocated, In
  <2>2. block[a] \in Entries
    BY <2>1, TilesFacts DEF HeapInv
  <2>3. DOMAIN block' = DOMAIN block /\ block'[a].state = "leaving"
        /\ \A b \in DOMAIN block \ {a} : block'[b] = block[b]
    BY <2>1, <2>2 DEF Entries
  <2> HIDE DEF a
  <2> QED BY <2>1, <2>3 DEF Busy
<1>7. Owned'
  BY <1>1, <1>3, <1>4, <1>6, SameOwners DEF ObjectsInv
<1> QED BY <1>1, <1>5, <1>7 DEF ObjectsInv, ObjectsKnown

(* A block that is back in the list of free ones is nobody's.               *)
LEMMA FreeEndsOwn ==
  ASSUME ObjectsInv, HeapInv, NEW agent \in Agents, FreeEnds(agent)
  PROVE  ObjectsInv'
<1> DEFINE c == call[agent]
           blocks == c.object.blocks
           new == [c EXCEPT !.at = "free", !.object.blocks = Tail(@)]
           a == Head(blocks)
<1>1. /\ c.at = "insert" /\ Free(a) /\ UNCHANGED <<objects, terminating>>
      /\ call' = [call EXCEPT ![agent] = new]
  BY DEF FreeEnds, Doing
<1>2. c \in CallRecord /\ c.object \in Object /\ blocks \in Seq(Addresses) /\ blocks # << >>
  BY <1>1 DEF ObjectsInv, CallsKnown, CallRecord, Object
<1>3. Tail(blocks) \in Seq(Addresses)
  BY <1>2, HeadTailProperties
<1>4. new \in CallRecord /\ new.at = "free" /\ new.object.blocks = Tail(blocks)
  BY <1>2, <1>3 DEF CallRecord, Object
<1> HIDE DEF new
<1>5. /\ call' \in [Agents -> CallRecord] /\ call'[agent] = new
      /\ \A g \in Agents \ {agent} : call'[g] = call[g]
  BY <1>1, <1>4 DEF ObjectsInv, CallsKnown
<1>6. CallsKnown'
  BY <1>1, <1>4, <1>5, TurnsToFreeing
<1>7. Busy(block') = Busy(block) \ {a}
  <2>1. a \in DOMAIN block /\ block[a].state # "free"
        /\ block' = InsertBlockIntoFreeList(block, a)
    BY <1>1 DEF Free, In
  <2> HIDE DEF a
  <2> QED BY <2>1, InsertOthers DEF HeapInv
<1>8. Owned'
  <2> DEFINE now == HeldIn(objects, call', terminating)
             who == <<"call", agent>>
  <2>1. HeldFacts(Held, objects, call, terminating)
    BY HeldInIs DEF Held
  <2>2. HeldFacts(now, objects, call', terminating)
    BY HeldInIs
  <2>3. DOMAIN now = DOMAIN Held
    BY DEF HeldIn, Held
  <2> HIDE DEF now, Held
  <2>4. who \in DOMAIN Held /\ Held[who] = blocks
    BY <2>1 DEF HeldFacts
  <2>5. now[who] = Tail(blocks)
    BY <1>4, <1>5, <2>2 DEF HeldFacts
  <2>6. \A o \in DOMAIN Held \ {who} : now[o] = Held[o]
    BY <1>5, <2>1, <2>2, <2>3 DEF HeldFacts
  <2>7. HeldOnce(now, Busy(block) \ {a})
    <3>1. HeldOnce(Held, Busy(block))
      BY DEF ObjectsInv, Owned
    <3> HIDE DEF who, blocks
    <3> QED BY <1>2, <2>3, <2>4, <2>5, <2>6, <3>1, OneLess DEF a
  <2>8. objects' = objects /\ terminating' = terminating
    BY <1>1
  <2> QED BY <1>7, <2>7, <2>8 DEF Owned, Held, now
<1> QED BY <1>1, <1>6, <1>8 DEF ObjectsInv, ObjectsKnown

LEMMA FreedOwn ==
  ASSUME ObjectsInv, NEW agent \in Agents, Freed(agent)
  PROVE  ObjectsInv'
<1>1. /\ call[agent].object.blocks = << >> /\ call' = [call EXCEPT ![agent] = NoCall]
      /\ UNCHANGED <<block, objects, terminating>>
  BY DEF Freed, memory
<1>2. /\ call' \in [Agents -> CallRecord] /\ call'[agent] = NoCall
      /\ \A g \in Agents \ {agent} : call'[g] = call[g]
  BY <1>1, NoCallIs DEF ObjectsInv, CallsKnown
<1>3. CallsKnown'
  BY <1>1, <1>2, NoCallIs, TurnsToFreeing
<1>4. Owned'
  BY <1>1, <1>2, NoCallIs, SameOwners DEF ObjectsInv
<1> QED BY <1>1, <1>3, <1>4 DEF ObjectsInv, ObjectsKnown

LEMMA ObjectsStep == ObjectsInv /\ HeapInv /\ [ObjectsNext]_allVars => ObjectsInv'
<1> SUFFICES ASSUME ObjectsInv, HeapInv, [ObjectsNext]_allVars PROVE ObjectsInv'
  OBVIOUS
<1>1. ASSUME NEW caller \in Callers, NEW handle \in Handles, Creates(caller, handle)
      PROVE  ObjectsInv'
  BY <1>1, CreatesOwn
<1>2. ASSUME NEW caller \in Callers, NEW handle \in Handles, Deletion(caller, handle)
      PROVE  ObjectsInv'
  BY <1>2, DeletionOwn
<1>3. ASSUME NEW caller \in Callers, Allocate(caller) \/ CreateFails(caller) \/ Created(caller)
      PROVE  ObjectsInv'
  BY <1>3, AllocateOwn, CreateFailsOwn, CreatedOwn
<1>4. ASSUME NEW handle \in Handles, DeleteItself(handle) \/ DeleteTimer(handle)
      PROVE  ObjectsInv'
  BY <1>4, DeleteItselfOwn, DeletionOwn
<1>5. ASSUME NEW agent \in Agents, FreeBegins(agent) \/ FreeEnds(agent) \/ Freed(agent)
      PROVE  ObjectsInv'
  BY <1>5, FreeBeginsOwn, FreeEndsOwn, FreedOwn
<1>6. CASE UNCHANGED allVars
  <2>1. UNCHANGED <<block, objects, call, terminating>>
    BY <1>6 DEF allVars
  <2>2. Held' = Held
    BY <2>1 DEF Held
  <2> QED BY <2>1, <2>2 DEF ObjectsInv, ObjectsKnown, CallsKnown, Owned
<1> QED BY <1>1, <1>2, <1>3, <1>4, <1>5, <1>6, CheckTasksWaitingTerminationOwn DEF ObjectsNext

(* Every object's note is true of its blocks, no two creations are for the  *)
(* same handle, and every block that is not free has one owner.             *)
THEOREM ObjectsInvariant == ObjectsSpec => []ObjectsInv
<1>1. ObjectsInit => ObjectsInv
  BY InitObjects
<1>2. ObjectsInv /\ HeapInv /\ [ObjectsNext]_allVars => ObjectsInv'
  BY ObjectsStep
<1>3. ObjectsSpec => []HeapInv
  BY ObjectsUseHeap, HeapInvariant, PTL
<1> QED BY <1>1, <1>2, <1>3, PTL DEF ObjectsSpec

(* Holdings lists who holds what one by one.                                *)
LEMMA HoldingsAre ==
  /\ \A x \in Holdings :
       \E o \in DOMAIN Held : \E i \in DOMAIN Held[o] : x = <<o, i, Held[o][i]>>
  /\ \A o \in DOMAIN Held : \A i \in DOMAIN Held[o] : <<o, i, Held[o][i]>> \in Holdings
<1>1. HeldFacts(Held, objects, call, terminating)
  BY HeldInIs DEF Held
<1> HIDE DEF Held
<1>2. \A x : x \in Holdings <=>
        \/ \E h \in DOMAIN objects : x \in BlocksOf(<<"object", h>>, objects[h].blocks)
        \/ \E g \in Agents : x \in BlocksOf(<<"call", g>>, call[g].object.blocks)
        \/ \E i \in DOMAIN terminating : x \in BlocksOf(<<"terminating", i>>, terminating[i].blocks)
  BY DEF Holdings
<1>3. \A owner, blocks, x : x \in BlocksOf(owner, blocks) <=>
                              \E i \in DOMAIN blocks : x = <<owner, i, blocks[i]>>
  BY DEF BlocksOf
<1>4. ASSUME NEW x \in Holdings
      PROVE  \E o \in DOMAIN Held : \E i \in DOMAIN Held[o] : x = <<o, i, Held[o][i]>>
  <2>1. \E o \in DOMAIN Held : x \in BlocksOf(o, Held[o])
    BY <1>1, <1>2 DEF HeldFacts
  <2> QED BY <1>3, <2>1
<1>5. ASSUME NEW o \in DOMAIN Held, NEW i \in DOMAIN Held[o]
      PROVE  <<o, i, Held[o][i]>> \in Holdings
  <2>1. <<o, i, Held[o][i]>> \in BlocksOf(o, Held[o])
    BY <1>3
  <2> QED BY <1>1, <1>2, <2>1 DEF HeldFacts
<1> QED BY <1>4, <1>5

LEMMA OwnedMeansNoLeak == Tiled /\ Owned => NoLeak
<1> SUFFICES ASSUME Tiled, Owned PROVE NoLeak
  OBVIOUS
<1>1. Allocated = Busy(block)
  <2>1. \A a \in DOMAIN block : block[a].state \in States
    BY DEF Tiled, Tiles, Typed, Entries
  <2> QED BY <2>1 DEF Allocated, In, Busy, States
<1>2. IsFiniteSet(Allocated)
  <2>1. Allocated \subseteq Addresses
    BY <1>1 DEF Busy, Tiled, Tiles, Typed
  <2> QED BY <2>1, FreeSpaceFinite, FS_Subset
<1>3. HeldOnce(Held, Allocated)
  BY <1>1 DEF Owned
<1> DEFINE f == [x \in Holdings |-> x[3]]
<1> HIDE DEF Held
<1>4. ASSUME NEW x \in Holdings PROVE f[x] \in Allocated
  BY <1>3, HoldingsAre DEF HeldOnce
<1>5. ASSUME NEW x \in Holdings, NEW y \in Holdings, f[x] = f[y] PROVE x = y
  <2>0. PICK o \in DOMAIN Held : \E i \in DOMAIN Held[o] : x = <<o, i, Held[o][i]>>
    BY HoldingsAre
  <2>1. PICK i \in DOMAIN Held[o] : x = <<o, i, Held[o][i]>>
    BY <2>0
  <2>2. PICK p \in DOMAIN Held : \E j \in DOMAIN Held[p] : y = <<p, j, Held[p][j]>>
    BY HoldingsAre
  <2>3. PICK j \in DOMAIN Held[p] : y = <<p, j, Held[p][j]>>
    BY <2>2
  <2>4. Held[o][i] = Held[p][j]
    BY <1>5, <2>1, <2>3
  <2> QED BY <1>3, <2>1, <2>3, <2>4 DEF HeldOnce
<1>6. ASSUME NEW a \in Allocated PROVE \E x \in Holdings : f[x] = a
  <2>1. PICK o \in DOMAIN Held : \E i \in DOMAIN Held[o] : Held[o][i] = a
    BY <1>3 DEF HeldOnce
  <2>2. PICK i \in DOMAIN Held[o] : Held[o][i] = a
    BY <2>1
  <2>3. <<o, i, Held[o][i]>> \in Holdings /\ <<o, i, Held[o][i]>>[3] = a
    BY <2>2, HoldingsAre
  <2> QED BY <2>3
<1>7. f \in Injection(Holdings, Allocated)
  BY <1>4, <1>5, Fun_IsInj
<1>8. f \in Surjection(Holdings, Allocated)
  BY <1>4, <1>6, Fun_IsSurj
<1>9. Cardinality(Holdings) = Cardinality(Allocated)
  BY <1>2, <1>7, <1>8, FS_Injection
<1>10. {x[3] : x \in Holdings} = Allocated
  BY <1>4, <1>6
<1> QED BY <1>9, <1>10 DEF NoLeak

(* Every block that is not free belongs to one object, creation, deletion   *)
(* or task that awaits its end, and to no other: whichever allocation fails *)
(* and wherever an object's parts came from, nothing is leaked or freed     *)
(* twice.                                                                   *)
THEOREM NoLeakTheorem == ObjectsSpec => []NoLeak
<1>1. Tiled /\ ObjectsInv => NoLeak
  BY OwnedMeansNoLeak DEF ObjectsInv
<1> QED BY <1>1, ObjectsTiled, ObjectsInvariant, PTL
=============================================================================
