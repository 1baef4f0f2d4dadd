-------------------------------- MODULE Heap --------------------------------
(***************************************************************************)
(* The memory manager of the kernel                                        *)
(* (examples/freertos/portable/MemMang/heap_4.c): first fit, splitting,    *)
(* merging of neighbours.  A block's header is its entry in `block`; the   *)
(* list of free blocks, which the code keeps in the order of addresses, is *)
(* the set of entries in state "free".                                     *)
(*                                                                         *)
(* The scheduler is suspended while the list is searched or changed, so    *)
(* that these are single steps; but vPortFree clears the allocated bit     *)
(* before, and other tasks may come in between.                            *)
(***************************************************************************)
EXTENDS Integers, FiniteSets

CONSTANTS
  HeapSize,     \* bytes from the aligned start of ucHeap to pxEnd
  Alignment,    \* portBYTE_ALIGNMENT
  HeaderSize,   \* xHeapStructSize
  AllocatedBit, \* xBlockAllocatedBit, the top bit of a size_t
  Requests,     \* the sizes asked for
  MaxLeaving    \* how many tasks are inside vPortFree at most

ASSUME SizesAssumption ==
  /\ HeapSize \in Nat /\ Alignment \in Nat \ {0} /\ HeaderSize \in Nat \ {0}
  /\ AllocatedBit \in Nat /\ HeapSize < AllocatedBit
  /\ HeapSize > 0
ASSUME RequestsAssumption ==
  /\ Requests \subseteq 0..(2 * AllocatedBit - 1)
  /\ HeaderSize % Alignment = 0 /\ HeapSize % Alignment = 0
  /\ HeaderSize + Alignment <= AllocatedBit

VARIABLES
  block,      \* address -> [size, state]
  remaining,  \* xFreeBytesRemaining
  asked       \* address of a block in use -> the size asked for (a ghost)

vars == <<block, remaining, asked>>

States == {"free", "used", "leaving"}
Addresses == 0..(HeapSize - 1)
Entries == [size : 1..HeapSize, state : States]

In(state) == {a \in DOMAIN block : block[a].state = state}

(* prvHeapInit: one free block.                                             *)
Init ==
  /\ block = [a \in {0} |-> [size |-> HeapSize, state |-> "free"]]
  /\ remaining = HeapSize
  /\ asked = << >>

----------------------------------------------------------------------------
(* prvInsertBlockIntoFreeList. *)

(* Mutant: it is not merged with the free block that follows.               *)
FollowingNone(heap, a) == {}

(* The free block right before an address, and the one right after a block. *)
Preceding(heap, a) ==
  {p \in DOMAIN heap : heap[p].state = "free" /\ p + heap[p].size = a}

Following(heap, a) ==
  {q \in DOMAIN heap : heap[q].state = "free" /\ a + heap[a].size = q}

SizeOr0(heap, addresses) ==
  IF addresses = {} THEN 0 ELSE heap[CHOOSE a \in addresses : TRUE].size

InsertBlockIntoFreeList(heap, a) ==
  LET before == Preceding(heap, a)
      after == Following(heap, a)
      start == IF before = {} THEN a ELSE CHOOSE p \in before : TRUE
      size == SizeOr0(heap, before) + heap[a].size + SizeOr0(heap, after)
  IN  [b \in (DOMAIN heap \ ({a} \cup after)) \cup {start} |->
         IF b = start THEN [size |-> size, state |-> "free"] ELSE heap[b]]

----------------------------------------------------------------------------
(* pvPortMalloc. *)

(* Arithmetic on size_t.                                                    *)
Word == 2 * AllocatedBit

RoundedUp(n) ==
  IF n % Alignment = 0 THEN n ELSE (n + (Alignment - (n % Alignment))) % Word

(* Mutant: the top bit of the size asked for is not looked at.              *)
WantedUnchecked(n) == IF n = 0 THEN 0 ELSE RoundedUp((n + HeaderSize) % Word)

(* What is taken off the heap; 0 is refused.                                *)
Wanted(n) ==
  IF n = 0 \/ n >= AllocatedBit THEN 0 ELSE RoundedUp((n + HeaderSize) % Word)

Fitting(wanted) == {a \in In("free") : block[a].size >= wanted}

(* heapMINIMUM_BLOCK_SIZE.                                                  *)
MinimumBlockSize == HeaderSize * 2

Split(heap, a, wanted) ==
  [b \in DOMAIN heap \cup {a + wanted} |->
     IF b = a THEN [size |-> wanted, state |-> "used"]
     ELSE IF b = a + wanted THEN [size |-> heap[a].size - wanted, state |-> "leaving"]
     ELSE heap[b]]

(* Mutant: the rest of the block is forgotten.                              *)
TakenForever(heap, a, wanted) ==
  [heap EXCEPT ![a] = [size |-> wanted, state |-> "used"]]

(* The rest of a block that is larger than needed becomes a block.          *)
Taken(heap, a, wanted) ==
  IF heap[a].size - wanted > MinimumBlockSize
  THEN InsertBlockIntoFreeList(Split(heap, a, wanted), a + wanted)
  ELSE [heap EXCEPT ![a].state = "used"]

Malloc(n) ==
  LET wanted == Wanted(n)
  IN  /\ wanted > 0 /\ wanted <= remaining
      /\ \E a \in Fitting(wanted) :
           /\ \A b \in Fitting(wanted) : a <= b
           /\ block' = Taken(block, a, wanted)
           /\ remaining' = remaining - block'[a].size
           /\ asked' = [b \in DOMAIN asked \cup {a} |-> IF b = a THEN n ELSE asked[b]]

(* It returns NULL, and nothing changes.                                    *)
MallocFails(n) ==
  /\ Wanted(n) = 0 \/ Wanted(n) > remaining \/ Fitting(Wanted(n)) = {}
  /\ UNCHANGED vars

----------------------------------------------------------------------------
(* vPortFree. *)

(* Before the scheduler is suspended.                                       *)
ClearAllocated(a) ==
  /\ a \in In("used")
  /\ Cardinality(In("leaving")) < MaxLeaving
  /\ block' = [block EXCEPT ![a].state = "leaving"]
  /\ asked' = [b \in DOMAIN asked \ {a} |-> asked[b]]
  /\ UNCHANGED remaining

(* Mutant: the bytes are counted after the block has been merged.           *)
FreeCountedLate(a) ==
  LET merged == InsertBlockIntoFreeList(block, a)
      around == CHOOSE b \in DOMAIN merged : b <= a /\ a < b + merged[b].size
  IN  /\ a \in In("leaving")
      /\ block' = merged
      /\ remaining' = remaining + merged[around].size
      /\ UNCHANGED asked

Free(a) ==
  /\ a \in In("leaving")
  /\ remaining' = remaining + block[a].size
  /\ block' = InsertBlockIntoFreeList(block, a)
  /\ UNCHANGED asked

Next ==
  \/ \E n \in Requests : Malloc(n) \/ MallocFails(n)
  \/ \E a \in DOMAIN block : ClearAllocated(a) \/ Free(a)

Spec == Init /\ [][Next]_vars

----------------------------------------------------------------------------
(* Properties. *)

Typed(heap) ==
  /\ DOMAIN heap \subseteq Addresses
  /\ heap \in [DOMAIN heap -> Entries]

EndOf(heap, a) == a + heap[a].size

Tiles(heap) ==
  /\ Typed(heap)
  /\ 0 \in DOMAIN heap
  /\ \A a \in DOMAIN heap :
       /\ EndOf(heap, a) \in DOMAIN heap \cup {HeapSize}
       /\ \A b \in DOMAIN heap : b <= a \/ EndOf(heap, a) <= b

(* Every block ends where the next one begins, the last one at the end of   *)
(* the heap: no two blocks ever overlap, and no memory is lost, however     *)
(* blocks are split and merged.                                             *)
Tiled == Tiles(block)

(* No two free blocks are neighbours, so that the largest request the free  *)
(* memory allows is not refused for want of merging.                        *)
Merged == \A a, b \in In("free") : a + block[a].size # b

(* xFreeBytesRemaining counts the bytes of the free blocks, also while      *)
(* other tasks are between the two halves of vPortFree.                     *)
FreeBytes == {p \in In("free") \X Addresses : p[2] < block[p[1]].size}

Accounted == remaining = Cardinality(FreeBytes)

(* A block in use holds its header and what was asked for.                  *)
LargeEnough ==
  \A a \in In("used") : a \in DOMAIN asked /\ block[a].size >= asked[a] + HeaderSize

=============================================================================
