------------------------------- MODULE Lists -------------------------------
(***************************************************************************)
(* The lists of the FreeRTOS kernel (src/examples/freertos/list.c and the  *)
(* macros of include/list.h).  A list is the ring of its items, read from  *)
(* the end marker on, with the position of pxIndex in it: 0 is the end     *)
(* marker.  Only the ready lists are walked with pxIndex; in all the       *)
(* others it stays at the end marker, and they are plain sequences.        *)
(***************************************************************************)
EXTENDS Integers, Sequences, SequencesExt

EmptyList == [items |-> << >>, index |-> 0]

(* Mutant: always at the end of the ring.                                   *)
InsertLast(l, x) == [l EXCEPT !.items = Append(@, x)]

(* vListInsertEnd: just before pxIndex, so that x comes last in its turn.   *)
InsertEnd(l, x) ==
  IF l.index = 0 THEN [l EXCEPT !.items = Append(@, x)]
  ELSE [items |-> InsertAt(l.items, l.index, x), index |-> l.index + 1]

Place(items, x) == CHOOSE j \in DOMAIN items : items[j] = x

(* uxListRemove, of an item of any other list and of a ready list.          *)
Without(items, x) == IF Contains(items, x) THEN RemoveAt(items, Place(items, x)) ELSE items

RemoveItem(l, x) ==
  IF ~Contains(l.items, x) THEN l
  ELSE [items |-> Without(l.items, x),
        index |-> IF Place(l.items, x) <= l.index THEN l.index - 1 ELSE l.index]

(* listGET_OWNER_OF_NEXT_ENTRY: pxIndex moves on, past the end marker.      *)
Advance(l) == [l EXCEPT !.index = IF @ = Len(l.items) THEN 1 ELSE @ + 1]

AtIndex(l) == l.items[l.index]

(* How many items, from the first one on, have values up to v; `value`      *)
(* gives the item values.                                                   *)
NotLarger(items, value, v) ==
  Cardinality({i \in DOMAIN items : \A j \in 1..i : value[items[j]] <= v})

(* vListInsert: behind all items whose value is not larger; the largest of  *)
(* all values needs no search.                                              *)
InsertSorted(items, x, value) == InsertAt(items, NotLarger(items, value, value[x]) + 1, x)

=============================================================================
