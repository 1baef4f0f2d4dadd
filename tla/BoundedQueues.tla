--------------------------- MODULE BoundedQueues ---------------------------
(***************************************************************************)
(* What the queues of the FreeRTOS kernel promise                          *)
(* (src/examples/freertos/include/queue.h): a bounded sequence of items,   *)
(* sent to either end, received from the front, and emptied by a reset.    *)
(***************************************************************************)
EXTENDS Integers, Sequences, SequencesExt

CONSTANTS
  Queues,
  Length,  \* how many items each of them holds
  NoItem   \* what nobody has sent

VARIABLES
  items    \* the items in every queue, the oldest first

(* A mutex starts with its one item.                                        *)
Init == \A q \in Queues : items[q] = << >> \/ (Length[q] = 1 /\ Len(items[q]) = 1)

Send(q) ==
  /\ Len(items[q]) < Length[q] /\ Len(items'[q]) = Len(items[q]) + 1
  /\ IsPrefix(items[q], items'[q]) \/ IsSuffix(items[q], items'[q])

Overwrite(q) == Length[q] = 1 /\ Len(items'[q]) = 1

Receive(q) == items[q] # << >> /\ items'[q] = Tail(items[q])

Reset(q) == items'[q] = << >>

Next ==
  /\ DOMAIN items' = Queues /\ \A q \in Queues : NoItem \notin Range(items'[q])
  /\ \E q \in Queues :
       /\ Send(q) \/ Overwrite(q) \/ Receive(q) \/ Reset(q)
       /\ \A r \in Queues \ {q} : items'[r] = items[r]

Spec == Init /\ [][Next]_items

=============================================================================
