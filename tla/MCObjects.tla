------------------------------ MODULE MCObjects ------------------------------
(***************************************************************************)
(* Objects on a heap of a few dozen bytes: two blocks of most parts fit,   *)
(* three do not.                                                           *)
(***************************************************************************)
EXTENDS Objects

SmallKinds == [h1 |-> {"task", "memory"},
               h2 |-> {"task", "queue", "eventGroup", "streamBuffer", "timer"}]

SmallSizes == [stack |-> 9, tcb |-> 4, queue |-> 4, eventGroup |-> 4, timer |-> 3,
               buffer |-> 5, largeBuffer |-> 22,
               nothing |-> 0, bytes |-> 9, tooMuch |-> 63]

SmallRequests == {SmallSizes[part] : part \in DOMAIN SmallSizes}

=============================================================================
