---------------------------- MODULE KernelProofs ----------------------------
(***************************************************************************)
(* The kernel, whatever its tasks, queues, event groups, stream buffers    *)
(* and timers are and whatever they call: the invariant IInv, and what     *)
(* follows from it: a task is in one list of task states, nobody waits for *)
(* bits that are there, every queue is a bounded queue, and without        *)
(* mutexes the most urgent of the ready tasks runs.                        *)
(***************************************************************************)
EXTENDS KernelLemmas

----------------------------------------------------------------------------
(* The ring of a queue. *)

LEMMA ModSmall ==
  ASSUME NEW L \in Nat \ {0}, NEW a \in 0..(2 * L - 1)
  PROVE  a % L = IF a < L THEN a ELSE a - L
OBVIOUS

LEMMA ModNext ==
  ASSUME NEW L \in Nat \ {0}, NEW a \in 0..(L - 1)
  PROVE  /\ (a - 1) % L = IF a = 0 THEN L - 1 ELSE a - 1
         /\ (a + 1) % L = IF a = L - 1 THEN 0 ELSE a + 1
         /\ (a - 1) % L \in 0..(L - 1) /\ (a + 1) % L \in 0..(L - 1)
OBVIOUS

(* The places of a ring after read, one by one. *)
LEMMA RingPlace ==
  ASSUME NEW L \in Nat \ {0}, NEW a \in 0..(L - 1), NEW i \in 0..L
  PROVE  (a + i) % L = (IF a + i < L THEN a + i ELSE a + i - L) /\ (a + i) % L \in 0..(L - 1)
<1> DEFINE x == a + i
<1>1. x \in 0..(2 * L - 1)
  OBVIOUS
<1>2. x >= L => x - L \in 0..(L - 1)
  OBVIOUS
<1>3. x < L => x \in 0..(L - 1)
  OBVIOUS
<1> HIDE DEF x
<1>4. x % L = IF x < L THEN x ELSE x - L
  BY <1>1, ModSmall
<1>5. x % L \in 0..(L - 1)
  BY <1>1, <1>2, <1>3, <1>4
<1> QED
  BY <1>4, <1>5 DEF x

LEMMA RingBack ==
  ASSUME NEW L \in Nat \ {0}, NEW a \in 0..(L - 1), NEW n \in 0..(L - 1)
  PROVE  LET w == (a + 1 + n) % L
         IN  w \in 0..(L - 1) /\ (w + 1) % L = (a + 1 + (n + 1)) % L
<1> DEFINE w == (a + 1 + n) % L
<1> DEFINE k == n + 1
<1>0. k \in 0..L /\ a + 1 + n = a + k
  OBVIOUS
<1> HIDE DEF k
<1>5. (a + k) % L = (IF a + k < L THEN a + k ELSE a + k - L) /\ (a + k) % L \in 0..(L - 1)
  BY <1>0, RingPlace
<1>1. w = (IF a + (n + 1) < L THEN a + (n + 1) ELSE a + (n + 1) - L) /\ w \in 0..(L - 1)
  BY <1>0, <1>5 DEF k
<1>2. (w + 1) % L = IF w = L - 1 THEN 0 ELSE w + 1
  BY <1>1, ModNext
<1>3. a + n + 2 \in 0..(3 * L - 1)
  OBVIOUS
<1>4. (a + n + 2) % L = IF a + n + 2 < L THEN a + n + 2 ELSE IF a + n + 2 < 2 * L THEN a + n + 2 - L ELSE a + n + 2 - 2 * L
  BY <1>3
<1> QED
  BY <1>1, <1>2, <1>4

IsFront(L, a, n, b) ==
  /\ b \in 0..(L - 1) /\ (b + 1) % L = a /\ (a + 1 + n) % L = (b + 1 + (n + 1)) % L
  /\ \A i \in 1..n : (b + (i + 1)) % L = (a + i) % L

IsRead(L, a, n, b) ==
  /\ b \in 0..(L - 1) /\ (b + 1 + (n - 1)) % L = (a + 1 + n) % L
  /\ \A i \in 1..(n - 1) : (b + i) % L = (a + (i + 1)) % L /\ (b + i) % L # b

LEMMA RingFrontStep ==
  ASSUME NEW L \in Nat \ {0}, NEW a \in 0..(L - 1), NEW n \in 0..(L - 1), NEW b,
         b = (IF a = 0 THEN L - 1 ELSE a - 1), b \in 0..(L - 1)
  PROVE  IsFront(L, a, n, b)
<1>1. b = (IF a = 0 THEN L - 1 ELSE a - 1) /\ b \in 0..(L - 1)
  OBVIOUS
<1>2. (b + 1) % L = a
  BY <1>1, ModNext
<1>3. ASSUME NEW k \in 0..L PROVE (b + 1 + k) % L = (a + k) % L
  <2>1. (a + k) % L = IF a + k < L THEN a + k ELSE a + k - L
    BY RingPlace
  <2>2. b + 1 + k = IF a = 0 THEN L + k ELSE a + k
    BY <1>1
  <2>3. CASE a = 0
    <3>1. (L + k) % L = k % L
      OBVIOUS
    <3> QED
      BY <2>2, <2>3, <3>1
  <2>4. CASE a # 0
    BY <2>2, <2>4
  <2> QED
    BY <2>3, <2>4
<1>4. (b + 1 + (n + 1)) % L = (a + (n + 1)) % L
  <2> DEFINE k == n + 1
  <2>1. k \in 0..L
    OBVIOUS
  <2> HIDE DEF k
  <2>2. (b + 1 + k) % L = (a + k) % L
    BY <1>3, <2>1
  <2> QED
    BY <2>2 DEF k
<1>5. ASSUME NEW i \in 1..n PROVE (b + (i + 1)) % L = (a + i) % L
  <2>1. (b + 1 + i) % L = (a + i) % L
    BY <1>3
  <2>2. b + (i + 1) = b + 1 + i
    BY <1>1
  <2> QED
    BY <2>1, <2>2
<1>6. a + 1 + n = a + (n + 1)
  OBVIOUS
<1> QED
  BY <1>1, <1>2, <1>4, <1>5, <1>6 DEF IsFront

LEMMA RingFront ==
  ASSUME NEW L \in Nat \ {0}, NEW a \in 0..(L - 1), NEW n \in 0..(L - 1), NEW b,
         b = (a - 1) % L
  PROVE  IsFront(L, a, n, b)
<1>1. b = (IF a = 0 THEN L - 1 ELSE a - 1) /\ b \in 0..(L - 1)
  BY ModNext
<1> QED
  BY <1>1, RingFrontStep

LEMMA RingReadStep ==
  ASSUME NEW L \in Nat \ {0}, NEW a \in 0..(L - 1), NEW n \in 1..L, NEW b,
         b = (IF a = L - 1 THEN 0 ELSE a + 1), b \in 0..(L - 1)
  PROVE  IsRead(L, a, n, b)
<1>1. b = (IF a = L - 1 THEN 0 ELSE a + 1) /\ b \in 0..(L - 1)
  OBVIOUS
<1>2. ASSUME NEW k \in 0..L PROVE (b + k) % L = (a + 1 + k) % L
  <2>1. CASE a = L - 1
    <3>1. (L + k) % L = k % L
      OBVIOUS
    <3>2. a + 1 + k = L + k /\ b + k = k
      BY <1>1, <2>1
    <3> QED
      BY <3>1, <3>2
  <2>2. CASE a # L - 1
    BY <1>1, <2>2
  <2> QED
    BY <2>1, <2>2
<1>3. ASSUME NEW i \in 1..(n - 1) PROVE (b + i) % L = (a + (i + 1)) % L /\ (b + i) % L # b
  <2>0. i \in 0..L
    OBVIOUS
  <2>1. (b + i) % L = (a + 1 + i) % L
    BY <1>2, <2>0
  <2>2. (b + i) % L = IF b + i < L THEN b + i ELSE b + i - L
    BY <1>1, <2>0, RingPlace
  <2>3. a + 1 + i = a + (i + 1)
    OBVIOUS
  <2> QED
    BY <1>1, <2>1, <2>2, <2>3
<1>6. n \in 0..L
  OBVIOUS
<1>4. (b + n) % L = (a + 1 + n) % L
  BY <1>2, <1>6
<1>5. b + 1 + (n - 1) = b + n
  BY <1>1
<1> QED
  BY <1>1, <1>3, <1>4, <1>5 DEF IsRead

LEMMA RingRead ==
  ASSUME NEW L \in Nat \ {0}, NEW a \in 0..(L - 1), NEW n \in 1..L, NEW b, b = (a + 1) % L
  PROVE  IsRead(L, a, n, b)
<1>1. b = (IF a = L - 1 THEN 0 ELSE a + 1) /\ b \in 0..(L - 1)
  BY ModNext
<1> QED
  BY <1>1, RingReadStep

----------------------------------------------------------------------------
(* What the operations on a queue leave. *)

LEMMA QueueParts ==
  ASSUME QueuesOK, NEW q \in Queues
  PROVE  /\ QueueIs(q, queue[q]) /\ Length[q] \in Nat \ {0} /\ queue[q].count \in 0..Length[q]
         /\ Kind[q] \in {"queue", "semaphore", "mutex"} /\ (Kind[q] = "mutex" => Length[q] = 1)
         /\ queue[q].tx \in Int /\ queue[q].rx \in Int
         /\ queue[q].holder \in (Tasks \ {Idle}) \cup {NoTask} /\ NoTask \notin Tasks
BY QueuesAssumption DEF QueuesOK, QueueIs

LEMMA QueueChanged ==
  ASSUME QueuesOK, NEW q \in Queues, NEW r, QueueIs(q, r), queue' = [queue EXCEPT ![q] = r]
  PROVE  QueuesOK'
<1>1. queue' = [p \in Queues |-> queue'[p]] /\ queue'[q] = r /\ \A p \in Queues \ {q} : queue'[p] = queue[p]
  BY DEF QueuesOK
<1> QED
  BY <1>1 DEF QueuesOK

LEMMA NewQueueIs == ASSUME NEW q \in Queues PROVE QueueIs(q, NewQueue(q))
<1>1. Length[q] \in Nat \ {0} /\ (Kind[q] = "mutex" => Length[q] = 1)
  BY QueuesAssumption
<1>2. (Length[q] - 1 + 1 + 0) % Length[q] = 0
  BY <1>1
<1>3. NewQueue(q) = [k \in QueueFields |-> NewQueue(q)[k]]
  BY DEF NewQueue, QueueFields
<1>4. NewQueue(q).storage = [i \in 0..(Length[q] - 1) |-> NewQueue(q).storage[i]]
  BY DEF NewQueue
<1>5. /\ NewQueue(q).write = 0 /\ NewQueue(q).read = Length[q] - 1 /\ NewQueue(q).holder = NoTask
      /\ NewQueue(q).count = (IF Kind[q] = "mutex" THEN 1 ELSE 0)
      /\ NewQueue(q).tx = Unlocked /\ NewQueue(q).rx = Unlocked
  BY DEF NewQueue
<1> DEFINE n == NewQueue(q)
<1> HIDE DEF n
<1>6. n.count \in 0..Length[q] /\ n.tx \in Int /\ n.rx \in Int
  BY <1>1, <1>5 DEF n, Unlocked
<1>7. Kind[q] = "queue" => n.count = 0 /\ n.read \in 0..(Length[q] - 1) /\ n.write = (n.read + 1 + n.count) % Length[q]
  BY <1>1, <1>2, <1>5 DEF n
<1>8. Kind[q] = "mutex" => (n.count = 0 <=> n.holder # NoTask)
  BY <1>5 DEF n
<1> QED
  BY <1>3, <1>4, <1>5, <1>6, <1>7, <1>8 DEF QueueIs, n

(* The fields that hold what is in the queue. *)
LEMMA LockIs ==
  ASSUME QueuesOK, NEW q \in Queues, NEW tx \in Int, NEW rx \in Int
  PROVE  QueueIs(q, [queue[q] EXCEPT !.tx = tx, !.rx = rx])
<1> DEFINE o == queue[q]
           r == [o EXCEPT !.tx = tx, !.rx = rx]
<1>1. QueueIs(q, o) /\ o = [k \in QueueFields |-> o[k]]
  BY QueueParts DEF QueueIs
<1> HIDE DEF o
<1>2. /\ r = [k \in QueueFields |-> r[k]] /\ r.tx = tx /\ r.rx = rx /\ r.count = o.count
      /\ r.holder = o.holder /\ r.storage = o.storage /\ r.read = o.read /\ r.write = o.write
  BY <1>1 DEF QueueFields
<1> HIDE DEF r
<1>3. QueueIs(q, r)
  BY <1>1, <1>2 DEF QueueIs
<1> QED
  BY <1>3 DEF r, o

LEMMA CopyToIs ==
  ASSUME QueuesOK, NEW q \in Queues, NEW item, NEW position,
         IF Kind[q] = "queue"
         THEN position \in {"back", "front", "overwrite"} /\ ItemOK(q, item)
              /\ (position = "overwrite" => Length[q] = 1)
         ELSE position = "back",
         queue[q].count # Length[q] \/ position = "overwrite"
  PROVE  QueueIs(q, CopyTo(q, item, position)) /\ CopyTo(q, item, position).tx = queue[q].tx
<1> DEFINE o == queue[q]
           L == Length[q]
           r == CopyTo(q, item, position)
<1>1. /\ QueueIs(q, o) /\ o = [k \in QueueFields |-> o[k]] /\ L \in Nat \ {0} /\ o.count \in 0..L
      /\ o.tx \in Int /\ o.rx \in Int /\ o.holder \in (Tasks \ {Idle}) \cup {NoTask}
  BY QueueParts DEF QueueIs
<1>2. CASE Kind[q] # "queue"
  <2> DEFINE n == [o EXCEPT !.count = o.count + 1, !.holder = NoTask]
  <2>0. position = "back" /\ o.count # L
    BY <1>2
  <2>1. CopyTo(q, item, position) = [queue[q] EXCEPT !.count = queue[q].count + 1, !.holder = NoTask]
    BY <1>2, <2>0 DEF CopyTo
  <2> HIDE DEF o
  <2>4. r = n
    BY <2>1 DEF o
  <2> HIDE DEF r
  <2>2. /\ n = [k \in QueueFields |-> n[k]] /\ n.count = o.count + 1 /\ n.holder = NoTask
        /\ n.tx = o.tx /\ n.rx = o.rx
    BY <1>1 DEF QueueFields
  <2> HIDE DEF n, L
  <2>3. n.count \in 1..L
    BY <1>1, <2>0, <2>2
  <2> QED
    BY <1>1, <1>2, <2>2, <2>3, <2>4 DEF QueueIs, o, r, L
<1>3. CASE Kind[q] = "queue" /\ position = "back"
  <2> DEFINE n == [o EXCEPT !.storage[o.write] = item, !.write = NextPlace(q, o.write), !.count = o.count + 1]
             m == [o.storage EXCEPT ![o.write] = item]
  <2>1. r = n
    BY <1>3 DEF CopyTo, ToBack
  <2>2. /\ o.storage = [i \in 0..(L - 1) |-> o.storage[i]] /\ o.read \in 0..(L - 1)
        /\ o.write = (o.read + 1 + o.count) % L
        /\ \A i \in 1..o.count : ItemOK(q, o.storage[(o.read + i) % L])
    BY <1>1, <1>3 DEF QueueIs
  <2>3. o.count \in 0..(L - 1)
    BY <1>1, <1>3
  <2> HIDE DEF o, r
  <2>4. /\ n = [k \in QueueFields |-> n[k]] /\ n.count = o.count + 1 /\ n.holder = o.holder
        /\ n.tx = o.tx /\ n.rx = o.rx /\ n.storage = m /\ n.read = o.read
        /\ n.write = (o.write + 1) % L
    BY <1>1 DEF QueueFields, NextPlace
  <2> HIDE DEF n, L
  <2>5. o.write \in 0..(L - 1) /\ n.write = (n.read + 1 + n.count) % L
    BY <1>1, <2>2, <2>3, <2>4, RingBack
  <2>6. m = [i \in 0..(L - 1) |-> m[i]] /\ m[o.write] = item
        /\ \A i \in 0..(L - 1) : m[i] = item \/ m[i] = o.storage[i]
    BY <2>2, <2>5
  <2> HIDE DEF m
  <2>7. ASSUME NEW i \in 1..n.count PROVE ItemOK(q, n.storage[(n.read + i) % L])
    <3>1. i \in 1..o.count \/ i = o.count + 1
      BY <2>3, <2>4
    <3>5. i \in 0..L
      BY <1>1, <2>3, <2>4
    <3>2. (o.read + i) % L \in 0..(L - 1)
      BY <1>1, <2>2, <3>5, RingPlace
    <3>3. CASE i \in 1..o.count
      BY <1>3, <2>2, <2>4, <2>6, <3>2, <3>3
    <3>4. CASE i = o.count + 1
      <4>1. o.read + i = o.read + 1 + o.count
        BY <2>2, <2>3, <3>4
      <4> QED
        BY <1>3, <2>2, <2>4, <2>6, <4>1
    <3> QED
      BY <3>1, <3>3, <3>4
  <2>8. n.count \in 0..L
    BY <1>1, <2>3, <2>4
  <2>9. QueueIs(q, n)
    BY <1>1, <1>3, <2>2, <2>4, <2>5, <2>6, <2>7, <2>8 DEF QueueIs, L
  <2> QED
    BY <2>1, <2>4, <2>9 DEF o, r
<1>4. CASE Kind[q] = "queue" /\ position = "front"
  <2> DEFINE n == [o EXCEPT !.storage[o.read] = item, !.read = PrevPlace(q, o.read), !.count = o.count + 1]
             m == [o.storage EXCEPT ![o.read] = item]
  <2>1. r = n
    BY <1>4 DEF CopyTo, ToFront
  <2>2. /\ o.storage = [i \in 0..(L - 1) |-> o.storage[i]] /\ o.read \in 0..(L - 1)
        /\ o.write = (o.read + 1 + o.count) % L
        /\ \A i \in 1..o.count : ItemOK(q, o.storage[(o.read + i) % L])
    BY <1>1, <1>4 DEF QueueIs
  <2>3. o.count \in 0..(L - 1)
    BY <1>1, <1>4
  <2> HIDE DEF o, r
  <2>4. /\ n = [k \in QueueFields |-> n[k]] /\ n.count = o.count + 1 /\ n.holder = o.holder
        /\ n.tx = o.tx /\ n.rx = o.rx /\ n.storage = m /\ n.read = (o.read - 1) % L
        /\ n.write = o.write
    BY <1>1 DEF QueueFields, PrevPlace
  <2> HIDE DEF n, L
  <2>10. IsFront(L, o.read, o.count, n.read)
    BY <1>1, <2>2, <2>3, <2>4, RingFront
  <2>5. /\ n.read \in 0..(L - 1) /\ n.write = (n.read + 1 + n.count) % L
        /\ (n.read + 1) % L = o.read
        /\ \A i \in 1..o.count : (n.read + (i + 1)) % L = (o.read + i) % L
    BY <2>2, <2>4, <2>10 DEF IsFront
  <2>6. m = [i \in 0..(L - 1) |-> m[i]] /\ m[o.read] = item
        /\ \A i \in 0..(L - 1) : m[i] = item \/ m[i] = o.storage[i]
    BY <2>2, <2>5
  <2> HIDE DEF m
  <2>7. ASSUME NEW i \in 1..n.count PROVE ItemOK(q, n.storage[(n.read + i) % L])
    <3>1. i = 1 \/ (i - 1 \in 1..o.count /\ (i - 1) + 1 = i)
      BY <2>3, <2>4
    <3>2. CASE i = 1
      BY <1>4, <2>4, <2>5, <2>6, <3>2
    <3>3. CASE i - 1 \in 1..o.count /\ (i - 1) + 1 = i
      <4> DEFINE j == i - 1
      <4>3. j + 1 = i /\ j \in 1..o.count
        BY <3>3
      <4>4. j \in 0..L
        BY <1>1, <2>3, <4>3
      <4> HIDE DEF j
      <4>1. (n.read + (j + 1)) % L = (o.read + j) % L /\ j + 1 = i /\ j \in 1..o.count /\ j \in 0..L
        BY <2>5, <4>3, <4>4
      <4>2. (o.read + j) % L \in 0..(L - 1)
        BY <1>1, <2>2, <4>1, RingPlace
      <4> QED
        BY <1>4, <2>2, <2>4, <2>6, <4>1, <4>2
    <3> QED
      BY <3>1, <3>2, <3>3
  <2>8. n.count \in 0..L
    BY <1>1, <2>3, <2>4
  <2>9. QueueIs(q, n)
    BY <1>1, <1>4, <2>2, <2>4, <2>5, <2>6, <2>7, <2>8 DEF QueueIs, L
  <2> QED
    BY <2>1, <2>4, <2>9 DEF o, r
<1>5. CASE Kind[q] = "queue" /\ position = "overwrite"
  <2> DEFINE n == [[o EXCEPT !.storage[o.read] = item, !.read = PrevPlace(q, o.read), !.count = o.count + 1]
                     EXCEPT !.count = 1]
             m == [o.storage EXCEPT ![o.read] = item]
  <2>1. r = n
    BY <1>5 DEF CopyTo, ToFront
  <2>2. L = 1 /\ o.storage = [i \in 0..(L - 1) |-> o.storage[i]] /\ o.read \in 0..(L - 1)
        /\ o.write = (o.read + 1 + o.count) % L
    BY <1>1, <1>5 DEF QueueIs
  <2> HIDE DEF o, r
  <2>4. /\ n = [k \in QueueFields |-> n[k]] /\ n.count = 1 /\ n.holder = o.holder
        /\ n.tx = o.tx /\ n.rx = o.rx /\ n.storage = m /\ n.read = (o.read - 1) % L
        /\ n.write = o.write
    BY <1>1 DEF QueueFields, PrevPlace
  <2> HIDE DEF n, L
  <2>5. o.read = 0 /\ n.read = 0 /\ n.write = 0 /\ (0 + 1 + 1) % 1 = 0 /\ (0 + 1) % 1 = 0 /\ 0 \in 0..(L - 1)
    BY <1>1, <2>2, <2>4
  <2>6. m = [i \in 0..(L - 1) |-> m[i]] /\ m[0] = item
    BY <2>2, <2>5
  <2> HIDE DEF m
  <2>7. \A i \in 1..n.count : ItemOK(q, n.storage[(n.read + i) % L])
    <3>1. \A i \in 1..n.count : i = 1
      BY <2>4
    <3> QED
      BY <1>5, <2>2, <2>4, <2>5, <2>6, <3>1
  <2>8. n.count \in 0..L /\ n.write = (n.read + 1 + n.count) % L
    BY <2>2, <2>4, <2>5
  <2>9. QueueIs(q, n)
    BY <1>1, <1>5, <2>2, <2>4, <2>5, <2>6, <2>7, <2>8 DEF QueueIs, L
  <2> QED
    BY <2>1, <2>4, <2>9 DEF o, r
<1> QED
  BY <1>2, <1>3, <1>4, <1>5

LEMMA CopyFromIs ==
  ASSUME QueuesOK, NEW q \in Queues, queue[q].count # 0, Kind[q] # "mutex"
  PROVE  QueueIs(q, CopyFrom(q)) /\ CopyFrom(q).rx = queue[q].rx
<1> DEFINE o == queue[q]
           L == Length[q]
           r == CopyFrom(q)
<1>1. /\ QueueIs(q, o) /\ o = [k \in QueueFields |-> o[k]] /\ L \in Nat \ {0} /\ o.count \in 1..L
      /\ o.tx \in Int /\ o.rx \in Int /\ o.holder \in (Tasks \ {Idle}) \cup {NoTask}
  BY QueueParts DEF QueueIs
<1>2. CASE Kind[q] # "queue"
  <2> DEFINE n == [o EXCEPT !.count = o.count - 1]
  <2>1. r = n
    BY <1>2 DEF CopyFrom
  <2> HIDE DEF o, r
  <2>2. /\ n = [k \in QueueFields |-> n[k]] /\ n.count = o.count - 1 /\ n.holder = o.holder
        /\ n.tx = o.tx /\ n.rx = o.rx
    BY <1>1 DEF QueueFields
  <2>3. n.count \in 0..L
    BY <1>1, <2>2
  <2> HIDE DEF n
  <2> QED
    BY <1>1, <1>2, <2>1, <2>2, <2>3 DEF QueueIs, o, r
<1>3. CASE Kind[q] = "queue"
  <2> DEFINE at == NextPlace(q, o.read)
             n == [o EXCEPT !.storage[at] = NoItem, !.read = at, !.count = o.count - 1]
             m == [o.storage EXCEPT ![at] = NoItem]
  <2>1. r = n
    BY <1>3 DEF CopyFrom
  <2>2. /\ o.storage = [i \in 0..(L - 1) |-> o.storage[i]] /\ o.read \in 0..(L - 1)
        /\ o.write = (o.read + 1 + o.count) % L
        /\ \A i \in 1..o.count : ItemOK(q, o.storage[(o.read + i) % L])
    BY <1>1, <1>3 DEF QueueIs
  <2> HIDE DEF o, r
  <2>3. at = (o.read + 1) % L
    BY DEF NextPlace
  <2> HIDE DEF at
  <2>4. /\ n = [k \in QueueFields |-> n[k]] /\ n.count = o.count - 1 /\ n.holder = o.holder
        /\ n.tx = o.tx /\ n.rx = o.rx /\ n.storage = m /\ n.read = at /\ n.write = o.write
    BY <1>1 DEF QueueFields
  <2> HIDE DEF n, L
  <2>10. IsRead(L, o.read, o.count, at)
    BY <1>1, <2>2, <2>3, RingRead
  <2>5. /\ n.read \in 0..(L - 1) /\ n.write = (n.read + 1 + n.count) % L
        /\ \A i \in 1..n.count : (at + i) % L = (o.read + (i + 1)) % L /\ (at + i) % L # at
    BY <2>2, <2>4, <2>10 DEF IsRead
  <2>6. m = [i \in 0..(L - 1) |-> m[i]] /\ \A i \in 0..(L - 1) : i # at => m[i] = o.storage[i]
    BY <2>2, <2>4, <2>5
  <2> HIDE DEF m
  <2>7. ASSUME NEW i \in 1..n.count PROVE ItemOK(q, n.storage[(n.read + i) % L])
    <3>1. i + 1 \in 1..o.count /\ i \in 0..L
      BY <1>1, <2>4
    <3>2. (at + i) % L \in 0..(L - 1)
      BY <1>1, <2>4, <2>5, <3>1, RingPlace
    <3>3. m[(at + i) % L] = o.storage[(o.read + (i + 1)) % L]
      BY <2>5, <2>6, <3>2
    <3>4. ItemOK(q, o.storage[(o.read + (i + 1)) % L])
      BY <2>2, <3>1
    <3> QED
      BY <2>4, <3>3, <3>4
  <2>8. n.count \in 0..L
    BY <1>1, <2>4
  <2>9. QueueIs(q, n)
    BY <1>1, <1>3, <2>2, <2>4, <2>5, <2>6, <2>7, <2>8 DEF QueueIs, L
  <2> QED
    BY <2>1, <2>4, <2>9 DEF o, r
<1> QED
  BY <1>2, <1>3

LEMMA TakenIs ==
  ASSUME QueuesOK, NEW q \in Queues, queue[q].count # 0, Kind[q] # "queue", NEW t \in Tasks \ {Idle}
  PROVE  QueueIs(q, [CopyFrom(q) EXCEPT !.holder = IF Kind[q] = "mutex" THEN t ELSE @])
<1> DEFINE o == queue[q]
           h == IF Kind[q] = "mutex" THEN t ELSE o.holder
           n == [[o EXCEPT !.count = o.count - 1] EXCEPT !.holder = h]
<1>1. /\ QueueIs(q, o) /\ o = [k \in QueueFields |-> o[k]] /\ Length[q] \in Nat \ {0} /\ o.count \in 1..Length[q]
      /\ o.tx \in Int /\ o.rx \in Int /\ o.holder \in (Tasks \ {Idle}) \cup {NoTask}
      /\ NoTask \notin Tasks /\ (Kind[q] = "mutex" => Length[q] = 1)
  BY QueueParts DEF QueueIs
<1>2. [CopyFrom(q) EXCEPT !.holder = IF Kind[q] = "mutex" THEN t ELSE @] = n
  BY <1>1 DEF CopyFrom, QueueFields
<1> HIDE DEF o
<1>3. h \in (Tasks \ {Idle}) \cup {NoTask} /\ IF Kind[q] = "mutex" THEN h # NoTask ELSE h = NoTask
  BY <1>1 DEF QueueIs
<1> HIDE DEF h
<1>4. /\ n = [k \in QueueFields |-> n[k]] /\ n.count = o.count - 1 /\ n.holder = h
      /\ n.tx = o.tx /\ n.rx = o.rx
  BY <1>1 DEF QueueFields
<1> HIDE DEF n
<1>5. n.count \in 0..Length[q] /\ (Kind[q] = "mutex" => n.count = 0)
  BY <1>1, <1>4
<1>6. QueueIs(q, n)
  BY <1>1, <1>3, <1>4, <1>5 DEF QueueIs
<1> QED
  BY <1>2, <1>6

----------------------------------------------------------------------------
(* Queues. *)

(* What every step but those that change event groups does. *)
KeepsStep == Core(sched', stack') /\ Silent(sched, sched') /\ InheritOK'

LEMMA FineKeeps == ASSUME FineStep PROVE KeepsStep
<1>1. Core(sched', stack') /\ Silent(sched, sched') /\ ~Inherits(TopOf(stack', sched'.current))
  BY DEF FineStep, Fine
<1>2. \A t \in Tasks : Holds(TopOf(stack', t)) => t = sched'.current
  BY <1>1 DEF Core, Modes
<1>3. \A f : Inherits(f) => Holds(f)
  BY DEF Inherits, Holds, QueueOps
<1>4. \A t \in Tasks : ~Inherits(TopOf(stack', t))
  BY <1>1, <1>2, <1>3
<1> QED
  BY <1>1, <1>4 DEF KeepsStep, InheritOK

QueueStepOK == KeepsStep /\ QueuesOK'

LEMMA FineQueues ==
  ASSUME FineStep, QueuesOK, UNCHANGED queue
  PROVE  QueueStepOK
<1>1. QueuesOK'
  BY DEF QueuesOK, QueueIs
<1> QED
  BY <1>1, FineKeeps DEF QueueStepOK

LEMMA QueueTop ==
  ASSUME Busy(sched, stack), Top.op \in QueueOps
  PROVE  /\ Top.obj \in Queues /\ me \in Tasks \ {Idle} /\ Top.op # "idle" /\ Top.op # "waitRestricted"
         /\ Top.op = "send" => IF Kind[Top.obj] = "queue"
                               THEN /\ Top.arg[2] \in {"back", "front", "overwrite"}
                                    /\ ItemOK(Top.obj, Top.arg[1])
                                    /\ Top.arg[2] = "overwrite" => Length[Top.obj] = 1
                               ELSE Top.arg[2] = "back"
         /\ Top.op \in {"receive", "peek"} => Kind[Top.obj] = "queue"
         /\ Top.op = "take" => Kind[Top.obj] # "queue"
<1>1. Proper(Top) /\ me \in Tasks \ {Idle}
  BY BusyTop DEF QueueOps
<1> QED
  BY <1>1 DEF Proper, QueueOps

LEMMA AtQueueTop ==
  ASSUME Core(sched, stack), NEW at, AtQueue(at)
  PROVE  Busy(sched, stack) /\ Top.op \in QueueOps /\ Top.at = at
BY AtBusy DEF AtQueue

LEMMA QueueQuiet ==
  ASSUME Top.op \in QueueOps, Top.at \in {"start", "suspend", "look again", "disinherit"}
  PROVE  Quiet(sched, Top) /\ ~Holds(Top)
BY DEF Quiet, Holds, Dozes, Parks, Awaits, Grouped, QueueOps

LEMMA QueueListed ==
  ASSUME Busy(sched, stack), Top.op \in QueueOps
  PROVE  WaitList \in EventLists /\ \A g \in Groups : WaitList # Waiting(g)
BY QueueTop, ReceivedList, WaitingList DEF WaitList

LEMMA QueueReturns ==
  ASSUME Busy(sched, stack), Top.op \in QueueOps,
         Top.at \in {"start", "look again", "disinherit"},
         NEW r, QueueReturn(r), Calm(sched, r)
  PROVE  FineStep
<1>1. Quiet(sched, Top) /\ Top.op \notin {"waitRestricted", "idle"}
  BY QueueQuiet, QueueTop
<1>2. Calm(sched, ForgetTimeOut(r)) /\ Return(ForgetTimeOut(r))
  BY CalmYields DEF QueueReturn
<1> QED
  BY <1>1, <1>2, QuietReturns

LEMMA GivenCalm ==
  ASSUME SchedOK(sched), QueuesOK, NEW q \in Queues
  PROVE  Calm(sched, Given(q, sched).s)
<1>1. CASE Kind[q] = "mutex" /\ queue[q].holder # NoTask
  <2>1. queue[q].holder \in Tasks \ {Idle}
    BY <1>1, QueueParts
  <2>2. Calm(sched, PriorityDisinherit(sched, queue[q].holder).s)
    BY <2>1, CalmPriorities
  <2> QED
    BY <1>1, <2>2 DEF Given
<1>2. CASE ~(Kind[q] = "mutex" /\ queue[q].holder # NoTask)
  BY <1>2, CalmOps DEF Given
<1> QED
  BY <1>1, <1>2

LEMMA SendOK == ASSUME Core(sched, stack), QueuesOK, Send PROVE QueueStepOK
<1>1. Busy(sched, stack) /\ Top.op = "send" /\ Top.at = "start" /\ Top.op \in QueueOps
  BY AtBusy DEF Send, QueueOps
<1> DEFINE q == Top.obj
           given == Given(q, sched)
           c == ~(sched.events[Received(q)] # << >>) /\ given.yes
           m == WakeFirst(given.s, Received(q))
           r == YieldIf(c, m)
<1>2. q \in Queues /\ Received(q) \in EventLists /\ SchedOK(sched)
  BY <1>1, QueueTop, ReceivedList, BusyTop
<1>3. Calm(sched, given.s)
  BY <1>2, GivenCalm
<1>4. SchedOK(given.s)
  BY <1>3 DEF Calm
<1>5. QueueReturn(r)
  BY DEF Send
<1>6. queue' = [queue EXCEPT ![q] = CopyTo(q, Top.arg[1], Top.arg[2])]
  BY DEF Send
<1>7. queue[q].count # Length[q] \/ Top.arg[2] = "overwrite"
  BY DEF Send, Full
<1>11. IF Kind[q] = "queue"
       THEN Top.arg[2] \in {"back", "front", "overwrite"} /\ ItemOK(q, Top.arg[1])
            /\ (Top.arg[2] = "overwrite" => Length[q] = 1)
       ELSE Top.arg[2] = "back"
  BY <1>1, QueueTop
<1> HIDE DEF given, c
<1>8. Calm(given.s, m)
  BY <1>2, <1>4, CalmWakes
<1> HIDE DEF m
<1>9. Calm(sched, r)
  BY <1>3, <1>8, CalmTransitive, CalmYields
<1> HIDE DEF r
<1>10. FineStep
  BY <1>1, <1>5, <1>9, QueueReturns
<1>12. QueueIs(q, CopyTo(q, Top.arg[1], Top.arg[2]))
  BY <1>2, <1>7, <1>11, CopyToIs
<1> HIDE DEF q
<1>13. QueuesOK'
  BY <1>2, <1>6, <1>12, QueueChanged
<1> QED
  BY <1>10, <1>13, FineKeeps DEF QueueStepOK

LEMMA ReceiveOK == ASSUME Core(sched, stack), QueuesOK, Receive PROVE QueueStepOK
<1>1. Busy(sched, stack) /\ Top.op = "receive" /\ Top.at = "start" /\ Top.op \in QueueOps
  BY AtBusy DEF Receive, QueueOps
<1> DEFINE q == Top.obj
           r == WakeFirst(sched, Sent(q))
<1>2. q \in Queues /\ Sent(q) \in EventLists /\ SchedOK(sched) /\ Kind[q] = "queue"
  BY <1>1, QueueTop, ReceivedList, BusyTop
<1>3. QueueReturn(r) /\ queue' = [queue EXCEPT ![q] = CopyFrom(q)] /\ queue[q].count # 0
  BY DEF Receive, Empty
<1>4. Calm(sched, r)
  BY <1>2, CalmWakes
<1> HIDE DEF r
<1>5. FineStep
  BY <1>1, <1>3, <1>4, QueueReturns
<1>6. QueueIs(q, CopyFrom(q))
  BY <1>2, <1>3, CopyFromIs
<1> HIDE DEF q
<1>7. QueuesOK'
  BY <1>2, <1>3, <1>6, QueueChanged
<1> QED
  BY <1>5, <1>7, FineKeeps DEF QueueStepOK

LEMMA TakeOK == ASSUME Core(sched, stack), QueuesOK, Take PROVE QueueStepOK
<1>1. Busy(sched, stack) /\ Top.op = "take" /\ Top.at = "start" /\ Top.op \in QueueOps
  BY AtBusy DEF Take, QueueOps
<1> DEFINE q == Top.obj
           m == Taken(q, sched)
           r == WakeFirst(m, Sent(q))
           n == [CopyFrom(q) EXCEPT !.holder = IF Kind[q] = "mutex" THEN me ELSE @]
<1>2. q \in Queues /\ Sent(q) \in EventLists /\ SchedOK(sched) /\ Kind[q] # "queue" /\ me \in Tasks \ {Idle}
  BY <1>1, QueueTop, ReceivedList, BusyTop
<1>3. QueueReturn(r) /\ queue' = [queue EXCEPT ![q] = n] /\ queue[q].count # 0
  BY DEF Take, Empty
<1>4. Calm(sched, m)
  <2> DEFINE v == sched.held[me] + 1
             h == [sched EXCEPT !.held[me] = v]
  <2>1. m = h \/ m = sched
    BY DEF Taken
  <2> HIDE DEF m, v
  <2>2. Calm(sched, h)
    BY <1>2, HeldOK, SameBits DEF Calm
  <2> HIDE DEF h
  <2> QED
    BY <1>2, <2>1, <2>2, CalmOps
<1>5. SchedOK(m)
  BY <1>4 DEF Calm
<1> HIDE DEF m
<1>6. Calm(m, r)
  BY <1>2, <1>5, CalmWakes
<1> HIDE DEF r
<1>7. FineStep
  BY <1>1, <1>3, <1>4, <1>6, CalmTransitive, QueueReturns
<1>8. QueueIs(q, n)
  BY <1>2, <1>3, TakenIs
<1> HIDE DEF q, n
<1>9. QueuesOK'
  BY <1>2, <1>3, <1>8, QueueChanged
<1> QED
  BY <1>7, <1>9, FineKeeps DEF QueueStepOK

LEMMA PeekOK == ASSUME Core(sched, stack), QueuesOK, Peek PROVE QueueStepOK
<1>1. Busy(sched, stack) /\ Top.op = "peek" /\ Top.at = "start" /\ Top.op \in QueueOps
  BY AtBusy DEF Peek, QueueOps
<1> DEFINE r == WakeFirst(sched, Received(Top.obj))
<1>2. Received(Top.obj) \in EventLists /\ SchedOK(sched)
  BY <1>1, QueueTop, ReceivedList, BusyTop
<1>3. QueueReturn(r) /\ UNCHANGED queue
  BY DEF Peek
<1>4. Calm(sched, r)
  BY <1>2, CalmWakes
<1> HIDE DEF r
<1> QED
  BY <1>1, <1>3, <1>4, QueueReturns, FineQueues

LEMMA GiveUpOK == ASSUME Core(sched, stack), QueuesOK, GiveUp PROVE QueueStepOK
<1>1. Busy(sched, stack) /\ Top.op \in QueueOps /\ Top.at = "start"
  BY AtQueueTop DEF GiveUp
<1>2. SchedOK(sched) /\ Calm(sched, sched) /\ Calm(sched, SetTimeOut(sched, Top.wait))
  BY <1>1, BusyTop, CalmOps
<1>3. AtTop("suspend").op \in QueueOps /\ AtTop("suspend").at = "suspend"
  BY <1>1, AtTopFields
<1>4. Stage(AtTop("suspend")) /\ ~Holds(AtTop("suspend"))
  BY <1>3 DEF Stage, Holds, QueueOps
<1> DEFINE r == SetTimeOut(sched, Top.wait)
<1>5. QueueReturn(sched) \/ GoTo("suspend", r)
  BY DEF GiveUp
<1>6. Calm(sched, r)
  BY <1>2
<1> HIDE DEF r
<1>7. FineStep
  BY <1>1, <1>2, <1>4, <1>5, <1>6, QueueQuiet, QueueReturns, QuietGoesTo
<1> QED
  BY <1>7, FineQueues DEF GiveUp

LEMMA QueueSuspendOK == ASSUME Core(sched, stack), QueuesOK, QueueSuspend PROVE QueueStepOK
<1>1. Busy(sched, stack) /\ Top.op \in QueueOps /\ Top.at = "suspend"
  BY AtQueueTop DEF QueueSuspend
<1>2. AtTop("lock").op \in QueueOps /\ AtTop("lock").at = "lock"
  BY <1>1, AtTopFields
<1>3. Stage(AtTop("lock")) /\ Holds(AtTop("lock"))
  BY <1>2 DEF Stage, Holds, QueueOps
<1>4. FineStep
  BY <1>1, <1>3, QueueQuiet, Suspends DEF QueueSuspend
<1> QED
  BY <1>4, FineQueues DEF QueueSuspend

LEMMA QueueLockOK == ASSUME Core(sched, stack), QueuesOK, QueueLock PROVE QueueStepOK
<1>1. /\ Busy(sched, stack)
      /\ \/ Top.op \in QueueOps /\ Top.at = "lock"
         \/ Top.op = "waitRestricted" /\ Top.at = "start"
  BY AtQueueTop, AtBusy DEF QueueLock
<1>2. Holds(Top) /\ ~Awaits(Top) /\ ~Grouped(Top) /\ ~Dozes(Top) /\ ~Parks(sched, Top)
  BY <1>1 DEF Holds, Awaits, Grouped, Dozes, Parks, QueueOps
<1>3. AtTop("check").op = Top.op /\ AtTop("check").at = "check"
  BY <1>1, AtTopFields
<1>4. Stage(AtTop("check")) /\ Holds(AtTop("check"))
  BY <1>1, <1>3 DEF Stage, Holds, QueueOps
<1>5. FineStep
  BY <1>1, <1>2, <1>4, BusyTop, CalmOps, HoldingGoesTo DEF QueueLock
<1> DEFINE q == Top.obj
           o == queue[q]
           tx == IF o.tx = Unlocked THEN 0 ELSE o.tx
           rx == IF o.rx = Unlocked THEN 0 ELSE o.rx
<1>6. q \in Queues
  BY <1>1, BusyTop DEF Proper, QueueOps
<1>7. o.tx \in Int /\ o.rx \in Int /\ o = [k \in QueueFields |-> o[k]]
  BY <1>6, QueueParts DEF QueueIs
<1>8. Lock(q) = [o EXCEPT !.tx = tx, !.rx = rx]
  BY <1>7 DEF Lock, QueueFields
<1>9. tx \in Int /\ rx \in Int
  BY <1>7
<1>10. queue' = [queue EXCEPT ![q] = Lock(q)]
  BY DEF QueueLock
<1> HIDE DEF tx, rx
<1>11. QueueIs(q, [queue[q] EXCEPT !.tx = tx, !.rx = rx])
  BY <1>6, <1>9, LockIs
<1>12. QueueIs(q, Lock(q))
  BY <1>8, <1>11
<1> HIDE DEF q
<1>13. QueuesOK'
  BY <1>6, <1>10, <1>12, QueueChanged
<1> QED
  BY <1>5, <1>13, FineKeeps DEF QueueStepOK

(* The call goes on with another frame of its own. *)
LEMMA ReplacesTop ==
  ASSUME Busy(sched, stack), NEW g, IsFrame(g), g.op = Top.op, g.obj = Top.obj, g.arg = Top.arg,
         Stage(g), NEW r, sched' = r, stack' = WithTop(stack, me, g),
         Lands(sched, r, g), Silent(sched, r), ~Inherits(g)
  PROVE  FineStep
<1>1. FrameOK(sched.current, Top)
  BY BusyTop DEF me
<1>2. FrameOK(sched.current, g)
  BY <1>1, FrameKept
<1>3. PutsTop(sched, r, WithTop(stack, sched.current, g), g)
  BY <1>2, ReplaceOK DEF Top, me
<1>4. PutsTop(sched, sched', stack', g)
  BY <1>3 DEF me
<1> QED
  BY <1>4 DEF FineStep, Fine, PutsTop

LEMMA QueueCheckOK == ASSUME Core(sched, stack), QueuesOK, QueueCheck PROVE QueueStepOK
<1>1. Busy(sched, stack) /\ Top.op \in QueueOps /\ Top.at = "check"
  BY AtQueueTop DEF QueueCheck
<1>2. Holds(Top) /\ ~Awaits(Top) /\ ~Grouped(Top) /\ ~Dozes(Top) /\ ~Parks(sched, Top)
  BY <1>1 DEF Holds, Awaits, Grouped, Dozes, Parks, QueueOps
<1> DEFINE c == CheckForTimeOut(sched, Top.wait)
           then == IF c.yes THEN "timed out" ELSE "again"
           at == IF c.yes THEN "unlock tx" ELSE "look"
           f == Top
           g == [f EXCEPT !.wait = c.left, !.then = then, !.at = at]
           r == c.s
<1>3. Calm(sched, r)
  BY <1>1, BusyTop, CalmOps
<1>4. sched' = r /\ UNCHANGED queue
  BY DEF QueueCheck
<1>5. stack' = WithTop(stack, me, g)
  BY DEF QueueCheck, WithTop, Top
<1>6. IsFrame(f)
  BY <1>1, BusyTop
<1>7. \/ then = "timed out" /\ at = "unlock tx"
      \/ then = "again" /\ at = "look"
  OBVIOUS
<1>12. f.op \in QueueOps
  BY <1>1
<1> HIDE DEF f, then, at, c, r
<1>8. IsFrame(g) /\ g.op = f.op /\ g.obj = f.obj /\ g.arg = f.arg /\ g.then = then /\ g.at = at
  BY <1>6 DEF IsFrame, FrameFields
<1> HIDE DEF g
<1>9. Stage(g) /\ Holds(g) /\ ~Inherits(g)
  BY <1>7, <1>8, <1>12 DEF Stage, Holds, Inherits, QueueOps
<1>10. Lands(sched, r, g) /\ Silent(sched, r)
  BY <1>1, <1>2, <1>3, <1>9, InsideLands, SilentMild DEF Top, me, Calm, Harmless
<1>13. g.op = Top.op /\ g.obj = Top.obj /\ g.arg = Top.arg
  BY <1>8 DEF f
<1>11. FineStep
  BY <1>1, <1>4, <1>5, <1>8, <1>9, <1>10, <1>13, ReplacesTop
<1> QED
  BY <1>4, <1>11, FineQueues

LEMMA QueueLookOK == ASSUME Core(sched, stack), QueuesOK, QueueLook PROVE QueueStepOK
<1>1. Busy(sched, stack) /\ Top.op \in QueueOps /\ Top.at = "look"
  BY AtQueueTop DEF QueueLook
<1>2. Holds(Top) /\ ~Awaits(Top) /\ ~Grouped(Top) /\ ~Dozes(Top) /\ ~Parks(sched, Top)
  BY <1>1 DEF Holds, Awaits, Grouped, Dozes, Parks, QueueOps
<1>3. Top.then = "again"
  BY <1>1, BusyTop DEF FrameOK, Stage
<1>4. Calm(sched, sched)
  BY <1>1, BusyTop, CalmOps
<1>5. ASSUME NEW at \in {"unlock tx", "place"}, GoTo(at, sched) PROVE FineStep
  <2>1. AtTop(at).op = Top.op /\ AtTop(at).at = at /\ AtTop(at).then = "again"
    BY <1>1, <1>3, AtTopFields
  <2>2. Stage(AtTop(at)) /\ Holds(AtTop(at))
    BY <1>1, <2>1 DEF Stage, Holds, QueueOps
  <2> QED
    BY <1>1, <1>2, <1>4, <1>5, <2>2, HoldingGoesTo
<1>6. ASSUME Blocked, Top.op = "take", Kind[Top.obj] = "mutex", GoTo("inherit", sched) PROVE KeepsStep
  <2> DEFINE g == AtTop("inherit")
             n == "inherit"
  <2>1. IsFrame(g) /\ g.op = Top.op /\ g.obj = Top.obj /\ g.arg = Top.arg /\ g.at = n /\ g.then = "again"
    BY <1>1, <1>3, AtTopFields
  <2>10. stack' = WithTop(stack, me, g)
    BY <1>6 DEF GoTo, WithTop, AtTop, Top
  <2> HIDE DEF g
  <2>2. Stage(g) /\ Holds(g)
    BY <1>1, <1>6, <2>1 DEF Stage, Holds, QueueOps
  <2>3. FrameOK(sched.current, Top)
    BY <1>1, BusyTop DEF me
  <2>4. FrameOK(sched.current, g)
    BY <2>1, <2>2, <2>3, FrameKept
  <2>5. Lands(sched, sched, g)
    BY <1>1, <1>2, <1>4, <2>2, InsideLands DEF Top, me, Calm
  <2>6. PutsTop(sched, sched, WithTop(stack, sched.current, g), g)
    BY <1>1, <2>1, <2>4, <2>5, ReplaceOK DEF Top, me
  <2>7. sched' = sched /\ PutsTop(sched, sched', stack', g)
    BY <1>6, <2>6, <2>10 DEF GoTo, me
  <2>8. Silent(sched, sched')
    BY <1>4, <2>7, SilentMild DEF Calm, Harmless
  <2>9. InheritOK'
    <3>1. queue[Top.obj].count = 0
      BY <1>6 DEF Blocked, Empty
    <3>2. ASSUME NEW t \in Tasks, Inherits(TopOf(stack', t)) PROVE t = sched'.current
      BY <2>7, <3>2 DEF Inherits, Holds, QueueOps, PutsTop, Core, Modes
    <3>3. queue'[TopOf(stack', sched'.current).obj].count = 0
      BY <2>1, <2>7, <3>1 DEF PutsTop, QueueLook
    <3> QED
      BY <3>2, <3>3 DEF InheritOK
  <2> QED
    BY <2>7, <2>8, <2>9 DEF KeepsStep, PutsTop
<1>7. KeepsStep
  BY <1>5, <1>6, FineKeeps DEF QueueLook
<1>8. QueuesOK'
  BY DEF QueueLook, QueuesOK, QueueIs
<1> QED
  BY <1>7, <1>8 DEF QueueStepOK

LEMMA TakeInheritOK == ASSUME Core(sched, stack), QueuesOK, InheritOK, TakeInherit PROVE QueueStepOK
<1>1. Busy(sched, stack) /\ Top.op = "take" /\ Top.at = "inherit" /\ Top.op \in QueueOps
  BY AtBusy DEF TakeInherit, QueueOps
<1>2. Holds(Top) /\ ~Awaits(Top) /\ ~Grouped(Top) /\ ~Dozes(Top) /\ ~Parks(sched, Top)
  BY <1>1 DEF Holds, Awaits, Grouped, Dozes, Parks, QueueOps
<1>3. Top.then = "again" /\ Kind[Top.obj] = "mutex" /\ Top.obj \in Queues
  BY <1>1, BusyTop, QueueTop DEF FrameOK, Stage
<1>4. queue[Top.obj].count = 0
  BY <1>1, BusyTop DEF InheritOK, Inherits
<1>5. queue[Top.obj].holder \in Tasks \ {Idle}
  BY <1>3, <1>4, QueueParts DEF QueueIs
<1> DEFINE c == PriorityInherit(sched, queue[Top.obj].holder)
           f == Top
           n == "place"
           flag == c.yes
           g == [f EXCEPT !.at = n, !.flag = flag]
           r == c.s
<1>6. Calm(sched, r)
  BY <1>1, <1>5, BusyTop, CalmPriorities
<1>7. sched' = r /\ UNCHANGED queue
  BY DEF TakeInherit
<1>8. stack' = WithTop(stack, me, g)
  <2>1. stack' = [stack EXCEPT ![me][1].at = "place", ![me][1].flag = flag]
    BY DEF TakeInherit
  <2>2. stack = [t \in Tasks |-> stack[t]] /\ me \in Tasks
    BY <1>1, BusyTop DEF StackOK, Busy, me
  <2> HIDE DEF flag
  <2> QED
    BY <2>1, <2>2 DEF WithTop, Top
<1>9. IsFrame(f) /\ f.op = "take" /\ f.then = "again"
  BY <1>1, <1>3, BusyTop
<1> HIDE DEF f, flag, c, r
<1>10. n # "inherit"
  OBVIOUS
<1>11. IsFrame(g) /\ g.op = f.op /\ g.obj = f.obj /\ g.arg = f.arg /\ g.then = f.then /\ g.at = n
  BY <1>9 DEF IsFrame, FrameFields
<1> HIDE DEF g
<1>12. Stage(g) /\ Holds(g) /\ ~Inherits(g)
  BY <1>9, <1>11 DEF Stage, Holds, Inherits, QueueOps
<1>13. Lands(sched, r, g) /\ Silent(sched, r)
  BY <1>1, <1>2, <1>6, <1>12, InsideLands, SilentMild DEF Top, me, Calm, Harmless
<1>14. g.op = Top.op /\ g.obj = Top.obj /\ g.arg = Top.arg
  BY <1>11 DEF f
<1>15. FineStep
  BY <1>1, <1>7, <1>8, <1>11, <1>12, <1>13, <1>14, ReplacesTop
<1> QED
  BY <1>7, <1>15, FineQueues

LEMMA QueuePlaceOK == ASSUME Core(sched, stack), QueuesOK, QueuePlace PROVE QueueStepOK
<1>1. Busy(sched, stack) /\ Top.op \in QueueOps /\ Top.at = "place"
  BY AtQueueTop DEF QueuePlace
<1>2. Holds(Top) /\ ~Awaits(Top) /\ ~Grouped(Top) /\ ~Dozes(Top) /\ ~Parks(sched, Top)
  BY <1>1 DEF Holds, Awaits, Grouped, Dozes, Parks, QueueOps
<1>3. WaitList \in EventLists /\ \A g \in Groups : WaitList # Waiting(g)
  BY <1>1, QueueListed
<1>4. SchedOK(sched) /\ MayWait(sched) /\ sched.notify[sched.current] # "waiting"
      /\ sched.evValue[sched.current] \in 1..MaxPriorities
  BY <1>1, <1>2, BusyTop, BusyParts, QueueTop, ReadyApart DEF MayWait, Top, me
<1> DEFINE r == PlaceOnEventList(sched, WaitList, Top.wait)
           l == WaitList
           f == Top
           n == "unlock tx"
           then == "yield"
           g == [f EXCEPT !.at = n, !.then = then]
<1>5. /\ Leaves(sched, r) /\ r.evValue = sched.evValue
      /\ OnlyIn(r, sched.current, l)
      /\ Same(sched, r, StateLists \cup {"nextUnblock", "events"})
  BY <1>3, <1>4, PlaceOnEventListOK
<1>7. sched' = r /\ UNCHANGED queue
  BY DEF QueuePlace
<1>8. stack' = WithTop(stack, me, g)
  <2>1. stack' = [stack EXCEPT ![me][1].at = n, ![me][1].then = then]
    BY DEF QueuePlace
  <2>2. stack = [t \in Tasks |-> stack[t]] /\ me \in Tasks
    BY <1>1, BusyTop DEF StackOK, Busy, me
  <2> HIDE DEF n, then
  <2> QED
    BY <2>1, <2>2 DEF WithTop, Top
<1>9. IsFrame(f) /\ f.op \in QueueOps
  BY <1>1, BusyTop
<1> HIDE DEF f, r, l
<1>10. n # "inherit" /\ n = "unlock tx" /\ then = "yield"
  OBVIOUS
<1> HIDE DEF n, then
<1>11. IsFrame(g) /\ g.op = f.op /\ g.obj = f.obj /\ g.arg = f.arg /\ g.then = then /\ g.at = n
  BY <1>9 DEF IsFrame, FrameFields
<1> HIDE DEF g
<1>12. Stage(g) /\ Holds(g) /\ ~Inherits(g) /\ Dozes(g)
  BY <1>9, <1>10, <1>11 DEF Stage, Holds, Dozes, Inherits, QueueOps
<1>16. r.bits = sched.bits /\ r.current = sched.current
  BY <1>5, SameBits DEF Leaves, StateLists
<1>17. r.evValue[r.current] \in 1..MaxPriorities
  BY <1>4, <1>5, <1>16
<1>18. \A h \in Groups : ~Contains(r.events[Waiting(h)], sched.current)
  BY <1>3, <1>5, WaitingList DEF OnlyIn, l
<1>13. Lands(sched, r, g)
  BY <1>1, <1>2, <1>5, <1>12, <1>17, LeavesLands DEF Top, me
<1>19. Silent(sched, r)
  BY <1>1, <1>5, <1>16, <1>18, LeavesSilent
<1>14. g.op = Top.op /\ g.obj = Top.obj /\ g.arg = Top.arg
  BY <1>11 DEF f
<1>15. FineStep
  BY <1>1, <1>7, <1>8, <1>11, <1>12, <1>13, <1>14, <1>19, ReplacesTop
<1> QED
  BY <1>7, <1>15, FineQueues

LEMMA UnlockIs ==
  ASSUME QueuesOK, NEW q \in Queues
  PROVE  /\ QueueIs(q, [queue[q] EXCEPT !.tx = Unlocked]) /\ QueueIs(q, [queue[q] EXCEPT !.rx = Unlocked])
<1> DEFINE o == queue[q]
           tx == o.tx
           rx == o.rx
           u == Unlocked
<1>4. u \in Int
  BY DEF Unlocked
<1>1. o = [k \in QueueFields |-> o[k]] /\ tx \in Int /\ rx \in Int /\ u \in Int
  BY <1>4, QueueParts DEF QueueIs
<1>2. [o EXCEPT !.tx = u] = [o EXCEPT !.tx = u, !.rx = rx] /\ [o EXCEPT !.rx = u] = [o EXCEPT !.tx = tx, !.rx = u]
  BY <1>1 DEF QueueFields
<1> HIDE DEF tx, rx, u
<1>3. QueueIs(q, [queue[q] EXCEPT !.tx = u, !.rx = rx]) /\ QueueIs(q, [queue[q] EXCEPT !.tx = tx, !.rx = u])
  BY <1>1, LockIs
<1> QED
  BY <1>2, <1>3 DEF u

LEMMA UnlockChange ==
  ASSUME QueuesOK, NEW q \in Queues,
         queue' = [queue EXCEPT ![q].tx = Unlocked] \/ queue' = [queue EXCEPT ![q].rx = Unlocked]
  PROVE  QueuesOK'
<1> DEFINE n == [queue[q] EXCEPT !.tx = Unlocked]
           m == [queue[q] EXCEPT !.rx = Unlocked]
<1>1. queue' = [queue EXCEPT ![q] = n] \/ queue' = [queue EXCEPT ![q] = m]
  OBVIOUS
<1>2. QueueIs(q, n) /\ QueueIs(q, m)
  BY UnlockIs
<1> HIDE DEF n, m
<1> QED
  BY <1>1, <1>2, QueueChanged

LEMMA QueueUnlockTxOK == ASSUME Core(sched, stack), QueuesOK, QueueUnlockTx PROVE QueueStepOK
<1>1. /\ Busy(sched, stack) /\ Top.at = "unlock tx"
      /\ Top.op \in QueueOps \/ Top.op = "waitRestricted"
  BY AtQueueTop, AtBusy DEF QueueUnlockTx
<1>2. Holds(Top) /\ ~Awaits(Top) /\ ~Grouped(Top) /\ ~Parks(sched, Top)
  BY <1>1 DEF Holds, Awaits, Grouped, Parks, QueueOps
<1>3. Top.obj \in Queues
  BY <1>1, BusyTop DEF Proper, QueueOps
<1>4. AtTop("unlock rx").op = Top.op /\ AtTop("unlock rx").at = "unlock rx"
      /\ AtTop("unlock rx").then = Top.then
  BY <1>1, AtTopFields
<1>5. Top.op \in QueueOps => Top.then \in {"again", "yield", "timed out"}
  BY <1>1, BusyTop DEF FrameOK, Stage
<1>6. Stage(AtTop("unlock rx")) /\ Holds(AtTop("unlock rx")) /\ (Dozes(Top) => Dozes(AtTop("unlock rx")))
  BY <1>1, <1>4, <1>5 DEF Stage, Holds, Dozes, QueueOps
<1> DEFINE q == Top.obj
           r == WakeCounted(sched, Received(q), queue[q].tx)
<1>7. queue[q].tx \in Int /\ Received(q) \in EventLists /\ SchedOK(sched)
  BY <1>1, <1>3, QueueParts, ReceivedList, BusyTop
<1>8. Calm(sched, r)
  BY <1>7, CalmWakes
<1>9. GoTo("unlock rx", r) /\ queue' = [queue EXCEPT ![q].tx = Unlocked]
  BY DEF QueueUnlockTx
<1> HIDE DEF r
<1>10. FineStep
  BY <1>1, <1>2, <1>6, <1>8, <1>9, HoldingGoesTo
<1>11. QueuesOK'
  BY <1>3, <1>9, UnlockChange
<1> QED
  BY <1>10, <1>11, FineKeeps DEF QueueStepOK

(* What is beneath the timer task's wait returns while it has suspended the scheduler. *)
LEMMA RestrictedReturns ==
  ASSUME Busy(sched, stack), Top.op = "waitRestricted", Holds(Top), ~Awaits(Top), ~Grouped(Top),
         NEW r, Calm(sched, r), Return(r)
  PROVE  FineStep
<1> DEFINE f == stack[me][1]
           g == stack[me][2]
           w == Tail(stack[me])
<1>1. stack[me] = <<f, g>> /\ FrameOK(me, g) /\ Over(f, g) /\ me \in Tasks
  BY BusyTop DEF StackOK, Top, Busy, me
<1>2. f.op = "waitRestricted"
  BY DEF Top
<1>3. g.op = "timerTask" /\ g.at = "wait"
  BY <1>1, <1>2 DEF Over
<1>4. w = <<g>> 
  <2> HIDE DEF f, g
  <2> QED
    BY <1>1, Tails
<1> HIDE DEF f, g, w
<1>5. Holds(g) /\ Dozes(g) /\ ~Inherits(g) /\ g.op # "waitRestricted"
  BY <1>3 DEF Holds, Dozes, Inherits
<1>6. StackOf(me, w) /\ FirstOf(w) = g
  <2>1. StackOf(me, <<g>>) /\ FirstOf(<<g>>) = g
    BY <1>1, <1>5 DEF StackOf, FirstOf
  <2> QED
    BY <1>4, <2>1
<1>7. Lands(sched, r, g)
  BY <1>5, InsideLands DEF Calm, Top, me
<1>8. Core(r, [stack EXCEPT ![me] = w])
  BY <1>6, <1>7, Landed DEF Busy, me
<1>9. sched' = r /\ stack' = [stack EXCEPT ![me] = w]
  BY DEF Return, w
<1>10. r.current = me
  BY <1>7 DEF Lands, me
<1>11. stack'[me] = w
  BY <1>1, <1>9, BusyTop DEF StackOK
<1>12. TopOf(stack', me) = g
  BY <1>6, <1>11 DEF TopOf, FirstOf
<1>13. Silent(sched, r)
  BY SilentMild DEF Calm, Harmless
<1> QED
  BY <1>5, <1>8, <1>9, <1>10, <1>12, <1>13 DEF FineStep, Fine, me

LEMMA QueueUnlockRxOK == ASSUME Core(sched, stack), QueuesOK, QueueUnlockRx PROVE QueueStepOK
<1>1. /\ Busy(sched, stack) /\ Top.at = "unlock rx"
      /\ Top.op \in QueueOps \/ Top.op = "waitRestricted"
  BY AtQueueTop, AtBusy DEF QueueUnlockRx
<1>2. Holds(Top) /\ ~Awaits(Top) /\ ~Grouped(Top) /\ ~Parks(sched, Top)
  BY <1>1 DEF Holds, Awaits, Grouped, Parks, QueueOps
<1>3. Top.obj \in Queues
  BY <1>1, BusyTop DEF Proper, QueueOps
<1> DEFINE q == Top.obj
           r == WakeCounted(sched, Sent(q), queue[q].rx)
<1>7. queue[q].rx \in Int /\ Sent(q) \in EventLists /\ SchedOK(sched)
  BY <1>1, <1>3, QueueParts, ReceivedList, BusyTop
<1>8. Calm(sched, r)
  BY <1>7, CalmWakes
<1>9. /\ IF Top.op = "waitRestricted" THEN Return(r) ELSE GoTo("resume", r)
      /\ queue' = [queue EXCEPT ![q].rx = Unlocked]
  BY DEF QueueUnlockRx
<1> HIDE DEF r
<1>10. FineStep
  <2>1. CASE Top.op = "waitRestricted"
    BY <1>1, <1>2, <1>8, <1>9, <2>1, RestrictedReturns
  <2>2. CASE Top.op # "waitRestricted"
    <3>1. Top.op \in QueueOps /\ Top.then \in {"again", "yield", "timed out"}
      BY <1>1, <2>2, BusyTop DEF FrameOK, Stage
    <3>2. AtTop("resume").op = Top.op /\ AtTop("resume").at = "resume" /\ AtTop("resume").then = Top.then
      BY <1>1, AtTopFields
    <3>3. Stage(AtTop("resume")) /\ Holds(AtTop("resume")) /\ (Dozes(Top) => Dozes(AtTop("resume")))
      BY <1>1, <3>1, <3>2 DEF Stage, Holds, Dozes, QueueOps
    <3> QED
      BY <1>1, <1>2, <1>8, <1>9, <2>2, <3>3, HoldingGoesTo
  <2> QED
    BY <2>1, <2>2
<1>11. QueuesOK'
  BY <1>3, <1>9, UnlockChange
<1> QED
  BY <1>10, <1>11, FineKeeps DEF QueueStepOK

LEMMA QueueYieldOK == ASSUME Core(sched, stack), QueuesOK, QueueYield PROVE QueueStepOK
<1>1. Busy(sched, stack) /\ Top.op \in QueueOps /\ Top.at = "yield"
  BY AtQueueTop DEF QueueYield
<1>2. ~Holds(Top) /\ ~Awaits(Top) /\ ~Grouped(Top)
  BY <1>1 DEF Holds, Awaits, Grouped, QueueOps
<1>3. AtTop("start").op = Top.op /\ AtTop("start").at = "start"
  BY <1>1, AtTopFields
<1>4. Stage(AtTop("start")) /\ ~Holds(AtTop("start"))
  BY <1>1, <1>3 DEF Stage, Holds, QueueOps
<1> DEFINE r == Yield(sched)
<1>5. Calm(sched, r) /\ r.pendsv
  BY <1>1, BusyTop, CalmOps, SchedIs, YieldOK
<1>6. GoTo("start", r) /\ UNCHANGED queue
  BY DEF QueueYield
<1> HIDE DEF r
<1>7. FineStep
  BY <1>1, <1>2, <1>4, <1>5, <1>6, CalmGoesTo
<1> QED
  BY <1>6, <1>7, FineQueues

LEMMA QueueLookAgainOK == ASSUME Core(sched, stack), QueuesOK, QueueLookAgain PROVE QueueStepOK
<1>1. Busy(sched, stack) /\ Top.op \in QueueOps /\ Top.at = "look again"
  BY AtQueueTop DEF QueueLookAgain
<1>2. Calm(sched, sched) /\ Quiet(sched, Top)
  BY <1>1, BusyTop, CalmOps, QueueQuiet
<1>3. ASSUME NEW at \in {"start", "disinherit"}, GoTo(at, sched) PROVE FineStep
  <2>1. AtTop(at).op = Top.op /\ AtTop(at).at = at
    BY <1>1, AtTopFields
  <2>2. Stage(AtTop(at)) /\ ~Holds(AtTop(at))
    BY <1>1, <2>1 DEF Stage, Holds, QueueOps
  <2> QED
    BY <1>1, <1>2, <1>3, <2>2, QuietGoesTo
<1>4. FineStep
  BY <1>1, <1>2, <1>3, QueueReturns DEF QueueLookAgain
<1> QED
  BY <1>4, FineQueues DEF QueueLookAgain

(* The priorities of those who wait for a mutex. *)
LEMMA HighestWaitingIs ==
  ASSUME Core(sched, stack), NEW q \in Queues
  PROVE  HighestWaiting(q) \in Priorities
<1> DEFINE l == sched.events[Received(q)]
           t == Head(l)
<1>1. CASE l = << >>
  BY <1>1, Zero DEF HighestWaiting
<1>2. CASE l # << >>
  <2>1. IsList(l)
    BY ReceivedList DEF Core, SchedOK, HasLists
  <2> HIDE DEF l
  <2>2. t \in Tasks /\ Contains(l, t)
    BY <1>2, <2>1 DEF IsList, Contains
  <2> HIDE DEF t
  <2>3. sched.evValue[t] \in 1..MaxPriorities
    BY <2>2 DEF Core, Modes, l
  <2>4. HighestWaiting(q) = MaxPriorities - sched.evValue[t]
    BY <1>2 DEF HighestWaiting, l, t
  <2> QED
    BY <2>3, <2>4, Zero DEF Priorities
<1> QED
  BY <1>1, <1>2

LEMMA TakeDisinheritOK == ASSUME Core(sched, stack), QueuesOK, TakeDisinherit PROVE QueueStepOK
<1>1. Busy(sched, stack) /\ Top.op = "take" /\ Top.at = "disinherit" /\ Top.op \in QueueOps
  BY AtBusy DEF TakeDisinherit, QueueOps
<1> DEFINE q == Top.obj
           h == queue[q].holder
           p == HighestWaiting(q)
           r == IF h = NoTask THEN sched ELSE DisinheritAfterTimeout(sched, h, p)
<1>2. q \in Queues /\ SchedOK(sched)
  BY <1>1, QueueTop, BusyTop
<1>3. p \in Priorities /\ h \in (Tasks \ {Idle}) \cup {NoTask}
  BY <1>2, HighestWaitingIs, QueueParts
<1>4. QueueReturn(r) /\ UNCHANGED queue
  BY DEF TakeDisinherit
<1> HIDE DEF h, p
<1>5. Calm(sched, r)
  BY <1>2, <1>3, CalmOps, CalmPriorities
<1> HIDE DEF r
<1> QED
  BY <1>1, <1>4, <1>5, QueueReturns, FineQueues

LEMMA ResetOK == ASSUME Core(sched, stack), QueuesOK, Reset PROVE QueueStepOK
<1>1. Busy(sched, stack) /\ Top.op = "reset" /\ Top.at = "start"
  BY AtBusy DEF Reset
<1>2. Quiet(sched, Top)
  BY <1>1 DEF Quiet, Holds, Dozes, Parks, Awaits, Grouped, QueueOps
<1> DEFINE q == Top.obj
           r == WakeFirst(sched, Sent(q))
           n == NewQueue(q)
<1>3. q \in Queues
  BY <1>1, BusyTop DEF Proper
<1>4. Sent(q) \in EventLists /\ SchedOK(sched)
  BY <1>1, <1>3, ReceivedList, BusyTop
<1>5. Calm(sched, r)
  BY <1>4, CalmWakes
<1>6. Return(r) /\ queue' = [queue EXCEPT ![q] = n]
  BY DEF Reset
<1>7. QueueIs(q, n)
  BY <1>3, NewQueueIs
<1> HIDE DEF r, n, q
<1>8. FineStep
  BY <1>1, <1>2, <1>5, <1>6, QuietReturns
<1>9. QueuesOK'
  BY <1>3, <1>6, <1>7, QueueChanged
<1> QED
  BY <1>8, <1>9, FineKeeps DEF QueueStepOK

LEMMA WaitRestrictedOK == ASSUME Core(sched, stack), QueuesOK, WaitRestricted PROVE QueueStepOK
<1>1. Busy(sched, stack) /\ Top.op = "waitRestricted" /\ Top.at = "check"
  BY AtBusy DEF WaitRestricted
<1>2. Holds(Top) /\ ~Awaits(Top) /\ ~Grouped(Top) /\ ~Dozes(Top) /\ ~Parks(sched, Top)
  BY <1>1 DEF Holds, Awaits, Grouped, Dozes, Parks, QueueOps
<1>3. AtTop("unlock tx").op = Top.op /\ AtTop("unlock tx").at = "unlock tx"
  BY <1>1, AtTopFields
<1>4. Stage(AtTop("unlock tx")) /\ Holds(AtTop("unlock tx")) /\ Dozes(AtTop("unlock tx"))
  BY <1>1, <1>3 DEF Stage, Holds, Dozes, QueueOps
<1> DEFINE q == Top.obj
           l == Received(q)
           r == PlaceRestricted(sched, l, Top.wait, Top.arg)
<1>5. UNCHANGED queue /\ (GoTo("unlock tx", r) \/ GoTo("unlock tx", sched))
  BY DEF WaitRestricted
<1>6. CASE GoTo("unlock tx", sched)
  <2>1. Calm(sched, sched)
    BY <1>1, BusyTop, CalmOps
  <2>2. FineStep
    BY <1>1, <1>2, <1>4, <1>6, <2>1, HoldingGoesTo
  <2> QED
    BY <1>5, <2>2, FineQueues
<1>7. CASE GoTo("unlock tx", r)
  <2>1. l \in EventLists /\ \A g \in Groups : l # Waiting(g)
    BY <1>1, BusyTop, ReceivedList, WaitingList DEF Proper
  <2>2. SchedOK(sched) /\ MayWait(sched) /\ sched.notify[sched.current] # "waiting"
        /\ sched.evValue[sched.current] \in 1..MaxPriorities
    BY <1>1, <1>2, BusyTop, BusyParts, ReadyApart DEF MayWait, Top, me
  <2>5. /\ Leaves(sched, r) /\ r.evValue = sched.evValue
        /\ OnlyIn(r, sched.current, l)
        /\ Same(sched, r, StateLists \cup {"nextUnblock", "events"})
    BY <2>1, <2>2, PlaceRestrictedOK
  <2> HIDE DEF r, l
  <2>6. r.bits = sched.bits /\ r.current = sched.current
    BY <2>5, SameBits DEF Leaves, StateLists
  <2>7. r.evValue[r.current] \in 1..MaxPriorities
    BY <2>2, <2>5, <2>6
  <2>8. \A h \in Groups : ~Contains(r.events[Waiting(h)], sched.current)
    BY <2>1, <2>5, WaitingList DEF OnlyIn
  <2>9. Lands(sched, r, AtTop("unlock tx"))
    BY <1>1, <1>2, <1>4, <2>5, <2>7, LeavesLands DEF Top, me
  <2>10. Silent(sched, r)
    BY <1>1, <2>5, <2>6, <2>8, LeavesSilent
  <2>11. FineStep
    BY <1>1, <1>4, <1>7, <2>9, <2>10, LandsAt
  <2> QED
    BY <1>5, <2>11, FineQueues
<1> QED
  BY <1>5, <1>6, <1>7

(* The call has a time limit no more. *)
LEMMA ForgetLands ==
  ASSUME NEW s, NEW r, NEW g, Lands(s, r, g), Silent(s, r)
  PROVE  Lands(s, ForgetTimeOut(r), g) /\ Silent(s, ForgetTimeOut(r))
<1> DEFINE v == ForgetTimeOut(r)
<1>1. SchedOK(r) /\ r.current = s.current
  BY DEF Lands
<1>2. SchedOK(v) /\ Harmless(r, v) /\ Same(r, v, {"entry"})
  BY <1>1, ForgetTimeOutOK
<1> HIDE DEF v
<1>3. /\ v.current = r.current /\ v.suspendedAll = r.suspendedAll /\ v.pendingReady = r.pendingReady
      /\ v.notify = r.notify /\ v.evValue = r.evValue /\ v.events = r.events /\ v.bits = r.bits
      /\ v.ready = r.ready /\ v.delayed = r.delayed /\ v.overflow = r.overflow
      /\ v.suspended = r.suspended /\ v.terminating = r.terminating /\ v.prio = r.prio
  BY <1>2 DEF Same, SchedFields
<1>4. v.pendsv = r.pendsv
  BY <1>2 DEF Same, SchedFields
<1>5. \A t \in Tasks : ListedIn(v, t) <=> ListedIn(r, t)
  BY <1>3 DEF ListedIn, Dormant
<1>6. \A t \in Tasks : Milder(s, r, t) => Milder(s, v, t)
  BY <1>3, <1>5 DEF Milder
<1>7. Runnable(r, g) => Runnable(v, g)
  BY <1>3, <1>4 DEF Runnable, Ready, Parks
<1>8. r.current \in Tasks
  BY <1>1 DEF SchedOK, Shaped
<1>9. Lands(s, v, g)
  BY <1>1, <1>2, <1>3, <1>5, <1>6, <1>7, <1>8 DEF Lands
<1>10. Silent(s, v)
  BY <1>3 DEF Silent
<1> QED
  BY <1>9, <1>10 DEF v

LEMMA QueueResumeOK == ASSUME Core(sched, stack), QueuesOK, QueueResume PROVE QueueStepOK
<1>1. Busy(sched, stack) /\ Top.op \in QueueOps /\ Top.at = "resume"
  BY AtQueueTop DEF QueueResume
<1>2. Holds(Top) /\ ~Awaits(Top) /\ ~Grouped(Top) /\ ~Parks(sched, Top) /\ (Dozes(Top) <=> Top.then = "yield")
  BY <1>1 DEF Holds, Awaits, Grouped, Parks, Dozes, QueueOps
<1>3. Top.then \in {"again", "yield", "timed out"}
  BY <1>1, BusyTop DEF FrameOK, Stage
<1>4. ASSUME NEW at \in {"start", "yield", "look again"}, GoTo(at, ResumeAll(sched)),
             Top.then = "yield" => at = "yield" \/ Yielded(ResumeAll(sched))
      PROVE  FineStep
  <2>1. AtTop(at).op = Top.op /\ AtTop(at).at = at /\ AtTop(at).then = Top.then
    BY <1>1, AtTopFields
  <2>2. Stage(AtTop(at)) /\ ~Holds(AtTop(at)) /\ (at = "yield" => Dozes(AtTop(at)))
    BY <1>1, <2>1 DEF Stage, Holds, Dozes, QueueOps
  <2> QED
    BY <1>1, <1>2, <1>4, <2>2, ResumesAt
<1>5. ASSUME Top.then = "timed out", QueueReturn(ResumeAll(sched)) PROVE FineStep
  <2>1. ~Holds(NoFrame)
    BY DEF NoFrame, Holds, QueueOps
  <2>2. Lands(sched, ResumeAll(sched), NoFrame) /\ Silent(sched, ResumeAll(sched))
    BY <1>1, <1>2, <1>5, <2>1, ResumingLands DEF Top, me
  <2>3. Lands(sched, ForgetTimeOut(ResumeAll(sched)), NoFrame) /\ Silent(sched, ForgetTimeOut(ResumeAll(sched)))
    BY <2>2, ForgetLands
  <2>4. Return(ForgetTimeOut(ResumeAll(sched)))
    BY <1>5 DEF QueueReturn
  <2>5. Top.op \notin {"waitRestricted", "idle"}
    BY <1>1, QueueTop
  <2> QED
    BY <1>1, <2>3, <2>4, <2>5, ReturnsTo
<1>6. FineStep
  <2>1. CASE Top.then = "again"
    <3>1. GoTo("start", ResumeAll(sched))
      BY <2>1 DEF QueueResume
    <3> QED
      BY <1>4, <2>1, <3>1
  <2>2. CASE Top.then = "yield"
    <3>1. \/ GoTo("start", ResumeAll(sched)) /\ Yielded(ResumeAll(sched))
          \/ GoTo("yield", ResumeAll(sched))
      BY <2>2 DEF QueueResume
    <3> QED
      BY <1>4, <3>1
  <2>3. CASE Top.then = "timed out"
    <3>1. QueueReturn(ResumeAll(sched)) \/ GoTo("look again", ResumeAll(sched))
      BY <2>3 DEF QueueResume
    <3> QED
      BY <1>4, <1>5, <2>3, <3>1
  <2> QED
    BY <1>3, <2>1, <2>2, <2>3
<1> QED
  BY <1>6, FineQueues DEF QueueResume

LEMMA QueueStepFine ==
  ASSUME Core(sched, stack), QueuesOK, InheritOK, QueueStep
  PROVE  QueueStepOK /\ UNCHANGED scenario
<1>1. QueueStepOK
  BY SendOK, ReceiveOK, TakeOK, PeekOK, GiveUpOK, ResetOK, QueueSuspendOK, QueueLockOK, QueueCheckOK,
     QueueLookOK, TakeInheritOK, QueuePlaceOK, QueueUnlockTxOK, QueueUnlockRxOK, QueueResumeOK,
     QueueYieldOK, QueueLookAgainOK, TakeDisinheritOK, WaitRestrictedOK DEF QueueStep
<1>2. ASSUME Send \/ Receive \/ Take \/ Peek \/ GiveUp \/ Reset PROVE UNCHANGED scenario
  BY <1>2 DEF Send, Receive, Take, Peek, GiveUp, Reset, QueueReturn, GoTo, Return
<1>3. ASSUME QueueSuspend \/ QueueLock \/ QueueCheck \/ QueueLook \/ TakeInherit \/ QueuePlace PROVE UNCHANGED scenario
  BY <1>3 DEF QueueSuspend, QueueLock, QueueCheck, QueueLook, TakeInherit, QueuePlace, GoTo
<1>4. ASSUME QueueUnlockTx \/ QueueUnlockRx \/ QueueYield \/ QueueLookAgain \/ TakeDisinherit \/ WaitRestricted PROVE UNCHANGED scenario
  BY <1>4 DEF QueueUnlockTx, QueueUnlockRx, QueueYield, QueueLookAgain, TakeDisinherit, WaitRestricted,
              QueueReturn, GoTo, Return
<1>5. ASSUME QueueResume PROVE UNCHANGED scenario
  <2>1. Top.then \in {"again", "yield", "timed out"}
    BY <1>5, AtQueueTop, BusyTop DEF FrameOK, Stage, QueueResume
  <2> QED
    BY <1>5, <2>1 DEF QueueResume, QueueReturn, GoTo, Return
<1> QED
  BY <1>1, <1>2, <1>3, <1>4, <1>5 DEF QueueStep

(* What an interrupt leaves that wakes tasks at most, and no mutex is given. *)
CalmKeeps == Calm(sched, sched') /\ UNCHANGED stack

LEMMA InterruptKeeps ==
  ASSUME Core(sched, stack), InheritOK, Calm(sched, sched'), UNCHANGED stack,
         \A q \in Queues : Kind[q] = "mutex" => queue'[q] = queue[q]
  PROVE  KeepsStep
<1>1. Core(sched', stack')
  BY InterruptCore DEF Calm
<1>2. Silent(sched, sched')
  BY SilentMild DEF Calm, Harmless
<1>3. ASSUME NEW t \in Tasks, Inherits(TopOf(stack, t))
      PROVE  queue'[TopOf(stack, t).obj].count = 0
  <2> DEFINE f == TopOf(stack, t)
  <2>1. f.op = "take" /\ f.at = "inherit" /\ queue[f.obj].count = 0 /\ t \in Tasks
    BY <1>3 DEF Inherits, InheritOK
  <2>2. f = stack[t][1] /\ FrameOK(t, f) /\ t # Idle
    BY <2>1 DEF Core, StackOK, TopOf, NoFrame, FrameOK
  <2>3. f.obj \in Queues /\ Kind[f.obj] = "mutex"
    BY <2>1, <2>2 DEF FrameOK, Stage, Proper, QueueOps
  <2> HIDE DEF f
  <2>4. queue'[f.obj].count = 0
    BY <2>1, <2>3
  <2> QED
    BY <2>4 DEF f
<1>4. InheritOK'
  BY <1>3 DEF InheritOK
<1> QED
  BY <1>1, <1>2, <1>4 DEF KeepsStep

LEMMA CountedIs ==
  ASSUME NEW q \in Queues, NEW n, QueueIs(q, n)
  PROVE  QueueIs(q, [n EXCEPT !["tx"] = @ + 1]) /\ QueueIs(q, [n EXCEPT !["rx"] = @ + 1])
<1>1. n = [k \in QueueFields |-> n[k]] /\ n.tx + 1 \in Int /\ n.rx + 1 \in Int
  BY DEF QueueIs
<1> DEFINE r == [n EXCEPT !["tx"] = @ + 1]
           v == [n EXCEPT !["rx"] = @ + 1]
<1>2. /\ r = [k \in QueueFields |-> r[k]] /\ r.tx \in Int /\ r.rx = n.rx /\ r.count = n.count
      /\ r.holder = n.holder /\ r.storage = n.storage /\ r.read = n.read /\ r.write = n.write
  BY <1>1 DEF QueueFields
<1>3. /\ v = [k \in QueueFields |-> v[k]] /\ v.rx \in Int /\ v.tx = n.tx /\ v.count = n.count
      /\ v.holder = n.holder /\ v.storage = n.storage /\ v.read = n.read /\ v.write = n.write
  BY <1>1 DEF QueueFields
<1> HIDE DEF r, v
<1>4. QueueIs(q, r)
  BY <1>2 DEF QueueIs
<1>5. QueueIs(q, v)
  BY <1>3 DEF QueueIs
<1> QED
  BY <1>4, <1>5 DEF r, v

LEMMA FromISROK ==
  ASSUME Core(sched, stack), QueuesOK, InheritOK, NEW q \in Queues, Kind[q] # "mutex",
         NEW after, QueueIs(q, after), NEW l \in EventLists, UNCHANGED stack,
         FromISR(q, "tx", after, l) \/ FromISR(q, "rx", after, l)
  PROVE  QueueStepOK
<1> DEFINE n == [after EXCEPT !["tx"] = @ + 1]
           m == [after EXCEPT !["rx"] = @ + 1]
           r == WakeFirst(sched, l)
<1>1. SchedOK(sched)
  BY DEF Core
<1>2. Calm(sched, r) /\ Calm(sched, sched)
  BY <1>1, CalmWakes, CalmOps
<1>3. QueueIs(q, n) /\ QueueIs(q, m)
  BY CountedIs
<1>4. (sched' = r \/ sched' = sched)
      /\ \/ queue' = [queue EXCEPT ![q] = after]
         \/ queue' = [queue EXCEPT ![q] = n]
         \/ queue' = [queue EXCEPT ![q] = m]
  BY DEF FromISR
<1> HIDE DEF n, m, r
<1>5. QueuesOK'
  BY <1>3, <1>4, QueueChanged
<1>6. Calm(sched, sched')
  BY <1>2, <1>4
<1>7. \A p \in Queues : Kind[p] = "mutex" => queue'[p] = queue[p]
  BY <1>4 DEF QueuesOK
<1> QED
  BY <1>5, <1>6, <1>7, InterruptKeeps DEF QueueStepOK

LEMMA QueueInterruptFine ==
  ASSUME Core(sched, stack), QueuesOK, InheritOK, NEW call, Proper(call), QueueInterrupt(call)
  PROVE  QueueStepOK /\ UNCHANGED scenario
<1> DEFINE q == call.obj
<1>1. CASE SendFromISR(call)
  <2> DEFINE after == CopyTo(q, call.arg[1], call.arg[2])
  <2>1. /\ q \in Queues /\ Kind[q] = "queue" /\ call.arg[2] \in {"back", "front", "overwrite"}
        /\ ItemOK(q, call.arg[1]) /\ (call.arg[2] = "overwrite" => Length[q] = 1)
    BY <1>1 DEF SendFromISR, Proper
  <2>2. Received(q) \in EventLists
    BY <2>1, ReceivedList
  <2>3. queue[q].count # Length[q] \/ call.arg[2] = "overwrite"
    BY <1>1 DEF SendFromISR, Full
  <2>4. QueueIs(q, after)
    BY <2>1, <2>3, CopyToIs
  <2>5. FromISR(q, "tx", after, Received(q)) /\ UNCHANGED <<stack, scenario>>
    BY <1>1 DEF SendFromISR
  <2> HIDE DEF after, q
  <2> QED
    BY <2>1, <2>2, <2>4, <2>5, FromISROK
<1>2. CASE GiveFromISR(call)
  <2> DEFINE o == queue[q]
             after == [o EXCEPT !.count = @ + 1]
  <2>1. q \in Queues /\ Kind[q] = "semaphore"
    BY <1>2 DEF GiveFromISR, Proper
  <2>2. Received(q) \in EventLists /\ QueueIs(q, o) /\ o.count \in 0..Length[q] /\ Length[q] \in Nat
    BY <2>1, ReceivedList, QueueParts
  <2>3. o.count # Length[q]
    BY <1>2 DEF GiveFromISR, Full
  <2>5. FromISR(q, "tx", after, Received(q)) /\ UNCHANGED <<stack, scenario>>
    BY <1>2 DEF GiveFromISR
  <2> HIDE DEF q, o
  <2>6. /\ after = [k \in QueueFields |-> after[k]] /\ after.tx = o.tx /\ after.rx = o.rx
        /\ after.count = o.count + 1 /\ after.holder = o.holder
    BY <2>2 DEF QueueIs, QueueFields
  <2> HIDE DEF after
  <2>7. after.count \in 0..Length[q]
    BY <2>2, <2>3, <2>6
  <2>4. QueueIs(q, after)
    BY <2>1, <2>2, <2>6, <2>7 DEF QueueIs
  <2> QED
    BY <2>1, <2>2, <2>4, <2>5, FromISROK
<1>3. CASE ReceiveFromISR(call)
  <2> DEFINE after == CopyFrom(q)
  <2>1. q \in Queues /\ Kind[q] = "queue"
    BY <1>3 DEF ReceiveFromISR, Proper
  <2>2. Sent(q) \in EventLists /\ queue[q].count # 0
    BY <1>3, <2>1, ReceivedList DEF ReceiveFromISR, Empty
  <2>4. QueueIs(q, after)
    BY <2>1, <2>2, CopyFromIs
  <2>5. FromISR(q, "rx", after, Sent(q)) /\ UNCHANGED <<stack, scenario>>
    BY <1>3 DEF ReceiveFromISR
  <2> HIDE DEF after, q
  <2> QED
    BY <2>1, <2>2, <2>4, <2>5, FromISROK
<1> QED
  BY <1>1, <1>2, <1>3 DEF QueueInterrupt

----------------------------------------------------------------------------
(* Event groups. *)

GroupsOK ==
  /\ group = [g \in Groups |-> group[g]]
  /\ \A g \in Groups : group[g] = [exists |-> group[g].exists, bits |-> group[g].bits]

GroupStepOK == KeepsStep /\ GroupsOK' /\ NoSatisfied'

LEMMA ListRange == \A q, t : IsList(q) => (t \in Range(q) <=> Contains(q, t))
BY DEF IsList, Range, Contains

LEMMA Waiters ==
  ASSUME NEW s, SchedOK(s), NEW g \in Groups, NEW t
  PROVE  t \in Range(s.events[Waiting(g)]) <=> t \in Tasks /\ Contains(s.events[Waiting(g)], t)
<1>1. IsList(s.events[Waiting(g)])
  BY WaitingList DEF SchedOK, HasLists
<1>2. Contains(s.events[Waiting(g)], t) => t \in Tasks
  BY <1>1 DEF IsList, Contains
<1> QED
  BY <1>1, <1>2, ListRange

(* Fewer bits satisfy fewer tasks. *)
LEMMA MetLess ==
  ASSUME NEW b, NEW c, b \subseteq c, NEW w, NEW all, Met(b, w, all)
  PROVE  Met(c, w, all)
BY DEF Met

LEMMA SilentNone ==
  ASSUME Core(sched, stack), NoSatisfied, KeepsStep,
         \A g \in Groups : group'[g].bits \subseteq group[g].bits
  PROVE  NoSatisfied'
<1>1. SchedOK(sched) /\ SchedOK(sched')
  BY DEF KeepsStep, Core
<1>2. ASSUME NEW g \in Groups, NEW t \in Tasks, Contains(sched'.events[Waiting(g)], t)
      PROVE  ~Satisfied(sched', t, group'[g].bits)
  <2>1. Contains(sched.events[Waiting(g)], t) /\ sched'.bits[t] = sched.bits[t]
    BY <1>2 DEF KeepsStep, Silent
  <2>2. t \in Range(sched.events[Waiting(g)])
    BY <1>1, <2>1, Waiters
  <2>3. ~Satisfied(sched, t, group[g].bits)
    BY <2>2 DEF NoSatisfied
  <2> QED
    BY <2>1, <2>3, MetLess DEF Satisfied
<1>3. ASSUME NEW g \in Groups, NEW t \in Range(sched'.events[Waiting(g)])
      PROVE  ~Satisfied(sched', t, group'[g].bits)
  BY <1>1, <1>2, <1>3, Waiters
<1> QED
  BY <1>3 DEF NoSatisfied, Satisfied, Waiting

LEMMA SameGroups ==
  ASSUME Core(sched, stack), NoSatisfied, GroupsOK, KeepsStep, UNCHANGED group
  PROVE  GroupStepOK
<1>1. GroupsOK'
  BY DEF GroupsOK
<1> QED
  BY <1>1, SilentNone DEF GroupStepOK

LEMMA BitsChange ==
  ASSUME GroupsOK, NEW g \in Groups, NEW b,
         \/ group' = [group EXCEPT ![g].bits = b]
         \/ \E e : group' = [group EXCEPT ![g] = [exists |-> e, bits |-> b]]
  PROVE  GroupsOK' /\ group'[g].bits = b /\ \A h \in Groups \ {g} : group'[h] = group[h]
<1>1. \E e : group' = [group EXCEPT ![g] = [exists |-> e, bits |-> b]]
  <2>1. group[g] = [exists |-> group[g].exists, bits |-> group[g].bits]
    BY DEF GroupsOK
  <2>2. [group[g] EXCEPT !.bits = b] = [exists |-> group[g].exists, bits |-> b]
    BY <2>1
  <2>3. ASSUME group' = [group EXCEPT ![g].bits = b]
        PROVE  group' = [group EXCEPT ![g] = [exists |-> group[g].exists, bits |-> b]]
    BY <2>2, <2>3
  <2> QED
    BY <2>3
<1>2. PICK e : group' = [group EXCEPT ![g] = [exists |-> e, bits |-> b]]
  BY <1>1
<1> QED
  BY <1>2 DEF GroupsOK

LEMMA FewerBits ==
  ASSUME Core(sched, stack), NoSatisfied, GroupsOK, KeepsStep, NEW g \in Groups, NEW b,
         b \subseteq group[g].bits,
         \/ group' = [group EXCEPT ![g].bits = b]
         \/ \E e : group' = [group EXCEPT ![g] = [exists |-> e, bits |-> b]]
  PROVE  GroupStepOK
<1>1. GroupsOK' /\ group'[g].bits = b /\ \A h \in Groups \ {g} : group'[h] = group[h]
  BY BitsChange
<1>2. \A h \in Groups : group'[h].bits \subseteq group[h].bits
  BY <1>1
<1> QED
  BY <1>1, <1>2, SilentNone DEF GroupStepOK

GroupOps == {"setBits", "clearBits", "deleteGroup", "createGroup", "waitBits", "sync"}

LEMMA GroupTop ==
  ASSUME Busy(sched, stack), Top.op \in GroupOps
  PROVE  Top.obj \in Groups /\ me \in Tasks \ {Idle} /\ Top.op \notin {"waitRestricted", "idle"}
         /\ (Top.op = "sync" => Top.arg.clear /\ Top.arg.all)
<1>1. Proper(Top) /\ me \in Tasks \ {Idle}
  BY BusyTop DEF GroupOps
<1> QED
  BY <1>1 DEF Proper, GroupOps

LEMMA SuspendsGroups ==
  ASSUME Core(sched, stack), NoSatisfied, GroupsOK, SetBits \/ DeleteGroup \/ GroupSuspend
  PROVE  GroupStepOK
<1>1. CASE SetBits \/ DeleteGroup
  <2>1. Busy(sched, stack) /\ Top.op \in {"setBits", "deleteGroup"} /\ Top.at = "start"
    BY <1>1, AtBusy DEF SetBits, DeleteGroup
  <2>2. Quiet(sched, Top)
    BY <2>1 DEF Quiet, Holds, Dozes, Parks, Awaits, Grouped, QueueOps
  <2>3. AtTop("walk").op = Top.op /\ AtTop("walk").at = "walk"
    BY <2>1, AtTopFields
  <2>4. Stage(AtTop("walk")) /\ Holds(AtTop("walk"))
    BY <2>1, <2>3 DEF Stage, Holds, QueueOps
  <2>5. GoTo("walk", SuspendAll(sched)) /\ UNCHANGED group
    BY <1>1 DEF SetBits, DeleteGroup
  <2> QED
    BY <2>1, <2>2, <2>4, <2>5, Suspends, FineKeeps, SameGroups
<1>2. CASE GroupSuspend
  <2>1. Busy(sched, stack) /\ Top.op \in {"waitBits", "sync"} /\ Top.at = "start"
    BY <1>2, AtBusy DEF GroupSuspend, AtGroup
  <2>2. Quiet(sched, Top)
    BY <2>1 DEF Quiet, Holds, Dozes, Parks, Awaits, Grouped, QueueOps
  <2>3. AtTop("test").op = Top.op /\ AtTop("test").at = "test"
    BY <2>1, AtTopFields
  <2>4. Stage(AtTop("test")) /\ Holds(AtTop("test"))
    BY <2>1, <2>3 DEF Stage, Holds, QueueOps
  <2>5. GoTo("test", SuspendAll(sched)) /\ UNCHANGED group
    BY <1>2 DEF GroupSuspend
  <2> QED
    BY <2>1, <2>2, <2>4, <2>5, Suspends, FineKeeps, SameGroups
<1> QED
  BY <1>1, <1>2

(* Those who are satisfied are woken, and the others wait for what they did. *)
LEMMA WakeSilent ==
  ASSUME NEW s, SchedOK(s), NEW g \in Groups, NEW tasks
  PROVE  LET r == Wake(s, g, tasks)
         IN  Silent(s, r) /\ \A u \in tasks : ~Contains(r.events[Waiting(g)], u)
<1> DEFINE r == Wake(s, g, tasks)
<1>1. /\ SchedOK(r) /\ Harmless(s, r)
      /\ \A u \in Tasks : r.bits[u] = s.bits[u] \/ Unlinked(r, u)
      /\ \A u \in tasks : ~Contains(r.events[Waiting(g)], u)
  BY WakeOK
<1> HIDE DEF r
<1>2. Silent(s, r)
  BY <1>1, WaitingList DEF Silent, Harmless, Mild, Milder, Unlinked
<1> QED
  BY <1>1, <1>2 DEF r

(* The group's waiters, after those that these bits satisfy have been woken. *)
LEMMA WokenNone ==
  ASSUME Core(sched, stack), NoSatisfied, NEW g \in Groups, NEW bits, NEW tasks,
         tasks = Woken(sched, g, bits), NEW t \in Tasks
  PROVE  LET r == Wake(sched, g, tasks)
         IN  /\ Contains(r.events[Waiting(g)], t) => ~Satisfied(r, t, bits)
             /\ \A h \in Groups : Contains(r.events[Waiting(h)], t) => ~Satisfied(r, t, group[h].bits)
<1> DEFINE r == Wake(sched, g, tasks)
<1>1. SchedOK(sched)
  BY DEF Core
<1>2. Silent(sched, r) /\ \A u \in tasks : ~Contains(r.events[Waiting(g)], u)
  BY <1>1, WakeSilent
<1> HIDE DEF r
<1>3. ASSUME Contains(r.events[Waiting(g)], t) PROVE ~Satisfied(r, t, bits)
  <2>1. Contains(sched.events[Waiting(g)], t) /\ r.bits[t] = sched.bits[t] /\ t \notin tasks
    BY <1>2, <1>3 DEF Silent
  <2>2. t \in Range(sched.events[Waiting(g)])
    BY <1>1, <2>1, Waiters
  <2>3. ~Satisfied(sched, t, bits)
    BY <2>1, <2>2 DEF Woken
  <2> QED
    BY <2>1, <2>3 DEF Satisfied
<1>4. ASSUME NEW h \in Groups, Contains(r.events[Waiting(h)], t) PROVE ~Satisfied(r, t, group[h].bits)
  <2>1. Contains(sched.events[Waiting(h)], t) /\ r.bits[t] = sched.bits[t]
    BY <1>2, <1>4 DEF Silent
  <2>2. t \in Range(sched.events[Waiting(h)])
    BY <1>1, <2>1, Waiters
  <2>3. ~Satisfied(sched, t, group[h].bits)
    BY <2>2 DEF NoSatisfied
  <2> QED
    BY <2>1, <2>3 DEF Satisfied
<1> QED
  BY <1>3, <1>4 DEF r

LEMMA Unsatisfied ==
  ASSUME SchedOK(sched'),
         \A g \in Groups : \A t \in Tasks :
           Contains(sched'.events[Waiting(g)], t) => ~Satisfied(sched', t, group'[g].bits)
  PROVE  NoSatisfied'
<1>1. ASSUME NEW g \in Groups, NEW t \in Range(sched'.events[Waiting(g)])
      PROVE  ~Satisfied(sched', t, group'[g].bits)
  BY <1>1, Waiters
<1> QED
  BY <1>1 DEF NoSatisfied, Satisfied, Waiting

LEMMA WalkLands ==
  ASSUME Busy(sched, stack), Top.op \in {"setBits", "deleteGroup"}, Top.at = "walk",
         NEW tasks, GoTo("resume", Wake(sched, Top.obj, tasks))
  PROVE  FineStep
<1>1. Holds(Top) /\ ~Awaits(Top) /\ ~Grouped(Top) /\ ~Dozes(Top) /\ ~Parks(sched, Top)
  BY DEF Holds, Awaits, Grouped, Dozes, Parks, QueueOps
<1>2. AtTop("resume").op = Top.op /\ AtTop("resume").at = "resume"
  BY AtTopFields
<1>3. Stage(AtTop("resume")) /\ Holds(AtTop("resume"))
  BY <1>2 DEF Stage, Holds, QueueOps
<1> DEFINE r == Wake(sched, Top.obj, tasks)
<1>4. Top.obj \in Groups /\ SchedOK(sched)
  BY GroupTop, BusyTop DEF GroupOps
<1>5. SchedOK(r) /\ Harmless(sched, r) /\ Silent(sched, r)
  BY <1>4, WakeOK, WakeSilent
<1> HIDE DEF r
<1>6. Lands(sched, r, AtTop("resume"))
  BY <1>1, <1>3, <1>5, InsideLands DEF Top, me
<1> QED
  BY <1>3, <1>5, <1>6, LandsAt DEF r

LEMMA SetBitsWalkOK ==
  ASSUME Core(sched, stack), NoSatisfied, GroupsOK, SetBitsWalk PROVE GroupStepOK
<1>1. Busy(sched, stack) /\ Top.op = "setBits" /\ Top.at = "walk"
  BY AtBusy DEF SetBitsWalk
<1> DEFINE g == Top.obj
           bits == group[g].bits \cup Top.arg
           woken == Woken(sched, g, bits)
           b == bits \ Cleared(sched, woken)
<1>2. g \in Groups
  BY <1>1, GroupTop DEF GroupOps
<1>3. group' = [group EXCEPT ![g].bits = b] /\ GoTo("resume", Wake(sched, g, woken))
  BY DEF SetBitsWalk
<1>4. FineStep
  BY <1>1, <1>3, WalkLands
<1>5. b \subseteq bits
  OBVIOUS
<1>6. sched' = Wake(sched, g, woken)
  BY <1>3 DEF GoTo
<1> HIDE DEF b
<1>7. GroupsOK' /\ group'[g].bits = b /\ \A h \in Groups \ {g} : group'[h] = group[h]
  BY <1>2, <1>3, BitsChange
<1> HIDE DEF bits, g
<1>8. ASSUME NEW h \in Groups, NEW t \in Tasks, Contains(sched'.events[Waiting(h)], t)
      PROVE  ~Satisfied(sched', t, group'[h].bits)
  <2>1. /\ Contains(sched'.events[Waiting(g)], t) => ~Satisfied(sched', t, bits)
        /\ ~Satisfied(sched', t, group[h].bits)
    BY <1>2, <1>6, <1>8, WokenNone
  <2>2. CASE h = g
    BY <1>5, <1>7, <1>8, <2>1, <2>2, MetLess DEF Satisfied
  <2>3. CASE h # g
    BY <1>7, <2>1, <2>3
  <2> QED
    BY <2>2, <2>3
<1>9. KeepsStep /\ SchedOK(sched')
  BY <1>4, FineKeeps DEF KeepsStep, Core
<1>10. NoSatisfied'
  BY <1>8, <1>9, Unsatisfied
<1> QED
  BY <1>7, <1>9, <1>10 DEF GroupStepOK

LEMMA DeleteGroupWalkOK ==
  ASSUME Core(sched, stack), NoSatisfied, GroupsOK, DeleteGroupWalk PROVE GroupStepOK
<1>1. Busy(sched, stack) /\ Top.op = "deleteGroup" /\ Top.at = "walk"
  BY AtBusy DEF DeleteGroupWalk
<1> DEFINE g == Top.obj
           b == {}
           e == FALSE
<1>2. g \in Groups
  BY <1>1, GroupTop DEF GroupOps
<1>3. FineStep
  BY <1>1, WalkLands DEF DeleteGroupWalk
<1>4. group' = [group EXCEPT ![g] = [exists |-> e, bits |-> b]] /\ b \subseteq group[g].bits
  BY DEF DeleteGroupWalk
<1> HIDE DEF b, e, g
<1> QED
  BY <1>2, <1>3, <1>4, FineKeeps, FewerBits

LEMMA QuietGroups ==
  ASSUME Core(sched, stack), NoSatisfied, GroupsOK, ClearBits \/ CreateGroup
  PROVE  GroupStepOK
<1>1. Busy(sched, stack) /\ Top.op \in {"clearBits", "createGroup"} /\ Top.at = "start"
  BY AtBusy DEF ClearBits, CreateGroup
<1>2. Quiet(sched, Top)
  BY <1>1 DEF Quiet, Holds, Dozes, Parks, Awaits, Grouped, QueueOps
<1>3. Calm(sched, sched) /\ Return(sched)
  BY <1>1, BusyTop, CalmOps DEF ClearBits, CreateGroup
<1>4. FineStep
  BY <1>1, <1>2, <1>3, QuietReturns
<1> DEFINE g == Top.obj
           b == group[g].bits \ Top.arg
           e == {}
           yes == TRUE
<1>5. g \in Groups
  BY <1>1, GroupTop DEF GroupOps
<1>6. CASE ClearBits
  <2>1. group' = [group EXCEPT ![g].bits = b] /\ b \subseteq group[g].bits
    BY <1>6 DEF ClearBits
  <2> HIDE DEF b, g
  <2> QED
    BY <1>4, <1>5, <2>1, FineKeeps, FewerBits
<1>7. CASE CreateGroup
  <2>1. group' = [group EXCEPT ![g] = [exists |-> yes, bits |-> e]] /\ e \subseteq group[g].bits
    BY <1>7 DEF CreateGroup, NewGroup
  <2> HIDE DEF e, g, yes
  <2> QED
    BY <1>4, <1>5, <2>1, FineKeeps, FewerBits
<1> QED
  BY <1>6, <1>7

LEMMA GroupResumeOK ==
  ASSUME Core(sched, stack), NoSatisfied, GroupsOK, GroupResume PROVE GroupStepOK
<1>1. Busy(sched, stack) /\ Top.op \in {"setBits", "deleteGroup"} /\ Top.at = "resume"
  BY AtBusy DEF GroupResume
<1>2. Holds(Top) /\ ~Awaits(Top) /\ ~Grouped(Top) /\ ~Dozes(Top) /\ ~Parks(sched, Top)
  BY <1>1 DEF Holds, Awaits, Grouped, Dozes, Parks, QueueOps
<1>3. Return(ResumeAll(sched)) /\ UNCHANGED group
  BY DEF GroupResume
<1>4. FineStep
  BY <1>1, <1>2, <1>3, ResumesReturn
<1> QED
  BY <1>3, <1>4, FineKeeps, SameGroups

GroupsKeep == Core(sched', stack') /\ InheritOK' /\ GroupsOK' /\ NoSatisfied'

LEMMA StepKeeps == ASSUME GroupStepOK PROVE GroupsKeep
BY DEF GroupStepOK, GroupsKeep, KeepsStep

LEMMA PutsKeeps ==
  ASSUME NEW g, PutsTop(sched, sched', stack', g), ~Inherits(g)
  PROVE  Core(sched', stack') /\ InheritOK'
<1>1. Core(sched', stack') /\ TopOf(stack', sched'.current) = g
  BY DEF PutsTop
<1>2. \A t \in Tasks : Holds(TopOf(stack', t)) => t = sched'.current
  BY <1>1 DEF Core, Modes
<1>3. \A f : Inherits(f) => Holds(f)
  BY DEF Inherits, Holds, QueueOps
<1>4. \A t \in Tasks : ~Inherits(TopOf(stack', t))
  BY <1>1, <1>2, <1>3
<1> QED
  BY <1>1, <1>4 DEF InheritOK

LEMMA AppendHas ==
  ASSUME NEW q, IsList(q), NEW x \in Tasks, NEW y, Contains(Append(q, x), y)
  PROVE  Contains(q, y) \/ y = x
<1>1. /\ q \in Seq(Tasks) /\ Append(q, x) \in Seq(Tasks) /\ Len(Append(q, x)) = Len(q) + 1
      /\ Len(q) \in Nat
  BY DEF IsList
<1>2. PICK i \in 1..Len(Append(q, x)) : Append(q, x)[i] = y
  BY DEF Contains
<1>3. CASE i \in 1..Len(q)
  BY <1>1, <1>2, <1>3 DEF Contains
<1>4. CASE i = Len(q) + 1
  BY <1>1, <1>2, <1>4
<1> QED
  BY <1>1, <1>3, <1>4

(* The current task waits for bits now, after some have been woken. *)
WaitsFor(s, r, l, wanted) ==
  /\ Leaves(s, r)
  /\ OnlyIn(r, s.current, l)
  /\ r.bits = [s.bits EXCEPT ![s.current] = [wanted EXCEPT !.inUse = TRUE]]
  /\ r.events = [s.events EXCEPT ![l] = Append(@, s.current)]

LEMMA UnorderedWaits ==
  ASSUME NEW s, SchedOK(s), MayWait(s), s.notify[s.current] # "waiting",
         NEW l \in EventLists, NEW wanted, NEW ticks
  PROVE  WaitsFor(s, PlaceOnUnordered(s, l, wanted, ticks), l, wanted)
BY PlaceOnUnorderedOK, SMTT(30) DEF WaitsFor

LEMMA PlacedOK ==
  ASSUME Busy(sched, stack), Top.op \in {"waitBits", "sync"}, Top.at = "test",
         NEW s, SchedOK(s), Harmless(sched, s), NEW met, PlaceUnless(met, s)
  PROVE  /\ Core(sched', stack') /\ InheritOK'
         /\ sched' = s \/ (~met /\ WaitsFor(s, sched', Waiting(Top.obj), Wanted))
<1>1. Holds(Top) /\ ~Awaits(Top) /\ ~Grouped(Top) /\ ~Dozes(Top) /\ ~Parks(sched, Top)
  BY DEF Holds, Awaits, Grouped, Dozes, Parks, QueueOps
<1> DEFINE waits == ~met /\ Top.wait > 0
           f == Top
           at == "resume"
           then == IF waits THEN "wait" ELSE "return"
           g == [f EXCEPT !.at = at, !.then = then]
           r == PlaceOnUnordered(s, Waiting(Top.obj), Wanted, Top.wait)
<1>2. sched' = (IF waits THEN r ELSE s) /\ stack' = WithTop(stack, me, g)
  BY DEF PlaceUnless, WithTop, Top
<1>3. IsFrame(f) /\ f.op \in {"waitBits", "sync"}
  BY BusyTop
<1>4. then = (IF waits THEN "wait" ELSE "return") /\ at = "resume"
  OBVIOUS
<1>5. waits => ~met
  OBVIOUS
<1> HIDE DEF f, then, at, r, waits
<1>6. IsFrame(g) /\ g.op = f.op /\ g.obj = f.obj /\ g.arg = f.arg /\ g.at = at /\ g.then = then
  BY <1>3 DEF IsFrame, FrameFields
<1> HIDE DEF g
<1>7. Stage(g) /\ Holds(g) /\ ~Inherits(g) /\ (waits => Grouped(g) /\ Dozes(g))
  BY <1>3, <1>4, <1>6 DEF Stage, Holds, Inherits, Grouped, Dozes, QueueOps
<1>8. g.op = Top.op /\ g.obj = Top.obj /\ g.arg = Top.arg
  BY <1>6 DEF f
<1>9. FrameOK(sched.current, g)
  <2>1. FrameOK(sched.current, Top)
    BY BusyTop DEF me
  <2> QED
    BY <1>6, <1>7, <1>8, <2>1, FrameKept
<1>10. ASSUME NEW v, sched' = v, Lands(sched, v, g) PROVE Core(sched', stack') /\ InheritOK'
  <2>1. PutsTop(sched, v, WithTop(stack, sched.current, g), g)
    BY <1>8, <1>9, <1>10, ReplaceOK DEF Top, me
  <2>2. PutsTop(sched, sched', stack', g)
    BY <1>2, <1>10, <2>1 DEF me
  <2> QED
    BY <1>7, <2>2, PutsKeeps
<1>11. CASE ~waits
  <2>1. Lands(sched, s, g)
    BY <1>1, <1>7, InsideLands DEF Top, me
  <2> QED
    BY <1>2, <1>10, <1>11, <2>1
<1>12. CASE waits
  <2> DEFINE c == sched.current
  <2>1. s.current = c /\ c \in Tasks \ {Idle} /\ Waiting(Top.obj) \in EventLists /\ Top.obj \in Groups
    BY GroupTop, WaitingList DEF GroupOps, Harmless, Mild, me
  <2>2. Unlinked(sched, c) /\ Ready(sched, c) /\ sched.notify[c] # "waiting" /\ sched.suspendedAll = 1
    BY <1>1, ReadyApart, BusyParts DEF Top, me
  <2>3. Unlinked(s, c) /\ s.notify[c] # "waiting" /\ s.suspendedAll = 1
    BY <2>1, <2>2 DEF Unlinked, Harmless, Mild, Milder, SchedOK, CurrentApart
  <2>10. WaitsFor(s, r, Waiting(Top.obj), Wanted)
    BY <2>1, <2>3, UnorderedWaits DEF MayWait, r
  <2>4. Leaves(s, r) /\ OnlyIn(r, s.current, Waiting(Top.obj))
    BY <2>10 DEF WaitsFor
  <2>5. \A u \in Tasks \ {c} : Milder(sched, r, u)
    BY <2>1, <2>4 DEF Leaves, Harmless, Mild, Milder
  <2>6. /\ SchedOK(r) /\ r.current = c /\ r.suspendedAll = 1 /\ ListedIn(r, r.current)
        /\ r.notify[r.current] # "waiting"
    BY <2>1, <2>3, <2>4 DEF Leaves, ListedIn
  <2>7. \A q \in Queues : ~Contains(r.events[Received(q)], r.current)
    BY <2>1, <2>4, <2>6, ReceivedList, WaitingList DEF OnlyIn
  <2>8. Runnable(r, g)
    BY <1>7, <1>12 DEF Runnable
  <2>9. Lands(sched, r, g)
    BY <1>7, <1>12, <2>5, <2>6, <2>7, <2>8 DEF Lands
  <2> QED
    BY <1>2, <1>5, <1>10, <1>12, <2>9, <2>10
<1> QED
  BY <1>11, <1>12

LEMMA PlacedNone ==
  ASSUME Busy(sched, stack), Top.op \in {"waitBits", "sync"}, Top.at = "test",
         NEW s, SchedOK(s), Harmless(sched, s), NEW met, PlaceUnless(met, s),
         \A g \in Groups : \A t \in Tasks :
           Contains(s.events[Waiting(g)], t) => ~Satisfied(s, t, group'[g].bits),
         ~met => ~Met(group'[Top.obj].bits, Top.arg.bits, Top.arg.all)
  PROVE  Core(sched', stack') /\ InheritOK' /\ NoSatisfied'
<1> DEFINE r == sched'
           c == s.current
<1>1. Core(r, stack') /\ InheritOK' /\ (r = s \/ (~met /\ WaitsFor(s, r, Waiting(Top.obj), Wanted)))
  BY PlacedOK
<1>2. SchedOK(r)
  BY <1>1 DEF Core
<1>3. ASSUME NEW g \in Groups, NEW t \in Tasks, Contains(r.events[Waiting(g)], t), r # s
      PROVE  ~Satisfied(r, t, group'[g].bits)
  <2>1. /\ ~met /\ OnlyIn(r, c, Waiting(Top.obj))
        /\ r.bits = [s.bits EXCEPT ![c] = [Wanted EXCEPT !.inUse = TRUE]]
        /\ r.events = [s.events EXCEPT ![Waiting(Top.obj)] = Append(@, c)]
    BY <1>1, <1>3 DEF WaitsFor
  <2>2. /\ s.bits = [u \in Tasks |-> s.bits[u]] /\ s.events = [l \in EventLists |-> s.events[l]]
        /\ c \in Tasks /\ Waiting(g) \in EventLists
    BY WaitingList, SchedIs DEF SchedOK, Shaped
  <2>3. CASE t = c
    <3>1. g = Top.obj
      BY <1>3, <2>1, <2>2, <2>3 DEF OnlyIn, Waiting
    <3>2. r.bits[t] = [Wanted EXCEPT !.inUse = TRUE]
      BY <2>1, <2>2, <2>3
    <3>3. r.bits[t].bits = Top.arg.bits /\ r.bits[t].all = Top.arg.all
      BY <3>2 DEF Wanted, NoBits
    <3> QED
      BY <2>1, <3>1, <3>3 DEF Satisfied
  <2>4. CASE t # c
    <3> DEFINE q == s.events[Waiting(g)]
    <3>1. r.events[Waiting(g)] \in {q, Append(q, c)}
      BY <2>1, <2>2
    <3>2. IsList(q)
      BY <2>2 DEF SchedOK, HasLists
    <3> HIDE DEF q
    <3>3. Contains(Append(q, c), t) => Contains(q, t)
      BY <2>2, <2>4, <3>2, AppendHas
    <3>4. Contains(q, t)
      BY <1>3, <3>1, <3>3
    <3>5. ~Satisfied(s, t, group'[g].bits)
      BY <3>4 DEF q
    <3>6. r.bits[t] = s.bits[t]
      BY <2>1, <2>2, <2>4
    <3> QED
      BY <3>5, <3>6 DEF Satisfied
  <2> QED
    BY <2>3, <2>4
<1>4. \A g \in Groups : \A t \in Tasks :
        Contains(r.events[Waiting(g)], t) => ~Satisfied(r, t, group'[g].bits)
  BY <1>3
<1>5. NoSatisfied'
  BY <1>2, <1>4, Unsatisfied
<1> QED
  BY <1>1, <1>5

LEMMA NoneSatisfied ==
  ASSUME SchedOK(sched), NoSatisfied, NEW g \in Groups, NEW t \in Tasks,
         Contains(sched.events[Waiting(g)], t)
  PROVE  ~Satisfied(sched, t, group[g].bits)
<1>1. t \in Range(sched.events[Waiting(g)])
  BY Waiters
<1> QED
  BY <1>1 DEF NoSatisfied

LEMMA WaitBitsTestOK ==
  ASSUME Core(sched, stack), NoSatisfied, GroupsOK, WaitBitsTest PROVE GroupsKeep
<1>1. Busy(sched, stack) /\ Top.op = "waitBits" /\ Top.at = "test" /\ SchedOK(sched)
  BY AtBusy, BusyTop DEF WaitBitsTest
<1> DEFINE g == Top.obj
           met == Met(group[g].bits, Top.arg.bits, Top.arg.all)
           b == ClearedIfMet(group[g].bits)
<1>2. g \in Groups
  BY <1>1, GroupTop DEF GroupOps
<1>3. group' = [group EXCEPT ![g].bits = b] /\ PlaceUnless(met, sched)
  BY DEF WaitBitsTest
<1>4. b \subseteq group[g].bits /\ (~met => b = group[g].bits)
  BY DEF ClearedIfMet
<1> HIDE DEF b
<1>5. GroupsOK' /\ group'[g].bits = b /\ \A h \in Groups \ {g} : group'[h] = group[h]
  BY <1>2, <1>3, BitsChange
<1>6. \A h \in Groups : group'[h].bits \subseteq group[h].bits
  BY <1>4, <1>5
<1>7. ~met => ~Met(group'[g].bits, Top.arg.bits, Top.arg.all)
  BY <1>4, <1>5
<1>8. ASSUME NEW h \in Groups, NEW t \in Tasks, Contains(sched.events[Waiting(h)], t)
      PROVE  ~Satisfied(sched, t, group'[h].bits)
  BY <1>1, <1>6, <1>8, NoneSatisfied, MetLess DEF Satisfied
<1> HIDE DEF met
<1>9. Core(sched', stack') /\ InheritOK' /\ NoSatisfied'
  BY <1>1, <1>3, <1>7, <1>8, PlacedNone, HarmlessSelf
<1> QED
  BY <1>5, <1>9 DEF GroupsKeep

LEMMA SyncTestOK ==
  ASSUME Core(sched, stack), NoSatisfied, GroupsOK, SyncTest PROVE GroupsKeep
<1>1. Busy(sched, stack) /\ Top.op = "sync" /\ Top.at = "test" /\ SchedOK(sched)
  BY AtBusy, BusyTop DEF SyncTest
<1> DEFINE g == Top.obj
           bits == group[g].bits \cup Top.arg.set
           woken == Woken(sched, g, bits)
           left == bits \ Cleared(sched, woken)
           met == Top.arg.bits \subseteq bits
           b == Rendezvous(left, met)
           s == Wake(sched, g, woken)
<1>2. g \in Groups /\ Top.arg.all
  BY <1>1, GroupTop DEF GroupOps
<1>3. group' = [group EXCEPT ![g].bits = b] /\ PlaceUnless(met, s)
  BY DEF SyncTest
<1>4. b \subseteq bits
  BY DEF Rendezvous
<1>5. ~met => ~Met(b, Top.arg.bits, Top.arg.all)
  BY <1>2, <1>4 DEF Met
<1> HIDE DEF b, met
<1>6. GroupsOK' /\ group'[g].bits = b /\ \A h \in Groups \ {g} : group'[h] = group[h]
  BY <1>2, <1>3, BitsChange
<1>7. SchedOK(s) /\ Harmless(sched, s)
  BY <1>1, <1>2, WakeOK
<1> HIDE DEF bits
<1>8. ASSUME NEW h \in Groups, NEW t \in Tasks, Contains(s.events[Waiting(h)], t)
      PROVE  ~Satisfied(s, t, group'[h].bits)
  <2>1. /\ Contains(s.events[Waiting(g)], t) => ~Satisfied(s, t, bits)
        /\ ~Satisfied(s, t, group[h].bits)
    BY <1>2, <1>8, WokenNone
  <2>2. CASE h = g
    BY <1>4, <1>6, <1>8, <2>1, <2>2, MetLess DEF Satisfied
  <2>3. CASE h # g
    BY <1>6, <2>1, <2>3
  <2> QED
    BY <2>2, <2>3
<1> HIDE DEF s
<1>9. ~met => ~Met(group'[Top.obj].bits, Top.arg.bits, Top.arg.all)
  BY <1>5, <1>6
<1>10. Core(sched', stack') /\ InheritOK' /\ NoSatisfied'
  BY <1>1, <1>3, <1>7, <1>8, <1>9, PlacedNone
<1> QED
  BY <1>6, <1>10 DEF GroupsKeep

LEMMA GroupReturnOK ==
  ASSUME Core(sched, stack), NoSatisfied, GroupsOK, GroupReturn PROVE GroupsKeep
<1>1. Busy(sched, stack) /\ Top.op \in {"waitBits", "sync"} /\ Top.at = "resume"
  BY AtBusy DEF GroupReturn, AtGroup
<1>2. Top.then \in {"return", "wait"}
  BY <1>1, BusyTop DEF FrameOK, Stage
<1>3. Holds(Top) /\ ~Awaits(Top) /\ ~Parks(sched, Top)
      /\ (Top.then = "return" => ~Grouped(Top) /\ ~Dozes(Top))
  BY <1>1 DEF Holds, Awaits, Grouped, Dozes, Parks, QueueOps
<1>4. CASE Top.then = "return"
  <2>1. Return(ResumeAll(sched)) /\ UNCHANGED group
    BY <1>4 DEF GroupReturn
  <2>2. FineStep
    BY <1>1, <1>3, <1>4, <2>1, ResumesReturn
  <2> QED
    BY <2>1, <2>2, FineKeeps, SameGroups, StepKeeps
<1>5. CASE Top.then = "wait"
  <2>1. UNCHANGED group /\ \/ GoTo("woken", ResumeAll(sched)) /\ Yielded(ResumeAll(sched))
                           \/ GoTo("yield", ResumeAll(sched))
    BY <1>5 DEF GroupReturn
  <2>2. ASSUME NEW at \in {"woken", "yield"}, GoTo(at, ResumeAll(sched)),
               at = "yield" \/ Yielded(ResumeAll(sched))
        PROVE  FineStep
    <3>1. AtTop(at).op = Top.op /\ AtTop(at).at = at
      BY <1>1, AtTopFields
    <3>2. Stage(AtTop(at)) /\ ~Holds(AtTop(at)) /\ Grouped(AtTop(at)) /\ (at = "yield" => Dozes(AtTop(at)))
      BY <1>1, <3>1 DEF Stage, Holds, Grouped, Dozes, QueueOps
    <3> QED
      BY <1>1, <1>3, <2>2, <3>2, ResumesAt
  <2>3. FineStep
    BY <2>1, <2>2
  <2> QED
    BY <2>1, <2>3, FineKeeps, SameGroups, StepKeeps
<1> QED
  BY <1>2, <1>4, <1>5

LEMMA GroupYieldOK ==
  ASSUME Core(sched, stack), NoSatisfied, GroupsOK, GroupYield PROVE GroupsKeep
<1>1. Busy(sched, stack) /\ Top.op \in {"waitBits", "sync"} /\ Top.at = "yield"
  BY AtBusy DEF GroupYield, AtGroup
<1>2. ~Holds(Top) /\ ~Awaits(Top)
  BY <1>1 DEF Holds, Awaits, QueueOps
<1>3. AtTop("woken").op = Top.op /\ AtTop("woken").at = "woken"
  BY <1>1, AtTopFields
<1>4. Stage(AtTop("woken")) /\ ~Holds(AtTop("woken")) /\ Grouped(AtTop("woken"))
  BY <1>1, <1>3 DEF Stage, Holds, Grouped, QueueOps
<1> DEFINE r == Yield(sched)
<1>5. Calm(sched, r) /\ r.pendsv
  BY <1>1, BusyTop, CalmOps, SchedIs, YieldOK
<1>6. GoTo("woken", r) /\ UNCHANGED group
  BY DEF GroupYield
<1> HIDE DEF r
<1>7. FineStep
  BY <1>1, <1>2, <1>4, <1>5, <1>6, CalmGoesTo
<1> QED
  BY <1>6, <1>7, FineKeeps, SameGroups, StepKeeps

LEMMA GroupWokenOK ==
  ASSUME Core(sched, stack), NoSatisfied, GroupsOK, GroupWoken PROVE GroupsKeep
<1>1. Busy(sched, stack) /\ Top.op \in {"waitBits", "sync"} /\ Top.at = "woken"
  BY AtBusy DEF GroupWoken, AtGroup
<1>2. ~Holds(Top) /\ ~Awaits(Top) /\ ~Dozes(Top) /\ ~Parks(sched, Top)
  BY <1>1 DEF Holds, Awaits, Dozes, Parks, QueueOps
<1> DEFINE f == Top
           at == "reset"
           flag == sched.bits[me].satisfied
           wait == MaxPriorities - sched.prio[me]
           g == [f EXCEPT !.at = at, !.flag = flag, !.wait = wait]
<1>3. sched' = sched /\ stack' = WithTop(stack, me, g) /\ UNCHANGED group
  BY DEF GroupWoken, WithTop, Top
<1>4. wait \in 1..MaxPriorities
  <2>1. sched.prio[me] \in Priorities
    BY <1>1, BusyTop DEF SchedOK, Shaped
  <2> QED
    BY <2>1, EventValue
<1>5. IsFrame(f) /\ f.op \in {"waitBits", "sync"} /\ Calm(sched, sched)
  BY <1>1, BusyTop, CalmOps
<1>6. at = "reset"
  OBVIOUS
<1> HIDE DEF f, at, flag, wait
<1>7. IsFrame(g) /\ g.op = f.op /\ g.obj = f.obj /\ g.arg = f.arg /\ g.at = at /\ g.wait = wait
  BY <1>5 DEF IsFrame, FrameFields
<1> HIDE DEF g
<1>8. Stage(g) /\ ~Holds(g) /\ Grouped(g) /\ ~Inherits(g)
  BY <1>4, <1>5, <1>6, <1>7 DEF Stage, Holds, Grouped, Inherits, QueueOps
<1>9. Lands(sched, sched, g) /\ Silent(sched, sched)
  BY <1>1, <1>2, <1>5, <1>8, CalmLands DEF Top, me
<1>10. g.op = Top.op /\ g.obj = Top.obj /\ g.arg = Top.arg
  BY <1>7 DEF f
<1>11. FineStep
  BY <1>1, <1>3, <1>7, <1>8, <1>9, <1>10, ReplacesTop
<1> QED
  BY <1>3, <1>11, FineKeeps, SameGroups, StepKeeps

LEMMA GroupResetOK ==
  ASSUME Core(sched, stack), NoSatisfied, GroupsOK, GroupReset PROVE GroupsKeep
<1>1. Busy(sched, stack) /\ Top.op \in {"waitBits", "sync"} /\ Top.at = "reset"
  BY AtBusy DEF GroupReset, AtGroup
<1>2. ~Holds(Top) /\ ~Awaits(Top) /\ ~Dozes(Top) /\ ~Parks(sched, Top)
  BY <1>1 DEF Holds, Awaits, Dozes, Parks, QueueOps
<1>3. Top.wait \in 1..MaxPriorities
  BY <1>1, BusyTop DEF FrameOK, Stage
<1> DEFINE r == ItemReset(sched, Top.wait)
           c == sched.current
<1>4. UNCHANGED group /\ (Return(r) \/ GoTo("test again", r))
  BY DEF GroupReset, ItemReset, me
<1>5. SchedOK(sched) /\ TopOf(stack, c) = Top /\ Core(sched, stack) /\ ~sched.pendsv
  BY <1>1, BusyTop DEF me, Busy
<1>6. /\ SchedOK(r) /\ Harmless(sched, r)
      /\ r.evValue[r.current] \in 1..MaxPriorities
      /\ \A u \in Tasks \ {c} : r.bits[u] = sched.bits[u]
  BY <1>3, <1>5, ItemResetOK
<1> HIDE DEF r
<1>7. Unlinked(sched, c)
  BY <1>1, <1>2, ReadyApart DEF Top, me
<1>8. Silent(sched, r)
  BY <1>6, <1>7, WaitingList DEF Silent, Unlinked, Harmless, Mild, Milder
<1>9. ASSUME NEW g, ~Holds(g) PROVE Lands(sched, r, g)
  <2>1. Moves(sched, r, TopOf(stack, c), g)
    BY <1>2, <1>5, <1>6, <1>9, HarmlessMoves
  <2> QED
    BY <1>5, <2>1, MovesLands
<1>10. ~Holds(NoFrame) /\ Top.op \notin {"waitRestricted", "idle"}
  BY <1>1 DEF NoFrame, Holds, QueueOps
<1>11. AtTop("test again").op = Top.op /\ AtTop("test again").at = "test again"
  BY <1>1, AtTopFields
<1>12. Stage(AtTop("test again")) /\ ~Holds(AtTop("test again"))
  BY <1>1, <1>11 DEF Stage, Holds, QueueOps
<1>13. FineStep
  BY <1>1, <1>4, <1>8, <1>9, <1>10, <1>12, ReturnsTo, LandsAt
<1> QED
  BY <1>4, <1>13, FineKeeps, SameGroups, StepKeeps

LEMMA GroupTestAgainOK ==
  ASSUME Core(sched, stack), NoSatisfied, GroupsOK, GroupTestAgain PROVE GroupsKeep
<1>1. Busy(sched, stack) /\ Top.op \in {"waitBits", "sync"} /\ Top.at = "test again"
  BY AtBusy DEF GroupTestAgain, AtGroup
<1>2. Quiet(sched, Top)
  BY <1>1 DEF Quiet, Holds, Dozes, Parks, Awaits, Grouped, QueueOps
<1>3. Calm(sched, sched) /\ Return(sched)
  BY <1>1, BusyTop, CalmOps DEF GroupTestAgain
<1>4. FineStep
  BY <1>1, <1>2, <1>3, QuietReturns
<1> DEFINE g == Top.obj
           b == ClearedIfMet(group[g].bits)
<1>5. g \in Groups
  BY <1>1, GroupTop DEF GroupOps
<1>6. group' = [group EXCEPT ![g].bits = b] /\ b \subseteq group[g].bits
  BY DEF GroupTestAgain, ClearedIfMet
<1> HIDE DEF b, g
<1> QED
  BY <1>4, <1>5, <1>6, FineKeeps, FewerBits, StepKeeps

LEMMA GroupStepFine ==
  ASSUME Core(sched, stack), NoSatisfied, GroupsOK, GroupStep
  PROVE  GroupsKeep /\ UNCHANGED scenario
<1>1. GroupsKeep
  BY SuspendsGroups, SetBitsWalkOK, DeleteGroupWalkOK, QuietGroups, GroupResumeOK, StepKeeps,
     WaitBitsTestOK, SyncTestOK, GroupReturnOK, GroupYieldOK, GroupWokenOK, GroupResetOK,
     GroupTestAgainOK DEF GroupStep
<1>2. ASSUME SetBits \/ SetBitsWalk \/ ClearBits \/ GroupResume \/ CreateGroup \/ DeleteGroup \/ DeleteGroupWalk
      PROVE  UNCHANGED scenario
  BY <1>2 DEF SetBits, SetBitsWalk, ClearBits, GroupResume, CreateGroup, DeleteGroup, DeleteGroupWalk,
              GoTo, Return
<1>3. ASSUME GroupSuspend \/ WaitBitsTest \/ SyncTest \/ GroupReturn \/ GroupYield
             \/ GroupWoken \/ GroupReset \/ GroupTestAgain
      PROVE  UNCHANGED scenario
  BY <1>3 DEF GroupSuspend, WaitBitsTest, SyncTest, GroupReturn, GroupYield, GroupWoken, GroupReset,
              GroupTestAgain, GoTo, Return, PlaceUnless
<1> QED
  BY <1>1, <1>2, <1>3 DEF GroupStep

----------------------------------------------------------------------------
(* Stream buffers. *)

StreamOps == {"sendStream", "receiveStream", "nextLength"}

(* The top frame becomes another of the same call. *)
LEMMA ReplacesFrame ==
  ASSUME Busy(sched, stack), NEW g, FrameOK(me, g), g.op = Top.op, NEW r, sched' = r,
         stack' = WithTop(stack, me, g), Lands(sched, r, g), Silent(sched, r), ~Inherits(g)
  PROVE  FineStep
<1>1. PutsTop(sched, r, WithTop(stack, sched.current, g), g)
  BY ReplaceOK DEF Top, me
<1>2. PutsTop(sched, sched', stack', g)
  BY <1>1 DEF me
<1> QED
  BY <1>2 DEF FineStep, Fine, PutsTop

LEMMA StreamFrame ==
  ASSUME Busy(sched, stack), Top.op \in StreamOps, NEW g, IsFrame(g), g.op = Top.op, g.obj = Top.obj
  PROVE  FrameOK(me, g) /\ ~Inherits(g)
<1>1. Proper(Top) /\ me # Idle
  BY BusyTop DEF StreamOps
<1>2. Proper(g)
  BY <1>1 DEF Proper, StreamOps, QueueOps
<1>3. Stage(g)
  BY DEF Stage, StreamOps, QueueOps
<1> QED
  BY <1>1, <1>2, <1>3 DEF FrameOK, Inherits, StreamOps

LEMMA StreamFrameStep ==
  ASSUME Busy(sched, stack), Top.op \in StreamOps, Quiet(sched, Top),
         NEW g, IsFrame(g), g.op = Top.op, g.obj = Top.obj, g.at \notin {"wake", "resume"},
         NEW r, Calm(sched, r), sched' = r, stack' = WithTop(stack, me, g)
  PROVE  FineStep
<1>1. FrameOK(me, g) /\ ~Inherits(g)
  BY StreamFrame
<1>2. ~Holds(g)
  BY DEF Holds, StreamOps, QueueOps
<1>3. Lands(sched, r, g)
  BY <1>2, QuietLands DEF Calm, Top, me
<1>4. Silent(sched, r)
  BY SilentMild DEF Calm, Harmless
<1> QED
  BY <1>1, <1>3, <1>4, ReplacesFrame

LEMMA StreamQuiet ==
  ASSUME Top.op \in StreamOps \cup {"resetStream", "setTrigger"}, Top.at \notin {"wake", "resume", "yield"}
  PROVE  Quiet(sched, Top) /\ Top.op \notin {"waitRestricted", "idle"}
BY DEF Quiet, Holds, Dozes, Parks, Awaits, Grouped, QueueOps, StreamOps

(* The call remembers what it has seen, or where it has begun. *)
LEMMA Sees ==
  ASSUME Busy(sched, stack), Top.op \in StreamOps, Quiet(sched, Top),
         NEW at, at \notin {"wake", "resume"}, NEW r, Calm(sched, r), sched' = r,
         NEW x, \/ stack' = [stack EXCEPT ![me][1] = [@ EXCEPT !.at = at, !.arg.seen = x]]
                \/ stack' = [stack EXCEPT ![me][1] = [@ EXCEPT !.at = at, !.arg.tail = x]]
                \/ \E y : stack' = [stack EXCEPT ![me][1] = [@ EXCEPT !.wait = y, !.at = at]]
  PROVE  FineStep
<1> DEFINE f == Top
           a1 == [f.arg EXCEPT !.seen = x]
           a2 == [f.arg EXCEPT !.tail = x]
           g(a) == [f EXCEPT !.at = at, !.arg = a]
           h(y) == [f EXCEPT !.wait = y, !.at = at]
<1>1. IsFrame(f)
  BY BusyTop
<1>2. \/ \E a : stack' = WithTop(stack, me, g(a))
      \/ \E y : stack' = WithTop(stack, me, h(y))
  <2>1. CASE stack' = [stack EXCEPT ![me][1] = [@ EXCEPT !.at = at, !.arg.seen = x]]
    <3>1. stack' = WithTop(stack, me, g(a1))
      BY <2>1 DEF WithTop, Top
    <3> QED
      BY <3>1
  <2>2. CASE stack' = [stack EXCEPT ![me][1] = [@ EXCEPT !.at = at, !.arg.tail = x]]
    <3>1. stack' = WithTop(stack, me, g(a2))
      BY <2>2 DEF WithTop, Top
    <3> QED
      BY <3>1
  <2>3. CASE \E y : stack' = [stack EXCEPT ![me][1] = [@ EXCEPT !.wait = y, !.at = at]]
    <3>1. PICK y : stack' = [stack EXCEPT ![me][1] = [@ EXCEPT !.wait = y, !.at = at]]
      BY <2>3
    <3>2. stack' = WithTop(stack, me, h(y))
      BY <3>1 DEF WithTop, Top
    <3> QED
      BY <3>2
  <2> QED
    BY <2>1, <2>2, <2>3
<1>3. f.op = Top.op /\ f.obj = Top.obj
  OBVIOUS
<1> HIDE DEF f
<1>4. ASSUME NEW k, IsFrame(k), k.op = f.op, k.obj = f.obj, k.at = at, stack' = WithTop(stack, me, k)
      PROVE  FineStep
  BY <1>3, <1>4, StreamFrameStep
<1>5. ASSUME NEW a, stack' = WithTop(stack, me, g(a)) PROVE FineStep
  <2> DEFINE k == g(a)
  <2>1. IsFrame(k) /\ k.op = f.op /\ k.obj = f.obj /\ k.at = at
    BY <1>1 DEF IsFrame, FrameFields
  <2>2. stack' = WithTop(stack, me, k)
    BY <1>5
  <2> HIDE DEF k
  <2> QED
    BY <1>4, <2>1, <2>2
<1>6. ASSUME NEW y, stack' = WithTop(stack, me, h(y)) PROVE FineStep
  <2> DEFINE k == h(y)
  <2>1. IsFrame(k) /\ k.op = f.op /\ k.obj = f.obj /\ k.at = at
    BY <1>1 DEF IsFrame, FrameFields
  <2>2. stack' = WithTop(stack, me, k)
    BY <1>6
  <2> HIDE DEF k
  <2> QED
    BY <1>4, <2>1, <2>2
<1> HIDE DEF g, h
<1> QED
  BY <1>2, <1>5, <1>6

LEMMA StateClearedCalm ==
  ASSUME SchedOK(sched), me \in Tasks
  PROVE  Calm(sched, StateCleared(sched))
<1> DEFINE v == IF sched.notify[me] = "received" THEN "not waiting" ELSE sched.notify[me]
           n == [sched.notify EXCEPT ![me] = v]
           r == [sched EXCEPT !.notify = n]
<1>1. IsSched(sched) /\ WF(sched)
  BY SchedIs
<1>2. n = [t \in Tasks |-> n[t]] /\ \A t \in Tasks : n[t] = "waiting" => sched.notify[t] = "waiting"
  BY <1>1 DEF WF, Shaped
<1>3. StateCleared(sched) = r
  BY DEF StateCleared
<1> HIDE DEF n
<1>4. IsSched(r) /\ r.notify = n
  BY <1>1 DEF IsSched, SchedFields
<1>5. Same(sched, r, {"notify"})
  BY <1>1 DEF IsSched, Same, SchedFields
<1>6. r.evValue = sched.evValue /\ r.base = sched.base
  BY <1>5 DEF Same, SchedFields
<1>7. Same(sched, r, {"notify", "value", "evValue", "held", "base"})
  BY <1>5 DEF Same
<1> HIDE DEF r
<1>8. SchedOK(r) /\ Harmless(sched, r)
  BY <1>1, <1>2, <1>4, <1>6, <1>7, NotifyOK DEF WF, Shaped
<1> QED
  BY <1>3, <1>5, <1>8, SameBits DEF Calm

(* The fields of a buffer. *)
IsStream(n) ==
  /\ n = [k \in StreamFields |-> n[k]]
  /\ n.reader \in Tasks \cup {NoOne} /\ n.writer \in Tasks \cup {NoOne}

LEMMA StreamIs == ASSUME PeersOK, NEW b \in Streams PROVE IsStream(stream[b])
BY DEF PeersOK, IsStream

LEMMA StreamChanged ==
  ASSUME PeersOK, NEW b \in Streams, NEW n, IsStream(n), stream' = [stream EXCEPT ![b] = n]
  PROVE  PeersOK'
<1>1. stream' = [c \in Streams |-> stream'[c]] /\ stream'[b] = n
      /\ \A c \in Streams \ {b} : stream'[c] = stream[c]
  BY DEF PeersOK
<1>2. \A c \in Streams : IsStream(stream'[c])
  BY <1>1, StreamIs
<1> QED
  BY <1>1, <1>2 DEF PeersOK, IsStream

LEMMA FieldsChanged ==
  ASSUME NEW m, IsStream(m), NEW p \in Tasks \cup {NoOne}, NEW x, NEW y
  PROVE  /\ IsStream([m EXCEPT !.reader = p]) /\ IsStream([m EXCEPT !.writer = p])
         /\ IsStream([m EXCEPT !.tail = x]) /\ IsStream([m EXCEPT !.trigger = x])
         /\ IsStream([m EXCEPT !.storage = x, !.head = y])
         /\ IsStream([m EXCEPT !.tail = x, !.writer = p])
BY DEF IsStream, StreamFields

LEMMA SetsReader ==
  ASSUME PeersOK, NEW b \in Streams, NEW p \in Tasks \cup {NoOne},
         stream' = [stream EXCEPT ![b].reader = p] \/ stream' = [stream EXCEPT ![b].writer = p]
  PROVE  PeersOK'
<1> DEFINE n == [stream[b] EXCEPT !.reader = p]
           m == [stream[b] EXCEPT !.writer = p]
<1>1. IsStream(n) /\ IsStream(m)
  BY StreamIs, FieldsChanged
<1>2. stream' = [stream EXCEPT ![b] = n] \/ stream' = [stream EXCEPT ![b] = m]
  OBVIOUS
<1> HIDE DEF n, m
<1> QED
  BY <1>1, <1>2, StreamChanged

LEMMA MovesTail ==
  ASSUME PeersOK, NEW b \in Streams, NEW x,
         stream' = [stream EXCEPT ![b].tail = x] \/ stream' = [stream EXCEPT ![b].trigger = x]
  PROVE  PeersOK'
<1> DEFINE n == [stream[b] EXCEPT !.tail = x]
           m == [stream[b] EXCEPT !.trigger = x]
<1>1. IsStream(n) /\ IsStream(m)
  BY StreamIs, FieldsChanged
<1>2. stream' = [stream EXCEPT ![b] = n] \/ stream' = [stream EXCEPT ![b] = m]
  OBVIOUS
<1> HIDE DEF n, m
<1> QED
  BY <1>1, <1>2, StreamChanged

LEMMA WrittenIs == ASSUME PeersOK, NEW b \in Streams, NEW cells PROVE IsStream(Written(b, cells))
<1> DEFINE x == [i \in DOMAIN stream[b].storage |->
                   LET n == Around(b, i - stream[b].head) + 1
                   IN  IF n <= Len(cells) THEN cells[n] ELSE stream[b].storage[i]]
           y == Around(b, stream[b].head + Len(cells))
           m == stream[b]
<1>1. Written(b, cells) = [m EXCEPT !.storage = x, !.head = y]
  BY DEF Written
<1>2. IsStream(m) /\ NoOne \in Tasks \cup {NoOne}
  BY StreamIs
<1> HIDE DEF x, y, m
<1>3. IsStream([m EXCEPT !.storage = x, !.head = y])
  BY <1>2, FieldsChanged
<1> QED
  BY <1>1, <1>3

LEMMA NewStreamIs == ASSUME NEW b, NEW x PROVE IsStream(NewStream(b, x))
BY DEF IsStream, StreamFields, NewStream

StreamStepOK == FineStep /\ PeersOK'

LEMMA FineStreams ==
  ASSUME FineStep, PeersOK, UNCHANGED stream
  PROVE  StreamStepOK
BY DEF StreamStepOK, PeersOK

LEMMA AtStreamTop ==
  ASSUME Core(sched, stack), NEW at, AtStream(at)
  PROVE  Busy(sched, stack) /\ Top.op \in {"sendStream", "receiveStream"} /\ Top.op \in StreamOps
         /\ Top.at = at
<1>1. At("sendStream", at) \/ At("receiveStream", at)
  BY DEF AtStream
<1>2. CASE At("sendStream", at)
  BY <1>2, AtBusy DEF StreamOps
<1>3. CASE At("receiveStream", at)
  BY <1>3, AtBusy DEF StreamOps
<1> QED
  BY <1>1, <1>2, <1>3

LEMMA StreamTop ==
  ASSUME Busy(sched, stack), Top.op \in StreamOps \cup {"resetStream", "setTrigger"}
  PROVE  Top.obj \in Streams /\ me \in Tasks \ {Idle} /\ Calm(sched, sched) /\ SchedOK(sched)
<1>1. Proper(Top) /\ me \in Tasks \ {Idle} /\ SchedOK(sched)
  BY BusyTop DEF StreamOps
<1> QED
  BY <1>1, CalmOps DEF Proper, StreamOps

(* A step that does nothing but go on or return. *)
LEMMA StreamGoes ==
  ASSUME Busy(sched, stack), Top.op \in StreamOps \cup {"resetStream", "setTrigger"},
         Quiet(sched, Top), NEW at, at \notin {"wake", "resume", "yield", "inherit"}, NEW r, Calm(sched, r),
         GoTo(at, r) \/ Return(r)
  PROVE  FineStep
<1>1. CASE Return(r)
  BY <1>1, QuietReturns DEF StreamOps
<1>2. CASE GoTo(at, r)
  <2>1. AtTop(at).op = Top.op /\ AtTop(at).at = at
    BY AtTopFields
  <2>2. Stage(AtTop(at)) /\ ~Holds(AtTop(at))
    BY <2>1 DEF Stage, Holds, StreamOps, QueueOps
  <2> QED
    BY <1>2, <2>2, QuietGoesTo
<1> QED
  BY <1>1, <1>2

LEMMA AwaitPeerOK == ASSUME Core(sched, stack), PeersOK, AwaitPeer PROVE StreamStepOK
<1>1. Busy(sched, stack) /\ Top.op \in {"sendStream", "receiveStream"} /\ Top.op \in StreamOps
      /\ Top.at = "wait"
  BY AtStreamTop DEF AwaitPeer, AtStream
<1> DEFINE f == Top
           n == "notified"
           g == [f EXCEPT !.at = n]
           call == [op |-> "notifyWait", obj |-> me, arg |-> <<0, 0>>, wait |-> Top.wait]
           h == Frame(call)
           w == <<h, g>>
<1>2. IsFrame(f) /\ me \in Tasks \ {Idle}
  BY <1>1, BusyTop, StreamTop
<1>3. Quiet(sched, Top)
  BY <1>1, StreamQuiet
<1>4. stack' = [stack EXCEPT ![me] = w] /\ sched' = sched /\ UNCHANGED stream
  <2>1. /\ stack' = [stack EXCEPT ![me] = <<h, [stack[me][1] EXCEPT !.at = n]>> \o Tail(stack[me])]
        /\ sched' = sched /\ UNCHANGED stream
    BY DEF AwaitPeer
  <2>2. Tail(stack[me]) = << >>
    <3> DEFINE a == stack[me][1]
               b == stack[me][2]
    <3>1. StackOK(stack) /\ stack[me] # << >> /\ a.op \in {"sendStream", "receiveStream"}
      BY <1>1, BusyTop DEF Busy, Top, me
    <3>2. stack[me] = <<a>> \/ (stack[me] = <<a, b>> /\ Over(a, b))
      BY <1>2, <3>1 DEF StackOK
    <3>3. ~Over(a, b)
      BY <3>1 DEF Over
    <3>4. stack[me] = <<a>>
      BY <3>2, <3>3
    <3> HIDE DEF a
    <3> QED
      BY <3>4, Tails
  <2>3. <<h, [stack[me][1] EXCEPT !.at = n]>> \o << >> = <<h, [stack[me][1] EXCEPT !.at = n]>>
    <3> DEFINE k == [stack[me][1] EXCEPT !.at = n]
    <3> HIDE DEF h, k
    <3>1. <<h, k>> \in Seq({h, k})
      OBVIOUS
    <3>2. <<h, k>> \o << >> = <<h, k>>
      BY <3>1, ConcatEmptySeq
    <3> QED
      BY <3>2 DEF k
  <2> QED
    BY <2>1, <2>2, <2>3 DEF Top
<1>5. f.op = Top.op /\ f.obj = Top.obj
  OBVIOUS
<1> HIDE DEF f
<1>6. IsFrame(g) /\ g.op = Top.op /\ g.obj = Top.obj /\ g.at = n
  BY <1>2, <1>5 DEF IsFrame, FrameFields
<1>7. Proper(call)
  BY DEF Proper, QueueOps
<1>8. call.op = "notifyWait"
  OBVIOUS
<1> HIDE DEF g, call
<1>9. FrameOK(me, h) /\ h.op = "notifyWait" /\ ~Holds(h) /\ ~Inherits(h)
  BY <1>2, <1>7, <1>8, StartFrame
<1>10. FrameOK(me, g)
  BY <1>1, <1>6, StreamFrame
<1>11. Over(h, g)
  BY <1>1, <1>6, <1>9 DEF Over
<1> HIDE DEF h
<1>12. w = <<w[1], w[2]>> /\ w[1] = h /\ w[2] = g /\ w # << >>
  BY Tails
<1>13. StackOf(me, w) /\ FirstOf(w) = h
  BY <1>9, <1>10, <1>11, <1>12 DEF StackOf, FirstOf
<1> HIDE DEF w
<1>14. Lands(sched, sched, FirstOf(w))
  <2>1. Calm(sched, sched)
    BY <1>1, StreamTop
  <2> QED
    BY <1>1, <1>3, <1>9, <1>13, <2>1, QuietLands DEF Calm, Top, me
<1>15. Core(sched, [stack EXCEPT ![me] = w])
  BY <1>1, <1>13, <1>14, Landed DEF Busy, me
<1>16. stack'[me] = w
  BY <1>2, <1>4, <1>1, BusyTop DEF StackOK
<1>17. TopOf(stack', me) = h
  BY <1>13, <1>16 DEF TopOf, FirstOf
<1>18. Silent(sched, sched)
  BY DEF Silent
<1>19. FineStep
  BY <1>4, <1>9, <1>15, <1>17, <1>18 DEF FineStep, Fine, me
<1> QED
  BY <1>4, <1>19, FineStreams

LEMMA CompletedOK == ASSUME Core(sched, stack), PeersOK, Completed PROVE StreamStepOK
<1>1. Busy(sched, stack) /\ Top.op \in {"sendStream", "receiveStream"} /\ Top.op \in StreamOps
      /\ Top.at = "completed"
  BY AtStreamTop DEF Completed
<1>2. Quiet(sched, Top)
  BY <1>1, StreamQuiet
<1>3. AtTop("wake").op = Top.op /\ AtTop("wake").at = "wake"
  BY <1>1, AtTopFields
<1>4. Stage(AtTop("wake")) /\ Holds(AtTop("wake"))
  BY <1>1, <1>3 DEF Stage, Holds, QueueOps
<1>5. FineStep
  BY <1>1, <1>2, <1>4, Suspends DEF Completed
<1> QED
  BY <1>5, FineStreams DEF Completed

LEMMA WakePeerOK == ASSUME Core(sched, stack), PeersOK, WakePeer PROVE StreamStepOK
<1>1. Busy(sched, stack) /\ Top.op \in {"sendStream", "receiveStream"} /\ Top.op \in StreamOps
      /\ Top.at = "wake"
  BY AtStreamTop DEF WakePeer
<1>2. Holds(Top) /\ ~Awaits(Top) /\ ~Grouped(Top) /\ ~Dozes(Top) /\ ~Parks(sched, Top)
  BY <1>1 DEF Holds, Awaits, Grouped, Dozes, Parks, QueueOps
<1>3. AtTop("resume").op = Top.op /\ AtTop("resume").at = "resume"
  BY <1>1, AtTopFields
<1>4. Stage(AtTop("resume")) /\ Holds(AtTop("resume"))
  BY <1>1, <1>3 DEF Stage, Holds, QueueOps
<1>5. Top.obj \in Streams /\ Calm(sched, sched) /\ SchedOK(sched)
  BY <1>1, StreamTop
<1> DEFINE peer == stream[Top.obj][Peer(Top.op)]
           r == IF peer = NoOne THEN sched ELSE GenericNotify(sched, peer, 0, "none")
<1>6. peer \in Tasks \cup {NoOne}
  BY <1>5, StreamIs DEF Peer, IsStream
<1>7. GoTo("resume", r)
  BY DEF WakePeer
<1> HIDE DEF peer
<1>8. Calm(sched, r)
  <2>1. CASE peer = NoOne
    BY <1>5, <2>1
  <2>2. CASE peer # NoOne
    <3>1. Calm(sched, GenericNotify(sched, peer, 0, "none"))
      BY <1>5, <1>6, <2>2, CalmNotifies
    <3> QED
      BY <2>2, <3>1
  <2> QED
    BY <2>1, <2>2
<1> HIDE DEF r
<1>9. FineStep
  BY <1>1, <1>2, <1>4, <1>7, <1>8, HoldingGoesTo
<1>10. \/ stream' = [stream EXCEPT ![Top.obj].reader = NoOne]
       \/ stream' = [stream EXCEPT ![Top.obj].writer = NoOne]
  <2>1. CASE Top.op = "sendStream"
    BY <2>1 DEF WakePeer, Peer
  <2>2. CASE Top.op = "receiveStream"
    BY <2>2 DEF WakePeer, Peer
  <2> QED
    BY <1>1, <2>1, <2>2
<1>11. PeersOK'
  BY <1>5, <1>10, SetsReader
<1> QED
  BY <1>9, <1>11 DEF StreamStepOK

LEMMA StreamResumeOK == ASSUME Core(sched, stack), PeersOK, StreamResume PROVE StreamStepOK
<1>1. Busy(sched, stack) /\ Top.op \in {"sendStream", "receiveStream"} /\ Top.op \in StreamOps
      /\ Top.at = "resume"
  BY AtStreamTop DEF StreamResume
<1>2. Holds(Top) /\ ~Awaits(Top) /\ ~Grouped(Top) /\ ~Dozes(Top) /\ ~Parks(sched, Top)
  BY <1>1 DEF Holds, Awaits, Grouped, Dozes, Parks, QueueOps
<1>3. FineStep
  BY <1>1, <1>2, ResumesReturn DEF StreamResume
<1> QED
  BY <1>3, FineStreams DEF StreamResume

LEMMA AtStreamOp ==
  ASSUME Core(sched, stack), NEW op \in StreamOps \cup {"resetStream", "setTrigger"},
         NEW at, at \notin {"wake", "resume", "yield"}, At(op, at)
  PROVE  /\ Busy(sched, stack) /\ Top.op = op /\ Top.at = at /\ Quiet(sched, Top)
         /\ Top.obj \in Streams /\ me \in Tasks \ {Idle} /\ Calm(sched, sched) /\ SchedOK(sched)
<1>1. Busy(sched, stack) /\ Top.op = op /\ Top.at = at
  BY AtBusy
<1> QED
  BY <1>1, StreamTop, StreamQuiet

LEMMA SendStreamOK == ASSUME Core(sched, stack), PeersOK, SendStream PROVE StreamStepOK
<1>1. /\ Busy(sched, stack) /\ Top.op = "sendStream" /\ Quiet(sched, Top)
      /\ Calm(sched, sched) /\ SchedOK(sched)
  BY AtStreamOp DEF SendStream, StreamOps
<1>2. Calm(sched, SetTimeOut(sched, Top.wait))
  BY <1>1, CalmOps
<1>3. GoTo("measure", sched) \/ GoTo("space", SetTimeOut(sched, Top.wait))
  BY DEF SendStream
<1>4. FineStep
  <2>1. CASE GoTo("measure", sched)
    BY <1>1, <2>1, StreamGoes DEF StreamOps
  <2>2. CASE GoTo("space", SetTimeOut(sched, Top.wait))
    BY <1>1, <1>2, <2>2, StreamGoes DEF StreamOps
  <2> QED
    BY <1>3, <2>1, <2>2
<1> QED
  BY <1>4, FineStreams DEF SendStream

LEMMA SendStreamSpaceOK == ASSUME Core(sched, stack), PeersOK, SendStreamSpace PROVE StreamStepOK
<1>1. /\ Busy(sched, stack) /\ Top.op = "sendStream" /\ Quiet(sched, Top) /\ Top.obj \in Streams
      /\ Calm(sched, sched) /\ SchedOK(sched) /\ me \in Tasks
  BY AtStreamOp DEF SendStreamSpace, StreamOps
<1> DEFINE space == SpacesAvailable(Top.obj)
           short == space < Required(Top.obj, Top.arg.cells)
           at == IF short THEN "wait" ELSE "measure"
           r == IF short THEN StateCleared(sched) ELSE sched
           p == IF short THEN me ELSE stream[Top.obj].writer
<1>2. SeeIn(at, space, r) /\ stream' = [stream EXCEPT ![Top.obj].writer = p]
  BY DEF SendStreamSpace
<1>3. Calm(sched, r)
  BY <1>1, StateClearedCalm
<1>4. p \in Tasks \cup {NoOne}
  BY <1>1, StreamIs DEF IsStream
<1>5. at \notin {"wake", "resume"}
  OBVIOUS
<1> HIDE DEF at, r, p, space, short
<1>6. FineStep
  BY <1>1, <1>2, <1>3, <1>5, Sees DEF SeeIn, StreamOps
<1>7. PeersOK'
  BY <1>1, <1>2, <1>4, SetsReader
<1> QED
  BY <1>6, <1>7 DEF StreamStepOK

LEMMA NotifiedOK ==
  ASSUME Core(sched, stack), PeersOK, SendStreamNotified \/ ReceiveStreamNotified
  PROVE  StreamStepOK
<1>1. CASE SendStreamNotified
  <2>1. /\ Busy(sched, stack) /\ Top.op = "sendStream" /\ Quiet(sched, Top) /\ Top.obj \in Streams
        /\ Calm(sched, sched)
    BY <1>1, AtStreamOp DEF SendStreamNotified, StreamOps
  <2>2. FineStep
    BY <1>1, <2>1, StreamGoes DEF SendStreamNotified, StreamOps
  <2>3. PeersOK'
    BY <1>1, <2>1, SetsReader DEF SendStreamNotified
  <2> QED
    BY <2>2, <2>3 DEF StreamStepOK
<1>2. CASE ReceiveStreamNotified
  <2>1. /\ Busy(sched, stack) /\ Top.op = "receiveStream" /\ Quiet(sched, Top) /\ Top.obj \in Streams
        /\ Calm(sched, sched)
    BY <1>2, AtStreamOp DEF ReceiveStreamNotified, StreamOps
  <2>2. FineStep
    BY <1>2, <2>1, StreamGoes DEF ReceiveStreamNotified, StreamOps
  <2>3. PeersOK'
    BY <1>2, <2>1, SetsReader DEF ReceiveStreamNotified
  <2> QED
    BY <2>2, <2>3 DEF StreamStepOK
<1> QED
  BY <1>1, <1>2

LEMMA SendStreamCheckOK == ASSUME Core(sched, stack), PeersOK, SendStreamCheck PROVE StreamStepOK
<1>1. /\ Busy(sched, stack) /\ Top.op = "sendStream" /\ Quiet(sched, Top) /\ SchedOK(sched)
  BY AtStreamOp DEF SendStreamCheck, StreamOps
<1> DEFINE c == CheckForTimeOut(sched, Top.wait)
           r == c.s
           left == c.left
           at == IF c.yes THEN "measure" ELSE "space"
<1>2. Calm(sched, r)
  BY <1>1, CalmOps
<1>3. sched' = r /\ stack' = [stack EXCEPT ![me][1] = [@ EXCEPT !.wait = left, !.at = at]]
  BY DEF SendStreamCheck
<1>4. at \notin {"wake", "resume"}
  OBVIOUS
<1> HIDE DEF c, r, left, at
<1>5. FineStep
  BY <1>1, <1>2, <1>3, <1>4, Sees DEF StreamOps
<1> QED
  BY <1>5, FineStreams DEF SendStreamCheck

LEMMA MeasureOK ==
  ASSUME Core(sched, stack), PeersOK, SendStreamMeasure \/ ReceiveStreamMeasure
  PROVE  StreamStepOK
<1>1. CASE SendStreamMeasure
  <2>1. /\ Busy(sched, stack) /\ Top.op = "sendStream" /\ Quiet(sched, Top) /\ SchedOK(sched)
    BY <1>1, AtStreamOp DEF SendStreamMeasure, StreamOps
  <2> DEFINE at == IF IsMessages[Top.obj] THEN "header" ELSE "write"
             seen == IF Top.arg.seen = 0 THEN SpacesAvailable(Top.obj) ELSE Top.arg.seen
             r == ForgetTimeOut(sched)
  <2>2. SeeIn(at, seen, r)
    BY <1>1 DEF SendStreamMeasure
  <2>3. Calm(sched, r)
    BY <2>1, CalmOps
  <2>4. at \notin {"wake", "resume"}
    OBVIOUS
  <2> HIDE DEF at, seen, r
  <2>5. FineStep
    BY <2>1, <2>2, <2>3, <2>4, Sees DEF SeeIn, StreamOps
  <2> QED
    BY <1>1, <2>5, FineStreams DEF SendStreamMeasure
<1>2. CASE ReceiveStreamMeasure
  <2>1. /\ Busy(sched, stack) /\ Top.op = "receiveStream" /\ Quiet(sched, Top) /\ Calm(sched, sched)
    BY <1>2, AtStreamOp DEF ReceiveStreamMeasure, StreamOps
  <2> DEFINE seen == CellsInBuffer(Top.obj)
  <2>2. SeeIn("read", seen, sched)
    BY <1>2 DEF ReceiveStreamMeasure
  <2> HIDE DEF seen
  <2>5. FineStep
    BY <2>1, <2>2, Sees DEF SeeIn, StreamOps
  <2> QED
    BY <1>2, <2>5, FineStreams DEF ReceiveStreamMeasure
<1> QED
  BY <1>1, <1>2

LEMMA WritesOK ==
  ASSUME PeersOK, NEW b \in Streams, NEW cells, Write(b, cells)
  PROVE  PeersOK'
<1>1. IsStream(Written(b, cells))
  BY WrittenIs
<1> QED
  BY <1>1, StreamChanged DEF Write

LEMMA SendStreamWriteOK ==
  ASSUME Core(sched, stack), PeersOK, SendStreamHeader \/ SendStreamWrite
  PROVE  StreamStepOK
<1>1. /\ Busy(sched, stack) /\ Top.op = "sendStream" /\ Quiet(sched, Top) /\ Top.obj \in Streams
      /\ Calm(sched, sched)
  BY AtStreamOp DEF SendStreamHeader, SendStreamWrite, StreamOps
<1>2. \/ Return(sched) /\ UNCHANGED stream
      \/ /\ GoTo("write", sched) \/ GoTo("look", sched)
         /\ \E cells : Write(Top.obj, cells)
  BY DEF SendStreamHeader, SendStreamWrite
<1>3. CASE Return(sched) /\ UNCHANGED stream
  <2>1. FineStep
    BY <1>1, <1>3, StreamGoes DEF StreamOps
  <2> QED
    BY <1>3, <2>1, FineStreams
<1>4. ASSUME GoTo("write", sched) \/ GoTo("look", sched), NEW cells, Write(Top.obj, cells)
      PROVE  StreamStepOK
  <2>1. FineStep
    <3>1. CASE GoTo("write", sched)
      BY <1>1, <3>1, StreamGoes DEF StreamOps
    <3>2. CASE GoTo("look", sched)
      BY <1>1, <3>2, StreamGoes DEF StreamOps
    <3> QED
      BY <1>4, <3>1, <3>2
  <2>2. PeersOK'
    BY <1>1, <1>4, WritesOK
  <2> QED
    BY <2>1, <2>2 DEF StreamStepOK
<1> QED
  BY <1>2, <1>3, <1>4

LEMMA SendStreamLookOK == ASSUME Core(sched, stack), PeersOK, SendStreamLook PROVE StreamStepOK
<1>1. /\ Busy(sched, stack) /\ Top.op = "sendStream" /\ Quiet(sched, Top) /\ Calm(sched, sched)
  BY AtStreamOp DEF SendStreamLook, StreamOps
<1>2. FineStep
  BY <1>1, StreamGoes DEF SendStreamLook, StreamOps
<1> QED
  BY <1>2, FineStreams DEF SendStreamLook

LEMMA ReceiveStreamOK == ASSUME Core(sched, stack), PeersOK, ReceiveStream PROVE StreamStepOK
<1>1. /\ Busy(sched, stack) /\ Top.op = "receiveStream" /\ Quiet(sched, Top) /\ Top.obj \in Streams
      /\ Calm(sched, sched) /\ SchedOK(sched) /\ me \in Tasks
  BY AtStreamOp DEF ReceiveStream, StreamOps
<1> DEFINE cells == CellsInBuffer(Top.obj)
           none == Top.wait > 0 /\ cells <= HeaderCells(Top.obj)
           at == IF none THEN "wait" ELSE "read"
           r == IF none THEN StateCleared(sched) ELSE sched
           p == IF none THEN me ELSE stream[Top.obj].reader
<1>2. SeeIn(at, cells, r) /\ stream' = [stream EXCEPT ![Top.obj].reader = p]
  BY DEF ReceiveStream
<1>3. Calm(sched, r)
  BY <1>1, StateClearedCalm
<1>4. p \in Tasks \cup {NoOne}
  BY <1>1, StreamIs DEF IsStream
<1>5. at \notin {"wake", "resume"}
  OBVIOUS
<1> HIDE DEF at, r, p, cells, none
<1>6. FineStep
  BY <1>1, <1>2, <1>3, <1>5, Sees DEF SeeIn, StreamOps
<1>7. PeersOK'
  BY <1>1, <1>2, <1>4, SetsReader
<1> QED
  BY <1>6, <1>7 DEF StreamStepOK

(* Reading. *)
LEMMA ReadsOK ==
  ASSUME Core(sched, stack), PeersOK, Busy(sched, stack), Top.op \in StreamOps, Quiet(sched, Top),
         Top.obj \in Streams, Calm(sched, sched),
         \/ Return(sched) /\ UNCHANGED stream
         \/ /\ Return(sched) \/ GoTo("completed", sched)
            /\ \E tail, n : MoveTail(Top.obj, tail, n)
         \/ /\ sched' = sched /\ \E n : MoveTail(Top.obj, stream[Top.obj].tail, n)
            /\ \E x : \/ stack' = [stack EXCEPT ![me][1] = [@ EXCEPT !.at = "message", !.arg.tail = x]]
                      \/ stack' = [stack EXCEPT ![me][1] = [@ EXCEPT !.at = "restore", !.arg.tail = x]]
  PROVE  StreamStepOK
<1>1. ASSUME NEW tail, NEW n, MoveTail(Top.obj, tail, n) PROVE PeersOK'
  <2> DEFINE x == Around(Top.obj, tail + n)
  <2>1. stream' = [stream EXCEPT ![Top.obj].tail = x]
    BY <1>1 DEF MoveTail
  <2> HIDE DEF x
  <2> QED
    BY <2>1, MovesTail
<1>2. ASSUME Return(sched) \/ GoTo("completed", sched) PROVE FineStep
  <2>1. CASE Return(sched)
    BY <2>1, QuietReturns DEF StreamOps
  <2>2. CASE GoTo("completed", sched)
    BY <2>2, StreamGoes
  <2> QED
    BY <1>2, <2>1, <2>2
<1>3. ASSUME sched' = sched, NEW x,
             \/ stack' = [stack EXCEPT ![me][1] = [@ EXCEPT !.at = "message", !.arg.tail = x]]
             \/ stack' = [stack EXCEPT ![me][1] = [@ EXCEPT !.at = "restore", !.arg.tail = x]]
      PROVE  FineStep
  BY <1>3, Sees
<1>4. ASSUME Return(sched), UNCHANGED stream PROVE StreamStepOK
  BY <1>2, <1>4, FineStreams
<1> QED
  BY <1>1, <1>2, <1>3, <1>4 DEF StreamStepOK

LEMMA ReceiveStreamReadOK ==
  ASSUME Core(sched, stack), PeersOK, ReceiveStreamRead PROVE StreamStepOK
<1>1. /\ Busy(sched, stack) /\ Top.op = "receiveStream" /\ Quiet(sched, Top) /\ Top.obj \in Streams
      /\ Calm(sched, sched)
  BY AtStreamOp DEF ReceiveStreamRead, StreamOps
<1>2. \/ Return(sched) /\ UNCHANGED stream
      \/ GoTo("completed", sched) /\ \E tail, n : MoveTail(Top.obj, tail, n)
      \/ /\ sched' = sched /\ \E n : MoveTail(Top.obj, stream[Top.obj].tail, n)
         /\ \E x : stack' = [stack EXCEPT ![me][1] = [@ EXCEPT !.at = "message", !.arg.tail = x]]
  BY DEF ReceiveStreamRead
<1> QED
  BY <1>1, <1>2, ReadsOK DEF StreamOps

LEMMA ReceiveStreamMessageOK ==
  ASSUME Core(sched, stack), PeersOK, ReceiveStreamMessage PROVE StreamStepOK
<1>1. /\ Busy(sched, stack) /\ Top.op = "receiveStream" /\ Quiet(sched, Top) /\ Top.obj \in Streams
      /\ Calm(sched, sched)
  BY AtStreamOp DEF ReceiveStreamMessage, StreamOps
<1>2. /\ Return(sched) \/ GoTo("completed", sched)
      /\ \E tail, n : MoveTail(Top.obj, tail, n)
  BY DEF ReceiveStreamMessage
<1> QED
  BY <1>1, <1>2, ReadsOK DEF StreamOps

LEMMA NextLengthOK ==
  ASSUME Core(sched, stack), PeersOK, NextLength \/ NextLengthRestore PROVE StreamStepOK
<1>1. /\ Busy(sched, stack) /\ Top.op = "nextLength" /\ Quiet(sched, Top) /\ Top.obj \in Streams
      /\ Calm(sched, sched)
  BY AtStreamOp DEF NextLength, NextLengthRestore, StreamOps
<1>2. CASE NextLength
  <2>1. \/ Return(sched) /\ UNCHANGED stream
        \/ /\ sched' = sched /\ \E n : MoveTail(Top.obj, stream[Top.obj].tail, n)
           /\ \E x : stack' = [stack EXCEPT ![me][1] = [@ EXCEPT !.at = "restore", !.arg.tail = x]]
    BY <1>2 DEF NextLength
  <2> QED
    BY <1>1, <2>1, ReadsOK DEF StreamOps
<1>3. CASE NextLengthRestore
  <2>1. Return(sched) /\ \E tail, n : MoveTail(Top.obj, tail, n)
    BY <1>3 DEF NextLengthRestore
  <2> QED
    BY <1>1, <2>1, ReadsOK DEF StreamOps
<1> QED
  BY <1>2, <1>3

LEMMA ResetStreamOK == ASSUME Core(sched, stack), PeersOK, ResetStream PROVE StreamStepOK
<1>1. /\ Busy(sched, stack) /\ Top.op = "resetStream" /\ Quiet(sched, Top) /\ Top.obj \in Streams
      /\ Calm(sched, sched)
  BY AtStreamOp DEF ResetStream
<1>2. FineStep
  BY <1>1, StreamGoes DEF ResetStream
<1> DEFINE b == Top.obj
           free == stream[b].reader = NoOne /\ stream[b].writer = NoOne
           n == IF free THEN NewStream(b, stream[b].trigger) ELSE stream[b]
<1>3. IsStream(n)
  BY <1>1, StreamIs, NewStreamIs
<1>4. stream' = [stream EXCEPT ![b] = n]
  BY DEF ResetStream
<1> HIDE DEF n
<1>5. PeersOK'
  BY <1>1, <1>3, <1>4, StreamChanged
<1> QED
  BY <1>2, <1>5 DEF StreamStepOK

LEMMA SetTriggerOK == ASSUME Core(sched, stack), PeersOK, SetTrigger PROVE StreamStepOK
<1>1. /\ Busy(sched, stack) /\ Top.op = "setTrigger" /\ Quiet(sched, Top) /\ Top.obj \in Streams
      /\ Calm(sched, sched)
  BY AtStreamOp DEF SetTrigger
<1>2. FineStep
  BY <1>1, StreamGoes DEF SetTrigger
<1> DEFINE level == IF Top.arg.level = 0 THEN 1 ELSE Top.arg.level
           x == IF level <= StreamLength[Top.obj] THEN level ELSE stream[Top.obj].trigger
<1>4. stream' = [stream EXCEPT ![Top.obj].trigger = x]
  BY DEF SetTrigger
<1> HIDE DEF x
<1>5. PeersOK'
  BY <1>1, <1>4, MovesTail
<1> QED
  BY <1>2, <1>5 DEF StreamStepOK

LEMMA StreamStepFine ==
  ASSUME Core(sched, stack), PeersOK, StreamStep
  PROVE  StreamStepOK /\ UNCHANGED scenario
<1>1. StreamStepOK
  BY AwaitPeerOK, CompletedOK, WakePeerOK, StreamResumeOK, SendStreamOK, SendStreamSpaceOK,
     NotifiedOK, SendStreamCheckOK, MeasureOK, SendStreamWriteOK, SendStreamLookOK,
     ReceiveStreamOK, ReceiveStreamReadOK, ReceiveStreamMessageOK, NextLengthOK, ResetStreamOK,
     SetTriggerOK DEF StreamStep
<1>2. ASSUME AwaitPeer \/ Completed \/ WakePeer \/ StreamResume \/ SendStream \/ SendStreamSpace
             \/ SendStreamNotified \/ SendStreamCheck
      PROVE  UNCHANGED scenario
  BY <1>2 DEF AwaitPeer, Completed, WakePeer, StreamResume, SendStream, SendStreamSpace,
     SendStreamNotified, SendStreamCheck, GoTo, Return, SeeIn
<1>3. ASSUME SendStreamMeasure \/ SendStreamHeader \/ SendStreamWrite \/ SendStreamLook
             \/ ReceiveStream \/ ReceiveStreamNotified \/ ReceiveStreamMeasure
      PROVE  UNCHANGED scenario
  BY <1>3 DEF SendStreamMeasure, SendStreamHeader, SendStreamWrite, SendStreamLook,
     ReceiveStream, ReceiveStreamNotified, ReceiveStreamMeasure, GoTo, Return, SeeIn
<1>4. ASSUME ReceiveStreamRead \/ ReceiveStreamMessage \/ NextLength \/ NextLengthRestore
             \/ ResetStream \/ SetTrigger
      PROVE  UNCHANGED scenario
  BY <1>4 DEF ReceiveStreamRead, ReceiveStreamMessage, NextLength, NextLengthRestore, ResetStream,
     SetTrigger, GoTo, Return
<1> QED
  BY <1>1, <1>2, <1>3, <1>4 DEF StreamStep

(* Interrupts. *)
LEMMA NotifyingCalm ==
  ASSUME Core(sched, stack), NEW p \in Tasks \cup {NoOne}
  PROVE  Calm(sched, Notifying(p))
<1>1. SchedOK(sched)
  BY DEF Core
<1>2. CASE p = NoOne
  BY <1>1, <1>2, CalmOps DEF Notifying
<1>3. CASE p # NoOne
  <2>1. Calm(sched, NotifyFromISR(sched, p, 0, "none"))
    BY <1>1, <1>3, NotWaiting, CalmNotifies
  <2> QED
    BY <1>3, <2>1 DEF Notifying
<1> QED
  BY <1>2, <1>3

LEMMA StreamInterruptFine ==
  ASSUME Core(sched, stack), PeersOK, NEW call, Proper(call), StreamInterrupt(call)
  PROVE  Calm(sched, sched') /\ UNCHANGED stack /\ PeersOK' /\ UNCHANGED scenario
<1>1. call.obj \in Streams
  BY DEF Proper, StreamInterrupt, SendStreamFromISR, ReceiveStreamFromISR
<1> DEFINE b == call.obj
<1>2. IsStream(stream[b]) /\ Calm(sched, sched)
  BY <1>1, StreamIs, CalmOps DEF Core
<1>3. Calm(sched, Notifying(stream[b].reader)) /\ Calm(sched, Notifying(stream[b].writer))
  BY <1>2, NotifyingCalm DEF IsStream
<1>4. CASE SendStreamFromISR(call)
  <2>1. UNCHANGED stack /\ UNCHANGED scenario /\ Calm(sched, sched')
    BY <1>2, <1>3, <1>4 DEF SendStreamFromISR
  <2>2. PICK all, c : stream' = [stream EXCEPT ![b] = [Written(b, all) EXCEPT !.reader = IF c THEN NoOne ELSE @]]
    BY <1>4 DEF SendStreamFromISR
  <2> DEFINE m == Written(b, all)
             p == IF c THEN NoOne ELSE m.reader
             n == [m EXCEPT !.reader = p]
  <2>3. IsStream(m)
    BY <1>1, WrittenIs
  <2>4. stream' = [stream EXCEPT ![b] = n]
    BY <2>2
  <2>5. p \in Tasks \cup {NoOne}
    BY <2>3 DEF IsStream
  <2> HIDE DEF m, p
  <2>6. IsStream(n)
    BY <2>3, <2>5, FieldsChanged
  <2> HIDE DEF n
  <2>7. PeersOK'
    BY <1>1, <2>4, <2>6, StreamChanged
  <2> QED
    BY <2>1, <2>7
<1>5. CASE ReceiveStreamFromISR(call)
  <2>1. UNCHANGED stack /\ UNCHANGED scenario /\ Calm(sched, sched')
    BY <1>3, <1>5 DEF ReceiveStreamFromISR
  <2>2. PICK x : stream' = [stream EXCEPT ![b] = [@ EXCEPT !.tail = x, !.writer = NoOne]]
    BY <1>5 DEF ReceiveStreamFromISR
  <2> DEFINE m == stream[b]
             n == [m EXCEPT !.tail = x, !.writer = NoOne]
  <2>3. IsStream(m)
    BY <1>2
  <2>4. stream' = [stream EXCEPT ![b] = n]
    BY <2>2
  <2> HIDE DEF m
  <2>5. NoOne \in Tasks \cup {NoOne}
    OBVIOUS
  <2>6. IsStream(n)
    BY <2>3, <2>5, FieldsChanged
  <2> HIDE DEF n
  <2>7. PeersOK'
    BY <1>1, <2>4, <2>6, StreamChanged
  <2> QED
    BY <2>1, <2>7
<1> QED
  BY <1>4, <1>5 DEF StreamInterrupt

----------------------------------------------------------------------------
(* Timers. *)

LEMMA TimerTop ==
  ASSUME Core(sched, stack), NEW at, AtTimerTask(at)
  PROVE  /\ Busy(sched, stack) /\ Top.op = "timerTask" /\ Top.at = at /\ Top.obj = TimerQueue
         /\ TimerQueue \in Queues /\ Kind[TimerQueue] = "queue"
         /\ me \in Tasks \ {Idle} /\ SchedOK(sched) /\ Calm(sched, sched) /\ IsFrame(Top)
<1>1. Busy(sched, stack) /\ Top.op = "timerTask" /\ Top.at = at
  BY AtBusy DEF AtTimerTask
<1>2. Proper(Top) /\ me \in Tasks \ {Idle} /\ SchedOK(sched) /\ IsFrame(Top)
  BY <1>1, BusyTop
<1> QED
  BY <1>1, <1>2, CalmOps DEF Proper

LEMMA TimerFrame ==
  ASSUME Busy(sched, stack), Top.op = "timerTask", NEW g, IsFrame(g), g.op = Top.op, g.obj = Top.obj,
         g.at = "pended" => g.arg.message.timer \in DOMAIN Pended
  PROVE  FrameOK(me, g) /\ ~Inherits(g)
<1>1. Proper(Top) /\ me # Idle
  BY BusyTop
<1>2. Proper(g)
  BY <1>1 DEF Proper, QueueOps
<1>3. Stage(g)
  BY DEF Stage, QueueOps
<1> QED
  BY <1>1, <1>2, <1>3 DEF FrameOK, Inherits

TimerHolds == {"sample", "switch", "decide", "resume", "wait"}

LEMMA TimerQuiet ==
  ASSUME Top.op = "timerTask"
  PROVE  /\ Top.at \notin TimerHolds \cup {"yield"} => Quiet(sched, Top)
         /\ Top.at \in TimerHolds => Holds(Top)
         /\ ~Awaits(Top) /\ ~Grouped(Top) /\ ~Parks(sched, Top)
         /\ Top.at \notin {"wait", "yield"} => ~Dozes(Top)
BY DEF Quiet, Holds, Dozes, Parks, Awaits, Grouped, QueueOps, TimerHolds

(* The timer task goes on with what it knows. *)
LEMMA TimerGoesOn ==
  ASSUME Busy(sched, stack), Top.op = "timerTask",
         NEW g, IsFrame(g), g.op = Top.op, g.obj = Top.obj,
         g.at = "pended" => g.arg.message.timer \in DOMAIN Pended,
         \/ Top.at \notin TimerHolds \cup {"yield"} /\ g.at \notin TimerHolds
         \/ Top.at \in TimerHolds \ {"wait"} /\ g.at \in TimerHolds,
         NEW r, Calm(sched, r), sched' = r, stack' = WithTop(stack, me, g)
  PROVE  FineStep
<1>1. FrameOK(me, g) /\ ~Inherits(g)
  BY TimerFrame
<1>2. Silent(sched, r)
  BY SilentMild DEF Calm, Harmless
<1>3. CASE Top.at \notin TimerHolds \cup {"yield"} /\ g.at \notin TimerHolds
  <2>1. Quiet(sched, Top)
    BY <1>3, TimerQuiet
  <2>2. ~Holds(g)
    BY <1>3 DEF Holds, QueueOps, TimerHolds
  <2>3. Lands(sched, r, g)
    BY <2>1, <2>2, QuietLands DEF Calm, Top, me
  <2> QED
    BY <1>1, <1>2, <2>3, ReplacesFrame
<1>4. CASE Top.at \in TimerHolds \ {"wait"} /\ g.at \in TimerHolds
  <2>1. Holds(Top) /\ ~Awaits(Top) /\ ~Grouped(Top) /\ ~Parks(sched, Top) /\ ~Dozes(Top)
    BY <1>4, TimerQuiet DEF TimerHolds
  <2>2. Holds(g)
    BY <1>4 DEF Holds, TimerHolds
  <2>3. Lands(sched, r, g)
    BY <2>1, <2>2, InsideLands DEF Calm, Top, me
  <2> QED
    BY <1>1, <1>2, <2>3, ReplacesFrame
<1> QED
  BY <1>3, <1>4

LEMMA TimerLocal ==
  ASSUME Busy(sched, stack), Top.op = "timerTask", NEW at, NEW arg, NEW flag,
         at = "pended" => arg.message.timer \in DOMAIN Pended,
         \/ Top.at \notin TimerHolds \cup {"yield"} /\ at \notin TimerHolds
         \/ Top.at \in TimerHolds \ {"wait"} /\ at \in TimerHolds,
         NEW r, Calm(sched, r), sched' = r,
         \/ stack' = [stack EXCEPT ![me][1] = [@ EXCEPT !.at = at, !.arg = arg]]
         \/ stack' = [stack EXCEPT ![me][1] = [@ EXCEPT !.at = at, !.arg = arg, !.flag = flag]]
         \/ at # "pended" /\ stack' = [stack EXCEPT ![me][1] = [@ EXCEPT !.at = at, !.flag = flag]]
  PROVE  FineStep
<1> DEFINE f == Top
           g1 == [f EXCEPT !.at = at, !.arg = arg]
           g2 == [f EXCEPT !.at = at, !.arg = arg, !.flag = flag]
           g3 == [f EXCEPT !.at = at, !.flag = flag]
<1>1. IsFrame(f) /\ f.op = Top.op /\ f.obj = Top.obj
  BY BusyTop
<1>2. \/ stack' = WithTop(stack, me, g1)
      \/ stack' = WithTop(stack, me, g2)
      \/ at # "pended" /\ stack' = WithTop(stack, me, g3)
  BY DEF WithTop, Top
<1> HIDE DEF f
<1>3. /\ IsFrame(g1) /\ g1.op = f.op /\ g1.obj = f.obj /\ g1.at = at /\ g1.arg = arg
      /\ IsFrame(g2) /\ g2.op = f.op /\ g2.obj = f.obj /\ g2.at = at /\ g2.arg = arg
      /\ IsFrame(g3) /\ g3.op = f.op /\ g3.obj = f.obj /\ g3.at = at
  BY <1>1 DEF IsFrame, FrameFields
<1> HIDE DEF g1, g2, g3
<1>4. ASSUME NEW g, IsFrame(g), g.op = f.op, g.obj = f.obj, g.at = at,
             at = "pended" => g.arg = arg, stack' = WithTop(stack, me, g)
      PROVE  FineStep
  <2>1. g.at = "pended" => g.arg.message.timer \in DOMAIN Pended
    BY <1>4
  <2> QED
    BY <1>1, <1>4, <2>1, TimerGoesOn
<1>5. CASE stack' = WithTop(stack, me, g1)
  BY <1>3, <1>4, <1>5
<1>6. CASE stack' = WithTop(stack, me, g2)
  BY <1>3, <1>4, <1>6
<1>7. CASE at # "pended" /\ stack' = WithTop(stack, me, g3)
  BY <1>3, <1>4, <1>7
<1> QED
  BY <1>2, <1>5, <1>6, <1>7

LEMMA FineAndQueues ==
  ASSUME FineStep, QueuesOK'
  PROVE  QueueStepOK
BY FineKeeps DEF QueueStepOK

LEMMA MessageItem == ASSUME NEW m, IsMessage(m) PROVE ItemOK(TimerQueue, m)
BY DEF ItemOK, IsMessage, NoItem

(* What the timer task sends to itself, if anything. *)
LEMMA SendsToSelf ==
  ASSUME QueuesOK, TimerQueue \in Queues, Kind[TimerQueue] = "queue", NEW tm, NEW message,
         IsMessage(message), SendToSelf(tm, message) \/ Keep(tm)
  PROVE  QueuesOK' /\ \A q \in Queues : Kind[q] = "mutex" => queue'[q] = queue[q]
<1>1. CASE UNCHANGED queue
  BY <1>1 DEF QueuesOK, QueueIs
<1>2. CASE ~UNCHANGED queue
  <2> DEFINE n == ToBack(TimerQueue, message)
             b == "back"
  <2>1. queue[TimerQueue].count # Length[TimerQueue] /\ queue' = [queue EXCEPT ![TimerQueue] = n]
    BY <1>2 DEF SendToSelf, Keep, Full
  <2>2. ItemOK(TimerQueue, message)
    BY MessageItem
  <2>3. n = CopyTo(TimerQueue, message, b)
    BY DEF CopyTo
  <2>4. QueueIs(TimerQueue, CopyTo(TimerQueue, message, b))
    BY <2>1, <2>2, CopyToIs
  <2> HIDE DEF n
  <2>5. QueuesOK'
    BY <2>1, <2>3, <2>4, QueueChanged
  <2> QED
    BY <2>1, <2>5 DEF QueuesOK
<1> QED
  BY <1>1, <1>2

LEMMA SameQueues == ASSUME QueuesOK, UNCHANGED queue PROVE QueuesOK'
BY DEF QueuesOK, QueueIs

LEMMA TimerSuspendOK == ASSUME Core(sched, stack), QueuesOK, TimerSuspend PROVE QueueStepOK
<1>1. Busy(sched, stack) /\ Top.op = "timerTask" /\ Top.at = "start"
  BY TimerTop DEF TimerSuspend
<1>2. Quiet(sched, Top)
  BY <1>1, TimerQuiet DEF TimerHolds
<1>3. AtTop("sample").op = Top.op /\ AtTop("sample").at = "sample"
  BY <1>1, AtTopFields
<1>4. Stage(AtTop("sample")) /\ Holds(AtTop("sample"))
  BY <1>1, <1>3 DEF Stage, Holds, QueueOps
<1>5. FineStep
  BY <1>1, <1>2, <1>4, Suspends DEF TimerSuspend
<1> QED
  BY <1>5, FineQueues DEF TimerSuspend

LEMMA TimerSampleOK == ASSUME Core(sched, stack), QueuesOK, TimerSample PROVE QueueStepOK
<1>1. /\ Busy(sched, stack) /\ Top.op = "timerTask" /\ Calm(sched, sched)
      /\ Top.at = "sample" \/ Top.at = "sample for command"
  <2>1. CASE AtTimerTask("sample")
    BY <2>1, TimerTop
  <2>2. CASE AtTimerTask("sample for command")
    BY <2>2, TimerTop
  <2> QED
    BY <2>1, <2>2 DEF TimerSample
<1> DEFINE commanded == Top.at = "sample for command"
           wrapped == sched.tick < timer.lastTime
           at == IF commanded THEN IF wrapped THEN "switch for command" ELSE "read status"
                 ELSE IF wrapped THEN "switch" ELSE "decide"
           arg == Knows(Top.arg.message, sched.tick)
<1>2. Local(at, arg) /\ UNCHANGED <<sched, queue>>
  BY DEF TimerSample
<1>3. /\ \/ Top.at \notin TimerHolds \cup {"yield"} /\ at \notin TimerHolds
         \/ Top.at \in TimerHolds \ {"wait"} /\ at \in TimerHolds
      /\ at # "pended"
  BY <1>1 DEF TimerHolds
<1> HIDE DEF at, arg
<1>4. FineStep
  BY <1>1, <1>2, <1>3, TimerLocal DEF Local
<1> QED
  BY <1>2, <1>4, FineQueues

LEMMA TimerSwitchOK ==
  ASSUME Core(sched, stack), QueuesOK, InheritOK, TimerSwitch PROVE QueueStepOK
<1>1. /\ Busy(sched, stack) /\ Calm(sched, sched)
      /\ TimerQueue \in Queues /\ Kind[TimerQueue] = "queue"
  <2>1. CASE AtTimerTask("switch")
    BY <2>1, TimerTop
  <2>2. CASE AtTimerTask("switch for command")
    BY <2>2, TimerTop
  <2> QED
    BY <2>1, <2>2 DEF TimerSwitch
<1> DEFINE t == Head(timer.current)
           message == Message("restart", t, timer.of[t].expiry)
<1>2. UNCHANGED <<sched, stack, scenario>> /\ \E tm : SendToSelf(tm, message) \/ Keep(tm)
  BY DEF TimerSwitch
<1>3. IsMessage(message)
  BY DEF Message, IsMessage
<1> HIDE DEF message
<1>4. QueuesOK' /\ \A q \in Queues : Kind[q] = "mutex" => queue'[q] = queue[q]
  BY <1>1, <1>2, <1>3, SendsToSelf
<1>5. KeepsStep
  BY <1>1, <1>2, <1>4, InterruptKeeps
<1> QED
  BY <1>4, <1>5 DEF QueueStepOK

LEMMA TimerSwitchedOK == ASSUME Core(sched, stack), QueuesOK, TimerSwitched PROVE QueueStepOK
<1>1. CASE AtTimerTask("switch")
  <2>1. Busy(sched, stack) /\ Top.op = "timerTask" /\ Top.at = "switch" /\ Calm(sched, sched)
    BY <1>1, TimerTop
  <2>2. Holds(Top) /\ ~Awaits(Top) /\ ~Grouped(Top) /\ ~Parks(sched, Top) /\ ~Dozes(Top)
    BY <2>1, TimerQuiet DEF TimerHolds
  <2>3. AtTop("resume").op = Top.op /\ AtTop("resume").at = "resume"
    BY <2>1, AtTopFields
  <2>4. Stage(AtTop("resume")) /\ Holds(AtTop("resume"))
    BY <2>1, <2>3 DEF Stage, Holds, QueueOps
  <2>5. GoTo("resume", sched)
    BY <2>1 DEF TimerSwitched
  <2>6. FineStep
    BY <2>1, <2>2, <2>4, <2>5, HoldingGoesTo
  <2> QED
    BY <2>6, FineQueues DEF TimerSwitched
<1>2. CASE AtTimerTask("switch for command")
  <2>1. Busy(sched, stack) /\ Top.op = "timerTask" /\ Top.at = "switch for command" /\ Calm(sched, sched)
    BY <1>2, TimerTop
  <2>2. Quiet(sched, Top)
    BY <2>1, TimerQuiet DEF TimerHolds
  <2>3. AtTop("read status").op = Top.op /\ AtTop("read status").at = "read status"
    BY <2>1, AtTopFields
  <2>4. Stage(AtTop("read status")) /\ ~Holds(AtTop("read status"))
    BY <2>1, <2>3 DEF Stage, Holds, QueueOps
  <2>5. GoTo("read status", sched)
    BY <2>1 DEF TimerSwitched
  <2>6. FineStep
    BY <2>1, <2>2, <2>4, <2>5, QuietGoesTo
  <2> QED
    BY <2>6, FineQueues DEF TimerSwitched
<1> QED
  BY <1>1, <1>2 DEF TimerSwitched

(* The timer task gives the scheduler back. *)
LEMMA TimerWaitOK == ASSUME Core(sched, stack), QueuesOK, TimerWait PROVE QueueStepOK
<1>1. Busy(sched, stack) /\ Top.op = "timerTask" /\ Top.at = "wait"
  BY TimerTop DEF TimerWait
<1>2. Holds(Top) /\ ~Awaits(Top) /\ ~Grouped(Top) /\ ~Parks(sched, Top)
  BY <1>1, TimerQuiet DEF TimerHolds
<1>3. ASSUME NEW at \in {"commands", "yield"} PROVE AtTop(at).op = Top.op /\ AtTop(at).at = at
  BY <1>1, AtTopFields
<1>4. ASSUME NEW at \in {"commands", "yield"} PROVE Stage(AtTop(at)) /\ ~Holds(AtTop(at))
  BY <1>1, <1>3 DEF Stage, Holds, QueueOps
<1>5. Dozes(AtTop("yield"))
  BY <1>3 DEF Dozes
<1>6. CASE Yielded(ResumeAll(sched))
  <2>1. GoTo("commands", ResumeAll(sched))
    BY <1>6 DEF TimerWait
  <2>2. FineStep
    BY <1>1, <1>2, <1>4, <1>6, <2>1, ResumesAt
  <2> QED
    BY <2>2, FineQueues DEF TimerWait
<1>7. CASE ~Yielded(ResumeAll(sched))
  <2>1. GoTo("yield", ResumeAll(sched))
    BY <1>7 DEF TimerWait
  <2>2. FineStep
    BY <1>1, <1>2, <1>4, <1>5, <2>1, ResumesAt
  <2> QED
    BY <2>2, FineQueues DEF TimerWait
<1> QED
  BY <1>6, <1>7

LEMMA TimerYieldOK == ASSUME Core(sched, stack), QueuesOK, TimerYield PROVE QueueStepOK
<1>1. Busy(sched, stack) /\ Top.op = "timerTask" /\ Top.at = "yield" /\ SchedOK(sched)
  BY TimerTop DEF TimerYield
<1>2. ~Holds(Top) /\ ~Awaits(Top) /\ ~Grouped(Top)
  BY <1>1 DEF Holds, Awaits, Grouped, QueueOps
<1>3. AtTop("commands").op = Top.op /\ AtTop("commands").at = "commands"
  BY <1>1, AtTopFields
<1>4. Stage(AtTop("commands")) /\ ~Holds(AtTop("commands"))
  BY <1>1, <1>3 DEF Stage, Holds, QueueOps
<1>5. Calm(sched, Yield(sched)) /\ Yield(sched).pendsv
  <2>1. Calm(sched, Yield(sched))
    BY <1>1, CalmOps
  <2>2. IsSched(sched)
    BY <1>1, SchedIs
  <2>3. Yield(sched).pendsv
    BY <2>2 DEF Yield, IsSched, SchedFields
  <2> QED
    BY <2>1, <2>3
<1>6. FineStep
  BY <1>1, <1>2, <1>4, <1>5, CalmGoesTo DEF TimerYield
<1> QED
  BY <1>6, FineQueues DEF TimerYield

LEMMA TimerResumeOK == ASSUME Core(sched, stack), QueuesOK, TimerResume PROVE QueueStepOK
<1>1. Busy(sched, stack) /\ Top.op = "timerTask" /\ Top.at = "resume"
  BY TimerTop DEF TimerResume
<1>2. Holds(Top) /\ ~Awaits(Top) /\ ~Grouped(Top) /\ ~Parks(sched, Top) /\ ~Dozes(Top)
  BY <1>1, TimerQuiet DEF TimerHolds
<1>3. AtTop("commands").op = Top.op /\ AtTop("commands").at = "commands"
  BY <1>1, AtTopFields
<1>4. Stage(AtTop("commands")) /\ ~Holds(AtTop("commands"))
  BY <1>1, <1>3 DEF Stage, Holds, QueueOps
<1>5. FineStep
  BY <1>1, <1>2, <1>4, ResumesAt DEF TimerResume
<1> QED
  BY <1>5, FineQueues DEF TimerResume

(* A timer's callback, and commands. *)
LEMMA TimerActs ==
  ASSUME Core(sched, stack), QueuesOK, Busy(sched, stack), Top.op = "timerTask",
         Top.at \notin TimerHolds \cup {"yield"}, Calm(sched, sched),
         TimerQueue \in Queues, Kind[TimerQueue] = "queue", UNCHANGED sched,
         NEW at, at \notin TimerHolds, at # "pended", NEW arg, NEW flag,
         \/ stack' = [stack EXCEPT ![me][1] = [@ EXCEPT !.at = at, !.arg = arg]]
         \/ stack' = [stack EXCEPT ![me][1] = [@ EXCEPT !.at = at, !.arg = arg, !.flag = flag]]
         \/ stack' = [stack EXCEPT ![me][1] = [@ EXCEPT !.at = at, !.flag = flag]],
         NEW tm, NEW message, IsMessage(message), SendToSelf(tm, message) \/ UNCHANGED queue
  PROVE  QueueStepOK
<1>1. FineStep
  <2>1. CASE stack' = [stack EXCEPT ![me][1] = [@ EXCEPT !.at = at, !.arg = arg]]
    BY <2>1, TimerLocal
  <2>2. CASE stack' = [stack EXCEPT ![me][1] = [@ EXCEPT !.at = at, !.arg = arg, !.flag = flag]]
    BY <2>2, TimerLocal
  <2>3. CASE stack' = [stack EXCEPT ![me][1] = [@ EXCEPT !.at = at, !.flag = flag]]
    BY <2>3, TimerLocal
  <2> QED
    BY <2>1, <2>2, <2>3
<1>2. QueuesOK'
  BY SendsToSelf, SameQueues
<1> QED
  BY <1>1, <1>2, FineAndQueues

LEMMA TimerExpiredOK == ASSUME Core(sched, stack), QueuesOK, TimerExpired PROVE QueueStepOK
<1>1. /\ Busy(sched, stack) /\ Top.op = "timerTask" /\ Top.at = "expired" /\ Calm(sched, sched)
      /\ TimerQueue \in Queues /\ Kind[TimerQueue] = "queue"
  BY TimerTop DEF TimerExpired
<1> DEFINE t == Head(timer.current)
           message == Message("restart", t, timer.of[t].expiry)
<1>2. \E tm, arg : /\ SendToSelf(tm, message) \/ UNCHANGED queue
                   /\ Local("commands", arg) \/ Local("write expired", arg)
  BY DEF TimerExpired, Keep
<1>3. IsMessage(message) /\ UNCHANGED sched
  BY DEF Message, IsMessage, TimerExpired
<1> HIDE DEF message
<1>4. PICK tm, arg : /\ SendToSelf(tm, message) \/ UNCHANGED queue
                     /\ Local("commands", arg) \/ Local("write expired", arg)
  BY <1>2
<1>5. Top.at \notin TimerHolds \cup {"yield"} /\ "commands" \notin TimerHolds
      /\ "write expired" \notin TimerHolds
  BY <1>1 DEF TimerHolds
<1>6. CASE Local("commands", arg)
  BY <1>1, <1>3, <1>4, <1>5, <1>6, TimerActs DEF Local
<1>7. CASE Local("write expired", arg)
  BY <1>1, <1>3, <1>4, <1>5, <1>7, TimerActs DEF Local
<1> QED
  BY <1>4, <1>6, <1>7

LEMMA TimerStatusOK ==
  ASSUME Core(sched, stack), QueuesOK, TimerWriteExpired \/ TimerReadStatus
  PROVE  QueueStepOK
<1>1. CASE TimerWriteExpired
  <2>1. Busy(sched, stack) /\ Top.op = "timerTask" /\ Top.at = "write expired" /\ Calm(sched, sched)
    BY <1>1, TimerTop DEF TimerWriteExpired
  <2>2. Top.at \notin TimerHolds \cup {"yield"} /\ "commands" \notin TimerHolds
    BY <2>1 DEF TimerHolds
  <2>3. FineStep
    BY <1>1, <2>1, <2>2, TimerLocal DEF TimerWriteExpired, Local
  <2> QED
    BY <1>1, <2>3, FineQueues DEF TimerWriteExpired
<1>2. CASE TimerReadStatus
  <2>1. Busy(sched, stack) /\ Top.op = "timerTask" /\ Top.at = "read status" /\ Calm(sched, sched)
    BY <1>2, TimerTop DEF TimerReadStatus
  <2>2. Top.at \notin TimerHolds \cup {"yield"} /\ "execute" \notin TimerHolds
    BY <2>1 DEF TimerHolds
  <2> DEFINE flag == timer.of[Top.arg.message.timer].auto
  <2>3. stack' = [stack EXCEPT ![me][1] = [@ EXCEPT !.at = "execute", !.flag = flag]]
        /\ UNCHANGED <<sched, queue>>
    BY <1>2 DEF TimerReadStatus
  <2> HIDE DEF flag
  <2>4. FineStep
    BY <2>1, <2>2, <2>3, TimerLocal
  <2> QED
    BY <2>3, <2>4, FineQueues
<1> QED
  BY <1>1, <1>2

LEMMA TimerExecuteOK ==
  ASSUME Core(sched, stack), QueuesOK, TimerStart \/ TimerStop \/ TimerChangePeriod \/ TimerDelete
  PROVE  QueueStepOK
<1>1. /\ Busy(sched, stack) /\ Top.op = "timerTask" /\ Top.at = "execute" /\ Calm(sched, sched)
      /\ TimerQueue \in Queues /\ Kind[TimerQueue] = "queue"
  BY TimerTop DEF TimerStart, TimerStop, TimerChangePeriod, TimerDelete
<1> DEFINE n == TickAfter(Top.arg.message.value, timer.of[Top.arg.message.timer].period)
           message == Message("restart", Top.arg.message.timer, n)
<1>2. \E tm : SendToSelf(tm, message) \/ UNCHANGED queue
  BY DEF TimerStart, TimerStop, TimerChangePeriod, TimerDelete, Keep
<1>3. Executed
  BY DEF TimerStart, TimerStop, TimerChangePeriod, TimerDelete
<1>4. IsMessage(message)
  BY DEF Message, IsMessage
<1> HIDE DEF message
<1>5. Top.at \notin TimerHolds \cup {"yield"} /\ "commands" \notin TimerHolds
  BY <1>1 DEF TimerHolds
<1>6. PICK tm : SendToSelf(tm, message) \/ UNCHANGED queue
  BY <1>2
<1> QED
  BY <1>1, <1>3, <1>4, <1>5, <1>6, TimerActs DEF Executed

LEMMA OneFrame ==
  ASSUME Busy(sched, stack), Top.op \notin {"notifyWait", "waitRestricted", "setBits", "clearBits"}
  PROVE  stack[me] = <<Top>>
<1> DEFINE a == stack[me][1]
           b == stack[me][2]
<1>1. StackOK(stack) /\ stack[me] # << >> /\ me \in Tasks
  BY BusyTop DEF Busy, me
<1>2. \/ stack[me] = <<a>>
      \/ stack[me] = <<a, b>> /\ Over(a, b)
  BY <1>1 DEF StackOK
<1>3. ~Over(a, b)
  BY DEF Over, Top
<1>4. stack[me] = <<a>>
  BY <1>2, <1>3
<1> QED
  BY <1>4 DEF Top

(* The stack of the current task becomes w. *)
LEMMA NewStack ==
  ASSUME Busy(sched, stack), NEW w, NEW h, StackOf(me, w), FirstOf(w) = h, ~Inherits(h),
         Lands(sched, sched, h), stack' = [stack EXCEPT ![me] = w], sched' = sched
  PROVE  FineStep
<1>1. Core(sched, [stack EXCEPT ![me] = w])
  BY Landed DEF Busy, me
<1>2. me \in Tasks /\ stack'[me] = w
  BY BusyTop DEF StackOK
<1>3. TopOf(stack', me) = h
  BY <1>2 DEF TopOf, FirstOf
<1>4. Silent(sched, sched)
  BY DEF Silent
<1> QED
  BY <1>1, <1>3, <1>4 DEF FineStep, Fine, me

(* A call that becomes another. *)
LEMMA Becomes ==
  ASSUME Busy(sched, stack), Quiet(sched, Top),
         Top.op \notin {"notifyWait", "waitRestricted", "setBits", "clearBits"},
         NEW h, FrameOK(me, h), h.op # "waitRestricted", ~Holds(h), ~Inherits(h),
         stack' = [stack EXCEPT ![me][1] = h], sched' = sched
  PROVE  FineStep
<1> DEFINE w == [stack[me] EXCEPT ![1] = h]
<1>1. stack[me] = <<Top>>
  BY OneFrame
<1>2. stack' = [stack EXCEPT ![me] = w]
  OBVIOUS
<1>3. w = <<h>>
  BY <1>1
<1> HIDE DEF w
<1>4. w = <<w[1]>> /\ w[1] = h /\ w # << >>
  BY <1>3, Tails
<1>5. StackOf(me, w) /\ FirstOf(w) = h
  BY <1>4 DEF StackOf, FirstOf
<1>6. Calm(sched, sched)
  BY BusyTop, CalmOps
<1>7. Lands(sched, sched, h)
  BY <1>6, QuietLands DEF Calm, Top, me
<1> QED
  BY <1>2, <1>5, <1>7, NewStack

LEMMA SendingOK ==
  ASSUME Core(sched, stack), QueuesOK, TimerCommand \/ PendCall
  PROVE  QueueStepOK
<1>1. /\ Busy(sched, stack) /\ Top.at = "start"
      /\ Top.op \in {"timerCommand", "pendCall"}
  <2>1. CASE TimerCommand
    BY <2>1, AtBusy DEF TimerCommand
  <2>2. CASE PendCall
    BY <2>2, AtBusy DEF PendCall
  <2> QED
    BY <2>1, <2>2
<1>2. Quiet(sched, Top) /\ Proper(Top) /\ me \in Tasks \ {Idle}
  BY <1>1, BusyTop DEF Quiet, Holds, Dozes, Parks, Awaits, Grouped, QueueOps
<1>3. TimerQueue \in Queues /\ Kind[TimerQueue] = "queue"
  BY <1>1, <1>2 DEF Proper
<1> DEFINE call(message) == [op |-> "send", obj |-> TimerQueue, wait |-> Top.wait,
                             arg |-> <<message, "back">>]
<1>4. \E message : /\ IsMessage(message) /\ stack' = [stack EXCEPT ![me][1] = Frame(call(message))]
                   /\ sched' = sched /\ UNCHANGED queue
  <2>1. CASE TimerCommand
    <3> DEFINE message == Command(Top.arg[1], Top.obj, Top.arg[2])
    <3>1. Top.arg[1] \notin {"none", "pended"}
      <4>1. Top.op = "timerCommand"
        BY <2>1, AtBusy DEF TimerCommand
      <4> QED
        BY <1>2, <4>1 DEF Proper
    <3>2. IsMessage(message)
      BY <3>1 DEF Command, Message, IsMessage
    <3>3. stack' = [stack EXCEPT ![me][1] = Frame(call(message))] /\ sched' = sched /\ UNCHANGED queue
      BY <2>1 DEF TimerCommand
    <3> HIDE DEF message, call
    <3> QED
      BY <3>2, <3>3
  <2>2. CASE PendCall
    <3> DEFINE message == Message("pended", Top.obj, 0)
    <3>1. Top.obj \in DOMAIN Pended
      <4>1. Top.op = "pendCall"
        BY <2>2, AtBusy DEF PendCall
      <4> QED
        BY <1>2, <4>1 DEF Proper
    <3>2. IsMessage(message)
      BY <3>1 DEF Message, IsMessage
    <3>3. stack' = [stack EXCEPT ![me][1] = Frame(call(message))] /\ sched' = sched /\ UNCHANGED queue
      BY <2>2 DEF PendCall
    <3> HIDE DEF message, call
    <3> QED
      BY <3>2, <3>3
  <2> QED
    BY <2>1, <2>2
<1>5. PICK message : /\ IsMessage(message) /\ stack' = [stack EXCEPT ![me][1] = Frame(call(message))]
                     /\ sched' = sched /\ UNCHANGED queue
  BY <1>4
<1> DEFINE c == call(message)
           h == Frame(c)
<1>6. Proper(c) /\ c.op = "send"
  <2>1. c.op = "send" /\ c.obj = TimerQueue /\ c.arg[1] = message /\ c.arg[2] = "back"
    OBVIOUS
  <2> HIDE DEF c, call
  <2> QED
    BY <1>3, <1>5, <2>1, MessageItem DEF Proper, QueueOps
<1>7. stack' = [stack EXCEPT ![me][1] = h]
  BY <1>5
<1> HIDE DEF c, call
<1>8. FrameOK(me, h) /\ h.op # "waitRestricted" /\ ~Holds(h) /\ ~Inherits(h)
  BY <1>2, <1>6, StartFrame
<1> HIDE DEF h
<1>9. FineStep
  BY <1>1, <1>2, <1>5, <1>7, <1>8, Becomes
<1> QED
  BY <1>5, <1>9, FineQueues

LEMMA TimerCallsOK ==
  ASSUME Core(sched, stack), QueuesOK, CreateTimer \/ SetReloadMode
  PROVE  QueueStepOK
<1>1. Busy(sched, stack) /\ Top.op \in {"createTimer", "setReloadMode"} /\ Top.at = "start"
  <2>1. CASE CreateTimer
    BY <2>1, AtBusy DEF CreateTimer
  <2>2. CASE SetReloadMode
    BY <2>2, AtBusy DEF SetReloadMode
  <2> QED
    BY <2>1, <2>2
<1>2. Quiet(sched, Top) /\ Calm(sched, sched)
  <2>1. SchedOK(sched)
    BY <1>1, BusyTop
  <2> QED
    BY <1>1, <2>1, CalmOps DEF Quiet, Holds, Dozes, Parks, Awaits, Grouped, QueueOps
<1>3. Return(sched) /\ UNCHANGED queue
  BY DEF CreateTimer, SetReloadMode
<1>4. FineStep
  BY <1>1, <1>2, <1>3, QuietReturns
<1> QED
  BY <1>3, <1>4, FineQueues

(* A call that the timer task makes. *)
LEMMA PushesFrame ==
  ASSUME Busy(sched, stack), NEW h, FrameOK(me, h), ~Inherits(h), NEW g, FrameOK(me, g), Over(h, g),
         Lands(sched, sched, h), stack' = [stack EXCEPT ![me] = <<h, g>>], sched' = sched
  PROVE  FineStep
<1> DEFINE w == <<h, g>>
<1>1. w = <<w[1], w[2]>> /\ w[1] = h /\ w[2] = g /\ w # << >>
  BY Tails
<1>2. stack' = [stack EXCEPT ![me] = w]
  OBVIOUS
<1> HIDE DEF w
<1>3. StackOf(me, w) /\ FirstOf(w) = h
  BY <1>1 DEF StackOf, FirstOf
<1> QED
  BY <1>2, <1>3, NewStack

LEMMA TimerDecideOK == ASSUME Core(sched, stack), QueuesOK, TimerDecide PROVE QueueStepOK
<1>1. /\ Busy(sched, stack) /\ Top.op = "timerTask" /\ Top.at = "decide" /\ Calm(sched, sched)
      /\ Top.obj = TimerQueue /\ TimerQueue \in Queues /\ me \in Tasks \ {Idle} /\ IsFrame(Top)
  BY TimerTop DEF TimerDecide
<1>2. Holds(Top) /\ ~Awaits(Top) /\ ~Grouped(Top) /\ ~Parks(sched, Top) /\ ~Dozes(Top)
  BY <1>1, TimerQuiet DEF TimerHolds
<1>3. CASE TimerExpires(timer, Top.arg.now)
  <2>1. AtTop("expired").op = Top.op /\ AtTop("expired").at = "expired"
    BY <1>1, AtTopFields
  <2>2. Stage(AtTop("expired")) /\ ~Holds(AtTop("expired"))
    BY <1>1, <2>1 DEF Stage, Holds, QueueOps
  <2>3. GoTo("expired", ResumeAll(sched)) /\ UNCHANGED queue
    BY <1>3 DEF TimerDecide
  <2>4. FineStep
    BY <1>1, <1>2, <2>2, <2>3, ResumesAt
  <2> QED
    BY <2>3, <2>4, FineQueues
<1>4. CASE ~TimerExpires(timer, Top.arg.now)
  <2> DEFINE call == [op |-> "waitRestricted", obj |-> TimerQueue, arg |-> NothingListed(timer),
                      wait |-> TickSince(NextExpiry(timer), Top.arg.now)]
             h == Frame(call)
             f == Top
             n == "wait"
             g == [f EXCEPT !.at = n, !.arg = Nothing]
  <2>1. stack' = [stack EXCEPT ![me] = <<h, g>>] /\ sched' = sched /\ UNCHANGED queue
    BY <1>4 DEF TimerDecide, Top
  <2>2. IsFrame(f) /\ f.op = Top.op /\ f.obj = Top.obj
    BY <1>1
  <2>3. call.op = "waitRestricted" /\ call.obj = TimerQueue
    OBVIOUS
  <2> HIDE DEF f, call
  <2>4. IsFrame(g) /\ g.op = f.op /\ g.obj = f.obj /\ g.at = n
    BY <2>2 DEF IsFrame, FrameFields
  <2>5. Proper(call)
    BY <1>1, <2>3 DEF Proper, QueueOps
  <2>6. FrameOK(me, h) /\ h.op = "waitRestricted" /\ ~Inherits(h)
    BY <1>1, <2>3, <2>5, StartFrame
  <2> HIDE DEF g
  <2>7. FrameOK(me, g)
    BY <1>1, <2>2, <2>4, TimerFrame
  <2>8. Over(h, g)
    BY <1>1, <2>2, <2>4, <2>6 DEF Over
  <2> HIDE DEF h
  <2>9. Holds(h)
    BY <2>6 DEF Holds
  <2>10. Lands(sched, sched, h)
    BY <1>1, <1>2, <2>9, InsideLands DEF Calm, Top, me
  <2>11. FineStep
    BY <1>1, <2>1, <2>6, <2>7, <2>8, <2>10, PushesFrame
  <2> QED
    BY <2>1, <2>11, FineQueues
<1> QED
  BY <1>3, <1>4

LEMMA TimerPendedOK == ASSUME Core(sched, stack), QueuesOK, TimerPended PROVE QueueStepOK
<1>1. /\ Busy(sched, stack) /\ Top.op = "timerTask" /\ Top.at = "pended" /\ Calm(sched, sched)
      /\ me \in Tasks \ {Idle} /\ IsFrame(Top)
  BY TimerTop DEF TimerPended
<1>2. Quiet(sched, Top)
  BY <1>1, TimerQuiet DEF TimerHolds
<1> DEFINE p == Top.arg.message.timer
           call == Pended[p]
           h == Frame(call)
           f == Top
           n == "commands"
           g == [f EXCEPT !.at = n]
<1>3. p \in DOMAIN Pended
  BY <1>1, BusyTop DEF FrameOK, Stage
<1>4. Proper(call) /\ call.op \in {"setBits", "clearBits"}
  BY <1>3, ScenariosAssumption
<1>5. stack' = [stack EXCEPT ![me] = <<h, g>>] /\ sched' = sched /\ UNCHANGED queue
  BY DEF TimerPended, Top
<1>6. IsFrame(f) /\ f.op = Top.op /\ f.obj = Top.obj
  BY <1>1
<1> HIDE DEF f, call, p
<1>7. IsFrame(g) /\ g.op = f.op /\ g.obj = f.obj /\ g.at = n
  BY <1>6 DEF IsFrame, FrameFields
<1>8. FrameOK(me, h) /\ h.op = call.op /\ ~Inherits(h) /\ ~Holds(h)
  BY <1>1, <1>4, StartFrame
<1> HIDE DEF g
<1>9. FrameOK(me, g)
  BY <1>1, <1>6, <1>7, TimerFrame
<1>10. Over(h, g)
  BY <1>1, <1>4, <1>6, <1>7, <1>8 DEF Over
<1> HIDE DEF h
<1>11. Lands(sched, sched, h)
  BY <1>1, <1>2, <1>8, QuietLands DEF Calm, Top, me
<1>12. FineStep
  BY <1>1, <1>5, <1>8, <1>9, <1>10, <1>11, PushesFrame
<1> QED
  BY <1>5, <1>12, FineQueues

LEMMA TimerReceiveOK == ASSUME Core(sched, stack), QueuesOK, TimerReceive PROVE QueueStepOK
<1>1. /\ Busy(sched, stack) /\ Top.op = "timerTask" /\ Top.at = "commands" /\ Calm(sched, sched)
      /\ TimerQueue \in Queues /\ Kind[TimerQueue] = "queue" /\ SchedOK(sched)
  BY TimerTop DEF TimerReceive
<1>2. Top.at \notin TimerHolds \cup {"yield"} /\ "start" \notin TimerHolds
      /\ "pended" \notin TimerHolds /\ "sample for command" \notin TimerHolds
  BY <1>1 DEF TimerHolds
<1>3. CASE Empty(TimerQueue)
  <2>1. Local("start", Nothing) /\ UNCHANGED <<sched, queue>>
    BY <1>3 DEF TimerReceive
  <2>2. FineStep
    BY <1>1, <1>2, <2>1, TimerLocal DEF Local
  <2> QED
    BY <2>1, <2>2, FineQueues
<1>4. CASE ~Empty(TimerQueue)
  <2> DEFINE q == queue[TimerQueue]
             message == q.storage[NextPlace(TimerQueue, q.read)]
             at == IF message.command = "pended" THEN "pended" ELSE "sample for command"
             arg == Knows(message, Top.arg.now)
             r == WakeFirst(sched, Sent(TimerQueue))
  <2>1. queue' = [queue EXCEPT ![TimerQueue] = CopyFrom(TimerQueue)] /\ Local(at, arg) /\ sched' = r
    BY <1>4 DEF TimerReceive
  <2>2. QueueIs(TimerQueue, q) /\ q.count \in 0..Length[TimerQueue] /\ Length[TimerQueue] \in Nat
    BY <1>1, QueueParts
  <2>3. q.count # 0
    BY <1>4 DEF Empty
  <2>4. 1 \in 1..q.count
    BY <2>2, <2>3
  <2>5. ItemOK(TimerQueue, q.storage[(q.read + 1) % Length[TimerQueue]])
    BY <1>1, <2>2, <2>4 DEF QueueIs
  <2>6. IsMessage(message)
    BY <2>5 DEF ItemOK, NextPlace
  <2> HIDE DEF q
  <2>7. at = "pended" => message.timer \in DOMAIN Pended
    BY <2>6 DEF IsMessage
  <2>8. arg.message = message
    BY DEF Knows
  <2>9. at \in {"pended", "sample for command"}
    OBVIOUS
  <2>10. Calm(sched, r)
    BY <1>1, ReceivedList, CalmWakes
  <2>11. QueueIs(TimerQueue, CopyFrom(TimerQueue))
    BY <1>1, <2>3, CopyFromIs DEF q
  <2>12. QueuesOK'
    BY <1>1, <2>1, <2>11, QueueChanged
  <2> HIDE DEF message, at, arg, r
  <2>13. at \notin TimerHolds /\ (at = "pended" => arg.message.timer \in DOMAIN Pended)
    BY <1>2, <2>7, <2>8, <2>9
  <2>14. FineStep
    BY <1>1, <1>2, <2>1, <2>10, <2>13, TimerLocal DEF Local
  <2> QED
    BY <2>12, <2>14, FineAndQueues
<1> QED
  BY <1>3, <1>4

LEMMA TimerStepFine ==
  ASSUME Core(sched, stack), QueuesOK, InheritOK, TimerStep
  PROVE  QueueStepOK /\ UNCHANGED scenario
<1>1. QueueStepOK
  BY SendingOK, TimerCallsOK, TimerSuspendOK, TimerSampleOK, TimerSwitchOK, TimerSwitchedOK,
     TimerDecideOK, TimerWaitOK, TimerYieldOK, TimerResumeOK, TimerExpiredOK, TimerStatusOK,
     TimerReceiveOK, TimerPendedOK, TimerExecuteOK DEF TimerStep
<1>2. ASSUME TimerCommand \/ PendCall \/ CreateTimer \/ SetReloadMode \/ TimerSuspend \/ TimerSample
             \/ TimerSwitch \/ TimerSwitched \/ TimerDecide \/ TimerWait \/ TimerYield
      PROVE  UNCHANGED scenario
  BY <1>2 DEF TimerCommand, PendCall, CreateTimer, SetReloadMode, TimerSuspend, TimerSample,
     TimerSwitch, TimerSwitched, TimerDecide, TimerWait, TimerYield, GoTo, Return, Local
<1>3. ASSUME TimerResume \/ TimerExpired \/ TimerWriteExpired \/ TimerReceive \/ TimerPended
             \/ TimerReadStatus \/ TimerStart \/ TimerStop \/ TimerChangePeriod \/ TimerDelete
      PROVE  UNCHANGED scenario
  BY <1>3 DEF TimerResume, TimerExpired, TimerWriteExpired, TimerReceive, TimerPended,
     TimerReadStatus, TimerStart, TimerStop, TimerChangePeriod, TimerDelete, Executed, GoTo, Local
<1> QED
  BY <1>1, <1>2, <1>3 DEF TimerStep

LEMMA InterruptMessage ==
  ASSUME NEW call, Proper(call), call.op \in {"timerFromISR", "pendFromISR"}
  PROVE  IsMessage(IF call.op = "pendFromISR" THEN Message("pended", call.obj, 0)
                   ELSE Command(call.arg[1], call.obj, call.arg[2]))
<1>1. CASE call.op = "pendFromISR"
  BY <1>1 DEF Proper, IsMessage, Message
<1>2. CASE call.op = "timerFromISR"
  <2>1. call.arg[1] \notin {"none", "pended"}
    BY <1>2 DEF Proper
  <2> QED
    BY <1>2, <2>1 DEF IsMessage, Message, Command
<1> QED
  BY <1>1, <1>2

LEMMA TimerInterruptFine ==
  ASSUME Core(sched, stack), QueuesOK, InheritOK, NEW call, Proper(call), TimerFromISR(call)
  PROVE  QueueStepOK /\ UNCHANGED scenario
<1> DEFINE message == IF call.op = "pendFromISR" THEN Message("pended", call.obj, 0)
                      ELSE Command(call.arg[1], call.obj, call.arg[2])
           sending == [op |-> "sendFromISR", obj |-> TimerQueue, wait |-> 0, arg |-> <<message, "back">>]
<1>1. SendFromISR(sending) /\ call.op \in {"timerFromISR", "pendFromISR"}
  BY DEF TimerFromISR
<1>2. TimerQueue \in Queues /\ Kind[TimerQueue] = "queue"
  BY <1>1 DEF Proper
<1>3. IsMessage(message)
  BY <1>1, InterruptMessage
<1>4. /\ sending.op = "sendFromISR" /\ sending.obj = TimerQueue /\ sending.arg[1] = message
      /\ sending.arg[2] = "back"
  OBVIOUS
<1> HIDE DEF message, sending
<1>5. Proper(sending)
  BY <1>2, <1>3, <1>4, MessageItem DEF Proper, QueueOps
<1>6. QueueInterrupt(sending)
  BY <1>1 DEF QueueInterrupt
<1> QED
  BY <1>5, <1>6, QueueInterruptFine

----------------------------------------------------------------------------
(* The initial states. *)

(* While tasks are created before the scheduler starts: D are created. *)
Unstarted(s, D) ==
  /\ WF(s) /\ s.pendingReady = << >> /\ s.suspendedAll = 0 /\ s.current \in D \cup {Idle}
  /\ \A t \in D : OnlyReady(s, t)
  /\ \A t \in Tasks \ D : Away(s, t)
  /\ \A t \in Tasks : /\ Unlinked(s, t) /\ s.notify[t] # "waiting"
                      /\ s.evValue[t] \in 1..MaxPriorities

(* The current task is as urgent as all of them, and no switch is due.      *)
Leads(s, D) ==
  /\ ~s.pendsv /\ ~s.yieldPending /\ (s.current \in D \/ s.prio[s.current] = 0)
  /\ \A t \in D : s.prio[t] <= s.prio[s.current] /\ s.prio[t] <= s.top

LEMMA NobodyFields ==
  /\ IsSched(Nobody)
  /\ Nobody.ready = [p \in Priorities |-> EmptyList] /\ Nobody.events = [l \in EventLists |-> << >>]
  /\ Nobody.delayed = << >> /\ Nobody.overflow = << >> /\ Nobody.suspended = << >>
  /\ Nobody.terminating = << >> /\ Nobody.pendingReady = << >>
  /\ Nobody.prio = [t \in Tasks |-> 0] /\ Nobody.base = [t \in Tasks |-> 0]
  /\ Nobody.notify = [t \in Tasks |-> "not waiting"]
  /\ Nobody.evValue = [t \in Tasks |-> MaxPriorities]
  /\ Nobody.bits = [t \in Tasks |-> NoBits] /\ Nobody.entry = [t \in Tasks |-> NoEntry]
  /\ Nobody.current = Idle /\ Nobody.top = 0 /\ Nobody.suspendedAll = 0 /\ Nobody.pendedTicks = 0
  /\ ~Nobody.pendsv /\ ~Nobody.yieldPending
BY DEF Nobody, IsSched, SchedFields

LEMMA NobodyStarting == Unstarted(Nobody, {})
<1> DEFINE s == Nobody
<1>1. /\ IsSched(s)
      /\ s.ready = [p \in Priorities |-> EmptyList] /\ s.events = [l \in EventLists |-> << >>]
      /\ s.delayed = << >> /\ s.overflow = << >> /\ s.suspended = << >>
      /\ s.terminating = << >> /\ s.pendingReady = << >>
      /\ s.prio = [t \in Tasks |-> 0] /\ s.base = [t \in Tasks |-> 0]
      /\ s.notify = [t \in Tasks |-> "not waiting"]
      /\ s.evValue = [t \in Tasks |-> MaxPriorities]
      /\ s.bits = [t \in Tasks |-> NoBits] /\ s.entry = [t \in Tasks |-> NoEntry]
      /\ s.current = Idle /\ s.top = 0 /\ s.suspendedAll = 0 /\ s.pendedTicks = 0
  BY NobodyFields
<1> HIDE DEF s
<1>2. Shaped(s)
  <2>6. s.current \in Tasks /\ s.top \in Priorities
    BY <1>1, Zero
  <2>8. s.suspendedAll = 0 /\ s.pendedTicks = 0
    BY <1>1
  <2>7. s.suspendedAll \in Nat /\ s.pendedTicks \in Nat
    BY <2>8
  <2>1. s.current \in Tasks /\ s.top \in Priorities /\ s.suspendedAll \in Nat /\ s.pendedTicks \in Nat
    BY <2>6, <2>7
  <2>5. s = [f \in SchedFields |-> s[f]]
    BY <1>1 DEF IsSched
  <2>2. /\ s.ready = [p \in Priorities |-> s.ready[p]] /\ s.events = [l \in EventLists |-> s.events[l]]
    BY <1>1
  <2>3. s.prio \in [Tasks -> Priorities] /\ s.base \in [Tasks -> Priorities]
    BY <1>1, Zero
  <2>4. /\ s.notify = [t \in Tasks |-> s.notify[t]] /\ s.evValue = [t \in Tasks |-> s.evValue[t]]
        /\ s.bits = [t \in Tasks |-> s.bits[t]] /\ s.entry = [t \in Tasks |-> s.entry[t]]
    BY <1>1
  <2> QED
    BY <2>1, <2>2, <2>3, <2>4, <2>5 DEF Shaped
<1>3. HasLists(s)
  BY <1>1, EmptyRing, EmptyLists DEF HasLists
<1>4. \A t \in Tasks : Away(s, t) /\ Unlinked(s, t)
  BY <1>1, EmptyLists, EmptyRing DEF Away, Unlinked, Dormant
<1>5. \A t \in Tasks : s.notify[t] # "waiting" /\ s.evValue[t] \in 1..MaxPriorities
  <2>1. MaxPriorities \in 1..MaxPriorities
    BY Zero
  <2>2. \A t \in Tasks : s.notify[t] = "not waiting" /\ s.evValue[t] = MaxPriorities
    BY <1>1
  <2> QED
    BY <2>1, <2>2
<1>6. Unstarted(s, {})
  BY <1>1, <1>2, <1>3, <1>4, <1>5 DEF Unstarted, WF
<1> QED
  BY <1>6 DEF s

LEMMA NobodyLeading == Leads(Nobody, {})
<1>1. Nobody.current = Idle /\ Nobody.prio = [t \in Tasks |-> 0] /\ ~Nobody.pendsv /\ ~Nobody.yieldPending
  BY NobodyFields
<1>2. Nobody.prio[Nobody.current] = 0
  BY <1>1, Zero
<1> QED
  BY <1>1, <1>2 DEF Leads

(* Somebody becomes the current task. *)
LEMMA CurrentWF ==
  ASSUME NEW s, WF(s), NEW t \in Tasks
  PROVE  LET r == [s EXCEPT !.current = t]
         IN  WF(r) /\ r.current = t /\ Same(s, r, {"current"})
<1> DEFINE r == [s EXCEPT !.current = t]
<1>1. IsSched(s)
  BY WFParts
<1>2. IsSched(r) /\ r.current = t /\ Same(s, r, {"current"})
  BY <1>1 DEF IsSched, SchedFields, Same
<1> HIDE DEF r
<1>3. WF(r)
  BY <1>2 DEF WF, Shaped, HasLists, IsSched, Same, SchedFields
<1> QED
  BY <1>2, <1>3 DEF r

LEMMA SameStarting ==
  ASSUME NEW s, NEW r, NEW D, Unstarted(s, D), WF(r), Same(s, r, {"current"}), r.current \in D \cup {Idle}
  PROVE  Unstarted(r, D)
<1>1. /\ r.ready = s.ready /\ r.delayed = s.delayed /\ r.overflow = s.overflow
      /\ r.suspended = s.suspended /\ r.terminating = s.terminating /\ r.events = s.events
      /\ r.pendingReady = s.pendingReady /\ r.prio = s.prio /\ r.notify = s.notify
      /\ r.evValue = s.evValue /\ r.suspendedAll = s.suspendedAll
  BY DEF Same, SchedFields
<1> QED
  BY <1>1 DEF Unstarted, OnlyReady, Away, Unlinked, Dormant

LEMMA AddsOne ==
  ASSUME NEW s, NEW D \in SUBSET Tasks, Unstarted(s, D), NEW t \in Tasks \ D, NEW p \in Priorities
  PROVE  LET r == CreatedIn(s, t, p)
         IN  /\ Unstarted(r, D \cup {t}) /\ r.prio[t] = p
             /\ r.current = s.current /\ (r.pendsv <=> s.pendsv) /\ (r.yieldPending <=> s.yieldPending)
             /\ s.top <= r.top /\ p <= r.top
             /\ \A u \in Tasks \ {t} : r.prio[u] = s.prio[u]
<1> DEFINE m == InitialiseNewTask(s, t, p)
           r == AddToReady(m, t)
<1>1. /\ WF(m) /\ Others(s, m, t) /\ AsListed(s, m, t) /\ AsLinked(s, m, t)
      /\ Same(s, m, NewTaskFields) /\ m.notify[t] = "not waiting" /\ m.evValue[t] \in 1..MaxPriorities
      /\ \A u \in Tasks \ {t} : m.evValue[u] = s.evValue[u]
  <2>1. WF(s)
    BY DEF Unstarted
  <2>2. Fresh(s, m, t)
    BY <2>1, NewTaskWF
  <2> QED
    BY <2>2 DEF Fresh
<1>2. m.prio[t] = p
  BY NewTaskWF DEF Unstarted
<1>3. r = CreatedIn(s, t, p)
  BY DEF CreatedIn
<1> HIDE DEF m
<1>4. Away(m, t)
  BY <1>1 DEF Unstarted, Away, AsListed, Dormant
<1>5. /\ WF(r) /\ Others(m, r, t) /\ OnlyReady(r, t) /\ AsLinked(m, r, t)
      /\ Same(m, r, {"ready", "top"})
  BY <1>1, <1>4, AddToReadyWF
<1>13. m.top <= r.top /\ m.prio[t] <= r.top
  BY <1>1, AddToReadyTop
<1> HIDE DEF r
<1>14. /\ s.top <= r.top /\ p <= r.top /\ (r.pendsv <=> s.pendsv) /\ (r.yieldPending <=> s.yieldPending)
  BY <1>1, <1>2, <1>5, <1>13 DEF Same, NewTaskFields, SchedFields
<1>6. Others(s, r, t)
  BY <1>1, <1>5, OthersTransitive
<1>7. /\ r.current = s.current /\ r.suspendedAll = s.suspendedAll /\ r.evValue = m.evValue
      /\ r.notify = m.notify /\ r.pendingReady = s.pendingReady /\ r.events = s.events /\ r.prio = m.prio
  BY <1>1, <1>5 DEF Same, NewTaskFields, SchedFields
<1>8. \A u \in D : OnlyReady(r, u)
  BY <1>6 DEF Unstarted, Others, AsListed, OnlyReady, Dormant
<1>9. \A u \in Tasks \ (D \cup {t}) : Away(r, u)
  BY <1>6, SMTT(30) DEF Unstarted, Others, AsListed, Away, Dormant
<1>10. \A u \in Tasks : Unlinked(r, u)
  BY <1>7 DEF Unstarted, Unlinked
<1>11. \A u \in Tasks : r.notify[u] # "waiting" /\ r.evValue[u] \in 1..MaxPriorities
  <2>1. ASSUME NEW u \in Tasks, u # t PROVE r.notify[u] # "waiting" /\ r.evValue[u] \in 1..MaxPriorities
    <3>1. s.notify[u] # "waiting" /\ s.evValue[u] \in 1..MaxPriorities
      BY DEF Unstarted
    <3>2. r.evValue[u] = s.evValue[u]
      BY <1>1, <1>7, <2>1
    <3>3. r.notify[u] = "waiting" => s.notify[u] = "waiting"
      BY <1>6, <2>1 DEF Others
    <3> QED
      BY <3>1, <3>2, <3>3
  <2>2. r.notify[t] # "waiting" /\ r.evValue[t] \in 1..MaxPriorities
    BY <1>1, <1>7
  <2> QED
    BY <2>1, <2>2
<1>12. Unstarted(r, D \cup {t})
  BY <1>5, <1>7, <1>8, <1>9, <1>10, <1>11 DEF Unstarted
<1>15. \A u \in Tasks \ {t} : r.prio[u] = s.prio[u]
  BY <1>6 DEF Others
<1> QED
  BY <1>2, <1>3, <1>7, <1>12, <1>14, <1>15

LEMMA AddFirstOK ==
  ASSUME NEW s, NEW D \in SUBSET Tasks, Unstarted(s, D), Leads(s, D), NEW new, new.task \in Tasks \ D,
         new.prio \in Priorities
  PROVE  LET r == AddFirstTask(s, new)
         IN  /\ Unstarted(r, D \cup {new.task}) /\ Leads(r, D \cup {new.task})
             /\ r.prio[new.task] = new.prio
<1> DEFINE t == new.task
           p == new.prio
           n == CreatedIn(s, t, p)
           m == [n EXCEPT !.current = t]
           E == D \cup {t}
<1>1. AddFirstTask(s, new) = IF s.prio[s.current] <= p THEN m ELSE n
  BY DEF AddFirstTask, CreatedIn
<1>0. t \in Tasks \ D /\ p \in Priorities
  OBVIOUS
<1> HIDE DEF t, p
<1>5. /\ Unstarted(n, E) /\ n.prio[t] = p
      /\ n.current = s.current /\ (n.pendsv <=> s.pendsv) /\ (n.yieldPending <=> s.yieldPending)
      /\ s.top <= n.top /\ p <= n.top
      /\ \A u \in Tasks \ {t} : n.prio[u] = s.prio[u]
  BY ONLY <1>0, D \in SUBSET Tasks, Unstarted(s, D), AddsOne
<1> HIDE DEF n
<1>2. Unstarted(n, E) /\ n.prio[t] = p
  BY <1>5
<1>6. /\ n.current = s.current /\ ~n.pendsv /\ ~n.yieldPending /\ s.top <= n.top /\ p <= n.top
      /\ \A u \in Tasks \ {t} : n.prio[u] = s.prio[u]
  BY <1>5 DEF Leads
<1>3. WF(m) /\ m.current = t /\ Same(n, m, {"current"})
  BY <1>0, <1>2, CurrentWF DEF Unstarted
<1> HIDE DEF m
<1>4. /\ m.prio = n.prio /\ m.current \in E \cup {Idle} /\ m.top = n.top
      /\ m.pendsv = n.pendsv /\ m.yieldPending = n.yieldPending
  BY <1>3 DEF Same, SchedFields
<1>7. /\ s.current \in Tasks /\ s.top \in Int /\ n.top \in Int /\ p \in Int /\ 0 <= p
      /\ \A u \in Tasks : s.prio[u] \in Int
  <2>1. WF(s) /\ WF(n)
    BY <1>2 DEF Unstarted
  <2>2. s.top \in Priorities /\ n.top \in Priorities
    BY <2>1 DEF WF, Shaped
  <2>3. 0 <= p
    BY <1>0 DEF Priorities
  <2> QED
    BY <1>0, <2>1, <2>2, <2>3, WFParts, Levels
<1>8. \A u \in D : /\ u \in Tasks \ {t} /\ n.prio[u] = s.prio[u] /\ s.prio[u] <= s.prio[s.current]
                  /\ s.prio[u] <= n.top
  BY <1>0, <1>6, <1>7 DEF Leads
<1>9. CASE s.prio[s.current] <= p
  <2>1. \A u \in E : n.prio[u] <= p /\ n.prio[u] <= n.top
    BY <1>2, <1>6, <1>7, <1>8, <1>9
  <2>2. Leads(m, E)
    BY <1>2, <1>3, <1>4, <1>6, <2>1 DEF Leads
  <2> HIDE DEF E
  <2>3. Unstarted(m, E)
    BY <1>2, <1>3, <1>4, SameStarting
  <2> QED
    BY <1>1, <1>2, <1>4, <1>9, <2>2, <2>3 DEF E, t, p
<1>10. CASE ~(s.prio[s.current] <= p)
  <2>1. s.current \in D
    BY <1>7, <1>10 DEF Leads
  <2>2. n.prio[s.current] = s.prio[s.current]
    BY <1>8, <2>1
  <2>3. \A u \in E : n.prio[u] <= n.prio[n.current] /\ n.prio[u] <= n.top
    BY <1>2, <1>6, <1>7, <1>8, <1>10, <2>1, <2>2
  <2>4. Leads(n, E)
    BY <1>6, <2>1, <2>3 DEF Leads
  <2> QED
    BY <1>1, <1>2, <1>10, <2>4 DEF t, p
<1> QED
  BY <1>9, <1>10

(* All tasks of an application, and the idle task at last. *)
LEMMA StartedOK ==
  ASSUME NEW k \in DOMAIN Scenarios
  PROVE  LET s == Started(Scenarios[k].created)
         IN  \E D \in SUBSET Tasks : Idle \in D /\ Unstarted(s, D) /\ Leads(s, D) /\ s.prio[Idle] = 0
<1> DEFINE created == Scenarios[k].created
           last == [task |-> Idle, prio |-> 0]
           q == Append(created, last)
           S == [task : Tasks, prio : Priorities]
           n == Len(created)
           D(i) == {q[j].task : j \in 1..i}
           s == Started(created)
<1>1. /\ created \in Seq([task : Tasks \ {Idle}, prio : Priorities])
      /\ \A i, j \in DOMAIN created : created[i].task = created[j].task => i = j
  BY ScenariosAssumption
<1>2. n \in Nat /\ DOMAIN created = 1..n
      /\ \A i \in 1..n : created[i].task \in Tasks \ {Idle} /\ created[i].prio \in Priorities
  <2> DEFINE R == [task : Tasks \ {Idle}, prio : Priorities]
  <2>1. created \in Seq(R)
    BY <1>1
  <2> HIDE DEF created, R
  <2>2. n \in Nat /\ DOMAIN created = 1..n /\ \A i \in 1..n : created[i] \in R
    BY <2>1
  <2>3. \A x \in R : x.task \in Tasks \ {Idle} /\ x.prio \in Priorities
    BY DEF R
  <2> QED
    BY <2>2, <2>3
<1>3. q \in Seq(S)
  <2> DEFINE R == [task : Tasks \ {Idle}, prio : Priorities]
  <2>1. created \in Seq(R)
    BY <1>1
  <2>2. R \subseteq S /\ last \in S
    BY Zero
  <2> HIDE DEF created, R, S, last
  <2>3. created \in Seq(S)
    BY <2>1, <2>2
  <2> QED
    BY <2>2, <2>3
<1>4. Len(q) = n + 1 /\ q[n + 1] = last /\ \A i \in 1..n : q[i] = created[i]
  BY <1>1
<1>5. s = AddedAll(Nobody, q)
  BY DEF Started, AddedAll
<1> HIDE DEF q, created, n
<1>6. \A i \in 1..(n + 1) : q[i].task \in Tasks /\ q[i].prio \in Priorities
  BY <1>2, <1>4, Zero
<1>7. \A i, j \in 1..(n + 1) : q[i].task = q[j].task => i = j
  <2>1. ASSUME NEW i \in 1..(n + 1), NEW j \in 1..(n + 1), q[i].task = q[j].task PROVE i = j
    <3>1. CASE i \in 1..n /\ j \in 1..n
      BY <1>1, <1>2, <1>4, <2>1, <3>1
    <3>2. CASE i \notin 1..n \/ j \notin 1..n
      <4>1. \A m \in 1..n : q[m].task # Idle
        BY <1>2, <1>4
      <4>2. \A m \in 1..(n + 1) : m \notin 1..n => m = n + 1 /\ q[m].task = Idle
        BY <1>2, <1>4
      <4> QED
        BY <2>1, <3>2, <4>1, <4>2
    <3> QED
      BY <3>1, <3>2
  <2> QED
    BY <2>1
<1>8. PICK F : /\ F[0] = Nobody /\ F[Len(q)] = AddedAll(Nobody, q)
               /\ \A i \in 1..Len(q) : F[i] = AddFirstTask(F[i - 1], q[i])
  BY ONLY <1>3, AddFirstFold
<1> DEFINE G == {i \in 0..(n + 1) : Unstarted(F[i], D(i)) /\ Leads(F[i], D(i)) /\ (i = n + 1 => F[i].prio[Idle] = 0)}
<1>9. 0 \in G
  <2>1. D(0) = {}
    OBVIOUS
  <2>2. 0 # n + 1 /\ 0 \in 0..(n + 1)
    BY <1>2
  <2> HIDE DEF D
  <2> QED
    BY <1>8, <2>1, <2>2, NobodyStarting, NobodyLeading
<1>10. ASSUME NEW i \in 1..(n + 1), i - 1 \in G PROVE i \in G
  <2>1. Unstarted(F[i - 1], D(i - 1)) /\ Leads(F[i - 1], D(i - 1))
    BY <1>10
  <2>2. F[i] = AddFirstTask(F[i - 1], q[i])
    BY <1>4, <1>8
  <2>3. D(i) = D(i - 1) \cup {q[i].task}
    <3>1. 1..i = (1..(i - 1)) \cup {i}
      BY <1>2
    <3> QED
      BY <3>1
  <2>4. q[i].task \in Tasks \ D(i - 1) /\ q[i].prio \in Priorities /\ D(i - 1) \in SUBSET Tasks
    <3>1. \A j \in 1..(i - 1) : j \in 1..(n + 1) /\ j # i
      BY <1>2
    <3> QED
      BY <1>2, <1>6, <1>7, <3>1
  <2> HIDE DEF D
  <2> DEFINE r == AddFirstTask(F[i - 1], q[i])
  <2>5. /\ Unstarted(r, D(i - 1) \cup {q[i].task}) /\ Leads(r, D(i - 1) \cup {q[i].task})
        /\ r.prio[q[i].task] = q[i].prio
    BY <2>1, <2>4, AddFirstOK
  <2>6. i = n + 1 => q[i].task = Idle /\ q[i].prio = 0
    BY <1>4
  <2> HIDE DEF r
  <2>7. F[i] = r
    BY <2>2 DEF r
  <2>8. i \in 0..(n + 1)
    BY <1>2
  <2> QED
    BY <2>3, <2>5, <2>6, <2>7, <2>8
<1>11. \A i \in 0..(n + 1) : i \in G
  <2> HIDE DEF G
  <2>1. n + 1 \in Nat
    BY <1>2
  <2> QED
    BY <1>9, <1>10, <2>1, Upward
<1>12. n + 1 \in 0..(n + 1)
  BY <1>2
<1>13. n + 1 \in G
  BY <1>11, <1>12
<1>14. Unstarted(F[n + 1], D(n + 1)) /\ Leads(F[n + 1], D(n + 1)) /\ F[n + 1].prio[Idle] = 0
  <2> HIDE DEF D
  <2> QED
    BY <1>13
<1>15. D(n + 1) \in SUBSET Tasks /\ Idle \in D(n + 1)
  <2>1. n + 1 \in 1..(n + 1) /\ q[n + 1].task = Idle
    BY <1>2, <1>4
  <2> QED
    BY <1>6, <2>1
<1> HIDE DEF D
<1>16. s = F[n + 1]
  BY <1>4, <1>5, <1>8
<1> HIDE DEF s
<1>17. \E E \in SUBSET Tasks : Idle \in E /\ Unstarted(s, E) /\ Leads(s, E) /\ s.prio[Idle] = 0
  BY <1>14, <1>15, <1>16
<1> QED
  BY <1>17 DEF s, created

LEMMA StartedSchedOK ==
  ASSUME NEW s, NEW D \in SUBSET Tasks, Idle \in D, Unstarted(s, D), s.prio[Idle] = 0
  PROVE  /\ SchedOK(s) /\ Ready(s, s.current)
         /\ \A t \in Tasks : t = Idle => ListedIn(s, t)
<1>1. WF(s) /\ s.current \in D /\ s.current \in Tasks
  BY DEF Unstarted
<1>2. \A t \in D : OnlyReady(s, t) /\ s.prio[t] \in Priorities
  BY <1>1, WFParts DEF Unstarted
<1>3. \A t \in D : Ready(s, t) /\ ListedIn(s, t)
  BY <1>2 DEF OnlyReady, Ready, ListedIn
<1>4. ASSUME NEW t \in Tasks PROVE Placed(s, t)
  <2>1. Unlinked(s, t) /\ s.notify[t] # "waiting"
    BY DEF Unstarted
  <2>2. CASE t \in D
    BY <1>2, <2>1, <2>2 DEF Placed, OnlyReady, Unlinked, Dormant
  <2>3. CASE t \notin D
    <3>1. Away(s, t)
      BY <2>3 DEF Unstarted
    <3> QED
      BY <2>1, <3>1 DEF Placed, Away, Unlinked, Dormant
  <2> QED
    BY <2>2, <2>3
<1>5. IdleReady(s)
  BY <1>3 DEF IdleReady, Ready
<1>6. CurrentApart(s)
  BY EmptyLists DEF CurrentApart, Unstarted
<1>7. SchedOK(s)
  BY <1>1, <1>4, <1>5, <1>6 DEF SchedOK, WF, OnePlace
<1> QED
  BY <1>1, <1>3, <1>7

LEMMA IdleFrame ==
  LET g == Frame(IdleCall)
  IN  /\ FrameOK(Idle, g) /\ g.op = "idle" /\ g.at = "start" /\ ~Inherits(g)
      /\ ~Holds(g) /\ ~Dozes(g) /\ ~Awaits(g) /\ ~Grouped(g)
<1> DEFINE g == Frame(IdleCall)
<1>1. IdleCall.op = "idle"
  BY DEF IdleCall
<1>2. IsFrame(g) /\ g.op = "idle" /\ g.at = "start"
  BY <1>1, FrameFieldsOf
<1> HIDE DEF g
<1>3. Stage(g)
  BY <1>2 DEF Stage, QueueOps
<1>4. ~Inherits(g) /\ ~Holds(g) /\ ~Dozes(g) /\ ~Awaits(g) /\ ~Grouped(g)
  BY <1>2 DEF Inherits, Holds, Dozes, Awaits, Grouped, QueueOps
<1>5. FrameOK(Idle, g)
  BY <1>2, <1>3 DEF FrameOK
<1> QED
  BY <1>2, <1>4, <1>5 DEF g

LEMMA InitCore == ASSUME SchedInit PROVE Core(sched, stack) /\ InheritOK /\ scenario \in DOMAIN Scenarios
<1>1. scenario \in DOMAIN Scenarios
  BY DEF SchedInit
<1>2. PICK D \in SUBSET Tasks : Idle \in D /\ Unstarted(sched, D) /\ sched.prio[Idle] = 0
  BY <1>1, StartedOK DEF SchedInit
<1>3. /\ SchedOK(sched) /\ Ready(sched, sched.current) /\ ListedIn(sched, Idle) /\ Idle \in Tasks
  BY <1>2, StartedSchedOK
<1> DEFINE g == Frame(IdleCall)
           w == <<g>>
<1>4. stack = [t \in Tasks |-> IF t = Idle THEN w ELSE << >>]
  BY DEF SchedInit
<1>5. /\ FrameOK(Idle, g) /\ g.op = "idle" /\ g.at = "start" /\ ~Inherits(g)
      /\ ~Holds(g) /\ ~Dozes(g) /\ ~Awaits(g) /\ ~Grouped(g)
  BY IdleFrame
<1> HIDE DEF g
<1>6. w = <<w[1]>> /\ w[1] = g /\ w # << >>
  BY Tails
<1> HIDE DEF w
<1>7. \A t \in Tasks : stack[t] = IF t = Idle THEN w ELSE << >>
  BY <1>4
<1>8. StackOK(stack)
  <2>1. stack = [t \in Tasks |-> stack[t]]
    BY <1>4
  <2>2. \A t \in Tasks \ {Idle} : stack[t] = << >>
    BY <1>7
  <2>3. stack[Idle] = w
    BY <1>3, <1>7
  <2>4. ASSUME NEW t \in Tasks
        PROVE \/ stack[t] = << >>
              \/ /\ stack[t] = <<stack[t][1]>> /\ FrameOK(t, stack[t][1])
                 /\ stack[t][1].op # "waitRestricted"
    <3>1. CASE t # Idle
      BY <2>2, <3>1
    <3>2. CASE t = Idle
      BY <1>5, <1>6, <2>3, <3>2
    <3> QED
      BY <3>1, <3>2
  <2> QED
    BY <1>6, <2>1, <2>3, <2>4 DEF StackOK
<1>9. \A t \in Tasks : TopOf(stack, t) = IF t = Idle THEN g ELSE NoFrame
  BY <1>6, <1>7 DEF TopOf
<1>10. ~Holds(NoFrame) /\ ~Dozes(NoFrame) /\ ~Awaits(NoFrame) /\ ~Grouped(NoFrame) /\ ~Inherits(NoFrame)
  BY DEF NoFrame, Holds, Dozes, Awaits, Grouped, QueueOps, Inherits
<1>11. Modes(sched, stack)
  <2>1. ASSUME NEW t \in Tasks
        PROVE  /\ ~Holds(TopOf(stack, t)) /\ sched.notify[t] # "waiting"
               /\ sched.evValue[t] \in 1..MaxPriorities /\ (stack[t] # << >> => ListedIn(sched, t))
    BY <1>2, <1>3, <1>5, <1>7, <1>9, <1>10 DEF Unstarted
  <2> QED
    BY <2>1 DEF Modes
<1>12. RunOK(sched, TopOf(stack, sched.current))
  <2>1. sched.current \in Tasks
    BY <1>3, SchedIs
  <2>2. ~Holds(TopOf(stack, sched.current))
    BY <1>5, <1>9, <1>10, <2>1
  <2>3. sched.suspendedAll = 0 /\ sched.pendingReady = << >>
    BY <1>2 DEF Unstarted
  <2>4. ListedIn(sched, sched.current)
    <3>1. sched.prio[sched.current] \in Priorities
      BY <1>3, <2>1, SchedIs, WFParts
    <3> QED
      BY <1>3, <3>1 DEF Ready, ListedIn
  <2> QED
    BY <1>3, <2>2, <2>3, <2>4 DEF RunOK, Runnable
<1>13. InheritOK
  BY <1>5, <1>9, <1>10 DEF InheritOK
<1> QED
  BY <1>1, <1>3, <1>8, <1>11, <1>12, <1>13 DEF Core

LEMMA InitNone == ASSUME SchedInit PROVE NoSatisfied
<1>1. scenario \in DOMAIN Scenarios
  BY DEF SchedInit
<1>2. PICK D \in SUBSET Tasks : Idle \in D /\ Unstarted(sched, D) /\ sched.prio[Idle] = 0
  BY <1>1, StartedOK DEF SchedInit
<1>3. SchedOK(sched)
  BY <1>2, StartedSchedOK
<1>4. \A g \in Groups : Waiting(g) \in EventLists
  BY WaitingList
<1>5. \A g \in Groups : \A t \in Tasks : ~Contains(sched.events[Waiting(g)], t)
  BY <1>2, <1>4 DEF Unstarted, Unlinked
<1>6. ASSUME NEW g \in Groups, NEW t \in Range(sched.events[Waiting(g)]) PROVE FALSE
  BY <1>3, <1>5, <1>6, Waiters
<1> QED
  BY <1>6 DEF NoSatisfied

LEMMA InitParts == ASSUME Init PROVE Inv /\ GroupsOK /\ NoSatisfied
<1>1. Core(sched, stack) /\ InheritOK /\ scenario \in DOMAIN Scenarios /\ NoSatisfied
  BY InitCore, InitNone DEF Init
<1>2. QueuesOK
  <2>1. queue = [q \in Queues |-> NewQueue(q)]
    BY DEF Init, QueueInit
  <2>2. \A q \in Queues : queue[q] = NewQueue(q) /\ QueueIs(q, NewQueue(q))
    BY <2>1, NewQueueIs
  <2> QED
    BY <2>1, <2>2 DEF QueuesOK
<1>3. GroupsOK
  BY DEF Init, GroupsInit, GroupsOK, NewGroup
<1>4. PeersOK
  <2>1. stream = [b \in Streams |-> NewStream(b, FirstTrigger[b])]
    BY DEF Init, StreamsInit
  <2>2. \A b \in Streams : stream[b] = NewStream(b, FirstTrigger[b]) /\ IsStream(NewStream(b, FirstTrigger[b]))
    BY <2>1, NewStreamIs
  <2>3. \A b \in Streams : IsStream(stream[b])
    BY <2>2
  <2> QED
    BY <2>1, <2>3 DEF PeersOK, IsStream
<1> QED
  BY <1>1, <1>2, <1>3, <1>4 DEF Inv

----------------------------------------------------------------------------
(* The invariant. *)

All == Core(sched, stack) /\ QueuesOK /\ PeersOK /\ InheritOK /\ GroupsOK /\ NoSatisfied

LEMMA SameStreams == ASSUME PeersOK, UNCHANGED stream PROVE PeersOK'
BY DEF PeersOK, IsStream

(* A step that keeps the tasks in order and touches at most the queues. *)
LEMMA KeepsAll ==
  ASSUME All, KeepsStep, QueuesOK', PeersOK', UNCHANGED group
  PROVE  All'
<1>1. GroupStepOK
  BY SameGroups DEF All
<1> QED
  BY <1>1 DEF All, KeepsStep, GroupStepOK

LEMMA MenuCalls ==
  ASSUME scenario \in DOMAIN Scenarios, NEW t \in Tasks, NEW i \in DOMAIN Menu(t)
  PROVE  Proper(Menu(t)[i]) /\ Menu(t)[i].op # "waitRestricted"
BY ScenariosAssumption DEF Menu

LEMMA InterruptCalls ==
  ASSUME scenario \in DOMAIN Scenarios, NEW i \in DOMAIN Scenarios[scenario].isr
  PROVE  Proper(Scenarios[scenario].isr[i])
BY ScenariosAssumption

LEMMA NewCallAll ==
  ASSUME All, scenario \in DOMAIN Scenarios, NewCall
  PROVE  All' /\ UNCHANGED scenario
<1>1. PICK i \in DOMAIN Menu(me) : Call(Menu(me)[i])
  BY DEF NewCall
<1>2. me \in Tasks
  BY SchedIs DEF All, Core, me
<1> DEFINE call == Menu(me)[i]
<1>3. Proper(call) /\ call.op # "waitRestricted"
  BY <1>2, MenuCalls
<1>4. Core(sched, stack) /\ Call(call)
  BY <1>1 DEF All
<1>5. UNCHANGED <<queue, group, stream, scenario>>
  BY <1>4 DEF NewCall, Call
<1> HIDE DEF call
<1>6. FineStep
  BY <1>3, <1>4, CallFine
<1> QED
  BY <1>5, <1>6, FineKeeps, SameQueues, SameStreams, KeepsAll DEF All

LEMMA StepAll == ASSUME All, Step PROVE All' /\ UNCHANGED scenario
<1>1. ASSUME TaskStep, UNCHANGED <<queue, group, stream>> PROVE All' /\ UNCHANGED scenario
  BY <1>1, TaskStepFine, FineKeeps, SameQueues, SameStreams, KeepsAll DEF All
<1>2. ASSUME QueueStep, UNCHANGED <<group, stream>> PROVE All' /\ UNCHANGED scenario
  BY <1>2, QueueStepFine, SameStreams, KeepsAll DEF All, QueueStepOK
<1>3. ASSUME GroupStep, UNCHANGED <<queue, stream>> PROVE All' /\ UNCHANGED scenario
  BY <1>3, GroupStepFine, SameQueues, SameStreams DEF All, GroupsKeep
<1>4. ASSUME StreamStep, UNCHANGED <<queue, group>> PROVE All' /\ UNCHANGED scenario
  BY <1>4, StreamStepFine, FineKeeps, SameQueues, KeepsAll DEF All, StreamStepOK
<1>5. ASSUME TimerStep, UNCHANGED <<group, stream>> PROVE All' /\ UNCHANGED scenario
  BY <1>5, TimerStepFine, SameStreams, KeepsAll DEF All, QueueStepOK
<1> QED
  BY <1>1, <1>2, <1>3, <1>4, <1>5 DEF Step

LEMMA InterruptAll ==
  ASSUME All, scenario \in DOMAIN Scenarios, Interrupt
  PROVE  All' /\ UNCHANGED scenario
<1>1. PICK i \in DOMAIN Scenarios[scenario].isr :
        LET call == Scenarios[scenario].isr[i]
        IN  \/ NotifyInterrupt(call) /\ UNCHANGED <<queue, group, stream, content, timer>>
            \/ QueueInterrupt(call) /\ UNCHANGED <<group, stream, content, timer>>
            \/ StreamInterrupt(call) /\ UNCHANGED <<queue, group, timer>>
            \/ LegalTimerCall(call) /\ TimerFromISR(call) /\ UNCHANGED <<group, stream, content>>
  BY DEF Interrupt
<1> DEFINE call == Scenarios[scenario].isr[i]
<1>2. Proper(call)
  BY InterruptCalls
<1>3. \/ NotifyInterrupt(call) /\ UNCHANGED <<queue, group, stream>>
      \/ QueueInterrupt(call) /\ UNCHANGED <<group, stream>>
      \/ StreamInterrupt(call) /\ UNCHANGED <<queue, group>>
      \/ TimerFromISR(call) /\ UNCHANGED <<group, stream>>
  BY <1>1
<1> HIDE DEF call
<1>4. CASE NotifyInterrupt(call) /\ UNCHANGED <<queue, group, stream>>
  <2>1. Calm(sched, sched')
    BY <1>2, <1>4, NotifyInterruptCalm DEF All
  <2>2. UNCHANGED stack /\ UNCHANGED scenario
    BY <1>4 DEF NotifyInterrupt
  <2> QED
    BY <1>4, <2>1, <2>2, InterruptKeeps, SameQueues, SameStreams, KeepsAll DEF All
<1>5. CASE QueueInterrupt(call) /\ UNCHANGED <<group, stream>>
  BY <1>2, <1>5, QueueInterruptFine, SameStreams, KeepsAll DEF All, QueueStepOK
<1>6. CASE StreamInterrupt(call) /\ UNCHANGED <<queue, group>>
  BY <1>2, <1>6, StreamInterruptFine, InterruptKeeps, SameQueues, KeepsAll DEF All
<1>7. CASE TimerFromISR(call) /\ UNCHANGED <<group, stream>>
  BY <1>2, <1>7, TimerInterruptFine, SameStreams, KeepsAll DEF All, QueueStepOK
<1> QED
  BY <1>3, <1>4, <1>5, <1>6, <1>7

LEMMA TickAll == ASSUME All, Tick PROVE All' /\ UNCHANGED scenario
<1>1. SysTick /\ UNCHANGED <<queue, group, stream, stack, scenario>>
  BY DEF Tick, SysTick
<1>2. Calm(sched, sched')
  BY <1>1, SysTickCalm DEF All
<1> QED
  BY <1>1, <1>2, InterruptKeeps, SameQueues, SameStreams, KeepsAll DEF All

LEMMA SwitchAll == ASSUME All, Switch PROVE All' /\ UNCHANGED scenario
<1> DEFINE r == SwitchContext(sched)
<1>1. sched' = r /\ UNCHANGED <<queue, group, stream, stack, scenario>>
  BY DEF Switch, PendSV
<1>2. Core(r, stack) /\ Silent(sched, r)
  BY SwitchContextOK DEF All
<1> HIDE DEF r
<1>3. InheritOK'
  BY <1>1 DEF All, InheritOK
<1>4. KeepsStep
  BY <1>1, <1>2, <1>3 DEF KeepsStep
<1> QED
  BY <1>1, <1>4, SameQueues, SameStreams, KeepsAll DEF All

LEMMA StutterAll == ASSUME All, UNCHANGED vars PROVE All'
<1>1. QueuesOK' /\ PeersOK'
  BY SameQueues, SameStreams DEF All, vars
<1>2. Core(sched, stack)' /\ InheritOK'
  BY DEF All, vars, InheritOK
<1>3. GroupsOK'
  BY DEF All, vars, GroupsOK
<1>4. NoSatisfied'
  BY DEF All, vars, NoSatisfied
<1> QED
  BY <1>1, <1>2, <1>3, <1>4 DEF All

IInv == Inv /\ GroupsOK /\ NoSatisfied

LEMMA IInvIs == IInv <=> scenario \in DOMAIN Scenarios /\ All
BY DEF IInv, Inv, All

LEMMA NextAll == ASSUME IInv, [Next]_vars PROVE IInv'
<1>1. scenario \in DOMAIN Scenarios /\ All
  BY IInvIs
<1>2. ASSUME Next PROVE All' /\ UNCHANGED scenario
  BY <1>1, <1>2, NewCallAll, StepAll, InterruptAll, TickAll, SwitchAll DEF Next
<1>3. ASSUME UNCHANGED vars PROVE All' /\ UNCHANGED scenario
  BY <1>1, <1>3, StutterAll DEF vars
<1>4. All' /\ UNCHANGED scenario
  BY <1>2, <1>3
<1> QED
  BY <1>1, <1>4 DEF IInv, Inv, All

(* Whatever the tasks call and whenever interrupts come, the lists of the   *)
(* scheduler stay lists (list.c), every task is where the step its call has *)
(* reached says it is, the current task is ready or about to yield, locked  *)
(* queues and their counts stay consistent, and nobody is left waiting for  *)
(* bits that are there: the invariant holds of every state.                 *)
THEOREM Invariance == Spec => []IInv
<1>1. Init => IInv
  BY InitParts DEF IInv
<1>2. IInv /\ [Next]_vars => IInv'
  BY NextAll
<1> QED
  BY <1>1, <1>2, PTL DEF Spec

----------------------------------------------------------------------------
(* One list for every task, no waiter forgotten. *)

LEMMA AtMostOne ==
  ASSUME NEW S, NEW x, S \subseteq {x}
  PROVE  Cardinality(S) \in Nat /\ Cardinality(S) <= 1 /\ (S = {} => Cardinality(S) = 0)
<1>1. Cardinality({x}) = 1 /\ IsFiniteSet({x})
  BY FS_Singleton
<1>2. IsFiniteSet(S) /\ Cardinality(S) <= Cardinality({x})
  BY <1>1, FS_Subset
<1>3. Cardinality(S) \in Nat
  BY <1>2, FS_CardinalityType
<1>4. S = {} => Cardinality(S) = 0
  BY FS_EmptySet
<1> QED
  BY <1>1, <1>2, <1>3, <1>4

LEMMA InListParts ==
  ASSUME NEW s, NEW t, NEW l \in InList(s, t)
  PROVE  \/ l = "delayed" /\ Contains(s.delayed, t)
         \/ l = "overflow" /\ Contains(s.overflow, t)
         \/ l = "suspended" /\ Contains(s.suspended, t)
         \/ l = "terminating" /\ Contains(s.terminating, t)
         \/ l \in Priorities /\ Contains(s.ready[l].items, t)
BY DEF InList

LEMMA OneListAtMost ==
  ASSUME NEW s, NEW t, Placed(s, t)
  PROVE  \E x : InList(s, t) \subseteq {x}
<1>1. CASE \E p \in Priorities : Contains(s.ready[p].items, t)
  <2>1. ~Contains(s.delayed, t) /\ ~Contains(s.overflow, t) /\ ~Contains(s.suspended, t)
        /\ ~Contains(s.terminating, t) /\ \A p \in Priorities : Contains(s.ready[p].items, t) => p = s.prio[t]
    BY <1>1 DEF Placed, Dormant
  <2>2. InList(s, t) \subseteq {s.prio[t]}
    BY <2>1, InListParts
  <2> QED
    BY <2>2
<1>2. CASE ~\E p \in Priorities : Contains(s.ready[p].items, t)
  <2>1. CASE Contains(s.delayed, t)
    <3>1. ~Contains(s.overflow, t) /\ ~Contains(s.suspended, t) /\ ~Contains(s.terminating, t)
      BY <2>1 DEF Placed, Dormant
    <3>2. InList(s, t) \subseteq {"delayed"}
      BY <1>2, <3>1, InListParts
    <3> QED
      BY <3>2
  <2>2. CASE Contains(s.overflow, t)
    <3>1. ~Contains(s.delayed, t) /\ ~Contains(s.suspended, t) /\ ~Contains(s.terminating, t)
      BY <2>2 DEF Placed, Dormant
    <3>2. InList(s, t) \subseteq {"overflow"}
      BY <1>2, <3>1, InListParts
    <3> QED
      BY <3>2
  <2>3. CASE ~Contains(s.delayed, t) /\ ~Contains(s.overflow, t) /\ Contains(s.suspended, t)
    <3>1. ~Contains(s.terminating, t)
      BY <2>3 DEF Placed, Dormant
    <3>2. InList(s, t) \subseteq {"suspended"}
      BY <1>2, <2>3, <3>1, InListParts
    <3> QED
      BY <3>2
  <2>4. CASE ~Contains(s.delayed, t) /\ ~Contains(s.overflow, t) /\ ~Contains(s.suspended, t)
    <3>1. InList(s, t) \subseteq {"terminating"}
      BY <1>2, <2>4, InListParts
    <3> QED
      BY <3>1
  <2> QED
    BY <2>1, <2>2, <2>3, <2>4
<1> QED
  BY <1>1, <1>2

LEMMA ListedInList ==
  ASSUME NEW s, NEW t
  PROVE  /\ ListedIn(s, t) => InList(s, t) # {}
         /\ Dormant(s, t) => InList(s, t) \cap {"delayed", "overflow", "suspended"} # {}
<1>1. Contains(s.delayed, t) => "delayed" \in InList(s, t)
  BY DEF InList
<1>2. Contains(s.overflow, t) => "overflow" \in InList(s, t)
  BY DEF InList
<1>3. Contains(s.suspended, t) => "suspended" \in InList(s, t)
  BY DEF InList
<1>4. Contains(s.terminating, t) => "terminating" \in InList(s, t)
  BY DEF InList
<1>5. \A p \in Priorities : Contains(s.ready[p].items, t) => p \in InList(s, t)
  BY DEF InList
<1> QED
  BY <1>1, <1>2, <1>3, <1>4, <1>5 DEF ListedIn, Dormant

LEMMA InvOneStateList == ASSUME Inv PROVE OneStateList
<1> SUFFICES ASSUME NEW t \in Tasks
    PROVE  /\ Cardinality(InList(sched, t)) <= 1
           /\ Contains(sched.pendingReady, t) => sched.suspendedAll > 0
           /\ stack[t] # << >> => InList(sched, t) # {}
           /\ \A p \in Priorities : Contains(sched.ready[p].items, t) => p = sched.prio[t]
           /\ Cardinality(Waits(sched, t)) + (IF Contains(sched.pendingReady, t) THEN 1 ELSE 0) <= 1
           /\ Waits(sched, t) # {} => InList(sched, t) \cap {"delayed", "overflow", "suspended"} # {}
  BY DEF OneStateList
<1>1. Placed(sched, t) /\ (stack[t] # << >> => ListedIn(sched, t))
      /\ (sched.pendingReady # << >> => sched.suspendedAll > 0)
  BY DEF Inv, Core, SchedOK, OnePlace, Modes, RunOK
<1>2. Cardinality(InList(sched, t)) <= 1
  BY <1>1, OneListAtMost, AtMostOne
<1>3. Contains(sched.pendingReady, t) => sched.suspendedAll > 0
  BY <1>1 DEF Contains
<1>4. stack[t] # << >> => InList(sched, t) # {}
  BY <1>1, ListedInList
<1>5. \A p \in Priorities : Contains(sched.ready[p].items, t) => p = sched.prio[t]
  BY <1>1 DEF Placed
<1>6. Cardinality(Waits(sched, t)) + (IF Contains(sched.pendingReady, t) THEN 1 ELSE 0) <= 1
  <2>1. CASE Waits(sched, t) = {}
    BY <2>1, AtMostOne
  <2>2. CASE Waits(sched, t) # {}
    <3>1. PICK l \in EventLists : Contains(sched.events[l], t)
      BY <2>2 DEF Waits
    <3>2. Waits(sched, t) \subseteq {l} /\ ~Contains(sched.pendingReady, t)
      BY <1>1, <3>1 DEF Waits, Placed
    <3>3. Cardinality(Waits(sched, t)) \in Nat /\ Cardinality(Waits(sched, t)) <= 1
      BY <3>2, AtMostOne
    <3> QED
      BY <3>2, <3>3
  <2> QED
    BY <2>1, <2>2
<1>7. Waits(sched, t) # {} => InList(sched, t) \cap {"delayed", "overflow", "suspended"} # {}
  BY <1>1, ListedInList DEF Waits, Placed
<1> QED
  BY <1>2, <1>3, <1>4, <1>5, <1>6, <1>7

(* tasks.c keeps every task in exactly one of its lists of states, a ready  *)
(* one in that of its current priority, and in the list of one event at     *)
(* most, for any number of tasks.                                           *)
THEOREM OneList == Spec => []OneStateList
<1>1. IInv => OneStateList
  BY InvOneStateList DEF IInv
<1> QED
  BY <1>1, Invariance, PTL

(* xEventGroupSetBits, xEventGroupSync and xEventGroupWaitBits leave nobody *)
(* waiting for bits that are there (event_groups.c), whoever comes in       *)
(* between.                                                                 *)
THEOREM GroupWaiters == Spec => []NoForgottenWaiter
<1>1. IInv => NoForgottenWaiter
  BY DEF IInv, NoSatisfied, NoForgottenWaiter
<1> QED
  BY <1>1, Invariance, PTL

----------------------------------------------------------------------------
(* Queues keep the order. *)

(* What is in a queue, as a sequence. *)
ItemAt(q, r, i) == IF Kind[q] = "queue" THEN r.storage[(r.read + i) % Length[q]] ELSE Token

ItemsOf(q, r) == [i \in 1..r.count |-> ItemAt(q, r, i)]

IsItems(c, n) == n \in Nat /\ c = [i \in 1..n |-> c[i]]

LEMMA ItemsLen ==
  ASSUME NEW c, NEW n, IsItems(c, n)
  PROVE  c \in Seq(Range(c)) /\ Len(c) = n /\ DOMAIN c = 1..n
<1>1. n \in Nat /\ DOMAIN c = 1..n
  BY DEF IsItems
<1>2. c \in [1..n -> Range(c)]
  BY <1>1 DEF IsItems, Range
<1>3. c \in Seq(Range(c))
  BY <1>1, <1>2
<1> QED
  BY <1>1, <1>3

LEMMA ItemsPrefix ==
  ASSUME NEW c, NEW n, IsItems(c, n), NEW d, NEW m, IsItems(d, m), n <= m,
         \A i \in 1..n : d[i] = c[i]
  PROVE  IsPrefix(c, d)
<1>1. c \in Seq(Range(c)) /\ Len(c) = n /\ d \in Seq(Range(d)) /\ Len(d) = m /\ n \in Nat /\ m \in Nat
  BY ItemsLen DEF IsItems
<1>2. SubSeq(c, 1, n) = [i \in 1..n |-> c[i]]
  BY <1>1
<1>3. SubSeq(d, 1, n) = [i \in 1..n |-> d[i]]
  BY <1>1
<1>4. SubSeq(c, 1, n) = SubSeq(d, 1, n)
  BY <1>2, <1>3
<1> QED
  BY <1>1, <1>4 DEF IsPrefix

LEMMA ItemsSuffix ==
  ASSUME NEW c, NEW n, IsItems(c, n), NEW d, IsItems(d, n + 1),
         \A i \in 1..n : d[i + 1] = c[i]
  PROVE  IsSuffix(c, d)
<1> DEFINE e == Reverse(c)
           f == Reverse(d)
<1>1. Len(c) = n /\ Len(d) = n + 1 /\ n \in Nat /\ n + 1 \in Nat
  BY ItemsLen DEF IsItems
<1>2. e = [i \in 1..n |-> c[(n - i) + 1]] /\ f = [i \in 1..(n + 1) |-> d[(n + 1 - i) + 1]]
  BY <1>1 DEF Reverse
<1> HIDE DEF e, f
<1>3. IsItems(e, n) /\ IsItems(f, n + 1)
  BY <1>1, <1>2 DEF IsItems
<1>4. ASSUME NEW i \in 1..n PROVE f[i] = e[i]
  <2>1. (n - i) + 1 \in 1..n /\ ((n - i) + 1) + 1 = (n + 1 - i) + 1 /\ i \in 1..(n + 1)
    BY <1>1
  <2>2. d[((n - i) + 1) + 1] = c[(n - i) + 1]
    BY <2>1
  <2> QED
    BY <1>2, <2>1, <2>2
<1>5. IsPrefix(e, f)
  BY <1>1, <1>3, <1>4, ItemsPrefix
<1> QED
  BY <1>5 DEF IsSuffix, e, f

LEMMA ItemsTail ==
  ASSUME NEW c, NEW n, IsItems(c, n), n > 0, NEW d, IsItems(d, n - 1),
         \A i \in 1..(n - 1) : d[i] = c[i + 1]
  PROVE  c # << >> /\ d = Tail(c)
<1>1. c \in Seq(Range(c)) /\ Len(c) = n /\ n \in Nat /\ n - 1 \in Nat /\ d = [i \in 1..(n - 1) |-> d[i]]
  BY ItemsLen DEF IsItems
<1>3. c # << >>
  BY <1>1
<1> DEFINE e == Tail(c)
<1>4. e \in Seq(Range(c)) /\ Len(e) = n - 1 /\ \A i \in 1..(n - 1) : e[i] = c[i + 1]
  BY <1>1, <1>3, HeadTailProperties
<1> HIDE DEF e
<1>6. e \in [1..Len(e) -> Range(c)]
  BY <1>4, LenProperties
<1>5. e = [i \in 1..(n - 1) |-> e[i]]
  BY <1>4, <1>6
<1> QED
  BY <1>1, <1>3, <1>4, <1>5 DEF e

LEMMA ItemsEmpty == ASSUME NEW c, IsItems(c, 0) PROVE c = << >>
BY DEF IsItems

(* A step of a bounded queue, or of none. *)
MovesOn(q, c, d) ==
  \/ d = c
  \/ Len(c) < Length[q] /\ Len(d) = Len(c) + 1 /\ (IsPrefix(c, d) \/ IsSuffix(c, d))
  \/ Length[q] = 1 /\ Len(d) = 1
  \/ c # << >> /\ d = Tail(c)
  \/ d = << >>

RingMoves(q, r) == QueueIs(q, r) /\ MovesOn(q, ItemsOf(q, queue[q]), ItemsOf(q, r))

LEMMA ItemsAre ==
  ASSUME NEW q \in Queues, NEW r, QueueIs(q, r)
  PROVE  /\ IsItems(ItemsOf(q, r), r.count) /\ r.count \in 0..Length[q] /\ Length[q] \in Nat \ {0}
         /\ \A i \in 1..r.count : ItemsOf(q, r)[i] = ItemAt(q, r, i)
         /\ NoItem \notin Range(ItemsOf(q, r))
<1>1. r.count \in 0..Length[q] /\ Length[q] \in Nat \ {0}
  BY QueuesAssumption DEF QueueIs
<1>2. \A i \in 1..r.count : ItemsOf(q, r)[i] = ItemAt(q, r, i)
  BY DEF ItemsOf
<1>3. IsItems(ItemsOf(q, r), r.count)
  BY <1>1 DEF IsItems, ItemsOf
<1>4. \A i \in 1..r.count : ItemAt(q, r, i) # NoItem
  <2>1. CASE Kind[q] = "queue"
    BY <2>1 DEF QueueIs, ItemAt, ItemOK
  <2>2. CASE Kind[q] # "queue"
    <3>1. Token # NoItem
      BY DEF Token, NoItem
    <3> QED
      BY <2>2, <3>1 DEF ItemAt
  <2> QED
    BY <2>1, <2>2
<1>5. NoItem \notin Range(ItemsOf(q, r))
  BY <1>2, <1>3, <1>4 DEF IsItems, Range
<1> QED
  BY <1>1, <1>2, <1>3, <1>5

(* Sending, from the places of the items. *)
LEMMA GrowsMoves ==
  ASSUME QueuesOK, NEW q \in Queues, NEW r, QueueIs(q, r), r.count = queue[q].count + 1,
         \/ \A i \in 1..queue[q].count : ItemAt(q, r, i) = ItemAt(q, queue[q], i)
         \/ \A i \in 1..queue[q].count : ItemAt(q, r, i + 1) = ItemAt(q, queue[q], i)
  PROVE  RingMoves(q, r)
<1> DEFINE o == queue[q]
           c == ItemsOf(q, o)
           d == ItemsOf(q, r)
<1>1. QueueIs(q, o)
  BY QueueParts
<1>2. /\ IsItems(c, o.count) /\ IsItems(d, r.count) /\ o.count \in Nat /\ r.count \in 0..Length[q]
      /\ Length[q] \in Nat
      /\ \A i \in 1..o.count : c[i] = ItemAt(q, o, i)
      /\ \A i \in 1..r.count : d[i] = ItemAt(q, r, i)
  BY <1>1, ItemsAre
<1> HIDE DEF c, d
<1>3. Len(c) = o.count /\ Len(d) = r.count
  BY <1>2, ItemsLen
<1>4. CASE \A i \in 1..o.count : ItemAt(q, r, i) = ItemAt(q, o, i)
  <2>1. \A i \in 1..o.count : i \in 1..r.count /\ d[i] = c[i]
    BY <1>2, <1>4
  <2>2. IsPrefix(c, d)
    BY <1>2, <2>1, ItemsPrefix
  <2> QED
    BY <1>2, <1>3, <2>2 DEF RingMoves, MovesOn, c, d
<1>5. CASE \A i \in 1..o.count : ItemAt(q, r, i + 1) = ItemAt(q, o, i)
  <2>1. \A i \in 1..o.count : i + 1 \in 1..r.count /\ d[i + 1] = c[i]
    BY <1>2, <1>5
  <2>2. IsSuffix(c, d)
    BY <1>2, <2>1, ItemsSuffix
  <2> QED
    BY <1>2, <1>3, <2>2 DEF RingMoves, MovesOn, c, d
<1> QED
  BY <1>4, <1>5

LEMMA ShrinksMoves ==
  ASSUME QueuesOK, NEW q \in Queues, NEW r, QueueIs(q, r), queue[q].count # 0,
         r.count = queue[q].count - 1,
         \A i \in 1..(queue[q].count - 1) : ItemAt(q, r, i) = ItemAt(q, queue[q], i + 1)
  PROVE  RingMoves(q, r)
<1> DEFINE o == queue[q]
           c == ItemsOf(q, o)
           d == ItemsOf(q, r)
<1>1. QueueIs(q, o)
  BY QueueParts
<1>2. /\ IsItems(c, o.count) /\ IsItems(d, r.count) /\ o.count \in Nat /\ o.count > 0
      /\ \A i \in 1..o.count : c[i] = ItemAt(q, o, i)
      /\ \A i \in 1..r.count : d[i] = ItemAt(q, r, i)
  BY <1>1, ItemsAre
<1> HIDE DEF c, d
<1>3. \A i \in 1..(o.count - 1) : i \in 1..r.count /\ i + 1 \in 1..o.count
  BY <1>2
<1>4. \A i \in 1..(o.count - 1) : d[i] = c[i + 1]
  BY <1>2, <1>3
<1>5. IsItems(d, o.count - 1)
  BY <1>2
<1>6. c # << >> /\ d = Tail(c)
  BY <1>2, <1>4, <1>5, ItemsTail
<1> QED
  BY <1>6 DEF RingMoves, MovesOn, c, d

LEMMA SameMoves ==
  ASSUME NEW q \in Queues, NEW r, QueueIs(q, r), r.count = queue[q].count,
         Kind[q] = "queue" => r.storage = queue[q].storage /\ r.read = queue[q].read
  PROVE  RingMoves(q, r)
<1>1. \A i \in 1..r.count : ItemAt(q, r, i) = ItemAt(q, queue[q], i)
  BY DEF ItemAt
<1>2. ItemsOf(q, r) = ItemsOf(q, queue[q])
  BY <1>1 DEF ItemsOf
<1> QED
  BY <1>2 DEF RingMoves, MovesOn

(* A ring that is neither full nor empty has other places between. *)
LEMMA RingApart ==
  ASSUME NEW L \in Nat \ {0}, NEW a \in 0..(L - 1), NEW n \in 0..(L - 1), NEW i \in 1..n
  PROVE  (a + i) % L # (a + 1 + n) % L /\ (a + i) % L # a /\ (a + i) % L \in 0..(L - 1)
<1>1. i \in 0..L /\ n + 1 \in 0..L /\ a + 1 + n = a + (n + 1)
  OBVIOUS
<1>2. (a + i) % L = (IF a + i < L THEN a + i ELSE a + i - L) /\ (a + i) % L \in 0..(L - 1)
  BY <1>1, RingPlace
<1>3. (a + (n + 1)) % L = (IF a + (n + 1) < L THEN a + (n + 1) ELSE a + (n + 1) - L)
  BY <1>1, RingPlace
<1>4. (a + 1 + n) % L = (IF a + 1 + n < L THEN a + 1 + n ELSE a + 1 + n - L)
  BY <1>1, <1>3
<1> DEFINE u == (a + i) % L
           v == (a + 1 + n) % L
<1>5. u = (IF a + i < L THEN a + i ELSE a + i - L) /\ v = (IF a + 1 + n < L THEN a + 1 + n ELSE a + 1 + n - L)
  BY <1>2, <1>4
<1> HIDE DEF u, v
<1>6. u # v /\ u # a
  BY <1>5
<1> QED
  BY <1>2, <1>6 DEF u, v

LEMMA BackItems ==
  ASSUME QueuesOK, NEW q \in Queues, Kind[q] = "queue", queue[q].count # Length[q], NEW item, NEW r,
         r = ToBack(q, item)
  PROVE  /\ r.count = queue[q].count + 1
         /\ \A i \in 1..queue[q].count : ItemAt(q, r, i) = ItemAt(q, queue[q], i)
<1> DEFINE o == queue[q]
           L == Length[q]
           m == [o.storage EXCEPT ![o.write] = item]
<1>1. /\ QueueIs(q, o) /\ o = [k \in QueueFields |-> o[k]] /\ L \in Nat \ {0} /\ o.count \in 0..(L - 1)
  BY QueueParts DEF QueueIs
<1>2. /\ o.storage = [i \in 0..(L - 1) |-> o.storage[i]] /\ o.read \in 0..(L - 1)
      /\ o.write = (o.read + 1 + o.count) % L
  BY <1>1 DEF QueueIs
<1>3. r.count = o.count + 1 /\ r.storage = m /\ r.read = o.read
  BY <1>1 DEF ToBack, QueueFields
<1> HIDE DEF o, L, m
<1>4. ASSUME NEW i \in 1..o.count PROVE m[(o.read + i) % L] = o.storage[(o.read + i) % L]
  <2> DEFINE w == (o.read + 1 + o.count) % L
  <2>2. (o.read + i) % L # w /\ (o.read + i) % L \in 0..(L - 1)
    BY <1>1, <1>2, RingApart
  <2>3. o.write = w
    BY <1>2
  <2> HIDE DEF w
  <2>1. (o.read + i) % L # o.write /\ (o.read + i) % L \in 0..(L - 1)
    BY <2>2, <2>3
  <2> QED
    BY <1>2, <2>1 DEF m
<1>5. \A i \in 1..o.count : ItemAt(q, r, i) = ItemAt(q, o, i)
  BY <1>3, <1>4 DEF ItemAt, L
<1> QED
  BY <1>3, <1>5 DEF o

LEMMA FrontItems ==
  ASSUME QueuesOK, NEW q \in Queues, Kind[q] = "queue", queue[q].count # Length[q], NEW item, NEW r,
         r = ToFront(q, item)
  PROVE  /\ r.count = queue[q].count + 1
         /\ \A i \in 1..queue[q].count : ItemAt(q, r, i + 1) = ItemAt(q, queue[q], i)
<1> DEFINE o == queue[q]
           L == Length[q]
           m == [o.storage EXCEPT ![o.read] = item]
<1>1. /\ QueueIs(q, o) /\ o = [k \in QueueFields |-> o[k]] /\ L \in Nat \ {0} /\ o.count \in 0..(L - 1)
  BY QueueParts DEF QueueIs
<1>2. o.storage = [i \in 0..(L - 1) |-> o.storage[i]] /\ o.read \in 0..(L - 1)
  BY <1>1 DEF QueueIs
<1>3. r.count = o.count + 1 /\ r.storage = m /\ r.read = (o.read - 1) % L
  BY <1>1 DEF ToFront, QueueFields, PrevPlace
<1> HIDE DEF o, L, m
<1>4. \A i \in 1..o.count : (r.read + (i + 1)) % L = (o.read + i) % L
  BY <1>1, <1>2, <1>3, RingFront DEF IsFront
<1>5. ASSUME NEW i \in 1..o.count PROVE m[(r.read + (i + 1)) % L] = o.storage[(o.read + i) % L]
  <2>1. (o.read + i) % L # o.read /\ (o.read + i) % L \in 0..(L - 1)
    BY <1>1, <1>2, RingApart
  <2>2. m[(o.read + i) % L] = o.storage[(o.read + i) % L]
    BY <1>2, <2>1 DEF m
  <2> QED
    BY <1>4, <2>2
<1>6. \A i \in 1..o.count : ItemAt(q, r, i + 1) = ItemAt(q, o, i)
  BY <1>3, <1>5 DEF ItemAt, L
<1> QED
  BY <1>3, <1>6 DEF o

LEMMA CopyToMoves ==
  ASSUME QueuesOK, NEW q \in Queues, NEW item, NEW position,
         IF Kind[q] = "queue"
         THEN position \in {"back", "front", "overwrite"} /\ ItemOK(q, item)
              /\ (position = "overwrite" => Length[q] = 1)
         ELSE position = "back",
         queue[q].count # Length[q] \/ position = "overwrite"
  PROVE  RingMoves(q, CopyTo(q, item, position))
<1> DEFINE r == CopyTo(q, item, position)
<1>1. queue[q].count # Length[q] \/ position = "overwrite"
  OBVIOUS
<1>0. QueueIs(q, r)
  BY CopyToIs
<1>2. CASE Kind[q] # "queue"
  <2>1. r.count = queue[q].count + 1
    <3>1. r = [queue[q] EXCEPT !.count = @ + 1, !.holder = NoTask]
      BY <1>2 DEF CopyTo
    <3>2. QueueIs(q, queue[q]) /\ queue[q] = [k \in QueueFields |-> queue[q][k]]
      BY QueueParts DEF QueueIs
    <3> QED
      BY <3>1, <3>2 DEF QueueFields
  <2>2. \A i \in 1..queue[q].count : ItemAt(q, r, i) = ItemAt(q, queue[q], i)
    BY <1>2 DEF ItemAt
  <2> HIDE DEF r
  <2>3. RingMoves(q, r)
    BY <1>0, <2>1, <2>2, GrowsMoves
  <2> QED
    BY <2>3 DEF r
<1>3. CASE Kind[q] = "queue" /\ position = "back"
  <2>1. r = ToBack(q, item) /\ queue[q].count # Length[q]
    BY <1>1, <1>3 DEF CopyTo
  <2> HIDE DEF r
  <2>2. RingMoves(q, r)
    BY <1>0, <1>3, <2>1, BackItems, GrowsMoves
  <2> QED
    BY <2>2 DEF r
<1>4. CASE Kind[q] = "queue" /\ position = "front"
  <2>1. r = ToFront(q, item) /\ queue[q].count # Length[q]
    BY <1>1, <1>4 DEF CopyTo
  <2> HIDE DEF r
  <2>2. RingMoves(q, r)
    BY <1>0, <1>4, <2>1, FrontItems, GrowsMoves
  <2> QED
    BY <2>2 DEF r
<1>5. CASE Kind[q] = "queue" /\ position = "overwrite"
  <2>1. r = [ToFront(q, item) EXCEPT !.count = 1] /\ Length[q] = 1
    BY <1>5 DEF CopyTo
  <2>2. r.count = 1
    <3>1. QueueIs(q, queue[q]) /\ queue[q] = [k \in QueueFields |-> queue[q][k]]
      BY QueueParts DEF QueueIs
    <3> QED
      BY <2>1, <3>1 DEF ToFront, QueueFields
  <2> HIDE DEF r
  <2>3. Len(ItemsOf(q, r)) = 1
    BY <1>0, <2>2, ItemsAre, ItemsLen
  <2>4. RingMoves(q, r)
    BY <1>0, <2>1, <2>3 DEF RingMoves, MovesOn
  <2> QED
    BY <2>4 DEF r
<1> QED
  BY <1>2, <1>3, <1>4, <1>5

LEMMA CopyFromItems ==
  ASSUME QueuesOK, NEW q \in Queues, queue[q].count # 0, NEW r, r = CopyFrom(q)
  PROVE  /\ r.count = queue[q].count - 1
         /\ \A i \in 1..(queue[q].count - 1) : ItemAt(q, r, i) = ItemAt(q, queue[q], i + 1)
<1> DEFINE o == queue[q]
           L == Length[q]
           at == NextPlace(q, o.read)
           m == [o.storage EXCEPT ![at] = NoItem]
<1>1. /\ QueueIs(q, o) /\ o = [k \in QueueFields |-> o[k]] /\ L \in Nat \ {0} /\ o.count \in 1..L
  BY QueueParts DEF QueueIs
<1>2. CASE Kind[q] # "queue"
  <2>1. r.count = o.count - 1
    BY <1>1, <1>2 DEF CopyFrom, QueueFields
  <2> QED
    BY <1>2, <2>1 DEF ItemAt
<1>3. CASE Kind[q] = "queue"
  <2>1. o.storage = [i \in 0..(L - 1) |-> o.storage[i]] /\ o.read \in 0..(L - 1)
    BY <1>1, <1>3 DEF QueueIs
  <2>2. r.count = o.count - 1 /\ r.storage = m /\ r.read = at
    BY <1>1, <1>3 DEF CopyFrom, QueueFields
  <2>3. at = (o.read + 1) % L
    BY DEF NextPlace
  <2> HIDE DEF o, L, m, at
  <2>4. \A i \in 1..(o.count - 1) : (at + i) % L = (o.read + (i + 1)) % L /\ (at + i) % L # at
    BY <1>1, <2>1, <2>3, RingRead DEF IsRead
  <2>5. ASSUME NEW i \in 1..(o.count - 1) PROVE m[(at + i) % L] = o.storage[(o.read + (i + 1)) % L]
    <3>1. i + 1 \in 0..L
      BY <1>1
    <3>2. (o.read + (i + 1)) % L \in 0..(L - 1)
      BY <1>1, <2>1, <3>1, RingPlace
    <3> QED
      BY <2>1, <2>4, <3>2 DEF m
  <2>6. \A i \in 1..(o.count - 1) : ItemAt(q, r, i) = ItemAt(q, o, i + 1)
    BY <1>3, <2>2, <2>5 DEF ItemAt, L
  <2> QED
    BY <2>2, <2>6 DEF o
<1> QED
  BY <1>2, <1>3

LEMMA CopyFromMoves ==
  ASSUME QueuesOK, NEW q \in Queues, queue[q].count # 0, Kind[q] # "mutex"
  PROVE  RingMoves(q, CopyFrom(q))
<1> DEFINE r == CopyFrom(q)
<1>1. QueueIs(q, r)
  BY CopyFromIs
<1>2. r = CopyFrom(q)
  OBVIOUS
<1> HIDE DEF r
<1>3. RingMoves(q, r)
  BY <1>1, <1>2, CopyFromItems, ShrinksMoves
<1> QED
  BY <1>3 DEF r

LEMMA TakenMoves ==
  ASSUME QueuesOK, NEW q \in Queues, queue[q].count # 0, Kind[q] # "queue", NEW t \in Tasks \ {Idle}
  PROVE  RingMoves(q, [CopyFrom(q) EXCEPT !.holder = IF Kind[q] = "mutex" THEN t ELSE @])
<1> DEFINE r == [CopyFrom(q) EXCEPT !.holder = IF Kind[q] = "mutex" THEN t ELSE @]
<1>1. QueueIs(q, r)
  BY TakenIs
<1>2. r.count = queue[q].count - 1
  <2>1. QueueIs(q, queue[q]) /\ queue[q] = [k \in QueueFields |-> queue[q][k]]
    BY QueueParts DEF QueueIs
  <2> QED
    BY <2>1 DEF CopyFrom, QueueFields
<1>3. \A i \in 1..(queue[q].count - 1) : ItemAt(q, r, i) = ItemAt(q, queue[q], i + 1)
  BY DEF ItemAt
<1> HIDE DEF r
<1>4. RingMoves(q, r)
  BY <1>1, <1>2, <1>3, ShrinksMoves
<1> QED
  BY <1>4 DEF r

(* The locks have nothing to do with what is in the queue. *)
LEMMA SameRingMoves ==
  ASSUME NEW q \in Queues, NEW r, RingMoves(q, r), NEW n, QueueIs(q, n), n.count = r.count,
         n.storage = r.storage, n.read = r.read
  PROVE  RingMoves(q, n)
<1>1. \A i \in 1..r.count : ItemAt(q, n, i) = ItemAt(q, r, i)
  BY DEF ItemAt
<1>2. ItemsOf(q, n) = ItemsOf(q, r)
  BY <1>1 DEF ItemsOf
<1> QED
  BY <1>2 DEF RingMoves

LEMMA NewQueueMoves ==
  ASSUME NEW q \in Queues, Kind[q] = "queue"
  PROVE  RingMoves(q, NewQueue(q))
<1> DEFINE r == NewQueue(q)
<1>1. QueueIs(q, r) /\ r.count = 0
  BY NewQueueIs DEF NewQueue
<1> HIDE DEF r
<1>2. ItemsOf(q, r) = << >>
  BY <1>1, ItemsAre, ItemsEmpty
<1>3. RingMoves(q, r)
  BY <1>1, <1>2 DEF RingMoves, MovesOn
<1> QED
  BY <1>3 DEF r

OneMoves ==
  \E q \in Queues :
    /\ MovesOn(q, ItemsOf(q, queue[q]), ItemsOf(q, queue'[q]))
    /\ \A r \in Queues \ {q} : queue'[r] = queue[r]

InOrder == UNCHANGED queue \/ OneMoves

LEMMA MovesInOrder ==
  ASSUME QueuesOK, NEW q \in Queues, NEW r, RingMoves(q, r), queue' = [queue EXCEPT ![q] = r]
  PROVE  InOrder
<1>1. queue'[q] = r /\ \A p \in Queues \ {q} : queue'[p] = queue[p]
  BY DEF QueuesOK
<1>2. MovesOn(q, ItemsOf(q, queue[q]), ItemsOf(q, queue'[q]))
  BY <1>1 DEF RingMoves
<1> QED
  BY <1>1, <1>2 DEF InOrder, OneMoves

LEMMA SendInOrder == ASSUME Core(sched, stack), QueuesOK, Send PROVE InOrder
<1>1. Busy(sched, stack) /\ Top.op = "send" /\ Top.at = "start" /\ Top.op \in QueueOps
  BY AtBusy DEF Send, QueueOps
<1> DEFINE q == Top.obj
           n == CopyTo(q, Top.arg[1], Top.arg[2])
<1>2. q \in Queues
  BY <1>1, QueueTop
<1>3. queue' = [queue EXCEPT ![q] = n]
  BY DEF Send
<1>4. queue[q].count # Length[q] \/ Top.arg[2] = "overwrite"
  BY DEF Send, Full
<1>5. IF Kind[q] = "queue"
      THEN Top.arg[2] \in {"back", "front", "overwrite"} /\ ItemOK(q, Top.arg[1])
           /\ (Top.arg[2] = "overwrite" => Length[q] = 1)
      ELSE Top.arg[2] = "back"
  BY <1>1, QueueTop
<1>6. RingMoves(q, n)
  BY <1>2, <1>4, <1>5, CopyToMoves
<1> HIDE DEF q, n
<1> QED
  BY <1>2, <1>3, <1>6, MovesInOrder

LEMMA ReceiveInOrder == ASSUME Core(sched, stack), QueuesOK, Receive PROVE InOrder
<1>1. Busy(sched, stack) /\ Top.op = "receive" /\ Top.at = "start" /\ Top.op \in QueueOps
  BY AtBusy DEF Receive, QueueOps
<1> DEFINE q == Top.obj
           n == CopyFrom(q)
<1>2. q \in Queues /\ Kind[q] = "queue"
  BY <1>1, QueueTop
<1>3. queue' = [queue EXCEPT ![q] = n] /\ queue[q].count # 0
  BY DEF Receive, Empty
<1>4. RingMoves(q, n)
  BY <1>2, <1>3, CopyFromMoves
<1> HIDE DEF q, n
<1> QED
  BY <1>2, <1>3, <1>4, MovesInOrder

LEMMA TakeInOrder == ASSUME Core(sched, stack), QueuesOK, Take PROVE InOrder
<1>1. Busy(sched, stack) /\ Top.op = "take" /\ Top.at = "start" /\ Top.op \in QueueOps
  BY AtBusy DEF Take, QueueOps
<1> DEFINE q == Top.obj
           n == [CopyFrom(q) EXCEPT !.holder = IF Kind[q] = "mutex" THEN me ELSE @]
<1>2. q \in Queues /\ Kind[q] # "queue" /\ me \in Tasks \ {Idle}
  BY <1>1, QueueTop
<1>3. queue' = [queue EXCEPT ![q] = n] /\ queue[q].count # 0
  BY DEF Take, Empty
<1>4. RingMoves(q, n)
  BY <1>2, <1>3, TakenMoves
<1> HIDE DEF q, n
<1> QED
  BY <1>2, <1>3, <1>4, MovesInOrder

LEMMA ResetInOrder == ASSUME Core(sched, stack), QueuesOK, Reset PROVE InOrder
<1>1. Busy(sched, stack) /\ Top.op = "reset" /\ Top.at = "start"
  BY AtBusy DEF Reset
<1> DEFINE q == Top.obj
           n == NewQueue(q)
<1>2. q \in Queues /\ Kind[q] = "queue"
  BY <1>1, BusyTop DEF Proper
<1>3. queue' = [queue EXCEPT ![q] = n]
  BY DEF Reset
<1>4. RingMoves(q, n)
  BY <1>2, NewQueueMoves
<1> HIDE DEF q, n
<1> QED
  BY <1>2, <1>3, <1>4, MovesInOrder

(* Locking and unlocking. *)
LEMMA LockMoves ==
  ASSUME QueuesOK, NEW q \in Queues, NEW tx \in Int, NEW rx \in Int
  PROVE  RingMoves(q, [queue[q] EXCEPT !.tx = tx, !.rx = rx])
<1> DEFINE o == queue[q]
           n == [queue[q] EXCEPT !.tx = tx, !.rx = rx]
<1>1. QueueIs(q, n)
  BY LockIs
<1>2. QueueIs(q, o) /\ o = [k \in QueueFields |-> o[k]]
  BY QueueParts DEF QueueIs
<1>3. n.count = o.count /\ n.storage = o.storage /\ n.read = o.read
  BY <1>2 DEF QueueFields
<1> HIDE DEF n, o
<1>4. RingMoves(q, n)
  BY <1>1, <1>3, SameMoves DEF o
<1> QED
  BY <1>4 DEF n

LEMMA QueueLockInOrder == ASSUME Core(sched, stack), QueuesOK, QueueLock PROVE InOrder
<1>1. Busy(sched, stack) /\ (Top.op \in QueueOps \/ Top.op = "waitRestricted")
  BY AtQueueTop, AtBusy DEF QueueLock
<1> DEFINE q == Top.obj
           o == queue[q]
           tx == IF o.tx = Unlocked THEN 0 ELSE o.tx
           rx == IF o.rx = Unlocked THEN 0 ELSE o.rx
           n == [o EXCEPT !.tx = tx, !.rx = rx]
<1>2. q \in Queues
  BY <1>1, BusyTop DEF Proper, QueueOps
<1>3. o.tx \in Int /\ o.rx \in Int /\ o = [k \in QueueFields |-> o[k]]
  BY <1>2, QueueParts DEF QueueIs
<1>4. Lock(q) = n
  BY <1>3 DEF Lock, QueueFields
<1>5. tx \in Int /\ rx \in Int
  BY <1>3
<1>6. queue' = [queue EXCEPT ![q] = n]
  BY <1>4 DEF QueueLock
<1> HIDE DEF tx, rx
<1>7. RingMoves(q, n)
  BY <1>2, <1>5, LockMoves
<1> HIDE DEF n, q
<1> QED
  BY <1>2, <1>6, <1>7, MovesInOrder

LEMMA QueueUnlockInOrder ==
  ASSUME Core(sched, stack), QueuesOK, QueueUnlockTx \/ QueueUnlockRx PROVE InOrder
<1>1. Busy(sched, stack) /\ (Top.op \in QueueOps \/ Top.op = "waitRestricted")
  <2>1. CASE QueueUnlockTx
    BY <2>1, AtQueueTop, AtBusy DEF QueueUnlockTx
  <2>2. CASE QueueUnlockRx
    BY <2>2, AtQueueTop, AtBusy DEF QueueUnlockRx
  <2> QED
    BY <2>1, <2>2
<1> DEFINE q == Top.obj
           o == queue[q]
           tx == IF QueueUnlockTx THEN Unlocked ELSE o.tx
           rx == IF QueueUnlockTx THEN o.rx ELSE Unlocked
           n == [o EXCEPT !.tx = tx, !.rx = rx]
<1>2. q \in Queues
  BY <1>1, BusyTop DEF Proper, QueueOps
<1>3. o.tx \in Int /\ o.rx \in Int /\ o = [k \in QueueFields |-> o[k]]
  BY <1>2, QueueParts DEF QueueIs
<1>4. queue' = [queue EXCEPT ![q] = n]
  <2>1. CASE QueueUnlockTx
    <3>1. queue' = [queue EXCEPT ![q].tx = Unlocked]
      BY <2>1 DEF QueueUnlockTx
    <3>2. n = [o EXCEPT !.tx = Unlocked]
      BY <1>3, <2>1 DEF QueueFields
    <3> QED
      BY <3>1, <3>2
  <2>2. CASE ~QueueUnlockTx
    <3>1. queue' = [queue EXCEPT ![q].rx = Unlocked]
      BY <2>2 DEF QueueUnlockRx
    <3>2. n = [o EXCEPT !.rx = Unlocked]
      BY <1>3, <2>2 DEF QueueFields
    <3> QED
      BY <3>1, <3>2
  <2> QED
    BY <2>1, <2>2
<1>5. tx \in Int /\ rx \in Int
  BY <1>3 DEF Unlocked
<1> HIDE DEF tx, rx
<1>6. RingMoves(q, n)
  BY <1>2, <1>5, LockMoves
<1> HIDE DEF n, q
<1> QED
  BY <1>2, <1>4, <1>6, MovesInOrder

LEMMA QueueStepInOrder == ASSUME Core(sched, stack), QueuesOK, QueueStep PROVE InOrder
<1>1. CASE Send \/ Receive \/ Take \/ Reset
  BY <1>1, SendInOrder, ReceiveInOrder, TakeInOrder, ResetInOrder
<1>2. CASE QueueLock \/ QueueUnlockTx \/ QueueUnlockRx
  BY <1>2, QueueLockInOrder, QueueUnlockInOrder
<1>3. ASSUME Peek \/ GiveUp \/ QueueSuspend \/ QueueCheck \/ QueueLook \/ TakeInherit \/ QueuePlace
      PROVE  UNCHANGED queue
  BY <1>3 DEF Peek, GiveUp, QueueSuspend, QueueCheck, QueueLook, TakeInherit, QueuePlace
<1>4. ASSUME WaitRestricted \/ QueueResume \/ QueueYield \/ QueueLookAgain \/ TakeDisinherit
      PROVE  UNCHANGED queue
  BY <1>4 DEF WaitRestricted, QueueResume, QueueYield, QueueLookAgain, TakeDisinherit
<1> QED
  BY <1>1, <1>2, <1>3, <1>4 DEF QueueStep, InOrder

(* Interrupts. *)
LEMMA FromISRInOrder ==
  ASSUME QueuesOK, NEW q \in Queues, NEW after, RingMoves(q, after), NEW l,
         FromISR(q, "tx", after, l) \/ FromISR(q, "rx", after, l)
  PROVE  InOrder
<1> DEFINE n == [after EXCEPT !["tx"] = @ + 1]
           m == [after EXCEPT !["rx"] = @ + 1]
<1>1. QueueIs(q, after) /\ after = [k \in QueueFields |-> after[k]]
  BY DEF RingMoves, QueueIs
<1>2. QueueIs(q, n) /\ QueueIs(q, m)
  BY <1>1, CountedIs
<1>3. /\ n.count = after.count /\ n.storage = after.storage /\ n.read = after.read
      /\ m.count = after.count /\ m.storage = after.storage /\ m.read = after.read
  BY <1>1 DEF QueueFields
<1>4. \/ queue' = [queue EXCEPT ![q] = after]
      \/ queue' = [queue EXCEPT ![q] = n]
      \/ queue' = [queue EXCEPT ![q] = m]
  BY DEF FromISR
<1> HIDE DEF n, m
<1>5. RingMoves(q, n) /\ RingMoves(q, m)
  BY <1>2, <1>3, SameRingMoves
<1> QED
  BY <1>4, <1>5, MovesInOrder

LEMMA QueueInterruptInOrder ==
  ASSUME Core(sched, stack), QueuesOK, NEW call, Proper(call), QueueInterrupt(call)
  PROVE  InOrder
<1> DEFINE q == call.obj
<1>1. CASE SendFromISR(call)
  <2> DEFINE after == CopyTo(q, call.arg[1], call.arg[2])
  <2>1. /\ q \in Queues /\ Kind[q] = "queue" /\ call.arg[2] \in {"back", "front", "overwrite"}
        /\ ItemOK(q, call.arg[1]) /\ (call.arg[2] = "overwrite" => Length[q] = 1)
    BY <1>1 DEF SendFromISR, Proper
  <2>3. queue[q].count # Length[q] \/ call.arg[2] = "overwrite"
    BY <1>1 DEF SendFromISR, Full
  <2>4. RingMoves(q, after)
    BY <2>1, <2>3, CopyToMoves
  <2>5. FromISR(q, "tx", after, Received(q))
    BY <1>1 DEF SendFromISR
  <2> HIDE DEF after, q
  <2> QED
    BY <2>1, <2>4, <2>5, FromISRInOrder
<1>2. CASE GiveFromISR(call)
  <2> DEFINE o == queue[q]
             after == [o EXCEPT !.count = @ + 1]
  <2>1. q \in Queues /\ Kind[q] = "semaphore"
    BY <1>2 DEF GiveFromISR, Proper
  <2>2. QueueIs(q, o) /\ o.count \in 0..Length[q] /\ Length[q] \in Nat
    BY <2>1, QueueParts
  <2>3. o.count # Length[q]
    BY <1>2 DEF GiveFromISR, Full
  <2>5. FromISR(q, "tx", after, Received(q))
    BY <1>2 DEF GiveFromISR
  <2> HIDE DEF o
  <2>6. /\ after = [k \in QueueFields |-> after[k]] /\ after.tx = o.tx /\ after.rx = o.rx
        /\ after.count = o.count + 1 /\ after.holder = o.holder
    BY <2>2 DEF QueueIs, QueueFields
  <2> HIDE DEF after
  <2>7. after.count \in 0..Length[q]
    BY <2>2, <2>3, <2>6
  <2>8. QueueIs(q, after)
    BY <2>1, <2>2, <2>6, <2>7 DEF QueueIs
  <2>9. \A i \in 1..o.count : ItemAt(q, after, i) = ItemAt(q, o, i)
    BY <2>1 DEF ItemAt
  <2>4. RingMoves(q, after)
    BY <2>1, <2>6, <2>8, <2>9, GrowsMoves DEF o
  <2> HIDE DEF q
  <2> QED
    BY <2>1, <2>4, <2>5, FromISRInOrder
<1>3. CASE ReceiveFromISR(call)
  <2> DEFINE after == CopyFrom(q)
  <2>1. q \in Queues /\ Kind[q] = "queue"
    BY <1>3 DEF ReceiveFromISR, Proper
  <2>2. queue[q].count # 0
    BY <1>3, <2>1 DEF ReceiveFromISR, Empty
  <2>4. RingMoves(q, after)
    BY <2>1, <2>2, CopyFromMoves
  <2>5. FromISR(q, "rx", after, Sent(q))
    BY <1>3 DEF ReceiveFromISR
  <2> HIDE DEF after, q
  <2> QED
    BY <2>1, <2>4, <2>5, FromISRInOrder
<1> QED
  BY <1>1, <1>2, <1>3 DEF QueueInterrupt

(* What the timer task sends to itself goes to the back. *)
LEMMA SendToSelfInOrder ==
  ASSUME QueuesOK, TimerQueue \in Queues, Kind[TimerQueue] = "queue", NEW tm, NEW message,
         IsMessage(message), SendToSelf(tm, message) \/ UNCHANGED queue
  PROVE  InOrder
<1>1. CASE UNCHANGED queue
  BY <1>1 DEF InOrder
<1>2. CASE ~UNCHANGED queue
  <2> DEFINE n == ToBack(TimerQueue, message)
             b == "back"
             m == CopyTo(TimerQueue, message, b)
  <2>1. queue[TimerQueue].count # Length[TimerQueue] /\ queue' = [queue EXCEPT ![TimerQueue] = n]
    BY <1>2 DEF SendToSelf, Full
  <2>2. ItemOK(TimerQueue, message)
    BY MessageItem
  <2>3. n = m
    BY DEF CopyTo
  <2>4. RingMoves(TimerQueue, m)
    BY <2>1, <2>2, CopyToMoves
  <2> HIDE DEF n, m
  <2> QED
    BY <2>1, <2>3, <2>4, MovesInOrder
<1> QED
  BY <1>1, <1>2

LEMMA TimerSwitchInOrder == ASSUME Core(sched, stack), QueuesOK, TimerSwitch PROVE InOrder
<1>1. TimerQueue \in Queues /\ Kind[TimerQueue] = "queue"
  <2>1. CASE AtTimerTask("switch")
    BY <2>1, TimerTop
  <2>2. CASE AtTimerTask("switch for command")
    BY <2>2, TimerTop
  <2> QED
    BY <2>1, <2>2 DEF TimerSwitch
<1> DEFINE t == Head(timer.current)
           message == Message("restart", t, timer.of[t].expiry)
<1>2. \E tm : SendToSelf(tm, message) \/ UNCHANGED queue
  BY DEF TimerSwitch, Keep
<1>3. IsMessage(message)
  BY DEF Message, IsMessage
<1> HIDE DEF message
<1> QED
  BY <1>1, <1>2, <1>3, SendToSelfInOrder

LEMMA TimerExpiredInOrder == ASSUME Core(sched, stack), QueuesOK, TimerExpired PROVE InOrder
<1>1. TimerQueue \in Queues /\ Kind[TimerQueue] = "queue"
  BY TimerTop DEF TimerExpired
<1> DEFINE t == Head(timer.current)
           message == Message("restart", t, timer.of[t].expiry)
<1>2. \E tm : SendToSelf(tm, message) \/ UNCHANGED queue
  BY DEF TimerExpired, Keep
<1>3. IsMessage(message)
  BY DEF Message, IsMessage
<1> HIDE DEF message
<1> QED
  BY <1>1, <1>2, <1>3, SendToSelfInOrder

LEMMA TimerExecuteInOrder ==
  ASSUME Core(sched, stack), QueuesOK, TimerStart \/ TimerStop \/ TimerChangePeriod \/ TimerDelete
  PROVE  InOrder
<1>1. TimerQueue \in Queues /\ Kind[TimerQueue] = "queue"
  BY TimerTop DEF TimerStart, TimerStop, TimerChangePeriod, TimerDelete
<1> DEFINE n == TickAfter(Top.arg.message.value, timer.of[Top.arg.message.timer].period)
           message == Message("restart", Top.arg.message.timer, n)
<1>2. \E tm : SendToSelf(tm, message) \/ UNCHANGED queue
  BY DEF TimerStart, TimerStop, TimerChangePeriod, TimerDelete, Keep
<1>3. IsMessage(message)
  BY DEF Message, IsMessage
<1> HIDE DEF message
<1> QED
  BY <1>1, <1>2, <1>3, SendToSelfInOrder

LEMMA TimerReceiveInOrder == ASSUME Core(sched, stack), QueuesOK, TimerReceive PROVE InOrder
<1>1. TimerQueue \in Queues /\ Kind[TimerQueue] = "queue"
  BY TimerTop DEF TimerReceive
<1>2. CASE Empty(TimerQueue)
  BY <1>2 DEF TimerReceive, InOrder
<1>3. CASE ~Empty(TimerQueue)
  <2> DEFINE n == CopyFrom(TimerQueue)
  <2>1. queue' = [queue EXCEPT ![TimerQueue] = n] /\ queue[TimerQueue].count # 0
    BY <1>3 DEF TimerReceive, Empty
  <2>2. RingMoves(TimerQueue, n)
    BY <1>1, <2>1, CopyFromMoves
  <2> HIDE DEF n
  <2> QED
    BY <1>1, <2>1, <2>2, MovesInOrder
<1> QED
  BY <1>2, <1>3

LEMMA TimerStepInOrder == ASSUME Core(sched, stack), QueuesOK, TimerStep PROVE InOrder
<1>1. CASE TimerSwitch \/ TimerExpired \/ TimerReceive
  BY <1>1, TimerSwitchInOrder, TimerExpiredInOrder, TimerReceiveInOrder
<1>2. CASE TimerStart \/ TimerStop \/ TimerChangePeriod \/ TimerDelete
  BY <1>2, TimerExecuteInOrder
<1>3. ASSUME TimerCommand \/ PendCall \/ CreateTimer \/ SetReloadMode \/ TimerSuspend \/ TimerSample
             \/ TimerSwitched \/ TimerDecide
      PROVE  UNCHANGED queue
  BY <1>3 DEF TimerCommand, PendCall, CreateTimer, SetReloadMode, TimerSuspend, TimerSample,
     TimerSwitched, TimerDecide
<1>4. ASSUME TimerWait \/ TimerYield \/ TimerResume \/ TimerWriteExpired \/ TimerPended
             \/ TimerReadStatus
      PROVE  UNCHANGED queue
  BY <1>4 DEF TimerWait, TimerYield, TimerResume, TimerWriteExpired, TimerPended, TimerReadStatus
<1> QED
  BY <1>1, <1>2, <1>3, <1>4 DEF TimerStep, InOrder

LEMMA TimerInterruptInOrder ==
  ASSUME Core(sched, stack), QueuesOK, NEW call, Proper(call), TimerFromISR(call)
  PROVE  InOrder
<1> DEFINE message == IF call.op = "pendFromISR" THEN Message("pended", call.obj, 0)
                      ELSE Command(call.arg[1], call.obj, call.arg[2])
           sending == [op |-> "sendFromISR", obj |-> TimerQueue, wait |-> 0, arg |-> <<message, "back">>]
<1>1. SendFromISR(sending) /\ call.op \in {"timerFromISR", "pendFromISR"}
  BY DEF TimerFromISR
<1>2. TimerQueue \in Queues /\ Kind[TimerQueue] = "queue"
  BY <1>1 DEF Proper
<1>3. IsMessage(message)
  BY <1>1, InterruptMessage
<1>4. /\ sending.op = "sendFromISR" /\ sending.obj = TimerQueue /\ sending.arg[1] = message
      /\ sending.arg[2] = "back"
  OBVIOUS
<1> HIDE DEF message, sending
<1>5. Proper(sending)
  BY <1>2, <1>3, <1>4, MessageItem DEF Proper, QueueOps
<1>6. QueueInterrupt(sending)
  BY <1>1 DEF QueueInterrupt
<1> QED
  BY <1>5, <1>6, QueueInterruptInOrder

LEMMA NextInOrder == ASSUME IInv, [Next]_vars PROVE InOrder
<1>1. scenario \in DOMAIN Scenarios /\ Core(sched, stack) /\ QueuesOK
  BY IInvIs DEF All
<1>2. CASE UNCHANGED vars \/ NewCall \/ Tick \/ Switch
  BY <1>2 DEF vars, NewCall, Tick, Switch, InOrder
<1>3. CASE Step
  <2>1. UNCHANGED queue \/ QueueStep \/ TimerStep
    BY <1>3 DEF Step
  <2> QED
    BY <1>1, <2>1, QueueStepInOrder, TimerStepInOrder DEF InOrder
<1>4. CASE Interrupt
  <2>1. PICK i \in DOMAIN Scenarios[scenario].isr :
          LET call == Scenarios[scenario].isr[i]
          IN  UNCHANGED queue \/ QueueInterrupt(call) \/ TimerFromISR(call)
    BY <1>4 DEF Interrupt
  <2> DEFINE call == Scenarios[scenario].isr[i]
  <2>2. Proper(call)
    BY <1>1, InterruptCalls
  <2>3. UNCHANGED queue \/ QueueInterrupt(call) \/ TimerFromISR(call)
    BY <2>1
  <2> HIDE DEF call
  <2> QED
    BY <1>1, <2>2, <2>3, QueueInterruptInOrder, TimerInterruptInOrder DEF InOrder
<1> QED
  BY <1>2, <1>3, <1>4 DEF Next

(* The ring, seen as a bounded queue. *)
LEMMA ContentsAre == ASSUME NEW q \in Queues PROVE Contents(q) = ItemsOf(q, queue[q])
BY DEF Contents, ItemsOf, ItemAt

LEMMA ContentsNext == ASSUME NEW q \in Queues PROVE Contents(q)' = ItemsOf(q, queue'[q])
BY DEF Contents, ItemsOf, ItemAt

AllContents == [q \in Queues |-> Contents(q)]

LEMMA InitQueues == ASSUME Init PROVE Abstract!Init
<1>1. ASSUME NEW q \in Queues
      PROVE  Contents(q) = << >> \/ (Length[q] = 1 /\ Len(Contents(q)) = 1)
  <2>1. queue[q] = NewQueue(q)
    BY DEF Init, QueueInit
  <2>2. queue[q].count = IF Kind[q] = "mutex" THEN 1 ELSE 0
    BY <2>1 DEF NewQueue
  <2>3. Kind[q] = "mutex" => Length[q] = 1
    BY QueuesAssumption
  <2>4. QueueIs(q, queue[q])
    BY <2>1, NewQueueIs
  <2>5. IsItems(Contents(q), queue[q].count)
    BY <2>4, ItemsAre, ContentsAre
  <2> QED
    BY <2>2, <2>3, <2>5, ItemsLen, ItemsEmpty
<1> QED
  BY <1>1 DEF Abstract!Init

LEMMA NextQueues ==
  ASSUME QueuesOK, QueuesOK', InOrder
  PROVE  [Abstract!Next]_AllContents
<1>1. CASE UNCHANGED queue
  BY <1>1 DEF AllContents, Contents
<1>2. CASE OneMoves
  <2>1. PICK q \in Queues : /\ MovesOn(q, ItemsOf(q, queue[q]), ItemsOf(q, queue'[q]))
                            /\ \A r \in Queues \ {q} : queue'[r] = queue[r]
    BY <1>2 DEF OneMoves
  <2>2. MovesOn(q, Contents(q), Contents(q)')
    BY <2>1, ContentsAre, ContentsNext
  <2>3. \A r \in Queues \ {q} : Contents(r)' = Contents(r)
    BY <2>1, ContentsAre, ContentsNext
  <2>4. ASSUME NEW r \in Queues PROVE NoItem \notin Range(Contents(r)')
    <3>1. QueueIs(r, queue'[r])
      BY DEF QueuesOK
    <3> QED
      BY <3>1, ItemsAre, ContentsNext
  <2>5. CASE Contents(q)' = Contents(q)
    <3>1. \A r \in Queues : Contents(r)' = Contents(r)
      BY <2>3, <2>5
    <3> QED
      BY <3>1 DEF AllContents
  <2>6. CASE ~(Contents(q)' = Contents(q))
    <3>1. \A c, d : /\ IsPrefix(c, d) => Abstract!IsPrefix(c, d)
                    /\ IsSuffix(c, d) => Abstract!IsSuffix(c, d)
      BY DEF IsPrefix, IsSuffix, Reverse, Abstract!IsPrefix, Abstract!IsSuffix, Abstract!Reverse
    <3>2. /\ \A r \in Queues : [p \in Queues |-> Contents(p)][r] = Contents(r)
          /\ \A r \in Queues : [p \in Queues |-> Contents(p)]'[r] = Contents(r)'
      OBVIOUS
    <3>3. Abstract!Send(q) \/ Abstract!Overwrite(q) \/ Abstract!Receive(q) \/ Abstract!Reset(q)
      BY <2>2, <2>6, <3>1, <3>2
      DEF MovesOn, Abstract!Send, Abstract!Overwrite, Abstract!Receive, Abstract!Reset
    <3>4. /\ DOMAIN [p \in Queues |-> Contents(p)]' = Queues
          /\ \A r \in Queues : NoItem \notin Range([p \in Queues |-> Contents(p)]'[r])
          /\ \A r \in Queues \ {q} : [p \in Queues |-> Contents(p)]'[r] = [p \in Queues |-> Contents(p)][r]
      BY <2>3, <2>4, <3>2
    <3>5. Abstract!Next
      BY <3>3, <3>4 DEF Abstract!Next, Abstract!Range, Range
    <3> QED
      BY <3>5
  <2> QED
    BY <2>5, <2>6
<1> QED
  BY <1>1, <1>2 DEF InOrder

(* The rings of queue.c are bounded queues: items are received in the order *)
(* they were sent, none is lost, doubled or made up, and none is added to a *)
(* full queue, whatever tasks, interrupts and the timer task do with it.    *)
THEOREM BoundedQueuesKept == Spec => QueueOrder
<1>1. IInv /\ IInv' /\ [Next]_vars => [Abstract!Next]_AllContents
  <2> SUFFICES ASSUME IInv, IInv', [Next]_vars PROVE [Abstract!Next]_AllContents
    OBVIOUS
  <2>1. QueuesOK /\ QueuesOK'
    BY DEF IInv, Inv
  <2> QED
    BY <2>1, NextInOrder, NextQueues
<1> QED
  BY <1>1, InitQueues, Invariance, PTL DEF Spec, QueueOrder, Abstract!Spec, AllContents

----------------------------------------------------------------------------
(* The most urgent task runs. *)

NoMutexes == \A q \in Queues : Kind[q] # "mutex"

LEMMA WakeFirstReturns ==
  ASSUME NEW s, SchedOK(s), NEW l \in EventLists
  PROVE  /\ Serves(s, ForgetTimeOut(WakeFirst(s, l)))
         /\ \A c : Serves(s, ForgetTimeOut(YieldIf(c, WakeFirst(s, l))))
<1> DEFINE r == WakeFirst(s, l)
<1>1. SchedOK(r) /\ Serves(s, r)
  BY CalmWakes, WakeFirstServes DEF Calm
<1> HIDE DEF r
<1>2. Serves(s, ForgetTimeOut(r)) /\ \A c : Serves(s, YieldIf(c, r)) /\ SchedOK(YieldIf(c, r))
  BY <1>1, ForgetServes, YieldIfOK
<1>3. \A c : Serves(s, ForgetTimeOut(YieldIf(c, r)))
  BY <1>2, ForgetServes
<1> QED
  BY <1>2, <1>3 DEF r

LEMMA MovingServes ==
  ASSUME Core(sched, stack), QueuesOK, NoMutexes, Send \/ Receive \/ Take \/ Peek \/ Reset
  PROVE  Serves(sched, sched')
<1>1. SchedOK(sched)
  BY DEF Core
<1>2. CASE Send
  <2>1. Busy(sched, stack) /\ Top.op = "send" /\ Top.op \in QueueOps
    BY <1>2, AtBusy DEF Send, QueueOps
  <2>2. Top.obj \in Queues /\ Kind[Top.obj] # "mutex"
    BY <2>1, QueueTop DEF NoMutexes
  <2> DEFINE l == Received(Top.obj)
             c == ~(sched.events[l] # << >>) /\ FALSE
  <2>3. Given(Top.obj, sched) = [s |-> sched, yes |-> FALSE]
    BY <2>2 DEF Given
  <2>4. \E d : QueueReturn(YieldIf(d, WakeFirst(sched, l)))
    BY <1>2, <2>3 DEF Send
  <2>5. l \in EventLists
    BY <2>2, ReceivedList
  <2> HIDE DEF l
  <2>6. PICK d : QueueReturn(YieldIf(d, WakeFirst(sched, l)))
    BY <2>4
  <2> QED
    BY <1>1, <2>5, <2>6, WakeFirstReturns, Goes
<1>3. CASE Receive \/ Take \/ Peek
  <2>1. Busy(sched, stack) /\ Top.op \in QueueOps
    BY <1>3, AtBusy DEF Receive, Take, Peek, QueueOps
  <2>2. Top.obj \in Queues /\ Kind[Top.obj] # "mutex"
    BY <2>1, QueueTop DEF NoMutexes
  <2>3. Taken(Top.obj, sched) = sched
    BY <2>2 DEF Taken
  <2>4. \/ QueueReturn(WakeFirst(sched, Sent(Top.obj)))
        \/ QueueReturn(WakeFirst(sched, Received(Top.obj)))
    BY <1>3, <2>3 DEF Receive, Take, Peek
  <2>5. Sent(Top.obj) \in EventLists /\ Received(Top.obj) \in EventLists
    BY <2>2, ReceivedList
  <2> QED
    BY <1>1, <2>4, <2>5, WakeFirstReturns, Goes
<1>4. CASE Reset
  <2>1. Busy(sched, stack) /\ Top.op = "reset"
    BY <1>4, AtBusy DEF Reset
  <2>2. Sent(Top.obj) \in EventLists
    BY <2>1, BusyTop, ReceivedList DEF Proper
  <2>3. Return(WakeFirst(sched, Sent(Top.obj)))
    BY <1>4 DEF Reset
  <2> QED
    BY <1>1, <2>2, <2>3, WakeFirstServes, Goes
<1> QED
  BY <1>2, <1>3, <1>4

LEMMA WaitingServes ==
  ASSUME Core(sched, stack), NoMutexes,
         GiveUp \/ QueueSuspend \/ QueueLock \/ QueueCheck \/ QueueLook \/ QueuePlace \/ QueueYield
  PROVE  Serves(sched, sched')
<1>1. SchedOK(sched)
  BY DEF Core
<1>2. CASE GiveUp
  <2>1. sched' = ForgetTimeOut(sched) \/ sched' = SetTimeOut(sched, Top.wait)
    BY <1>2, Goes DEF GiveUp
  <2> QED
    BY <1>1, <2>1, ServesOps
<1>3. CASE QueueSuspend
  <2>1. sched' = SuspendAll(sched)
    BY <1>3, Goes DEF QueueSuspend
  <2> QED
    BY <1>1, <2>1, ServesOps
<1>4. CASE QueueLock \/ QueueLook
  <2>1. sched' = sched
    BY <1>4 DEF QueueLock, QueueLook, GoTo
  <2> QED
    BY <1>1, <2>1, ServesOps
<1>5. CASE QueueCheck
  <2>1. sched' = CheckForTimeOut(sched, Top.wait).s
    BY <1>5 DEF QueueCheck
  <2> QED
    BY <1>1, <2>1, ServesOps
<1>6. CASE QueuePlace
  <2>1. sched' = PlaceOnEventList(sched, WaitList, Top.wait)
    BY <1>6 DEF QueuePlace
  <2> QED
    BY <1>1, <2>1, PlaceOnEventListServes
<1>7. CASE QueueYield
  <2>1. sched' = Yield(sched)
    BY <1>7 DEF QueueYield, GoTo
  <2> QED
    BY <1>1, <2>1, ServesOps
<1> QED
  BY <1>2, <1>3, <1>4, <1>5, <1>6, <1>7

LEMMA UnlockingServes ==
  ASSUME Core(sched, stack), QueuesOK, QueueUnlockTx \/ QueueUnlockRx
  PROVE  Serves(sched, sched')
<1>1. /\ Busy(sched, stack) /\ Top.at \in {"unlock tx", "unlock rx"}
      /\ Top.op \in QueueOps \/ Top.op = "waitRestricted"
  <2>1. CASE QueueUnlockTx
    BY <2>1, AtQueueTop, AtBusy DEF QueueUnlockTx
  <2>2. CASE QueueUnlockRx
    BY <2>2, AtQueueTop, AtBusy DEF QueueUnlockRx
  <2> QED
    BY <2>1, <2>2
<1>2. Holds(Top) /\ Top.obj \in Queues
  BY <1>1, BusyTop DEF Holds, QueueOps, Proper
<1>3. SchedOK(sched) /\ sched.suspendedAll # 0
  <2>1. SchedOK(sched) /\ sched.suspendedAll = 1
    BY <1>1, <1>2, BusyTop
  <2> QED
    BY <2>1
<1> DEFINE q == Top.obj
           tx == queue[q].tx
           rx == queue[q].rx
<1>4. tx \in Int /\ rx \in Int /\ Received(q) \in EventLists /\ Sent(q) \in EventLists
  BY <1>2, QueueParts, ReceivedList
<1>5. sched' = WakeCounted(sched, Received(q), tx) \/ sched' = WakeCounted(sched, Sent(q), rx)
  BY Goes DEF QueueUnlockTx, QueueUnlockRx
<1> HIDE DEF q, tx, rx
<1> QED
  BY <1>3, <1>4, <1>5, WakeCountedServes

LEMMA ResumingServes ==
  ASSUME Core(sched, stack), QueuesOK, NoMutexes,
         QueueResume \/ QueueLookAgain \/ TakeDisinherit \/ WaitRestricted
  PROVE  Serves(sched, sched')
<1>1. SchedOK(sched)
  BY DEF Core
<1>2. CASE QueueResume
  <2>1. Busy(sched, stack) /\ Top.op \in QueueOps /\ Top.at = "resume"
    BY <1>2, AtQueueTop DEF QueueResume
  <2>2. Holds(Top) /\ Top.then \in {"again", "yield", "timed out"}
    BY <2>1, BusyTop DEF Holds, QueueOps, FrameOK, Stage
  <2>3. sched.suspendedAll = 1
    BY <2>1, <2>2, BusyTop
  <2> DEFINE r == ResumeAll(sched)
  <2>4. sched' = r \/ sched' = ForgetTimeOut(r)
    <3>1. CASE Top.then = "again"
      BY <1>2, <3>1, Goes DEF QueueResume
    <3>2. CASE Top.then = "yield"
      BY <1>2, <3>2, Goes DEF QueueResume
    <3>3. CASE Top.then = "timed out"
      BY <1>2, <3>3, Goes DEF QueueResume
    <3> QED
      BY <2>2, <3>1, <3>2, <3>3
  <2>5. SchedOK(r) /\ Serves(sched, r)
    BY <1>1, <2>3, ResumeAllOK, ResumeAllServes
  <2> HIDE DEF r
  <2> QED
    BY <2>4, <2>5, ForgetServes
<1>3. CASE QueueLookAgain
  <2>1. sched' = sched \/ sched' = ForgetTimeOut(sched)
    BY <1>3, Goes DEF QueueLookAgain
  <2> QED
    BY <1>1, <2>1, ServesOps
<1>4. CASE TakeDisinherit
  <2>1. Busy(sched, stack) /\ Top.op \in QueueOps
    BY <1>4, AtBusy DEF TakeDisinherit, QueueOps
  <2>2. Top.obj \in Queues /\ Kind[Top.obj] # "mutex"
    BY <2>1, QueueTop DEF NoMutexes
  <2>3. queue[Top.obj].holder = NoTask
    BY <2>2 DEF QueuesOK, QueueIs
  <2>4. sched' = ForgetTimeOut(sched)
    BY <1>4, <2>3, Goes DEF TakeDisinherit
  <2> QED
    BY <1>1, <2>4, ServesOps
<1>5. CASE WaitRestricted
  <2>1. sched' = sched \/ sched' = PlaceRestricted(sched, Received(Top.obj), Top.wait, Top.arg)
    BY <1>5, Goes DEF WaitRestricted
  <2> QED
    BY <1>1, <2>1, ServesOps, PlaceRestrictedServes
<1> QED
  BY <1>2, <1>3, <1>4, <1>5

LEMMA QueueStepServes ==
  ASSUME Core(sched, stack), QueuesOK, NoMutexes, QueueStep
  PROVE  Serves(sched, sched')
<1>1. ASSUME TakeInherit PROVE FALSE
  <2>1. Busy(sched, stack) /\ Top.op = "take" /\ Top.at = "inherit"
    BY <1>1, AtBusy DEF TakeInherit
  <2>2. Kind[Top.obj] = "mutex" /\ Top.obj \in Queues
    BY <2>1, BusyTop, QueueTop DEF FrameOK, Stage, QueueOps
  <2> QED
    BY <2>2 DEF NoMutexes
<1> QED
  BY <1>1, MovingServes, WaitingServes, UnlockingServes, ResumingServes DEF QueueStep

(* The calls of queue.c in handlers. *)
LEMMA QueueInterruptServes ==
  ASSUME Core(sched, stack), NEW call, Proper(call), QueueInterrupt(call)
  PROVE  Serves(sched, sched') /\ UNCHANGED stack /\ sched'.current = sched.current
<1>1. SchedOK(sched)
  BY DEF Core
<1>2. call.obj \in Queues
  BY DEF QueueInterrupt, SendFromISR, GiveFromISR, ReceiveFromISR, Proper
<1>3. Received(call.obj) \in EventLists /\ Sent(call.obj) \in EventLists
  BY <1>2, ReceivedList
<1>4. \/ sched' = sched
      \/ sched' = WakeFirst(sched, Received(call.obj))
      \/ sched' = WakeFirst(sched, Sent(call.obj))
  BY DEF QueueInterrupt, SendFromISR, GiveFromISR, ReceiveFromISR, FromISR
<1>5. Serves(sched, sched')
  BY <1>1, <1>3, <1>4, ServesOps, WakeFirstServes
<1>6. sched'.current = sched.current
  BY <1>1, <1>3, <1>4, CalmWakes DEF Calm, Harmless, Mild
<1>7. UNCHANGED stack
  BY DEF QueueInterrupt, SendFromISR, GiveFromISR, ReceiveFromISR
<1> QED
  BY <1>5, <1>6, <1>7

(* Nothing, or the resumption that the call has come to. *)
LEMMA HeldResumes ==
  ASSUME Busy(sched, stack), Holds(Top)
  PROVE  SchedOK(sched) /\ sched.suspendedAll # 0 /\ Serves(sched, ResumeAll(sched))
<1>1. SchedOK(sched) /\ sched.suspendedAll = 1
  BY BusyTop
<1>2. Serves(sched, ResumeAll(sched))
  BY <1>1, ResumeAllServes
<1> QED
  BY <1>1, <1>2

LEMMA GroupWakesServe ==
  ASSUME Core(sched, stack), SetBitsWalk \/ DeleteGroupWalk
  PROVE  Serves(sched, sched')
<1>1. Busy(sched, stack) /\ Top.op \in {"setBits", "deleteGroup"} /\ Top.at = "walk"
  BY AtBusy DEF SetBitsWalk, DeleteGroupWalk
<1>2. Holds(Top) /\ Top.obj \in Groups
  BY <1>1, GroupTop DEF Holds, QueueOps, GroupOps
<1>3. SchedOK(sched) /\ sched.suspendedAll # 0
  BY <1>1, <1>2, HeldResumes
<1>4. \E tasks : sched' = Wake(sched, Top.obj, tasks)
  BY Goes DEF SetBitsWalk, DeleteGroupWalk
<1> QED
  BY <1>2, <1>3, <1>4, WakeServes

LEMMA GroupTestsServe ==
  ASSUME Core(sched, stack), WaitBitsTest \/ SyncTest
  PROVE  Serves(sched, sched')
<1>1. Busy(sched, stack) /\ Top.op \in {"waitBits", "sync"} /\ Top.at = "test"
  BY AtBusy DEF WaitBitsTest, SyncTest
<1>2. Holds(Top) /\ Top.obj \in Groups
  BY <1>1, GroupTop DEF Holds, QueueOps, GroupOps
<1>3. SchedOK(sched) /\ sched.suspendedAll # 0
  BY <1>1, <1>2, HeldResumes
<1>4. \E met, s : PlaceUnless(met, s) /\ (s = sched \/ \E tasks : s = Wake(sched, Top.obj, tasks))
  <2>1. CASE WaitBitsTest
    BY <2>1 DEF WaitBitsTest
  <2>2. CASE SyncTest
    BY <2>2 DEF SyncTest
  <2> QED
    BY <2>1, <2>2
<1>5. PICK met, s : PlaceUnless(met, s) /\ (s = sched \/ \E tasks : s = Wake(sched, Top.obj, tasks))
  BY <1>4
<1>6. SchedOK(s) /\ Serves(sched, s)
  <2>1. CASE s = sched
    BY <1>3, <2>1, ServesOps
  <2>2. CASE \E tasks : s = Wake(sched, Top.obj, tasks)
    <3>1. PICK tasks : s = Wake(sched, Top.obj, tasks)
      BY <2>2
    <3> QED
      BY <1>2, <1>3, <3>1, WakeServes, WakeOK
  <2> QED
    BY <1>5, <2>1, <2>2
<1>7. sched' = s \/ sched' = PlaceOnUnordered(s, Waiting(Top.obj), Wanted, Top.wait)
  BY <1>5 DEF PlaceUnless
<1>8. Serves(s, PlaceOnUnordered(s, Waiting(Top.obj), Wanted, Top.wait))
  BY <1>6, PlaceOnUnorderedServes
<1> QED
  BY <1>6, <1>7, <1>8, ServesTransitive

LEMMA GroupStepServes ==
  ASSUME Core(sched, stack), GroupStep
  PROVE  Serves(sched, sched')
<1>1. SchedOK(sched)
  BY DEF Core
<1>2. ASSUME SetBits \/ DeleteGroup \/ GroupSuspend PROVE Serves(sched, sched')
  <2>1. sched' = SuspendAll(sched)
    BY <1>2, Goes DEF SetBits, DeleteGroup, GroupSuspend
  <2> QED
    BY <1>1, <2>1, ServesOps
<1>3. ASSUME ClearBits \/ CreateGroup \/ GroupWoken \/ GroupTestAgain PROVE Serves(sched, sched')
  <2>1. sched' = sched
    BY <1>3, Goes DEF ClearBits, CreateGroup, GroupWoken, GroupTestAgain
  <2> QED
    BY <1>1, <2>1, ServesOps
<1>4. ASSUME GroupResume \/ GroupReturn PROVE Serves(sched, sched')
  <2>1. /\ Busy(sched, stack) /\ Top.at = "resume"
        /\ Top.op \in {"setBits", "deleteGroup", "waitBits", "sync"}
    BY <1>4, AtBusy DEF GroupResume, GroupReturn, AtGroup
  <2>2. Holds(Top)
    BY <2>1 DEF Holds
  <2>3. sched' = ResumeAll(sched)
    BY <1>4, Goes DEF GroupResume, GroupReturn
  <2> QED
    BY <2>1, <2>2, <2>3, HeldResumes
<1>5. ASSUME GroupYield PROVE Serves(sched, sched')
  <2>1. sched' = Yield(sched)
    BY <1>5, Goes DEF GroupYield
  <2> QED
    BY <1>1, <2>1, ServesOps
<1>6. ASSUME GroupReset PROVE Serves(sched, sched')
  <2> DEFINE s == [sched EXCEPT !.bits[me] = NoBits, !.evValue[me] = Top.wait]
  <2>0. IsSched(sched)
    BY <1>1, SchedIs
  <2>1. Same(sched, s, {"bits", "evValue"})
    BY <2>0 DEF IsSched, Same, SchedFields
  <2>2. sched' = s
    BY <1>6, Goes DEF GroupReset
  <2> HIDE DEF s
  <2> QED
    BY <2>1, <2>2, PlainServes
<1> QED
  BY <1>2, <1>3, <1>4, <1>5, <1>6, GroupWakesServe, GroupTestsServe DEF GroupStep

----------------------------------------------------------------------------
(* Streams. *)

LEMMA StateClearedServes == ASSUME SchedOK(sched) PROVE Serves(sched, StateCleared(sched))
<1> DEFINE r == StateCleared(sched)
<1>1. IsSched(sched)
  BY SchedIs
<1>2. Same(sched, r, {"notify"})
  BY <1>1 DEF StateCleared, IsSched, Same, SchedFields
<1> HIDE DEF r
<1> QED
  BY <1>2, PlainServes DEF r

LEMMA WakePeerServes == ASSUME Core(sched, stack), PeersOK, WakePeer PROVE Serves(sched, sched')
<1>1. Busy(sched, stack) /\ Top.op \in {"sendStream", "receiveStream"} /\ Top.op \in StreamOps
  BY AtStreamTop DEF WakePeer
<1>2. Top.obj \in Streams /\ SchedOK(sched)
  BY <1>1, StreamTop
<1> DEFINE peer == stream[Top.obj][Peer(Top.op)]
<1>3. peer \in Tasks \cup {NoOne}
  BY <1>1, <1>2, StreamIs DEF IsStream, Peer
<1>4. sched' = sched \/ (peer # NoOne /\ sched' = GenericNotify(sched, peer, 0, "none"))
  BY Goes DEF WakePeer
<1> HIDE DEF peer
<1> QED
  BY <1>2, <1>3, <1>4, ServesOps, GenericNotifyServes

LEMMA StreamStepServes ==
  ASSUME Core(sched, stack), PeersOK, StreamStep
  PROVE  Serves(sched, sched')
<1>1. SchedOK(sched)
  BY DEF Core
<1>2. ASSUME AwaitPeer \/ SendStreamNotified \/ SendStreamHeader \/ SendStreamWrite \/ SendStreamLook
      PROVE  sched' = sched
  BY <1>2, Goes DEF AwaitPeer, SendStreamNotified, SendStreamHeader, SendStreamWrite, SendStreamLook
<1>3. ASSUME ReceiveStreamNotified \/ ReceiveStreamMeasure \/ ReceiveStreamRead \/ ReceiveStreamMessage
      PROVE  sched' = sched
  BY <1>3, Goes DEF ReceiveStreamNotified, ReceiveStreamMeasure, ReceiveStreamRead, ReceiveStreamMessage, SeeIn
<1>4. ASSUME NextLength \/ NextLengthRestore \/ ResetStream \/ SetTrigger
      PROVE  sched' = sched
  BY <1>4, Goes DEF NextLength, NextLengthRestore, ResetStream, SetTrigger
<1>5. ASSUME Completed PROVE sched' = SuspendAll(sched)
  BY <1>5, Goes DEF Completed
<1>6. ASSUME StreamResume PROVE Serves(sched, sched')
  <2>1. /\ Busy(sched, stack) /\ Top.at = "resume" /\ Top.op \in {"sendStream", "receiveStream"}
    BY <1>6, AtStreamTop DEF StreamResume
  <2>2. Holds(Top)
    BY <2>1 DEF Holds
  <2>3. sched' = ResumeAll(sched)
    BY <1>6, Goes DEF StreamResume
  <2> QED
    BY <2>1, <2>2, <2>3, HeldResumes
<1>7. ASSUME SendStream PROVE sched' = sched \/ sched' = SetTimeOut(sched, Top.wait)
  BY <1>7, Goes DEF SendStream
<1>8. ASSUME SendStreamCheck PROVE sched' = CheckForTimeOut(sched, Top.wait).s
  BY <1>8 DEF SendStreamCheck
<1>9. ASSUME SendStreamMeasure PROVE sched' = ForgetTimeOut(sched)
  BY <1>9 DEF SendStreamMeasure, SeeIn
<1>10. ASSUME SendStreamSpace \/ ReceiveStream PROVE sched' = sched \/ sched' = StateCleared(sched)
  BY <1>10 DEF SendStreamSpace, ReceiveStream, SeeIn
<1>11. \/ WakePeer \/ StreamResume
       \/ sched' = sched \/ sched' = SuspendAll(sched) \/ sched' = SetTimeOut(sched, Top.wait)
       \/ sched' = CheckForTimeOut(sched, Top.wait).s \/ sched' = ForgetTimeOut(sched)
       \/ sched' = StateCleared(sched)
  BY <1>2, <1>3, <1>4, <1>5, <1>7, <1>8, <1>9, <1>10 DEF StreamStep
<1> QED
  BY <1>1, <1>6, <1>11, WakePeerServes, ServesOps, StateClearedServes

LEMMA StreamInterruptServes ==
  ASSUME Core(sched, stack), PeersOK, NEW call, Proper(call), StreamInterrupt(call)
  PROVE  Serves(sched, sched')
<1>1. SchedOK(sched)
  BY DEF Core
<1>2. call.obj \in Streams
  BY DEF StreamInterrupt, SendStreamFromISR, ReceiveStreamFromISR, Proper
<1>3. /\ stream[call.obj].reader \in Tasks \cup {NoOne}
      /\ stream[call.obj].writer \in Tasks \cup {NoOne}
  BY <1>2, StreamIs DEF IsStream
<1>4. ASSUME NEW t \in Tasks \cup {NoOne} PROVE Serves(sched, Notifying(t))
  BY <1>1, <1>4, ServesOps, NotifyFromISRServes DEF Notifying
<1>5. \/ sched' = sched
      \/ sched' = Notifying(stream[call.obj].reader)
      \/ sched' = Notifying(stream[call.obj].writer)
  BY DEF StreamInterrupt, SendStreamFromISR, ReceiveStreamFromISR
<1> QED
  BY <1>1, <1>3, <1>4, <1>5, ServesOps

----------------------------------------------------------------------------
(* Timers. *)

LEMMA TimerStepServes ==
  ASSUME Core(sched, stack), QueuesOK, TimerStep
  PROVE  Serves(sched, sched')
<1>1. SchedOK(sched)
  BY DEF Core
<1>2. ASSUME TimerCommand \/ PendCall \/ CreateTimer \/ SetReloadMode \/ TimerSample PROVE sched' = sched
  BY <1>2, Goes DEF TimerCommand, PendCall, CreateTimer, SetReloadMode, TimerSample
<1>3. ASSUME TimerSwitch \/ TimerSwitched \/ TimerExpired \/ TimerWriteExpired \/ TimerPended
             \/ TimerReadStatus
      PROVE  sched' = sched
  BY <1>3, Goes DEF TimerSwitch, TimerSwitched, TimerExpired, TimerWriteExpired, TimerPended, TimerReadStatus
<1>4. ASSUME TimerStart \/ TimerStop \/ TimerChangePeriod \/ TimerDelete PROVE sched' = sched
  BY <1>4 DEF TimerStart, TimerStop, TimerChangePeriod, TimerDelete, Executed
<1>5. ASSUME TimerSuspend PROVE sched' = SuspendAll(sched)
  BY <1>5, Goes DEF TimerSuspend
<1>6. ASSUME TimerYield PROVE sched' = Yield(sched)
  BY <1>6, Goes DEF TimerYield
<1>7. ASSUME TimerDecide \/ TimerWait \/ TimerResume PROVE Serves(sched, sched')
  <2>1. Busy(sched, stack) /\ Top.op = "timerTask" /\ Top.at \in {"decide", "wait", "resume"}
    BY <1>7, TimerTop DEF TimerDecide, TimerWait, TimerResume
  <2>2. Holds(Top)
    BY <2>1 DEF Holds
  <2>3. sched' = sched \/ sched' = ResumeAll(sched)
    BY <1>7, Goes DEF TimerDecide, TimerWait, TimerResume
  <2> QED
    BY <1>1, <2>1, <2>2, <2>3, HeldResumes, ServesOps
<1>8. ASSUME TimerReceive PROVE Serves(sched, sched')
  <2>1. TimerQueue \in Queues
    BY <1>8, TimerTop DEF TimerReceive
  <2>2. Sent(TimerQueue) \in EventLists
    BY <2>1, ReceivedList
  <2>3. sched' = sched \/ sched' = WakeFirst(sched, Sent(TimerQueue))
    BY <1>8 DEF TimerReceive
  <2> QED
    BY <1>1, <2>2, <2>3, ServesOps, WakeFirstServes
<1>9. sched' = sched \/ sched' = SuspendAll(sched) \/ sched' = Yield(sched) \/ Serves(sched, sched')
  BY <1>2, <1>3, <1>4, <1>5, <1>6, <1>7, <1>8 DEF TimerStep
<1> QED
  BY <1>1, <1>9, ServesOps

(* The task that the current one has created and not yet compared with      *)
(* itself: xTaskCreate has only put it into its ready list.                 *)
Newborn(st, c) ==
  IF st[c] # << >> /\ st[c][1].op = "create" /\ st[c][1].at = "check" THEN {st[c][1].obj} ELSE {}

RightNow == Good(sched, Newborn(stack, sched.current)) /\ Steady(sched)

LEMMA GoodMore ==
  ASSUME NEW s, NEW X, Good(s, {}) \/ Good(s, X)
  PROVE  Good(s, X)
BY DEF Good, Urgent

LEMMA ServesNow ==
  ASSUME RightNow, Serves(sched, sched'),
         Newborn(stack, sched.current) = {} \/ (UNCHANGED stack /\ sched'.current = sched.current)
  PROVE  RightNow'
<1> DEFINE X == Newborn(stack, sched.current)
           Y == Newborn(stack', sched'.current)
<1>1. Good(sched, X) /\ Steady(sched)
  BY DEF RightNow
<1>2. X = {} \/ X = Y
  OBVIOUS
<1> HIDE DEF X, Y
<1>3. Good(sched', X) /\ Steady(sched')
  BY <1>1 DEF Serves
<1>4. Good(sched', Y)
  BY <1>2, <1>3, GoodMore
<1> QED
  BY <1>3, <1>4 DEF RightNow, Y

(* Most steps are not those of a task that has just created another.        *)
LEMMA NoneNew ==
  ASSUME stack[sched.current] = << >> \/ Top.op # "create" \/ Top.at # "check"
  PROVE  Newborn(stack, sched.current) = {}
BY DEF Newborn, Top, me

LEMMA TaskStepElsewhere ==
  ASSUME TaskStep, ~CreateCheck
  PROVE  Top.op # "create" \/ Top.at # "check"
<1>1. CASE Create \/ DeleteSelf \/ DeleteOther \/ YieldAtEnd \/ Delay \/ DelayAdd
  BY <1>1 DEF Create, DeleteSelf, DeleteOther, YieldAtEnd, Delay, DelayAdd, At
<1>2. CASE DelayUntil \/ DelayUntilAdd \/ DelayResume \/ Hold \/ Release \/ TaskYield
  BY <1>2 DEF DelayUntil, DelayUntilAdd, DelayResume, Hold, Release, TaskYield, At
<1>3. CASE Suspend \/ SuspendReset \/ Resume \/ PrioritySet
  BY <1>3 DEF Suspend, SuspendReset, Resume, PrioritySet, At
<1>4. CASE NotifyTake \/ NotifyTaken \/ NotifyWait \/ NotifyWaited \/ Notify \/ NotifyStateClear
  BY <1>4 DEF NotifyTake, NotifyTaken, NotifyWait, NotifyWaited, Notify, NotifyStateClear, At
<1>5. CASE IdleCleanUp \/ IdleShare \/ IdleSleep \/ IdleWake
  BY <1>5 DEF IdleCleanUp, IdleShare, IdleSleep, IdleWake, At
<1> QED
  BY <1>1, <1>2, <1>3, <1>4, <1>5 DEF TaskStep

LEMMA QueueStepElsewhere == ASSUME QueueStep PROVE Top.op # "create"
<1>1. CASE Send \/ Receive \/ Take \/ Peek \/ GiveUp \/ Reset
  BY <1>1 DEF Send, Receive, Take, Peek, GiveUp, Reset, AtQueue, At, QueueOps
<1>2. CASE QueueSuspend \/ QueueLock \/ QueueCheck \/ QueueLook \/ TakeInherit \/ QueuePlace
  BY <1>2 DEF QueueSuspend, QueueLock, QueueCheck, QueueLook, TakeInherit, QueuePlace, AtQueue, At,
     QueueOps
<1>3. CASE QueueUnlockTx \/ QueueUnlockRx \/ QueueResume \/ QueueYield
  BY <1>3 DEF QueueUnlockTx, QueueUnlockRx, QueueResume, QueueYield, AtQueue, At, QueueOps
<1>4. CASE QueueLookAgain \/ TakeDisinherit \/ WaitRestricted
  BY <1>4 DEF QueueLookAgain, TakeDisinherit, WaitRestricted, AtQueue, At, QueueOps
<1> QED
  BY <1>1, <1>2, <1>3, <1>4 DEF QueueStep

LEMMA GroupStepElsewhere == ASSUME GroupStep PROVE Top.op # "create"
<1>1. CASE SetBits \/ SetBitsWalk \/ ClearBits \/ GroupResume \/ CreateGroup \/ DeleteGroup
           \/ DeleteGroupWalk
  BY <1>1 DEF SetBits, SetBitsWalk, ClearBits, GroupResume, CreateGroup, DeleteGroup,
     DeleteGroupWalk, At
<1>2. CASE GroupSuspend \/ WaitBitsTest \/ SyncTest \/ GroupReturn \/ GroupYield
  BY <1>2 DEF GroupSuspend, WaitBitsTest, SyncTest, GroupReturn, GroupYield, AtGroup, At
<1>3. CASE GroupWoken \/ GroupReset \/ GroupTestAgain
  BY <1>3 DEF GroupWoken, GroupReset, GroupTestAgain, AtGroup, At
<1> QED
  BY <1>1, <1>2, <1>3 DEF GroupStep

LEMMA StreamStepElsewhere == ASSUME StreamStep PROVE Top.op # "create"
<1>1. CASE AwaitPeer \/ Completed \/ WakePeer \/ StreamResume
  BY <1>1 DEF AwaitPeer, Completed, WakePeer, StreamResume, AtStream, At
<1>2. CASE SendStream \/ SendStreamSpace \/ SendStreamNotified \/ SendStreamCheck
  BY <1>2 DEF SendStream, SendStreamSpace, SendStreamNotified, SendStreamCheck, At
<1>3. CASE SendStreamMeasure \/ SendStreamHeader \/ SendStreamWrite \/ SendStreamLook
  BY <1>3 DEF SendStreamMeasure, SendStreamHeader, SendStreamWrite, SendStreamLook, At
<1>4. CASE ReceiveStream \/ ReceiveStreamNotified \/ ReceiveStreamMeasure \/ ReceiveStreamRead
           \/ ReceiveStreamMessage
  BY <1>4 DEF ReceiveStream, ReceiveStreamNotified, ReceiveStreamMeasure, ReceiveStreamRead,
     ReceiveStreamMessage, At
<1>5. CASE NextLength \/ NextLengthRestore \/ ResetStream \/ SetTrigger
  BY <1>5 DEF NextLength, NextLengthRestore, ResetStream, SetTrigger, At
<1> QED
  BY <1>1, <1>2, <1>3, <1>4, <1>5 DEF StreamStep

LEMMA TimerStepElsewhere == ASSUME TimerStep PROVE Top.op # "create"
<1>1. CASE TimerCommand \/ PendCall \/ CreateTimer \/ SetReloadMode
  BY <1>1 DEF TimerCommand, PendCall, CreateTimer, SetReloadMode, At
<1>2. CASE TimerSuspend \/ TimerSample \/ TimerSwitch \/ TimerSwitched \/ TimerDecide
  BY <1>2 DEF TimerSuspend, TimerSample, TimerSwitch, TimerSwitched, TimerDecide, AtTimerTask, At
<1>3. CASE TimerWait \/ TimerYield \/ TimerResume \/ TimerExpired \/ TimerWriteExpired
  BY <1>3 DEF TimerWait, TimerYield, TimerResume, TimerExpired, TimerWriteExpired, AtTimerTask, At
<1>4. CASE TimerReceive \/ TimerPended \/ TimerReadStatus
  BY <1>4 DEF TimerReceive, TimerPended, TimerReadStatus, AtTimerTask, At
<1>5. CASE TimerStart \/ TimerStop \/ TimerChangePeriod \/ TimerDelete
  BY <1>5 DEF TimerStart, TimerStop, TimerChangePeriod, TimerDelete, AtTimerTask, At
<1> QED
  BY <1>1, <1>2, <1>3, <1>4, <1>5 DEF TimerStep

----------------------------------------------------------------------------
(* xTaskCreate. *)

LEMMA CreateNow == ASSUME Core(sched, stack), RightNow, Create PROVE RightNow'
<1>1. Busy(sched, stack) /\ Top.op = "create" /\ Top.at = "start"
  BY AtBusy DEF Create
<1>2. Newborn(stack, sched.current) = {}
  BY <1>1, NoneNew
<1>3. Good(sched, {}) /\ Steady(sched)
  BY <1>2 DEF RightNow
<1>4. CASE InList(sched, Top.obj) # {}
  <2>1. sched' = sched
    BY <1>4, Goes DEF Create
  <2> QED
    BY <1>1, <1>2, <2>1, BusyTop, ServesOps, ServesNow
<1>5. CASE InList(sched, Top.obj) = {}
  <2> DEFINE t == Top.obj
             r == CreatedIn(sched, t, Top.arg)
  <2>1. Quiet(sched, Top)
    BY <1>1 DEF Quiet, Holds, Dozes, Parks, Awaits, Grouped, QueueOps
  <2>2. t \in Tasks \ {Idle} /\ Top.arg \in Priorities /\ SchedOK(sched)
        /\ sched.pendingReady = << >> /\ me \in Tasks /\ StackOK(stack) /\ ListedIn(sched, me)
    BY <1>1, <2>1, BusyTop, BusyParts DEF Proper, Quiet, me
  <2>3. GoTo("check", r)
    BY <1>5 DEF Create, CreatedIn
  <2>4. Away(sched, t)
    BY <1>5, <2>2, NowhereAway
  <2>5. t # me
    BY <2>2, <2>4 DEF Away, ListedIn
  <2>6. (Good(sched, {}) => Good(r, {t})) /\ (Steady(sched) => Steady(r)) /\ Same(sched, r, NewTaskFields \cup {"ready", "top"})
    <3>1. (Good(sched, {}) => Good(r, {t})) /\ (Steady(sched) => Steady(r))
      BY <2>2, <2>4, <2>5, CreatedGood DEF me
    <3>2. Unlinked(sched, t)
      BY <1>5, <2>2, NowhereAway
    <3> QED
      BY <2>2, <2>4, <3>1, <3>2, CreatedOK
  <2>7. sched' = r /\ stack' = [stack EXCEPT ![me][1].at = "check"]
    BY <2>3 DEF GoTo
  <2> HIDE DEF r
  <2>8. r.current = me
    BY <2>6 DEF Same, SchedFields, NewTaskFields, me
  <2>9. Newborn(stack', sched'.current) = {t}
    <3>1. /\ stack'[me] # << >> /\ stack'[me][1].op = "create" /\ stack'[me][1].at = "check"
          /\ stack'[me][1].obj = t
      <4>1. stack[me][1] = Top /\ IsFrame(Top) /\ stack[me] # << >>
        <5>1. IsFrame(Top)
          BY <1>1, BusyParts DEF Top, me
        <5> QED
          BY <1>1, <5>1 DEF Busy, Top, me
      <4>2. stack'[me] = [stack[me] EXCEPT ![1] = [@ EXCEPT !.at = "check"]]
        BY <2>2, <2>7 DEF StackOK
      <4>3. stack[me] = <<stack[me][1]>> \/ stack[me] = <<stack[me][1], stack[me][2]>>
        BY <2>2, <4>1 DEF StackOK
      <4>4. stack'[me] # << >> /\ stack'[me][1] = [Top EXCEPT !.at = "check"]
        BY <4>1, <4>2, <4>3
      <4>5. [Top EXCEPT !.at = "check"].op = Top.op /\ [Top EXCEPT !.at = "check"].at = "check"
            /\ [Top EXCEPT !.at = "check"].obj = Top.obj
        BY <4>1, AtFields
      <4> QED
        BY <1>1, <4>4, <4>5
    <3> HIDE DEF t
    <3> QED
      BY <2>7, <2>8, <3>1 DEF Newborn
  <2>10. Good(sched', {t}) /\ Steady(sched')
    BY <1>3, <2>6, <2>7
  <2> HIDE DEF t
  <2> QED
    BY <2>9, <2>10 DEF RightNow
<1> QED
  BY <1>4, <1>5

LEMMA CreateCheckNow == ASSUME Core(sched, stack), RightNow, CreateCheck PROVE RightNow'
<1> DEFINE t == Top.obj
           c == sched.prio[me] < sched.prio[t]
           r == YieldIf(c, sched)
<1>1. Busy(sched, stack) /\ Top.op = "create" /\ Top.at = "check"
  BY AtBusy DEF CreateCheck
<1>2. sched' = r
  BY Goes DEF CreateCheck
<1>3. stack[me] # << >> /\ stack[me][1] = Top /\ t \in Tasks /\ me \in Tasks /\ SchedOK(sched)
  BY <1>1, BusyTop, BusyParts DEF Busy, Top, me, Proper
<1>4. Good(sched, {t}) /\ Steady(sched)
  BY <1>1, <1>3 DEF RightNow, Newborn, me
<1>5. sched.prio[me] \in Int /\ sched.prio[t] \in Int
  BY <1>3, SchedIs, WFParts, Levels
<1> HIDE DEF t
<1>6. CASE c
  <2> DEFINE y == Yield(sched)
  <2>1. r = y
    BY <1>6 DEF YieldIf
  <2>2. Same(sched, y, {"pendsv"}) /\ y.pendsv
    BY <1>3, YieldOK
  <2> HIDE DEF y
  <2>3. Topped(sched) => Topped(y)
    BY <2>2, SameGood DEF Owes
  <2>4. Good(y, {}) /\ Steady(y)
    BY <1>4, <2>2, <2>3 DEF Good, Owes, Steady
  <2> HIDE DEF r
  <2>5. Good(sched', {}) /\ Steady(sched')
    BY <1>2, <2>1, <2>4
  <2> QED
    BY <2>5, GoodMore DEF RightNow
<1>7. CASE ~c
  <2>1. r = sched
    BY <1>7 DEF YieldIf
  <2>2. sched.prio[t] <= sched.prio[sched.current]
    BY <1>5, <1>7 DEF me
  <2>3. Good(sched, {})
    BY <1>4, <2>2 DEF Good, Urgent
  <2> HIDE DEF r
  <2>4. Good(sched', {}) /\ Steady(sched')
    BY <1>2, <1>4, <2>1, <2>3
  <2> QED
    BY <2>4, GoodMore DEF RightNow
<1> QED
  BY <1>6, <1>7

(* vTaskSwitchContext. *)
LEMMA SelectHighestGood ==
  ASSUME NEW s, SchedOK(s), s.pendingReady = << >>, Topped(s)
  PROVE  Good(SelectHighest(s), {})
<1> DEFINE T == {q \in 0..s.top : s.ready[q].items # << >>}
           p == Max(T)
           list == Advance(s.ready[p])
           c == AtIndex(list)
           r == [s EXCEPT !.ready[p] = list, !.current = c, !.top = p]
<1>1. r = SelectHighest(s)
  BY DEF SelectHighest
<1>2. /\ IsSched(s) /\ s.ready = [q \in Priorities |-> s.ready[q]] /\ s.top \in Priorities
      /\ \A q \in Priorities : IsRing(s.ready[q])
  BY SchedIs, WFParts DEF SchedOK, Shaped
<1>3. s.top \in Nat /\ 0..s.top \subseteq Priorities /\ 0 \in 0..s.top
  BY <1>2, Zero DEF Priorities
<1>4. T \in SUBSET (0..s.top) /\ 0 \in T
  <2>1. s.ready[0].items # << >>
    BY EmptyLists DEF SchedOK, IdleReady
  <2> QED
    BY <1>3, <2>1
<1>5. p \in T /\ \A q \in T : p >= q
  <2> HIDE DEF T
  <2> QED
    BY <1>3, <1>4, MaxIsLargest
<1>6. p \in Priorities /\ s.ready[p].items # << >>
  BY <1>3, <1>5
<1>7. \A q \in 0..s.top : s.ready[q].items # << >> => q <= p
  <2>1. p \in Int
    BY <1>6, Levels
  <2> HIDE DEF p
  <2> QED
    BY <1>5, <2>1
<1> HIDE DEF T, p
<1>8. /\ list.items = s.ready[p].items /\ c \in Tasks /\ Contains(s.ready[p].items, c)
  BY <1>2, <1>6, AdvanceRing
<1> HIDE DEF list, c
<1>9. /\ r.ready = [s.ready EXCEPT ![p] = list] /\ r.current = c /\ r.top = p /\ r.prio = s.prio
  BY <1>2 DEF IsSched, SchedFields
<1> HIDE DEF r
<1>10. \A q \in Priorities : r.ready[q].items = s.ready[q].items
  BY <1>2, <1>6, <1>8, <1>9
<1>11. s.prio[c] = p
  BY <1>6, <1>8 DEF SchedOK, OnePlace, Placed
<1>12. ASSUME NEW t \in Tasks, Ready(r, t) PROVE r.prio[t] <= p
  <2>1. s.prio[t] \in Priorities
    BY SchedIs, WFParts
  <2>2. Contains(s.ready[s.prio[t]].items, t)
    BY <1>9, <1>10, <1>12, <2>1 DEF Ready
  <2>3. s.prio[t] <= s.top /\ s.ready[s.prio[t]].items # << >>
    BY <2>2, EmptyLists DEF Topped, Ready
  <2>4. s.prio[t] \in 0..s.top
    BY <1>3, <2>1, <2>3 DEF Priorities
  <2> QED
    BY <1>7, <1>9, <2>3, <2>4
<1>13. Good(r, {})
  BY <1>9, <1>11, <1>12 DEF Good, Topped, Urgent
<1> QED
  BY <1>1, <1>13

LEMMA SwitchGood ==
  ASSUME NEW s, NEW st, Core(s, st), NEW X, Good(s, X)
  PROVE  LET r == SwitchContext(s) IN Good(r, {}) /\ Steady(r)
<1> DEFINE m == [s EXCEPT !.yieldPending = TRUE, !.pendsv = FALSE]
           n == [s EXCEPT !.yieldPending = FALSE, !.pendsv = FALSE]
           v == SelectHighest(n)
           r == SwitchContext(s)
           F == {"yieldPending", "pendsv"}
<1>1. SchedOK(s) /\ RunOK(s, TopOf(st, s.current)) /\ s.suspendedAll \in Nat /\ IsSched(s)
  BY SchedIs DEF Core
<1>2. SchedOK(m) /\ Same(s, m, F) /\ SchedOK(n) /\ Same(s, n, F)
  BY <1>1, SwitchedOffOK
<1>3. m.yieldPending /\ ~n.yieldPending
  BY <1>1 DEF IsSched, SchedFields
<1>4. r = IF s.suspendedAll > 0 THEN m ELSE v
  BY DEF SwitchContext
<1>5. "ready" \notin F /\ "prio" \notin F /\ "current" \notin F /\ "top" \notin F
  OBVIOUS
<1>6. m.suspendedAll = s.suspendedAll /\ n.pendingReady = s.pendingReady
  BY <1>2 DEF Same, SchedFields
<1> HIDE DEF m, n, r, F
<1>7. Topped(m) /\ Topped(n)
  <2>1. m.ready = s.ready /\ m.prio = s.prio /\ m.top = s.top
    BY <1>2, <1>5 DEF Same, SchedFields
  <2>2. n.ready = s.ready /\ n.prio = s.prio /\ n.top = s.top
    BY <1>2, <1>5 DEF Same, SchedFields
  <2> QED
    BY <2>1, <2>2 DEF Good, Topped, Ready
<1>8. CASE s.suspendedAll > 0
  <2>1. r = m /\ m.suspendedAll # 0
    BY <1>1, <1>4, <1>6, <1>8
  <2> QED
    BY <1>3, <1>7, <2>1 DEF Good, Owes, Steady, r
<1>9. CASE ~(s.suspendedAll > 0)
  <2>1. n.pendingReady = << >>
    BY <1>1, <1>6, <1>9 DEF RunOK
  <2>2. Good(v, {}) /\ Same(n, v, {"ready", "current", "top"})
    BY <1>2, <1>7, <2>1, SelectHighestGood, SelectHighestOK
  <2> HIDE DEF v
  <2>3. v.yieldPending = n.yieldPending
    BY <2>2 DEF Same, SchedFields
  <2>4. r = v
    BY <1>4, <1>9
  <2>5. Good(r, {}) /\ Steady(r)
    BY <1>3, <2>2, <2>3, <2>4 DEF Steady
  <2> QED
    BY <2>5 DEF r
<1> QED
  BY <1>8, <1>9

----------------------------------------------------------------------------
(* Every step keeps it. *)

LEMMA TaskStepNow == ASSUME Core(sched, stack), RightNow, TaskStep PROVE RightNow'
<1>1. CASE Create
  BY <1>1, CreateNow
<1>2. CASE CreateCheck
  BY <1>2, CreateCheckNow
<1>3. CASE ~Create /\ ~CreateCheck
  <2>1. Serves(sched, sched')
    BY <1>3, DelaysServe, HoldsServe, NotifiesServe, ParksServe DEF TaskStep
  <2> QED
    BY <1>3, <2>1, TaskStepElsewhere, NoneNew, ServesNow
<1> QED
  BY <1>1, <1>2, <1>3

LEMMA StepNow == ASSUME All, NoMutexes, RightNow, Step PROVE RightNow'
<1>1. Core(sched, stack) /\ QueuesOK /\ PeersOK
  BY DEF All
<1>2. CASE TaskStep
  BY <1>1, <1>2, TaskStepNow
<1>3. CASE QueueStep
  BY <1>1, <1>3, QueueStepServes, QueueStepElsewhere, NoneNew, ServesNow
<1>4. CASE GroupStep
  BY <1>1, <1>4, GroupStepServes, GroupStepElsewhere, NoneNew, ServesNow
<1>5. CASE StreamStep
  BY <1>1, <1>5, StreamStepServes, StreamStepElsewhere, NoneNew, ServesNow
<1>6. CASE TimerStep
  BY <1>1, <1>6, TimerStepServes, TimerStepElsewhere, NoneNew, ServesNow
<1> QED
  BY <1>2, <1>3, <1>4, <1>5, <1>6 DEF Step

LEMMA NewCallNow == ASSUME All, RightNow, NewCall PROVE RightNow'
<1>1. PICK i \in DOMAIN Menu(me) : Call(Menu(me)[i])
  BY DEF NewCall
<1> DEFINE call == Menu(me)[i]
<1>2. Call(call)
  BY <1>1
<1> HIDE DEF call
<1>3. sched' = sched /\ stack[sched.current] = << >>
  BY <1>2 DEF Call, me
<1>4. Serves(sched, sched')
  BY <1>3 DEF Serves
<1> QED
  BY <1>3, <1>4, NoneNew, ServesNow

LEMMA TimerInterruptServes ==
  ASSUME Core(sched, stack), NEW call, Proper(call), TimerFromISR(call)
  PROVE  Serves(sched, sched') /\ UNCHANGED stack /\ sched'.current = sched.current
<1> DEFINE message == IF call.op = "pendFromISR" THEN Message("pended", call.obj, 0)
                      ELSE Command(call.arg[1], call.obj, call.arg[2])
           sending == [op |-> "sendFromISR", obj |-> TimerQueue, wait |-> 0, arg |-> <<message, "back">>]
<1>1. SendFromISR(sending) /\ call.op \in {"timerFromISR", "pendFromISR"}
  BY DEF TimerFromISR
<1>2. TimerQueue \in Queues /\ Kind[TimerQueue] = "queue"
  BY <1>1 DEF Proper
<1>3. IsMessage(message)
  BY <1>1, InterruptMessage
<1>4. /\ sending.op = "sendFromISR" /\ sending.obj = TimerQueue /\ sending.arg[1] = message
      /\ sending.arg[2] = "back"
  OBVIOUS
<1> HIDE DEF message, sending
<1>5. Proper(sending)
  BY <1>2, <1>3, <1>4, MessageItem DEF Proper, QueueOps
<1>6. QueueInterrupt(sending)
  BY <1>1 DEF QueueInterrupt
<1> QED
  BY <1>5, <1>6, QueueInterruptServes

LEMMA InterruptNow ==
  ASSUME All, scenario \in DOMAIN Scenarios, RightNow, Interrupt
  PROVE  RightNow'
<1>1. PICK i \in DOMAIN Scenarios[scenario].isr :
        LET call == Scenarios[scenario].isr[i]
        IN  \/ NotifyInterrupt(call) /\ UNCHANGED <<queue, group, stream, content, timer>>
            \/ QueueInterrupt(call) /\ UNCHANGED <<group, stream, content, timer>>
            \/ StreamInterrupt(call) /\ UNCHANGED <<queue, group, timer>>
            \/ LegalTimerCall(call) /\ TimerFromISR(call) /\ UNCHANGED <<group, stream, content>>
  BY DEF Interrupt
<1> DEFINE call == Scenarios[scenario].isr[i]
<1>2. Proper(call) /\ Core(sched, stack) /\ QueuesOK /\ PeersOK /\ InheritOK
  BY InterruptCalls DEF All
<1>3. NotifyInterrupt(call) \/ QueueInterrupt(call) \/ StreamInterrupt(call) \/ TimerFromISR(call)
  BY <1>1
<1> HIDE DEF call
<1>4. Serves(sched, sched')
  <2>1. CASE NotifyInterrupt(call)
    <3>1. call.obj \in Tasks /\ SchedOK(sched)
      BY <1>2, <2>1 DEF NotifyInterrupt, Proper, Core
    <3> QED
      BY <2>1, <3>1, NotifyFromISRServes DEF NotifyInterrupt
  <2> QED
    BY <1>2, <1>3, <2>1, QueueInterruptServes, StreamInterruptServes, TimerInterruptServes
<1>5. UNCHANGED stack /\ sched'.current = sched.current
  <2>1. CASE NotifyInterrupt(call)
    BY <1>2, <2>1, NotifyInterruptCalm DEF NotifyInterrupt, Calm, Harmless, Mild
  <2>2. CASE StreamInterrupt(call)
    BY <1>2, <2>2, StreamInterruptFine DEF Calm, Harmless, Mild
  <2>3. CASE QueueInterrupt(call) \/ TimerFromISR(call)
    BY <1>2, <2>3, QueueInterruptServes, TimerInterruptServes
  <2> QED
    BY <1>3, <2>1, <2>2, <2>3
<1> QED
  BY <1>4, <1>5, ServesNow

LEMMA TickNow == ASSUME All, RightNow, Tick PROVE RightNow'
<1>1. SysTick /\ UNCHANGED stack /\ Core(sched, stack)
  BY DEF Tick, SysTick, All
<1>2. sched'.current = sched.current
  BY <1>1, SysTickCalm DEF Calm, Harmless, Mild
<1>3. Serves(sched, sched')
  BY <1>1, SysTickServes DEF SysTick, Core
<1> QED
  BY <1>1, <1>2, <1>3, ServesNow

LEMMA SwitchNow == ASSUME All, RightNow, Switch PROVE RightNow'
<1> DEFINE r == SwitchContext(sched)
<1>1. sched' = r
  BY DEF Switch, PendSV
<1>2. Good(r, {}) /\ Steady(r)
  BY SwitchGood DEF All, RightNow
<1> HIDE DEF r
<1>3. Good(sched', {}) /\ Steady(sched')
  BY <1>1, <1>2
<1> QED
  BY <1>3, GoodMore DEF RightNow

LEMMA InitNow == ASSUME Init PROVE RightNow
<1>1. SchedInit /\ scenario \in DOMAIN Scenarios
  BY DEF Init, SchedInit
<1>2. PICK D \in SUBSET Tasks : /\ Idle \in D /\ Unstarted(sched, D) /\ Leads(sched, D)
                               /\ sched.prio[Idle] = 0
  BY <1>1, StartedOK DEF SchedInit
<1>3. ASSUME NEW t \in Tasks, Ready(sched, t) PROVE t \in D
  <2>1. sched.prio[t] \in Priorities
    BY <1>2, WFParts DEF Unstarted
  <2> QED
    BY <1>2, <1>3, <2>1 DEF Unstarted, Away, Ready
<1>4. Good(sched, {}) /\ Steady(sched)
  BY <1>2, <1>3 DEF Leads, Good, Topped, Urgent, Steady
<1> QED
  BY <1>4, GoodMore DEF RightNow

LEMMA NextNow == ASSUME IInv, NoMutexes, RightNow, [Next]_vars PROVE RightNow'
<1>1. scenario \in DOMAIN Scenarios /\ All
  BY IInvIs
<1>2. CASE UNCHANGED vars
  BY <1>2 DEF vars, RightNow
<1> QED
  BY <1>1, <1>2, NewCallNow, StepNow, InterruptNow, TickNow, SwitchNow DEF Next

(* What the current task is in when it is not ready and no switch is due.   *)
LEMMA RunningTask ==
  ASSUME Core(sched, stack), ~sched.pendsv, sched.suspendedAll = 0
  PROVE  Ready(sched, me) \/ AboutToYield
<1> DEFINE f == TopOf(stack, sched.current)
<1>1. RunOK(sched, f) /\ ~Holds(f)
  BY DEF Core, RunOK
<1>2. Ready(sched, me) \/ Dozes(f) \/ Parks(sched, f)
  BY <1>1 DEF RunOK, Runnable, me
<1>3. CASE stack[me] = << >>
  <2>1. f = NoFrame
    BY <1>3 DEF TopOf, me
  <2> HIDE DEF f
  <2>2. ~Dozes(f) /\ ~Parks(sched, f)
    BY <2>1 DEF NoFrame, Dozes, Parks, QueueOps
  <2> QED
    BY <1>2, <2>2
<1>4. CASE stack[me] # << >>
  <2>1. f = Top
    BY <1>4 DEF TopOf, me, Top
  <2> HIDE DEF f
  <2>2. Dozes(f) /\ ~Holds(f) => f.at = "yield"
    BY DEF Dozes, Holds
  <2>3. Parks(sched, f) => f.op = "suspend" /\ f.at = "reset"
    BY DEF Parks
  <2> QED
    BY <1>1, <1>2, <1>4, <2>1, <2>2, <2>3 DEF AboutToYield
<1> QED
  BY <1>3, <1>4

LEMMA NowRunsHighest == ASSUME IInv, RightNow PROVE RunsHighest
<1>1. Core(sched, stack)
  BY IInvIs DEF All
<1> SUFFICES ASSUME sched.suspendedAll = 0, ~sched.pendsv
             PROVE  /\ Ready(sched, me) \/ AboutToYield
                    /\ \A t \in Tasks : Ready(sched, t) => sched.prio[t] <= sched.prio[me] \/ AboutToYield
  BY DEF RunsHighest
<1>2. Ready(sched, me) \/ AboutToYield
  BY <1>1, RunningTask
<1>3. Urgent(sched, Newborn(stack, sched.current))
  BY DEF RightNow, Good, Owes, Steady
<1>4. Newborn(stack, sched.current) = {} \/ AboutToYield
  BY DEF Newborn, AboutToYield, me, Top
<1>5. \A t \in Tasks : Ready(sched, t) => sched.prio[t] <= sched.prio[me] \/ AboutToYield
  BY <1>3, <1>4 DEF Urgent, me
<1> QED
  BY <1>2, <1>5

(* Whatever the tasks and the handlers of an application without mutexes    *)
(* call, the most urgent of the ready tasks runs whenever the scheduler is  *)
(* not suspended and PendSV is not pending: whoever makes a task ready that *)
(* is more urgent than pxCurrentTCB yields, in vTaskResume,                 *)
(* vTaskPrioritySet, xTaskGenericNotify and the functions of queue.c, or    *)
(* leaves xYieldPending for xTaskResumeAll, and vTaskSwitchContext finds    *)
(* the highest list that is not empty below uxTopReadyPriority.             *)
THEOREM MostUrgentRuns ==
  ASSUME \A q \in Queues : Kind[q] # "mutex"
  PROVE  Spec => []RunsHighest
<1>1. NoMutexes
  BY DEF NoMutexes
<1>2. Init => RightNow
  BY InitNow
<1>3. IInv /\ RightNow /\ [Next]_vars => RightNow'
  BY <1>1, NextNow
<1>4. IInv /\ RightNow => RunsHighest
  BY NowRunsHighest
<1> QED
  BY <1>2, <1>3, <1>4, Invariance, PTL DEF Spec
=============================================================================
