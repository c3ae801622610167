-------------------------- MODULE EventQueueProofs --------------------------
(***************************************************************************)
(* Proofs about the event scheduler's queue, for a queue of any length and *)
(* any number of threads and events: the array is always a heap, the       *)
(* semaphore counts what is in it, and the queue implements a bag from     *)
(* which the earliest event is taken when it is due.                       *)
(***************************************************************************)
EXTENDS EventQueue, IntSets

(* Every variable has its type.                                            *)
QueueTypes ==
    /\ event_queue \in Queue /\ tail \in 0 .. EVENT_QUEUE_LENGTH - 1
    /\ event \in Slot /\ queued \subseteq Note

ThreadTypes ==
    /\ sem \in Nat /\ now \in 0 .. MaxTime
    /\ ppc \in [Thread -> {"idle", "post", "signal"}]
    /\ mpc \in {"sem", "lock", "wait", "woken", "timedout", "handle"}

(* Each entry of the queue is an event that was queued, and is there once. *)
Entries ==
    \A i \in EVENT_QUEUE_HEAD .. tail : /\ event_queue[i] \in Event
                            /\ event_queue[i].note \in queued

EntriesDistinct ==
    \A i, j \in EVENT_QUEUE_HEAD .. tail :
        event_queue[i].note = event_queue[j].note => i = j

(* The event the main thread sleeps for: an entry with its notification is *)
(* this event, and once the wait has timed out it is due.                  *)
Awaited ==
    /\ mpc \in {"wait", "timedout"} =>
         /\ event.note \in queued
         /\ \A i \in EVENT_QUEUE_HEAD .. tail :
              event_queue[i].note = event.note => event_queue[i] = event
    /\ mpc = "timedout" => event.time <= now

(* The inductive invariant. *)
IInv == /\ QueueTypes /\ ThreadTypes
        /\ Entries /\ EntriesDistinct
        /\ HeapVerified /\ Counted
        /\ Awaited

-----------------------------------------------------------------------------
(* The heap of the first n entries of q, except for what relates the entry *)
(* at c to its parent.                                                     *)
HeapButChild(q, n, c) ==
    \A i \in 1 .. n : \A k \in {2 * i, 2 * i + 1} :
        k <= n /\ k # c => q[i].time <= q[k].time

(* The same, except for what relates the entry at p to its children.       *)
HeapButParent(q, n, p) ==
    \A i \in 1 .. n : \A k \in {2 * i, 2 * i + 1} :
        k <= n /\ i # p => q[i].time <= q[k].time

(* The parent of c is no later than the children of c.                     *)
Bridged(q, n, c) ==
    \A i \in 1 .. n : c \in {2 * i, 2 * i + 1} =>
        \A k \in {2 * c, 2 * c + 1} : k <= n => q[i].time <= q[k].time

Heap(q, n) ==
    \A i \in 1 .. n : \A k \in {2 * i, 2 * i + 1} :
        k <= n => q[i].time <= q[k].time

(* The first n entries of q.                                               *)
EntriesOf(q, n) == {q[i] : i \in 1 .. n}

(* r holds the first n entries of q, each as often, and slot 0 unchanged.  *)
SameEntries(q, r, n) ==
    /\ r \in Queue
    /\ r[0] = q[0]
    /\ {r[i] : i \in 1 .. n} = {q[i] : i \in 1 .. n}
    /\ (\A i, j \in 1 .. n : q[i].note = q[j].note => i = j) =>
       (\A i, j \in 1 .. n : r[i].note = r[j].note => i = j)

(* The times of the entries are numbers.                                   *)
LEMMA TimesAreNumbers ==
    ASSUME NEW q \in Queue, NEW i \in Index
    PROVE  q[i] \in Slot /\ q[i].time \in Int
<1>1. q[i] \in Slot
  BY DEF Queue
<1>2. q[i].time \in 0 .. MaxTime
  BY <1>1 DEF Slot
<1> QED BY <1>1, <1>2, QueueAssumption

(* What swap does to the array.                                            *)
LEMMA SwapFacts ==
    ASSUME NEW q \in Queue, NEW i \in Index, NEW j \in Index
    PROVE  /\ Swap(q, i, j) \in Queue
           /\ Swap(q, i, j)[i] = q[j] /\ Swap(q, i, j)[j] = q[i]
           /\ \A k \in Index : k # i /\ k # j => Swap(q, i, j)[k] = q[k]
  BY DEF Swap, Queue

(* A swap among the first n entries keeps them all.                        *)
LEMMA SwapSame ==
    ASSUME NEW q \in Queue, NEW n \in Index, NEW i \in 1 .. n, NEW j \in 1 .. n
    PROVE  SameEntries(q, Swap(q, i, j), n)
<1> DEFINE r == Swap(q, i, j)
<1>1. n \in Nat /\ 0 \in Index /\ i # 0 /\ j # 0
      /\ \A k \in 1 .. n : k \in Index
  BY QueueAssumption DEF Index
<1>2. /\ r \in Queue /\ r[i] = q[j] /\ r[j] = q[i]
      /\ \A k \in Index : k # i /\ k # j => r[k] = q[k]
  <2>1. i \in Index /\ j \in Index
    BY <1>1
  <2> QED BY <2>1, SwapFacts
<1> HIDE DEF r
<1>3. ASSUME NEW k \in 1 .. n PROVE \E m \in 1 .. n : r[k] = q[m]
  BY <1>1, <1>2
<1>4. ASSUME NEW k \in 1 .. n PROVE \E m \in 1 .. n : q[k] = r[m]
  BY <1>1, <1>2
<1>5. {r[k] : k \in 1 .. n} = {q[k] : k \in 1 .. n}
  <2>1. ASSUME NEW x \in {r[k] : k \in 1 .. n} PROVE x \in {q[k] : k \in 1 .. n}
    <3>1. PICK k \in 1 .. n : x = r[k]
      OBVIOUS
    <3> QED BY <3>1, <1>3
  <2>2. ASSUME NEW x \in {q[k] : k \in 1 .. n} PROVE x \in {r[k] : k \in 1 .. n}
    <3>1. PICK k \in 1 .. n : x = q[k]
      OBVIOUS
    <3> QED BY <3>1, <1>4
  <2> QED BY <2>1, <2>2
<1>6. ASSUME \A a, b \in 1 .. n : q[a].note = q[b].note => a = b,
             NEW a \in 1 .. n, NEW b \in 1 .. n, r[a].note = r[b].note
      PROVE  a = b
  BY <1>1, <1>2, <1>6
<1>7. r[0] = q[0]
  BY <1>1, <1>2
<1> QED BY <1>2, <1>5, <1>6, <1>7 DEF SameEntries, r

(* Keeping the entries is transitive.                                      *)
LEMMA SameTransitive ==
    ASSUME NEW q, NEW r, NEW s, NEW n,
           SameEntries(q, r, n), SameEntries(r, s, n)
    PROVE  SameEntries(q, s, n)
  BY DEF SameEntries

(* And so is it to leave the queue alone.                                  *)
LEMMA SameReflexive ==
    ASSUME NEW q \in Queue, NEW n
    PROVE  SameEntries(q, q, n)
  BY DEF SameEntries

-----------------------------------------------------------------------------
(* One round of the loop of sched_event_enqueue(), for every queue, with f *)
(* for the rounds that follow.                                             *)
UpRound(f, child) ==
    [q \in Queue |->
       LET parent == child \div 2
       IN  IF parent >= EVENT_QUEUE_HEAD /\ event_is_more_recent(q[child], q[parent])
           THEN f[parent][Swap(q, parent, child)]
           ELSE q]

(* f is the loop, from entries up to n.                                    *)
IsUp(f, n) == f = [child \in 0 .. n |-> UpRound(f, child)]

(* The parent's place.                                                     *)
LEMMA ParentPlace ==
    ASSUME NEW c \in Nat
    PROVE  /\ c \div 2 \in Nat
           /\ c \in {2 * (c \div 2), 2 * (c \div 2) + 1}
           /\ c # 0 => c \div 2 < c
           /\ c <= 1 => c \div 2 = 0
           /\ c >= 2 => c \div 2 >= 1
  OBVIOUS

(* A round depends on the following round only.                            *)
LEMMA UpRoundDepends ==
    ASSUME NEW f, NEW g, NEW c \in Nat, c \div 2 >= 1 => f[c \div 2] = g[c \div 2]
    PROVE  UpRound(f, c) = UpRound(g, c)
<1>1. ASSUME NEW q \in Queue PROVE UpRound(f, c)[q] = UpRound(g, c)[q]
  <2>1. CASE c \div 2 >= 1
    <3>1. f[c \div 2] = g[c \div 2]
      BY <2>1
    <3> QED BY <3>1 DEF UpRound
  <2>2. CASE ~ (c \div 2 >= 1)
    BY <2>2 DEF UpRound, EVENT_QUEUE_HEAD
  <2> QED BY <2>1, <2>2
<1> QED BY <1>1 DEF UpRound

(* The loop ends: there is such an f.                                      *)
LEMMA UpExists ==
    ASSUME NEW n \in Nat
    PROVE  \E f : IsUp(f, n)
<1> DEFINE S == {m \in Nat : \E f : IsUp(f, m)}
<1>1. 0 \in S
  <2> DEFINE f == [c \in 0 .. 0 |-> UpRound(<< >>, c)]
  <2>1. UpRound(<< >>, 0) = UpRound(f, 0)
    <3>1. ~ (0 \div 2 >= 1)
      BY ParentPlace
    <3> QED BY <3>1, UpRoundDepends
  <2>2. \A c \in 0 .. 0 : c = 0
    OBVIOUS
  <2>3. f = [c \in 0 .. 0 |-> UpRound(f, c)]
    <3>1. \A c \in 0 .. 0 : UpRound(<< >>, c) = UpRound(f, c)
      BY <2>1, <2>2
    <3> QED BY <3>1, Zenon
  <2> HIDE DEF f
  <2> QED BY <2>3 DEF IsUp
<1>2. ASSUME NEW m \in S PROVE m + 1 \in S
  <2>1. PICK f : IsUp(f, m)
    OBVIOUS
  <2>2. m \in Nat /\ m + 1 \in Nat
    OBVIOUS
  <2> DEFINE g == [c \in 0 .. m + 1 |-> IF c = m + 1 THEN UpRound(f, m + 1) ELSE f[c]]
  <2>3. \A c \in 0 .. m : g[c] = f[c]
    BY <2>2
  <2>4. g[m + 1] = UpRound(f, m + 1)
    BY <2>2
  <2>5. ASSUME NEW c \in 0 .. m + 1 PROVE UpRound(f, c) = UpRound(g, c)
    <3> HIDE DEF g
    <3>1. c \in Nat /\ (c \div 2 >= 1 => c \div 2 \in 0 .. m)
      BY <2>2, ParentPlace
    <3> QED BY <3>1, <2>3, UpRoundDepends
  <2>6. ASSUME NEW c \in 0 .. m + 1 PROVE g[c] = UpRound(g, c)
    <3> HIDE DEF g
    <3>1. CASE c = m + 1
      BY <3>1, <2>4, <2>5
    <3>2. CASE c # m + 1
      <4>1. c \in 0 .. m
        BY <3>2, <2>2
      <4>2. f[c] = UpRound(f, c)
        BY <4>1, <2>1 DEF IsUp
      <4> QED BY <4>1, <4>2, <2>3, <2>5
    <3> QED BY <3>1, <3>2
  <2>7. g = [c \in 0 .. m + 1 |-> g[c]]
    OBVIOUS
  <2> HIDE DEF g
  <2>8. IsUp(g, m + 1)
    BY <2>6, <2>7 DEF IsUp
  <2> QED BY <2>2, <2>8
<1> HIDE DEF S
<1>3. S \in SUBSET Nat
  BY DEF S
<1>4. n \in S
  BY <1>1, <1>2, <1>3, SetInduction
<1> QED BY <1>4 DEF S

(* MoveUp is such an f, applied.                                           *)
LEMMA MoveUpIs ==
    ASSUME NEW queue, NEW leaf
    PROVE  \E f : IsUp(f, EVENT_QUEUE_LENGTH - 1) /\ MoveUp(queue, leaf) = f[leaf][queue]
<1> DEFINE Up == CHOOSE f : f = [child \in Index |->
              [q \in Queue |->
                 LET parent == child \div 2
                 IN  IF parent >= EVENT_QUEUE_HEAD /\ event_is_more_recent(q[child], q[parent])
                     THEN f[parent][Swap(q, parent, child)]
                     ELSE q]]
<1>1. MoveUp(queue, leaf) = Up[leaf][queue]
  BY DEF MoveUp
<1>2. EVENT_QUEUE_LENGTH - 1 \in Nat
  BY QueueAssumption
<1>3. PICK f : IsUp(f, EVENT_QUEUE_LENGTH - 1)
  BY <1>2, UpExists
<1>4. IsUp(Up, EVENT_QUEUE_LENGTH - 1)
  BY <1>3, Zenon DEF IsUp, UpRound, Index
<1> QED BY <1>1, <1>4


(* Moving the entry at c up restores the heap, and keeps the entries.      *)
LEMMA UpCorrect ==
    ASSUME NEW f, IsUp(f, EVENT_QUEUE_LENGTH - 1), NEW n \in Index,
           NEW c \in 1 .. n, NEW q \in Queue,
           HeapButChild(q, n, c), Bridged(q, n, c)
    PROVE  Heap(f[c][q], n) /\ SameEntries(q, f[c][q], n)
<1> DEFINE Good(k) == \A d \in 1 .. n : d <= k =>
              \A r \in Queue : HeapButChild(r, n, d) /\ Bridged(r, n, d) =>
                  Heap(f[d][r], n) /\ SameEntries(r, f[d][r], n)
           S == {k \in Nat : Good(k)}
<1>1. n \in Nat /\ n <= EVENT_QUEUE_LENGTH - 1 /\ EVENT_QUEUE_LENGTH \in Nat
      /\ \A k \in 1 .. n : k \in Index
  BY QueueAssumption DEF Index
<1>2. 0 \in S
  BY <1>1
<1>3. ASSUME NEW m \in S PROVE m + 1 \in S
  <2> SUFFICES ASSUME NEW r \in Queue, m + 1 \in 1 .. n,
                      HeapButChild(r, n, m + 1), Bridged(r, n, m + 1)
               PROVE  Heap(f[m + 1][r], n) /\ SameEntries(r, f[m + 1][r], n)
    <3>1. m \in Nat /\ Good(m)
      OBVIOUS
    <3>2. \A d \in 1 .. n : d <= m + 1 => d <= m \/ d = m + 1
      BY <1>1, <3>1
    <3>3. Good(m + 1)
      BY <3>1, <3>2
    <3> QED BY <3>1, <3>3
  <2> DEFINE d == m + 1
             p == d \div 2
             s == Swap(r, p, d)
  <2>0. m \in Nat /\ Good(m)
    OBVIOUS
  <2> HIDE DEF Good
  <2>1. d \in 1 .. n /\ d \in Nat /\ d \in 0 .. EVENT_QUEUE_LENGTH - 1 /\ d \in Index
    BY <1>1
  <2>2. p \in Nat /\ d \in {2 * p, 2 * p + 1} /\ p < d /\ (d <= 1 => p = 0)
    <3>1. d \in Nat /\ d # 0
      BY <2>1
    <3> QED BY <3>1, ParentPlace
  <2>3. f[d][r] = IF p >= 1 /\ r[d].time <= r[p].time THEN f[p][s] ELSE r
    <3>1. f[d] = UpRound(f, d)
      BY <2>1 DEF IsUp
    <3> QED BY <3>1 DEF UpRound, EVENT_QUEUE_HEAD, event_is_more_recent
  <2>4. HeapButChild(r, n, d) /\ Bridged(r, n, d)
    OBVIOUS
  <2> HIDE DEF d, p
  <2>5. \A k \in 1 .. n : r[k].time \in Int
    BY <1>1, TimesAreNumbers
  <2>6. CASE ~ (p >= 1 /\ r[d].time <= r[p].time)
    <3>1. f[d][r] = r
      BY <2>3, <2>6
    <3>2. ASSUME NEW i \in 1 .. n, NEW k \in {2 * i, 2 * i + 1}, k <= n
          PROVE  r[i].time <= r[k].time
      <4>1. CASE k # d
        BY <4>1, <3>2, <2>4 DEF HeapButChild
      <4>2. CASE k = d
        <5>1. i = p /\ p >= 1
          BY <4>2, <2>2, <1>1
        <5>2. ~ (r[d].time <= r[p].time) /\ r[d].time \in Int /\ r[p].time \in Int
          BY <5>1, <2>5, <2>6, <2>1
        <5> QED BY <5>1, <5>2, <4>2
      <4> QED BY <4>1, <4>2
    <3>3. Heap(r, n)
      BY <3>2 DEF Heap
    <3> QED BY <3>1, <3>3, SameReflexive DEF d
  <2>7. CASE p >= 1 /\ r[d].time <= r[p].time
    <3>1. p \in 1 .. n /\ p \in Index /\ p <= m /\ p # d
      BY <2>1, <2>2, <2>7, <1>1, <2>0 DEF d
    <3>2. /\ s \in Queue /\ s[p] = r[d] /\ s[d] = r[p]
          /\ \A k \in Index : k # p /\ k # d => s[k] = r[k]
      BY <3>1, <2>1, SwapFacts
    <3> HIDE DEF s
    <3>3. ASSUME NEW i \in 1 .. n, NEW k \in {2 * i, 2 * i + 1}, k <= n, k # p
          PROVE  s[i].time <= s[k].time
      <4>1. k \in 1 .. n /\ i # k /\ k \in Index /\ i \in Index
        BY <3>3, <1>1
      <4>2. CASE k = d
        <5>1. i = p
          BY <4>2, <2>2, <1>1
        <5> QED BY <5>1, <4>2, <3>2, <2>7
      <4>3. CASE k # d /\ i = p
        <5>1. r[p].time <= r[k].time
          BY <4>3, <2>4, <3>3 DEF HeapButChild
        <5>2. s[k] = r[k] /\ s[i] = r[d]
          BY <4>1, <4>3, <3>2, <3>3
        <5> QED BY <5>1, <5>2, <2>5, <2>7, <4>1, <3>1, <2>1
      <4>4. CASE k # d /\ i = d
        <5>1. r[p].time <= r[k].time
          BY <4>4, <2>2, <2>4, <3>1, <3>3 DEF Bridged
        <5>2. s[k] = r[k] /\ s[i] = r[p]
          BY <4>1, <4>4, <3>2, <3>3
        <5> QED BY <5>1, <5>2
      <4>5. CASE k # d /\ i # p /\ i # d
        <5>1. r[i].time <= r[k].time
          BY <4>5, <2>4, <3>3 DEF HeapButChild
        <5>2. s[k] = r[k] /\ s[i] = r[i]
          BY <4>1, <4>5, <3>2, <3>3
        <5> QED BY <5>1, <5>2
      <4> QED BY <4>2, <4>3, <4>4, <4>5
    <3>4. HeapButChild(s, n, p)
      BY <3>3 DEF HeapButChild
    <3>5. ASSUME NEW i \in 1 .. n, p \in {2 * i, 2 * i + 1},
                 NEW k \in {2 * p, 2 * p + 1}, k <= n
          PROVE  s[i].time <= s[k].time
      <4>1. i < p /\ p < k /\ k \in 1 .. n /\ i # d /\ p # d
        BY <3>1, <3>5, <2>2, <1>1
      <4>2. r[i].time <= r[p].time
        BY <3>1, <3>5, <2>4 DEF HeapButChild
      <4>3. s[i] = r[i]
        BY <4>1, <3>2, <1>1
      <4>4. CASE k = d
        BY <4>2, <4>3, <4>4, <3>2
      <4>5. CASE k # d
        <5>1. r[p].time <= r[k].time
          BY <4>5, <3>1, <3>5, <2>4 DEF HeapButChild
        <5>2. s[k] = r[k]
          BY <4>1, <4>5, <3>2, <1>1
        <5>3. r[i].time \in Int /\ r[p].time \in Int /\ r[k].time \in Int
          BY <2>5, <4>1, <3>1
        <5> QED BY <5>1, <5>2, <5>3, <4>2, <4>3
      <4> QED BY <4>4, <4>5
    <3>6. Bridged(s, n, p)
      BY <3>5 DEF Bridged
    <3>7. Heap(f[p][s], n) /\ SameEntries(s, f[p][s], n)
      BY <3>1, <3>2, <3>4, <3>6, <2>0 DEF Good
    <3>8. SameEntries(r, s, n)
      BY <3>1, <2>1, SwapSame DEF s
    <3>9. f[d][r] = f[p][s]
      BY <2>3, <2>7
    <3> QED BY <3>7, <3>8, <3>9, SameTransitive DEF d
  <2> QED BY <2>6, <2>7
<1>4. c \in S /\ c \in Nat
  <2>1. S \in SUBSET Nat
    OBVIOUS
  <2> HIDE DEF S
  <2>2. S = Nat
    BY <1>2, <1>3, <2>1, SetInduction
  <2> QED BY <1>1, <2>2
<1>5. Good(c) /\ c <= c
  BY <1>4
<1> QED BY <1>5


-----------------------------------------------------------------------------
(* One round of the loop of sched_event_dequeue(), likewise, and the loop  *)
(* from entries at m and after it.                                         *)
DownRound(f, parent, n) ==
    [q \in Queue |->
       LET child == MoreRecentChild(q, 2 * parent)
       IN  IF 2 * parent <= n /\ event_is_more_recent(q[child], q[parent])
           THEN f[child][Swap(q, parent, child)]
           ELSE q]

IsDown(f, m, n) ==
    f = [parent \in m .. EVENT_QUEUE_LENGTH - 1 |-> DownRound(f, parent, n)]

(* The child to descend to is one of the two.                              *)
LEMMA ChildPlace ==
    ASSUME NEW q, NEW k
    PROVE  MoreRecentChild(q, k) \in {k, k + 1}
  BY DEF MoreRecentChild

(* A round depends on the following rounds only.                           *)
LEMMA DownRoundDepends ==
    ASSUME NEW f, NEW g, NEW p, NEW n,
           2 * p <= n => f[2 * p] = g[2 * p] /\ f[2 * p + 1] = g[2 * p + 1]
    PROVE  DownRound(f, p, n) = DownRound(g, p, n)
<1>1. ASSUME NEW q \in Queue PROVE DownRound(f, p, n)[q] = DownRound(g, p, n)[q]
  <2> DEFINE c == MoreRecentChild(q, 2 * p)
  <2>1. c \in {2 * p, 2 * p + 1}
    BY ChildPlace
  <2>2. /\ DownRound(f, p, n)[q] = IF 2 * p <= n /\ event_is_more_recent(q[c], q[p])
                                   THEN f[c][Swap(q, p, c)] ELSE q
        /\ DownRound(g, p, n)[q] = IF 2 * p <= n /\ event_is_more_recent(q[c], q[p])
                                   THEN g[c][Swap(q, p, c)] ELSE q
    BY DEF DownRound
  <2> HIDE DEF c
  <2>3. CASE 2 * p <= n
    <3>1. f[c] = g[c]
      BY <2>1, <2>3
    <3> QED BY <2>2, <3>1
  <2>4. CASE ~ (2 * p <= n)
    BY <2>2, <2>4
  <2> QED BY <2>3, <2>4
<1> QED BY <1>1 DEF DownRound

(* The loop ends: there is such an f.                                      *)
LEMMA DownExists ==
    ASSUME NEW n \in Nat, n + 1 \in Index
    PROVE  \E f : IsDown(f, 1, n)
<1> DEFINE L == EVENT_QUEUE_LENGTH
           S == {k \in Nat : k <= L - 1 => \E f : IsDown(f, L - k, n)}
<1>0. L \in Nat /\ L >= 1 /\ n + 1 <= L - 1
  BY QueueAssumption DEF Index
<1>1. 0 \in S
  <2> DEFINE f == [p \in L .. L - 1 |-> DownRound(<< >>, p, n)]
  <2>1. \A p \in L .. L - 1 : FALSE
    BY <1>0
  <2>2. f = [p \in L .. L - 1 |-> DownRound(f, p, n)]
    BY <2>1
  <2>3. IsDown(f, L - 0, n)
    <3>1. L - 0 = L
      BY <1>0
    <3> HIDE DEF f
    <3> QED BY <2>2, <3>1 DEF IsDown
  <2> QED BY <2>3
<1>2. ASSUME NEW k \in S PROVE k + 1 \in S
  <2> SUFFICES ASSUME k + 1 <= L - 1 PROVE \E g : IsDown(g, L - (k + 1), n)
    OBVIOUS
  <2> DEFINE m == L - k
             o == L - (k + 1)
  <2>1. k \in Nat /\ k <= L - 1 /\ m \in Nat /\ o \in Nat /\ o >= 1 /\ o + 1 = m
        /\ o <= L - 1
    BY <1>0
  <2>2. PICK f : IsDown(f, m, n)
    BY <2>1
  <2> HIDE DEF m, o, L
  <2> DEFINE g == [p \in o .. L - 1 |-> IF p = o THEN DownRound(f, o, n) ELSE f[p]]
  <2>3. \A p \in m .. L - 1 : g[p] = f[p]
    BY <2>1, <1>0
  <2>4. g[o] = DownRound(f, o, n)
    BY <2>1, <1>0
  <2>5. ASSUME NEW p \in o .. L - 1 PROVE DownRound(f, p, n) = DownRound(g, p, n)
    <3> HIDE DEF g
    <3>1. 2 * p <= n => 2 * p \in m .. L - 1 /\ 2 * p + 1 \in m .. L - 1
      BY <2>1, <1>0
    <3> QED BY <3>1, <2>3, DownRoundDepends
  <2>6. ASSUME NEW p \in o .. L - 1 PROVE g[p] = DownRound(g, p, n)
    <3> HIDE DEF g
    <3>1. CASE p = o
      BY <3>1, <2>4, <2>5
    <3>2. CASE p # o
      <4>1. p \in m .. L - 1
        BY <3>2, <2>1, <1>0
      <4>2. f[p] = DownRound(f, p, n)
        BY <4>1, <2>2 DEF IsDown, L
      <4> QED BY <4>1, <4>2, <2>3, <2>5
    <3> QED BY <3>1, <3>2
  <2>7. g = [p \in o .. L - 1 |-> g[p]]
    OBVIOUS
  <2> HIDE DEF g
  <2>8. IsDown(g, o, n)
    BY <2>6, <2>7 DEF IsDown, L
  <2> QED BY <2>8 DEF o
<1> HIDE DEF S
<1>3. S \in SUBSET Nat
  BY DEF S
<1>4. S = Nat
  BY <1>1, <1>2, <1>3, SetInduction
<1>5. L - 1 \in S /\ L - 1 <= L - 1 /\ L - (L - 1) = 1
  BY <1>0, <1>4
<1> QED BY <1>5 DEF S

(* MoveDown is such an f, applied.                                         *)
LEMMA MoveDownIs ==
    ASSUME NEW queue, NEW n \in Nat, n + 1 \in Index
    PROVE  \E f : IsDown(f, 1, n) /\ MoveDown(queue, n) = f[1][queue]
<1> DEFINE Down == CHOOSE f : f = [parent \in Index \ {0} |->
              [q \in Queue |->
                 LET child == MoreRecentChild(q, 2 * parent)
                 IN  IF 2 * parent <= n /\ event_is_more_recent(q[child], q[parent])
                     THEN f[child][Swap(q, parent, child)]
                     ELSE q]]
<1>1. MoveDown(queue, n) = Down[1][queue]
  BY DEF MoveDown, EVENT_QUEUE_HEAD
<1>2. PICK f : IsDown(f, 1, n)
  BY DownExists
<1>3. Index \ {0} = 1 .. EVENT_QUEUE_LENGTH - 1
  BY QueueAssumption DEF Index
<1>4. f = [parent \in Index \ {0} |-> DownRound(f, parent, n)]
  BY <1>2, <1>3 DEF IsDown
<1>5. Down = [parent \in Index \ {0} |-> DownRound(Down, parent, n)]
  BY <1>4, Zenon DEF DownRound
<1> HIDE DEF Down
<1>6. IsDown(Down, 1, n)
  BY <1>3, <1>5 DEF IsDown
<1> QED BY <1>1, <1>6

(* Moving the entry at p down restores the heap of the first n, and keeps  *)
(* the entries, if the slot after them holds the same entry.               *)
LEMMA DownCorrect ==
    ASSUME NEW n \in Nat, n + 1 \in Index, NEW f, IsDown(f, 1, n),
           NEW p \in 1 .. n + 1, NEW q \in Queue,
           HeapButParent(q, n, p), Bridged(q, n, p), q[n + 1] = q[p]
    PROVE  Heap(f[p][q], n) /\ SameEntries(q, f[p][q], n)
<1> DEFINE Good(k) == \A d \in 1 .. n + 1 : d >= n + 1 - k =>
              \A r \in Queue :
                  HeapButParent(r, n, d) /\ Bridged(r, n, d) /\ r[n + 1] = r[d] =>
                  Heap(f[d][r], n) /\ SameEntries(r, f[d][r], n)
           S == {k \in Nat : Good(k)}
<1>1. n + 1 <= EVENT_QUEUE_LENGTH - 1 /\ EVENT_QUEUE_LENGTH \in Nat /\ n \in Index
      /\ \A k \in 1 .. n + 1 : k \in Index
  BY QueueAssumption DEF Index
<1>2. ASSUME NEW d \in 1 .. n + 1, NEW r \in Queue,
             HeapButParent(r, n, d), Bridged(r, n, d), r[n + 1] = r[d],
             \A e \in 1 .. n + 1 : e > d =>
                \A s \in Queue :
                  HeapButParent(s, n, e) /\ Bridged(s, n, e) /\ s[n + 1] = s[e] =>
                  Heap(f[e][s], n) /\ SameEntries(s, f[e][s], n)
      PROVE  Heap(f[d][r], n) /\ SameEntries(r, f[d][r], n)
  <2> DEFINE c == MoreRecentChild(r, 2 * d)
             s == Swap(r, d, c)
  <2>1. f[d][r] = IF 2 * d <= n /\ r[c].time <= r[d].time THEN f[c][s] ELSE r
    <3>1. d \in 1 .. EVENT_QUEUE_LENGTH - 1
      BY <1>1
    <3>2. f[d] = DownRound(f, d, n)
      BY <3>1 DEF IsDown
    <3> QED BY <3>2 DEF DownRound, event_is_more_recent
  <2>2. c = IF r[2 * d + 1].time <= r[2 * d].time THEN 2 * d + 1 ELSE 2 * d
    BY DEF MoreRecentChild, event_is_more_recent
  <2> HIDE DEF c
  <2>3. \A k \in 1 .. n + 1 : r[k].time \in Int
    BY <1>1, TimesAreNumbers
  <2>4. HeapButParent(r, n, d) /\ Bridged(r, n, d) /\ r[n + 1] = r[d] /\ d \in Nat /\ d >= 1
    BY <1>2
  <2>5. CASE ~ (2 * d <= n /\ r[c].time <= r[d].time)
    <3>1. f[d][r] = r
      BY <2>1, <2>5
    <3>2. ASSUME NEW i \in 1 .. n, NEW k \in {2 * i, 2 * i + 1}, k <= n
          PROVE  r[i].time <= r[k].time
      <4>1. CASE i # d
        BY <4>1, <3>2, <2>4 DEF HeapButParent
      <4>2. CASE i = d
        <5>1. 2 * d <= n /\ 2 * d \in 1 .. n + 1 /\ 2 * d + 1 \in 1 .. n + 1 /\ k \in 1 .. n + 1
          BY <4>2, <3>2
        <5>2. ~ (r[c].time <= r[d].time)
          BY <5>1, <2>5
        <5> QED BY <5>1, <5>2, <2>2, <2>3, <4>2
      <4> QED BY <4>1, <4>2
    <3>3. Heap(r, n)
      BY <3>2 DEF Heap
    <3> QED BY <3>1, <3>3, SameReflexive
  <2>6. CASE 2 * d <= n /\ r[c].time <= r[d].time
    <3>1. /\ 2 * d \in 1 .. n /\ 2 * d + 1 \in 1 .. n + 1 /\ c \in {2 * d, 2 * d + 1}
          /\ c \in 1 .. n + 1 /\ c > d /\ d \in 1 .. n /\ d # n + 1 /\ c \in Index /\ d \in Index
          /\ n + 1 \in Index
      BY <2>2, <2>4, <2>6, <1>1
    <3>2. /\ s \in Queue /\ s[d] = r[c] /\ s[c] = r[d]
          /\ \A k \in Index : k # d /\ k # c => s[k] = r[k]
      BY <3>1, SwapFacts
    <3>3. SameEntries(r, s, n)
      <4>1. CASE c \in 1 .. n
        BY <4>1, <3>1, <1>1, SwapSame
      <4>2. CASE c = n + 1
        <5>1. r[c] = r[d]
          BY <4>2, <2>4
        <5>2. s = r
          <6>1. \A k \in Index : s[k] = r[k]
            BY <5>1, <3>2
          <6> HIDE DEF s
          <6> QED BY <6>1, <3>2 DEF Queue
        <5> QED BY <5>2, SameReflexive
      <4> QED BY <4>1, <4>2, <3>1
    <3> HIDE DEF s
    <3>4. s[n + 1] = s[c]
      BY <3>1, <3>2, <2>4
    <3>5. \A k \in 1 .. n : k \in {2 * d, 2 * d + 1} => r[c].time <= r[k].time
      BY <3>1, <2>2, <2>3
    <3>6. ASSUME NEW i \in 1 .. n, NEW k \in {2 * i, 2 * i + 1}, k <= n, i # c
          PROVE  s[i].time <= s[k].time
      <4>1. k \in 1 .. n /\ i # k /\ k \in Index /\ i \in Index
        BY <3>6, <1>1
      <4>2. CASE i = d
        <5>1. s[i] = r[c] /\ r[c].time <= r[k].time
          BY <4>1, <4>2, <3>2, <3>5, <3>6
        <5>2. CASE k = c
          BY <5>1, <5>2, <3>2, <2>6
        <5>3. CASE k # c
          BY <5>1, <5>3, <4>1, <4>2, <3>2
        <5> QED BY <5>2, <5>3
      <4>3. CASE i # d /\ k = d
        <5>1. r[i].time <= r[c].time \/ c = n + 1
          BY <4>3, <3>1, <3>6, <2>4 DEF Bridged
        <5>2. s[i] = r[i] /\ s[k] = r[c]
          BY <4>1, <4>3, <3>2, <3>6
        <5>3. r[i].time <= r[d].time
          BY <4>1, <4>3, <3>6, <2>4 DEF HeapButParent
        <5> QED BY <5>1, <5>2, <5>3, <2>4
      <4>4. CASE i # d /\ k # d
        <5>1. k # c
          BY <4>1, <4>4, <3>1, <3>6
        <5>2. s[i] = r[i] /\ s[k] = r[k]
          BY <5>1, <4>1, <4>4, <3>2, <3>6
        <5>3. r[i].time <= r[k].time
          BY <4>1, <4>4, <3>6, <2>4 DEF HeapButParent
        <5> QED BY <5>2, <5>3
      <4> QED BY <4>2, <4>3, <4>4
    <3>7. HeapButParent(s, n, c)
      BY <3>6 DEF HeapButParent
    <3>8. ASSUME NEW i \in 1 .. n, c \in {2 * i, 2 * i + 1},
                 NEW k \in {2 * c, 2 * c + 1}, k <= n
          PROVE  s[i].time <= s[k].time
      <4>1. i = d /\ c < k /\ k \in 1 .. n /\ c \in 1 .. n /\ k # d /\ k # c /\ k \in Index
        BY <3>1, <3>8, <1>1
      <4>2. s[i] = r[c] /\ s[k] = r[k]
        BY <4>1, <3>2
      <4>3. r[c].time <= r[k].time
        <5>1. c # d
          BY <3>1
        <5> QED BY <5>1, <4>1, <3>8, <2>4 DEF HeapButParent
      <4> QED BY <4>2, <4>3
    <3>9. Bridged(s, n, c)
      BY <3>8 DEF Bridged
    <3>10. Heap(f[c][s], n) /\ SameEntries(s, f[c][s], n)
      BY <3>1, <3>2, <3>4, <3>7, <3>9, <1>2
    <3>11. f[d][r] = f[c][s]
      BY <2>1, <2>6
    <3> QED BY <3>3, <3>10, <3>11, SameTransitive
  <2> QED BY <2>5, <2>6
<1>3. 0 \in S
  <2> SUFFICES Good(0)
    OBVIOUS
  <2>1. \A d \in 1 .. n + 1 : d >= n + 1 - 0 => d = n + 1 /\ \A e \in 1 .. n + 1 : ~ (e > d)
    OBVIOUS
  <2> QED BY <2>1, <1>2
<1>4. ASSUME NEW k \in S PROVE k + 1 \in S
  <2>1. k \in Nat /\ Good(k)
    OBVIOUS
  <2>2. \A d \in 1 .. n + 1 : d >= n + 1 - (k + 1) =>
          \A e \in 1 .. n + 1 : e > d => e >= n + 1 - k
    BY <2>1
  <2>3. Good(k + 1)
    BY <2>1, <2>2, <1>2
  <2> QED BY <2>1, <2>3
<1>5. n + 1 \in S
  <2>1. S \in SUBSET Nat
    OBVIOUS
  <2> HIDE DEF S
  <2>2. S = Nat
    BY <1>3, <1>4, <2>1, SetInduction
  <2> QED BY <2>2
<1>6. Good(n + 1) /\ p >= n + 1 - (n + 1)
  BY <1>5
<1> QED BY <1>6


-----------------------------------------------------------------------------
(* The head of a heap is the earliest entry.                               *)
LEMMA HeadEarliest ==
    ASSUME NEW n \in Index, NEW q \in Queue, Heap(q, n), NEW i \in 1 .. n
    PROVE  q[1].time <= q[i].time
<1> DEFINE S == {k \in Nat : \A j \in 1 .. n : j <= k => q[1].time <= q[j].time}
<1>1. n \in Nat /\ \A k \in 1 .. n : k \in Index
  BY QueueAssumption DEF Index
<1>2. \A k \in 1 .. n : q[k].time \in Int
  BY <1>1, TimesAreNumbers
<1>3. 0 \in S
  BY <1>1
<1>4. ASSUME NEW k \in S PROVE k + 1 \in S
  <2> SUFFICES ASSUME k + 1 \in 1 .. n PROVE q[1].time <= q[k + 1].time
    BY <1>1
  <2>1. k \in Nat /\ \A j \in 1 .. n : j <= k => q[1].time <= q[j].time
    OBVIOUS
  <2>2. CASE k = 0
    BY <2>2, <1>2
  <2>3. CASE k # 0
    <3> DEFINE d == k + 1
               p == d \div 2
    <3>1. d \in 1 .. n /\ p \in 1 .. n /\ p <= k /\ d \in {2 * p, 2 * p + 1} /\ d <= n
      <4>1. d \in Nat /\ d >= 2 /\ d \in 1 .. n
        BY <2>1, <2>3
      <4>2. p \in Nat /\ d \in {2 * p, 2 * p + 1} /\ p < d /\ p >= 1
        BY <4>1, ParentPlace
      <4> HIDE DEF p
      <4> QED BY <4>1, <4>2, <2>1, <1>1
    <3> HIDE DEF d, p
    <3>2. q[1].time <= q[p].time /\ q[p].time <= q[d].time
      BY <3>1, <2>1 DEF Heap
    <3>3. q[1].time \in Int /\ q[p].time \in Int /\ q[d].time \in Int
      BY <3>1, <1>1, <1>2
    <3> QED BY <3>2, <3>3 DEF d
  <2> QED BY <2>2, <2>3
<1>5. i \in S /\ i <= i
  <2>1. S \in SUBSET Nat
    OBVIOUS
  <2> HIDE DEF S
  <2>2. S = Nat
    BY <1>3, <1>4, <2>1, SetInduction
  <2> QED BY <1>1, <2>2
<1> QED BY <1>5

(* What sched_event_enqueue() does to the array: one more entry.           *)
LEMMA InsertDoes ==
    ASSUME IInv, NEW e \in Event, e.note \notin queued,
           tail < EVENT_QUEUE_LENGTH - 1,
           NEW r, r = MoveUp([event_queue EXCEPT ![tail + 1] = e], tail + 1)
    PROVE  /\ r \in Queue /\ r[0] = NoEvent /\ Heap(r, tail + 1)
           /\ EntriesOf(r, tail + 1) = EntriesOf(event_queue, tail) \cup {e}
           /\ \A i, j \in 1 .. tail + 1 : r[i].note = r[j].note => i = j
<1> DEFINE n == tail + 1
           q == [event_queue EXCEPT ![n] = e]
<1>1. /\ tail \in Nat /\ n \in Nat /\ n \in Index /\ n \in 1 .. n /\ 0 \in Index /\ n # 0
      /\ \A k \in 1 .. n : k \in Index
  BY QueueAssumption DEF IInv, QueueTypes, Index
<1>2. e \in Slot
  BY DEF Event, Slot
<1>3. event_queue \in Queue
  BY DEF IInv, QueueTypes
<1>4. /\ q \in Queue /\ q[n] = e
      /\ \A k \in Index : k # n => q[k] = event_queue[k]
  BY <1>1, <1>2, <1>3 DEF Queue
<1>5. \A k \in 1 .. n : k # n => k \in 1 .. tail
  BY <1>1
<1>h. r = MoveUp(q, n)
  OBVIOUS
<1> HIDE DEF q, n
<1>6. ASSUME NEW i \in 1 .. n, NEW k \in {2 * i, 2 * i + 1}, k <= n, k # n
      PROVE  q[i].time <= q[k].time
  <2>1. i \in 1 .. tail /\ k <= tail /\ i # n /\ k \in Index /\ i \in Index
    BY <1>1, <1>5, <1>6 DEF n
  <2>2. event_queue[i].time <= event_queue[k].time
    BY <2>1, <1>6 DEF IInv, HeapVerified, EVENT_QUEUE_HEAD, event_is_more_recent
  <2> QED BY <2>1, <2>2, <1>4, <1>6
<1>7. HeapButChild(q, n, n)
  BY <1>6 DEF HeapButChild
<1>8. Bridged(q, n, n)
  <2>1. \A k \in {2 * n, 2 * n + 1} : ~ (k <= n)
    BY <1>1
  <2> QED BY <2>1 DEF Bridged
<1>9. PICK f : IsUp(f, EVENT_QUEUE_LENGTH - 1) /\ MoveUp(q, n) = f[n][q]
  BY MoveUpIs
<1>10. Heap(r, n) /\ SameEntries(q, r, n)
  BY <1>1, <1>4, <1>7, <1>8, <1>9, <1>h, UpCorrect
<1>11. {q[i] : i \in 1 .. n} = {event_queue[i] : i \in 1 .. tail} \cup {e}
  <2>1. ASSUME NEW x \in {q[i] : i \in 1 .. n}
        PROVE  x \in {event_queue[i] : i \in 1 .. tail} \cup {e}
    <3>1. PICK i \in 1 .. n : x = q[i]
      OBVIOUS
    <3>2. CASE i = n
      BY <3>1, <3>2, <1>4
    <3>3. CASE i # n
      <4>1. i \in 1 .. tail /\ q[i] = event_queue[i]
        BY <3>3, <1>1, <1>4, <1>5
      <4> QED BY <3>1, <4>1
    <3> QED BY <3>2, <3>3
  <2>2. ASSUME NEW x \in {event_queue[i] : i \in 1 .. tail} \cup {e}
        PROVE  x \in {q[i] : i \in 1 .. n}
    <3>1. CASE x = e
      BY <3>1, <1>1, <1>4
    <3>2. CASE x # e
      <4>1. PICK i \in 1 .. tail : x = event_queue[i]
        BY <3>2
      <4>2. i \in 1 .. n /\ i # n /\ i \in Index
        BY <1>1 DEF n
      <4>3. x = q[i]
        BY <4>1, <4>2, <1>4
      <4> QED BY <4>2, <4>3
    <3> QED BY <3>1, <3>2
  <2> QED BY <2>1, <2>2
<1>12. ASSUME NEW i \in 1 .. n, NEW j \in 1 .. n, q[i].note = q[j].note PROVE i = j
  <2>1. ASSUME NEW k \in 1 .. n, k # n
        PROVE  k \in 1 .. tail /\ q[k] = event_queue[k] /\ q[k].note # e.note
    <3>1. k \in 1 .. tail /\ q[k] = event_queue[k]
      BY <2>1, <1>1, <1>4, <1>5
    <3>2. event_queue[k].note \in queued
      BY <3>1 DEF IInv, Entries, EVENT_QUEUE_HEAD
    <3> QED BY <3>1, <3>2
  <2>2. CASE i = n
    BY <2>1, <2>2, <1>4, <1>12
  <2>3. CASE j = n
    BY <2>1, <2>3, <1>4, <1>12
  <2>4. CASE i # n /\ j # n
    <3>1. i \in 1 .. tail /\ j \in 1 .. tail /\ event_queue[i].note = event_queue[j].note
      BY <2>1, <2>4, <1>12
    <3> QED BY <3>1 DEF IInv, EntriesDistinct, EVENT_QUEUE_HEAD
  <2> QED BY <2>2, <2>3, <2>4
<1>13. r[0] = NoEvent
  <2>1. q[0] = event_queue[0]
    BY <1>1, <1>4
  <2> QED BY <2>1, <1>10 DEF SameEntries, IInv, HeapVerified
<1>14. /\ r \in Queue
       /\ {r[i] : i \in 1 .. n} = {event_queue[i] : i \in 1 .. tail} \cup {e}
       /\ \A i, j \in 1 .. n : r[i].note = r[j].note => i = j
  BY <1>10, <1>11, <1>12 DEF SameEntries
<1> QED BY <1>10, <1>13, <1>14 DEF n, EntriesOf

(* What sched_event_dequeue() does to it: the head is gone.                *)
LEMMA DequeueDoes ==
    ASSUME IInv, tail >= 1,
           NEW r, r = MoveDown([event_queue EXCEPT ![1] = event_queue[tail]], tail - 1)
    PROVE  /\ r \in Queue /\ r[0] = NoEvent /\ Heap(r, tail - 1)
           /\ EntriesOf(r, tail - 1) = EntriesOf(event_queue, tail) \ {event_queue[1]}
           /\ \A i, j \in 1 .. tail - 1 : r[i].note = r[j].note => i = j
<1> DEFINE n == tail - 1
           q == [event_queue EXCEPT ![1] = event_queue[tail]]
<1>1. /\ tail \in Nat /\ n \in Nat /\ n + 1 = tail /\ n + 1 \in Index /\ n \in Index
      /\ 0 \in Index /\ 1 \in Index /\ 1 # 0 /\ 1 \in 1 .. n + 1 /\ n < tail
      /\ \A k \in 1 .. tail : k \in Index
      /\ \A k \in 1 .. n : k \in 1 .. tail /\ k # tail
  BY QueueAssumption DEF IInv, QueueTypes, Index
<1>2. event_queue \in Queue /\ event_queue[tail] \in Slot
  BY <1>1 DEF IInv, QueueTypes, Queue
<1>3. /\ q \in Queue /\ q[1] = event_queue[tail]
      /\ \A k \in Index : k # 1 => q[k] = event_queue[k]
  BY <1>1, <1>2 DEF Queue
<1>h. r = MoveDown(q, n)
  OBVIOUS
<1> HIDE DEF q, n
<1>4. q[n + 1] = q[1]
  BY <1>1, <1>3
<1>5. ASSUME NEW i \in 1 .. n, NEW k \in {2 * i, 2 * i + 1}, k <= n, i # 1
      PROVE  q[i].time <= q[k].time
  <2>1. i \in 1 .. tail /\ k <= tail /\ k # 1 /\ k \in Index /\ i \in Index
    BY <1>1, <1>5
  <2>2. event_queue[i].time <= event_queue[k].time
    BY <2>1, <1>5 DEF IInv, HeapVerified, EVENT_QUEUE_HEAD, event_is_more_recent
  <2> QED BY <2>1, <2>2, <1>3, <1>5
<1>6. HeapButParent(q, n, 1)
  BY <1>5 DEF HeapButParent
<1>7. Bridged(q, n, 1)
  <2>1. \A i \in 1 .. n : ~ (1 \in {2 * i, 2 * i + 1})
    BY <1>1
  <2> QED BY <2>1 DEF Bridged
<1>8. PICK f : IsDown(f, 1, n) /\ MoveDown(q, n) = f[1][q]
  BY <1>1, MoveDownIs
<1>9. Heap(r, n) /\ SameEntries(q, r, n)
  BY <1>1, <1>3, <1>4, <1>6, <1>7, <1>8, <1>h, DownCorrect
<1>d. \A i, j \in 1 .. tail : event_queue[i].note = event_queue[j].note => i = j
  BY DEF IInv, EntriesDistinct, EVENT_QUEUE_HEAD
<1>10. {q[i] : i \in 1 .. n} = {event_queue[i] : i \in 1 .. tail} \ {event_queue[1]}
  <2>1. ASSUME NEW x \in {q[i] : i \in 1 .. n}
        PROVE  x \in {event_queue[i] : i \in 1 .. tail} \ {event_queue[1]}
    <3>1. PICK i \in 1 .. n : x = q[i]
      OBVIOUS
    <3>2. PICK j \in 1 .. tail : x = event_queue[j] /\ j # 1
      <4>1. CASE i = 1
        <5>1. tail \in 1 .. tail /\ tail # 1
          BY <4>1, <1>1
        <5> QED BY <5>1, <4>1, <3>1, <1>3
      <4>2. CASE i # 1
        <5>1. i \in 1 .. tail /\ q[i] = event_queue[i]
          BY <4>2, <1>1, <1>3
        <5> QED BY <5>1, <4>2, <3>1
      <4> QED BY <4>1, <4>2
    <3>3. x # event_queue[1]
      BY <3>2, <1>1, <1>d
    <3> QED BY <3>2, <3>3
  <2>2. ASSUME NEW x \in {event_queue[i] : i \in 1 .. tail} \ {event_queue[1]}
        PROVE  x \in {q[i] : i \in 1 .. n}
    <3>1. PICK j \in 1 .. tail : x = event_queue[j]
      OBVIOUS
    <3>2. j # 1 /\ tail # 1
      BY <3>1, <2>2, <1>1
    <3>3. CASE j = tail
      <4>1. 1 \in 1 .. n
        BY <3>2, <1>1
      <4> QED BY <4>1, <3>1, <3>3, <1>3
    <3>4. CASE j # tail
      <4>1. j \in 1 .. n /\ q[j] = event_queue[j]
        BY <3>2, <3>4, <1>1, <1>3
      <4> QED BY <4>1, <3>1
    <3> QED BY <3>3, <3>4
  <2> QED BY <2>1, <2>2
<1>11. ASSUME NEW i \in 1 .. n, NEW j \in 1 .. n, q[i].note = q[j].note PROVE i = j
  <2>1. ASSUME NEW k \in 1 .. n, k # 1 PROVE q[k] = event_queue[k]
    BY <2>1, <1>1, <1>3
  <2>2. tail \in 1 .. tail
    BY <1>1
  <2>3. CASE i = 1 /\ j # 1
    BY <2>1, <2>2, <2>3, <1>1, <1>3, <1>11, <1>d
  <2>4. CASE j = 1 /\ i # 1
    BY <2>1, <2>2, <2>4, <1>1, <1>3, <1>11, <1>d
  <2>5. CASE i # 1 /\ j # 1
    BY <2>1, <2>5, <1>1, <1>11, <1>d
  <2> QED BY <2>3, <2>4, <2>5
<1>12. r[0] = NoEvent
  <2>1. q[0] = event_queue[0]
    BY <1>1, <1>3
  <2> QED BY <2>1, <1>9 DEF SameEntries, IInv, HeapVerified
<1>13. /\ r \in Queue
       /\ {r[i] : i \in 1 .. n} = {event_queue[i] : i \in 1 .. tail} \ {event_queue[1]}
       /\ \A i, j \in 1 .. n : r[i].note = r[j].note => i = j
  BY <1>9, <1>10, <1>11 DEF SameEntries
<1> QED BY <1>9, <1>12, <1>13 DEF n, EntriesOf


-----------------------------------------------------------------------------
(* The threads that are about to post.                                     *)
Posting == {t \in Thread : ppc[t] = "post"}

(* Whether the main thread holds an event's count: it has taken it from    *)
(* the semaphore and the event is still in the queue.                      *)
Held == IF mpc \in {"lock", "wait", "woken", "timedout"} THEN 1 ELSE 0

(* The semaphore and the threads that hold a count add up to the entries.  *)
LEMMA CountedIs == Counted <=> tail = sem + Cardinality(Posting) + Held
  BY DEF Counted, Posting, Held

(* The threads are finitely many, so those about to post can be counted.   *)
LEMMA PostingCounts ==
    /\ IsFiniteSet(Posting) /\ Cardinality(Posting) \in Nat
    /\ \A t \in Posting :
         Cardinality(Posting) \in Nat \ {0}
         /\ Cardinality(Posting \ {t}) = Cardinality(Posting) - 1
    /\ \A t : t \notin Posting =>
         Cardinality(Posting \cup {t}) = Cardinality(Posting) + 1
<1> HIDE DEF Posting
<1>1. IsFiniteSet(Posting)
  <2>1. Posting \subseteq Thread
    BY DEF Posting
  <2> QED BY <2>1, QueueAssumption, FS_Subset
<1>2. Cardinality(Posting) \in Nat
  BY <1>1, FS_CardinalityType
<1>3. ASSUME NEW t \in Posting
      PROVE  /\ Cardinality(Posting) \in Nat \ {0}
             /\ Cardinality(Posting \ {t}) = Cardinality(Posting) - 1
  <2>1. Cardinality(Posting \ {t}) = Cardinality(Posting) - 1
    BY <1>1, FS_RemoveElement
  <2>2. Cardinality(Posting) # 0
    BY <1>1, FS_EmptySet
  <2> QED BY <1>2, <2>1, <2>2
<1>4. ASSUME NEW t, t \notin Posting
      PROVE  Cardinality(Posting \cup {t}) = Cardinality(Posting) + 1
  BY <1>1, <1>4, FS_AddElement
<1> QED BY <1>1, <1>2, <1>3, <1>4

(* The queue is not empty while the main thread holds an event's count:    *)
(* what the assertion after sem_wait() says.                               *)
LEMMA HeldNotEmpty ==
    ASSUME IInv, mpc \in {"lock", "wait", "woken", "timedout"}
    PROVE  tail >= 1
<1>1. tail = sem + Cardinality(Posting) + 1
  BY CountedIs DEF IInv, Held
<1>2. sem \in Nat /\ Cardinality(Posting) \in Nat
  BY PostingCounts DEF IInv, ThreadTypes
<1> HIDE DEF Posting
<1> QED BY <1>1, <1>2

(* The initial state.                                                      *)
LEMMA InitIInv == Init => IInv
<1> SUFFICES ASSUME Init PROVE IInv
  OBVIOUS
<1> USE QueueAssumption DEF Init
<1>1. QueueTypes
  <2>1. NoEvent \in Slot
    BY DEF NoEvent, Slot
  <2> QED BY <2>1 DEF QueueTypes, Queue
<1>2. ThreadTypes
  BY DEF ThreadTypes
<1>3. \A i \in EVENT_QUEUE_HEAD .. tail : FALSE
  BY DEF EVENT_QUEUE_HEAD
<1>4. Entries /\ EntriesDistinct /\ Awaited
  BY <1>3 DEF Entries, EntriesDistinct, Awaited
<1>5. HeapVerified
  <2>1. 0 \in Index
    BY DEF Index
  <2> QED BY <1>3, <2>1 DEF HeapVerified
<1>6. Counted
  <2>1. Posting = {}
    BY DEF Posting
  <2>2. Cardinality(Posting) = 0
    BY <2>1, FS_EmptySet
  <2>3. Held = 0
    BY DEF Held
  <2> QED BY <2>2, <2>3, CountedIs
<1> QED BY <1>1, <1>2, <1>4, <1>5, <1>6 DEF IInv

(* A step that leaves the array alone keeps what is said of it.            *)
LEMMA ArrayKept ==
    ASSUME IInv, UNCHANGED <<event_queue, tail, queued>>, event' \in Slot
    PROVE  QueueTypes' /\ Entries' /\ EntriesDistinct' /\ HeapVerified'
  BY DEF IInv, QueueTypes, Entries, EntriesDistinct, HeapVerified

(* sched_event_enqueue().                                                  *)
LEMMA InsertStep ==
    ASSUME IInv, NEW t \in Thread, NEW e \in Event, Insert(t, e)
    PROVE  IInv'
<1>1. /\ ppc[t] = "idle" /\ e.note \notin queued
      /\ tail < EVENT_QUEUE_LENGTH - 1 /\ tail' = tail + 1
      /\ queued' = queued \cup {e.note}
      /\ ppc' = [ppc EXCEPT ![t] = "post"]
      /\ UNCHANGED <<sem, mpc, event, now, fired>>
  BY DEF Insert
<1>2. /\ event_queue' \in Queue /\ event_queue'[0] = NoEvent
      /\ Heap(event_queue', tail + 1)
      /\ EntriesOf(event_queue', tail + 1) = EntriesOf(event_queue, tail) \cup {e}
      /\ \A i, j \in 1 .. tail + 1 : event_queue'[i].note = event_queue'[j].note => i = j
  <2> DEFINE r == MoveUp([event_queue EXCEPT ![tail + 1] = e], tail + 1)
  <2>1. event_queue' = r
    BY DEF Insert
  <2>2. /\ r \in Queue /\ r[0] = NoEvent /\ Heap(r, tail + 1)
        /\ EntriesOf(r, tail + 1) = EntriesOf(event_queue, tail) \cup {e}
        /\ \A i, j \in 1 .. tail + 1 : r[i].note = r[j].note => i = j
    <3>1. r = MoveUp([event_queue EXCEPT ![tail + 1] = e], tail + 1)
      OBVIOUS
    <3> HIDE DEF r
    <3> QED BY <3>1, <1>1, InsertDoes
  <2> HIDE DEF r
  <2> QED BY <2>1, <2>2
<1>3. tail \in 0 .. EVENT_QUEUE_LENGTH - 1 /\ tail' \in 0 .. EVENT_QUEUE_LENGTH - 1
  BY <1>1, QueueAssumption DEF IInv, QueueTypes
<1>4. e.note \in Note /\ e \in Event
  BY DEF Event
<1>5. QueueTypes'
  BY <1>1, <1>2, <1>3, <1>4 DEF IInv, QueueTypes
<1>6. ThreadTypes'
  BY <1>1 DEF IInv, ThreadTypes
<1>7. ASSUME NEW i \in 1 .. tail + 1
      PROVE  \/ event_queue'[i] = e
             \/ \E j \in 1 .. tail : event_queue'[i] = event_queue[j]
  <2>1. event_queue'[i] \in EntriesOf(event_queue', tail + 1)
    BY DEF EntriesOf
  <2>2. event_queue'[i] \in EntriesOf(event_queue, tail) \cup {e}
    BY <2>1, <1>2
  <2> QED BY <2>2 DEF EntriesOf
<1>8. Entries'
  <2> SUFFICES ASSUME NEW i \in 1 .. tail + 1
               PROVE  event_queue'[i] \in Event /\ event_queue'[i].note \in queued'
    BY <1>1 DEF Entries, EVENT_QUEUE_HEAD
  <2> QED BY <1>1, <1>4, <1>7 DEF IInv, Entries, EVENT_QUEUE_HEAD
<1>9. EntriesDistinct'
  BY <1>1, <1>2 DEF EntriesDistinct, EVENT_QUEUE_HEAD
<1>10. HeapVerified'
  BY <1>1, <1>2 DEF HeapVerified, Heap, EVENT_QUEUE_HEAD, event_is_more_recent
<1>11. Counted'
  <2>1. t \notin Posting /\ Posting' = Posting \cup {t}
    BY <1>1 DEF Posting, IInv, ThreadTypes
  <2>2. Held' = Held /\ Held \in Nat
    BY <1>1 DEF Held
  <2>3. Cardinality(Posting') = Cardinality(Posting) + 1 /\ Cardinality(Posting) \in Nat
    BY <2>1, PostingCounts
  <2>4. tail = sem + Cardinality(Posting) + Held /\ sem \in Nat
    BY CountedIs DEF IInv, ThreadTypes
  <2>5. tail' = sem' + Cardinality(Posting') + Held'
    <3> HIDE DEF Posting, Held
    <3> QED BY <2>2, <2>3, <2>4, <1>1, <1>3
  <2> QED BY <2>5 DEF Counted, Posting, Held
<1>12. Awaited'
  <2>1. ASSUME mpc \in {"wait", "timedout"}, NEW i \in 1 .. tail + 1,
               event_queue'[i].note = event.note
        PROVE  event_queue'[i] = event
    <3>1. event.note \in queued
      BY <2>1 DEF IInv, Awaited
    <3>2. event_queue'[i] # e
      BY <3>1, <1>1, <2>1
    <3> QED BY <3>2, <2>1, <1>7 DEF IInv, Awaited, EVENT_QUEUE_HEAD
  <2> QED BY <1>1, <2>1 DEF IInv, Awaited, EVENT_QUEUE_HEAD
<1> QED BY <1>5, <1>6, <1>8, <1>9, <1>10, <1>11, <1>12 DEF IInv

(* sched_event_dequeue() takes the head.                                   *)
LEMMA DequeueStep ==
    ASSUME IInv, Dequeue
    PROVE  /\ IInv'
           /\ tail >= 1 /\ event = event_queue[1]
           /\ EntriesOf(event_queue', tail')
                = EntriesOf(event_queue, tail) \ {event_queue[1]}
<1>1. /\ mpc = "timedout" /\ event.note = event_queue[1].note
      /\ tail' = tail - 1 /\ mpc' = "handle"
      /\ UNCHANGED <<sem, ppc, event, now, queued>>
  BY DEF Dequeue, SameHead, EVENT_QUEUE_HEAD
<1>2. tail >= 1
  BY <1>1, HeldNotEmpty
<1>3. /\ event_queue' \in Queue /\ event_queue'[0] = NoEvent
      /\ Heap(event_queue', tail - 1)
      /\ EntriesOf(event_queue', tail - 1)
           = EntriesOf(event_queue, tail) \ {event_queue[1]}
      /\ \A i, j \in 1 .. tail - 1 : event_queue'[i].note = event_queue'[j].note => i = j
  <2> DEFINE r == MoveDown([event_queue EXCEPT ![1] = event_queue[tail]], tail - 1)
  <2>1. event_queue' = r
    BY DEF Dequeue, EVENT_QUEUE_HEAD
  <2>2. /\ r \in Queue /\ r[0] = NoEvent /\ Heap(r, tail - 1)
        /\ EntriesOf(r, tail - 1) = EntriesOf(event_queue, tail) \ {event_queue[1]}
        /\ \A i, j \in 1 .. tail - 1 : r[i].note = r[j].note => i = j
    <3>1. r = MoveDown([event_queue EXCEPT ![1] = event_queue[tail]], tail - 1)
      OBVIOUS
    <3> HIDE DEF r
    <3> QED BY <3>1, <1>2, DequeueDoes
  <2> HIDE DEF r
  <2> QED BY <2>1, <2>2
<1>4. tail \in 0 .. EVENT_QUEUE_LENGTH - 1 /\ tail' \in 0 .. EVENT_QUEUE_LENGTH - 1
  BY <1>1, <1>2, QueueAssumption DEF IInv, QueueTypes
<1>5. event = event_queue[1]
  <2>1. 1 \in EVENT_QUEUE_HEAD .. tail
    BY <1>2, <1>4 DEF EVENT_QUEUE_HEAD
  <2> QED BY <2>1, <1>1 DEF IInv, Awaited
<1>6. QueueTypes'
  BY <1>1, <1>3, <1>4 DEF IInv, QueueTypes
<1>7. ThreadTypes'
  BY <1>1 DEF IInv, ThreadTypes
<1>8. Entries'
  <2> SUFFICES ASSUME NEW i \in 1 .. tail - 1
               PROVE  event_queue'[i] \in Event /\ event_queue'[i].note \in queued
    BY <1>1 DEF Entries, EVENT_QUEUE_HEAD
  <2>1. event_queue'[i] \in EntriesOf(event_queue', tail - 1)
    BY DEF EntriesOf
  <2>3. event_queue'[i] \in EntriesOf(event_queue, tail)
    BY <2>1, <1>3
  <2>2. PICK j \in 1 .. tail : event_queue'[i] = event_queue[j]
    BY <2>3 DEF EntriesOf
  <2> QED BY <2>2 DEF IInv, Entries, EVENT_QUEUE_HEAD
<1>9. EntriesDistinct' /\ HeapVerified'
  BY <1>1, <1>3 DEF EntriesDistinct, HeapVerified, Heap, EVENT_QUEUE_HEAD, event_is_more_recent
<1>10. Counted'
  <2>1. Posting' = Posting
    BY <1>1 DEF Posting
  <2>2. Held = 1 /\ Held' = 0
    BY <1>1 DEF Held
  <2>3. Cardinality(Posting) \in Nat
    BY PostingCounts
  <2>4. tail = sem + Cardinality(Posting) + Held /\ sem \in Nat
    BY CountedIs DEF IInv, ThreadTypes
  <2>5. tail' = sem' + Cardinality(Posting') + Held'
    <3> HIDE DEF Posting, Held
    <3> QED BY <2>1, <2>2, <2>3, <2>4, <1>1, <1>4
  <2> QED BY <2>5 DEF Counted, Posting, Held
<1>11. Awaited'
  BY <1>1 DEF Awaited
<1>12. IInv'
  BY <1>6, <1>7, <1>8, <1>9, <1>10, <1>11 DEF IInv
<1> QED BY <1>1, <1>2, <1>3, <1>5, <1>12

(* The steps that leave the array alone.                                   *)
LEMMA OtherSteps ==
    ASSUME IInv,
           \/ \E t \in Thread : Post(t) \/ Signal(t)
           \/ SemWait \/ Sleep \/ SpuriousWakeup \/ TimeOut \/ LookAgain
           \/ Handled \/ Tick \/ UNCHANGED queueVars
    PROVE  IInv' /\ UNCHANGED <<event_queue, tail, queued, fired>>
<1> USE QueueAssumption
<1>1. UNCHANGED <<event_queue, tail, queued, fired>>
  BY DEF Post, Signal, SemWait, Sleep, SpuriousWakeup, TimeOut, LookAgain,
         Handled, Tick, queueVars
<1>t. /\ event_queue \in Queue /\ event \in Slot /\ 1 \in EVENT_QUEUE_HEAD .. 1
      /\ tail \in Nat
      /\ tail >= 1 => 1 \in Index /\ event_queue[1] \in Slot /\ 1 \in EVENT_QUEUE_HEAD .. tail
  BY DEF IInv, QueueTypes, Queue, Index, EVENT_QUEUE_HEAD
<1>2. event' \in Slot
  <2>1. CASE Sleep \/ LookAgain
    <3>1. event' = event_queue[1] /\ tail >= 1
      BY <2>1, HeldNotEmpty DEF Sleep, LookAgain, EVENT_QUEUE_HEAD
    <3> QED BY <3>1, <1>t
  <2>2. CASE ~ (Sleep \/ LookAgain)
    <3>1. event' = event
      BY <2>2 DEF Post, Signal, SemWait, SpuriousWakeup, TimeOut, Handled, Tick,
                  queueVars
    <3> QED BY <3>1, <1>t
  <2> QED BY <2>1, <2>2
<1>3. QueueTypes' /\ Entries' /\ EntriesDistinct' /\ HeapVerified'
  BY <1>1, <1>2, ArrayKept
<1> SUFFICES ThreadTypes' /\ Counted' /\ Awaited'
  BY <1>1, <1>3 DEF IInv
<1>4. /\ tail = sem + Cardinality(Posting) + Held /\ sem \in Nat
      /\ Cardinality(Posting) \in Nat /\ now \in 0 .. MaxTime
      /\ ppc \in [Thread -> {"idle", "post", "signal"}]
      /\ mpc \in {"sem", "lock", "wait", "woken", "timedout", "handle"}
  BY CountedIs, PostingCounts DEF IInv, ThreadTypes
<1>a. /\ mpc \in {"wait", "timedout"} =>
         /\ event.note \in queued
         /\ \A i \in EVENT_QUEUE_HEAD .. tail :
              event_queue[i].note = event.note => event_queue[i] = event
      /\ mpc = "timedout" => event.time <= now
  BY DEF IInv, Awaited
<1>5. ASSUME NEW t \in Thread, Post(t)
      PROVE  ThreadTypes' /\ Counted' /\ Awaited'
  <2>1. /\ ppc[t] = "post" /\ sem' = sem + 1
        /\ ppc' = [ppc EXCEPT ![t] = "signal"]
        /\ UNCHANGED <<event_queue, tail, mpc, event, now, queued>>
    BY <1>5 DEF Post
  <2>2. ThreadTypes' /\ Awaited'
    BY <2>1, <1>4, <1>a DEF ThreadTypes, Awaited
  <2>3. t \in Posting /\ Posting' = Posting \ {t} /\ Held' = Held
    BY <2>1, <1>4 DEF Posting, Held
  <2>4. Cardinality(Posting') = Cardinality(Posting) - 1
    BY <2>3, PostingCounts
  <2>5. tail' = sem' + Cardinality(Posting') + Held'
    <3>1. Held \in Nat
      BY DEF Held
    <3> HIDE DEF Posting, Held
    <3> QED BY <3>1, <2>1, <2>3, <2>4, <1>4
  <2> QED BY <2>2, <2>5 DEF Counted, Posting, Held
<1>6. ASSUME NEW t \in Thread, Signal(t)
      PROVE  ThreadTypes' /\ Counted' /\ Awaited'
  <2>1. /\ ppc[t] = "signal" /\ mpc' = (IF mpc = "wait" THEN "woken" ELSE mpc)
        /\ ppc' = [ppc EXCEPT ![t] = "idle"]
        /\ UNCHANGED <<event_queue, tail, sem, event, now, queued>>
    BY <1>6 DEF Signal
  <2>2. ThreadTypes' /\ Awaited'
    BY <2>1, <1>4, <1>a DEF ThreadTypes, Awaited
  <2>3. Posting' = Posting /\ Held' = Held
    BY <2>1, <1>4 DEF Posting, Held
  <2>5. tail' = sem' + Cardinality(Posting') + Held'
    BY <2>1, <2>3, <1>4
  <2> QED BY <2>2, <2>5 DEF Counted, Posting, Held
<1>7. CASE SemWait
  <2>1. /\ mpc = "sem" /\ sem > 0 /\ sem' = sem - 1 /\ mpc' = "lock"
        /\ UNCHANGED <<tail, ppc, now>>
    BY <1>7 DEF SemWait
  <2>2. ThreadTypes' /\ Awaited'
    BY <2>1, <1>4 DEF ThreadTypes, Awaited
  <2>3. Posting' = Posting /\ Held = 0 /\ Held' = 1
    BY <2>1 DEF Posting, Held
  <2>4. tail' = sem' + Cardinality(Posting') + Held'
    <3> HIDE DEF Posting, Held
    <3> QED BY <2>1, <2>3, <1>4
  <2> QED BY <2>2, <2>4 DEF Counted, Posting, Held
<1>8. CASE Sleep \/ LookAgain
  <2>1. /\ mpc \in {"lock", "woken", "timedout"} /\ mpc' = "wait"
        /\ event' = event_queue[1]
        /\ UNCHANGED <<event_queue, tail, sem, ppc, now, queued>>
    BY <1>8 DEF Sleep, LookAgain, EVENT_QUEUE_HEAD
  <2>2. tail >= 1
    BY <2>1, HeldNotEmpty
  <2>3. ThreadTypes' /\ Counted'
    BY <2>1, <1>4 DEF ThreadTypes, Counted, IInv
  <2>4. event_queue[1].note \in queued
    BY <2>2, <1>t DEF IInv, Entries
  <2>5. ASSUME NEW i \in EVENT_QUEUE_HEAD .. tail, event_queue[i].note = event_queue[1].note
        PROVE  event_queue[i] = event_queue[1]
    <3>1. i = 1
      BY <2>2, <2>5, <1>t DEF IInv, EntriesDistinct
    <3> QED BY <3>1
  <2> QED BY <2>1, <2>3, <2>4, <2>5 DEF Awaited
<1>9. CASE SpuriousWakeup
  <2>1. mpc = "wait" /\ mpc' = "woken" /\ UNCHANGED <<tail, sem, ppc, now>>
    BY <1>9 DEF SpuriousWakeup
  <2> QED BY <2>1, <1>4 DEF ThreadTypes, Counted, IInv, Awaited
<1>10. CASE TimeOut
  <2>1. /\ mpc = "wait" /\ now >= event.time /\ mpc' = "timedout"
        /\ UNCHANGED <<event_queue, tail, sem, ppc, event, now, queued>>
    BY <1>10 DEF TimeOut
  <2>2. event.time <= now
    <3>1. event.time \in 0 .. MaxTime
      BY <1>t DEF Slot
    <3> QED BY <3>1, <2>1, <1>4
  <2>3. ThreadTypes' /\ Counted'
    BY <2>1, <1>4 DEF ThreadTypes, Counted, IInv
  <2> QED BY <2>1, <2>2, <2>3, <1>a DEF Awaited
<1>11. CASE Handled
  <2>1. mpc = "handle" /\ mpc' = "sem" /\ UNCHANGED <<tail, sem, ppc, now>>
    BY <1>11 DEF Handled
  <2> QED BY <2>1, <1>4 DEF ThreadTypes, Counted, IInv, Awaited
<1>12. CASE Tick
  <2>1. /\ now < MaxTime /\ now' = now + 1
        /\ UNCHANGED <<event_queue, tail, sem, ppc, mpc, event, queued>>
    BY <1>12 DEF Tick
  <2>2. now' \in 0 .. MaxTime
    BY <2>1, <1>4
  <2>3. ThreadTypes'
    BY <2>1, <2>2, <1>4 DEF ThreadTypes
  <2>4. Counted'
    BY <2>1 DEF Counted, IInv
  <2>5. mpc = "timedout" => event.time <= now'
    <3>1. event.time \in 0 .. MaxTime
      BY <1>t DEF Slot
    <3> QED BY <3>1, <2>1, <1>4, <1>a
  <2> QED BY <2>1, <2>3, <2>4, <2>5, <1>a DEF Awaited
<1>13. CASE UNCHANGED queueVars
  BY <1>13 DEF queueVars, ThreadTypes, Counted, IInv, Awaited
<1> QED BY <1>5, <1>6, <1>7, <1>8, <1>9, <1>10, <1>11, <1>12, <1>13

(* IInv holds in every reachable state.                                    *)
THEOREM SpecIInv == Spec => []IInv
<1>1. IInv /\ [Next]_queueVars => IInv'
  <2> SUFFICES ASSUME IInv, [Next]_queueVars PROVE IInv'
    OBVIOUS
  <2>1. ASSUME NEW t \in Thread, NEW e \in Event, Insert(t, e) PROVE IInv'
    BY <2>1, InsertStep
  <2>2. CASE Dequeue
    BY <2>2, DequeueStep
  <2> QED BY <2>1, <2>2, OtherSteps DEF Next, Consumer, Producer
<1> QED BY <1>1, InitIInv, PTL DEF Spec

(* What queue.c asserts and sched_event_queue_verify() checks: the array   *)
(* is a heap after every change, whatever the threads do, and it is never  *)
(* empty when sem_wait() returns.                                          *)
THEOREM QueueIsVerified == Spec => []QueueVerified
<1>1. IInv => QueueVerified
  BY DEF IInv, QueueVerified
<1> QED BY <1>1, SpecIInv, PTL

-----------------------------------------------------------------------------
(* Each step of the queue is a step of the bag, or leaves it alone.        *)
LEMMA BagStep ==
    ASSUME IInv, IInv', [Next]_queueVars
    PROVE  [Bag!Next]_(Bag!bagVars)
<1> DEFINE P == {event_queue[i] : i \in EVENT_QUEUE_HEAD .. tail}
<1>1. ASSUME NEW t \in Thread, NEW e \in Event, Insert(t, e)
      PROVE  Bag!Next
  <2>1. /\ tail' = tail + 1 /\ e.note \notin queued
        /\ tail < EVENT_QUEUE_LENGTH - 1 /\ UNCHANGED <<now, fired>>
    BY <1>1 DEF Insert
  <2>2. EntriesOf(event_queue', tail + 1) = EntriesOf(event_queue, tail) \cup {e}
    BY <1>1, InsertDoes DEF Insert
  <2>3. P' = P \cup {e}
    BY <2>1, <2>2 DEF EVENT_QUEUE_HEAD, EntriesOf
  <2>4. Bag!Insert(e)
    BY <2>1, <2>3 DEF Bag!Insert
  <2> QED BY <2>4 DEF Bag!Next
<1>2. CASE Dequeue
  <2>1. /\ tail >= 1 /\ event = event_queue[1]
        /\ EntriesOf(event_queue', tail')
             = EntriesOf(event_queue, tail) \ {event_queue[1]}
    BY <1>2, DequeueStep
  <2>2. /\ tail' = tail - 1 /\ fired' = {event} /\ now' = now
        /\ mpc = "timedout"
    BY <1>2 DEF Dequeue
  <2>3. event.time <= now
    BY <2>2 DEF IInv, Awaited
  <2>4. tail \in Nat /\ tail \in Index /\ 1 \in 1 .. tail /\ event_queue \in Queue
    BY <2>1, QueueAssumption DEF IInv, QueueTypes, Index
  <2>5. P' = P \ {event} /\ event \in P
    <3>1. P' = EntriesOf(event_queue', tail') /\ P = EntriesOf(event_queue, tail)
      BY DEF EntriesOf, EVENT_QUEUE_HEAD
    <3>2. event_queue[1] \in P
      BY <2>4 DEF EVENT_QUEUE_HEAD
    <3> QED BY <3>1, <3>2, <2>1
  <2>6. Heap(event_queue, tail)
    BY DEF IInv, HeapVerified, Heap, EVENT_QUEUE_HEAD, event_is_more_recent
  <2>7. \A x \in P : event.time <= x.time
    <3> SUFFICES ASSUME NEW i \in 1 .. tail PROVE event.time <= event_queue[i].time
      BY DEF EVENT_QUEUE_HEAD
    <3> QED BY <2>1, <2>4, <2>6, HeadEarliest
  <2>8. event \in Event
    BY <2>1, <2>4 DEF IInv, Entries, EVENT_QUEUE_HEAD
  <2>9. PICK x : x = event
    OBVIOUS
  <2>10. x \in Event /\ Bag!Take(x)
    BY <2>2, <2>3, <2>5, <2>7, <2>8, <2>9 DEF Bag!Take
  <2> QED BY <2>10 DEF Bag!Next
<1>3. CASE Tick
  BY <1>3 DEF Tick, Bag!Tick, Bag!Next
<1>4. CASE UNCHANGED <<event_queue, tail, now, fired>>
  BY <1>4 DEF Bag!bagVars
<1>5. ASSUME NEW t \in Thread, Post(t) \/ Signal(t)
      PROVE  UNCHANGED <<event_queue, tail, now, fired>>
  BY <1>5 DEF Post, Signal
<1>6. ASSUME SemWait \/ Sleep \/ SpuriousWakeup \/ TimeOut \/ LookAgain
             \/ Handled \/ UNCHANGED queueVars
      PROVE  UNCHANGED <<event_queue, tail, now, fired>>
  BY <1>6 DEF SemWait, Sleep, SpuriousWakeup, TimeOut, LookAgain, Handled, queueVars
<1> QED BY <1>1, <1>2, <1>3, <1>4, <1>5, <1>6 DEF Next, Consumer, Producer

(* The queue implements the bag: no event is lost, duplicated, taken       *)
(* before it is due or before an earlier one, for any length of the queue  *)
(* and any number of threads that fill it.                                 *)
THEOREM BagImplemented == Spec => ImplementsBag
<1>1. Init => Bag!Init
  <2> SUFFICES ASSUME Init PROVE Bag!Init
    OBVIOUS
  <2>1. {event_queue[i] : i \in EVENT_QUEUE_HEAD .. tail} = {}
    <3>1. \A i \in EVENT_QUEUE_HEAD .. tail : FALSE
      BY DEF Init, EVENT_QUEUE_HEAD
    <3> QED BY <3>1
  <2> QED BY <2>1 DEF Init, Bag!Init
<1>2. IInv /\ IInv' /\ [Next]_queueVars => [Bag!Next]_(Bag!bagVars)
  BY BagStep
<1> QED BY <1>1, <1>2, SpecIInv, PTL DEF Spec, ImplementsBag, Bag!Spec

=============================================================================
