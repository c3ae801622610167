----------------------------- MODULE EventQueue -----------------------------
(***************************************************************************)
(* The event scheduler's queue, event/sched/queue.c: a priority queue in   *)
(* an array, filled by the thread that receives events (enqueue()) and by  *)
(* the main thread while it handles one (timelines and sequences), and     *)
(* emptied by the main thread (dequeue()), which sleeps until the first    *)
(* event is due.                                                           *)
(*                                                                         *)
(* sem_post() and pthread_cond_signal() come after event_queue_mutex has   *)
(* been released, so each is a step of its own.  The mutex is held within  *)
(* a step only.  The loops that restore the heap are recursive functions.  *)
(* The other errors of pthread_cond_timedwait() and the test that does not *)
(* wait (only the test program uses it) are left out.                      *)
(***************************************************************************)
EXTENDS Integers, FiniteSets

CONSTANTS EVENT_QUEUE_LENGTH,
          Note,         \* notifications; each is queued once
          Thread,       \* threads that queue events, the main thread included
          Main,         \* the main thread
          MaxTime       \* BOUND: the clock

ASSUME QueueAssumption ==
    /\ EVENT_QUEUE_LENGTH \in Nat \ {0}
    /\ Main \in Thread /\ IsFiniteSet(Thread)
    /\ MaxTime \in Nat
    /\ Cardinality(Note) < EVENT_QUEUE_LENGTH - 1

Unused == "unused"      \* the notification of a slot never filled
Event  == [note : Note, time : 0 .. MaxTime]
Slot   == [note : Note \cup {Unused}, time : 0 .. MaxTime]
Index  == 0 .. EVENT_QUEUE_LENGTH - 1
EVENT_QUEUE_HEAD == 1

VARIABLES
    event_queue,        \* the array
    tail,               \* event_queue_tail
    sem,                \* event_to_consume
    ppc,                \* thread -> idle, post, signal
    mpc,                \* main: sem, lock, wait, woken, timedout, handle
    event,              \* *event of sched_event_dequeue()
    now,                \* the clock
    queued,             \* notifications that have been queued
    fired               \* the last event dequeued, in a set

queueVars == <<event_queue, tail, sem, ppc, mpc, event, now, queued, fired>>

NoEvent == [note |-> Unused, time |-> 0]

Init ==
    /\ event_queue = [i \in Index |-> NoEvent]
    /\ tail = 0
    /\ sem = 0
    /\ ppc = [t \in Thread |-> "idle"]
    /\ mpc = "sem"
    /\ event = NoEvent
    /\ now = 0
    /\ queued = {}
    /\ fired = {}

-----------------------------------------------------------------------------
(* The heap. *)

event_is_more_recent(e, f) == e.time <= f.time

Swap(q, i, j) == [q EXCEPT ![i] = q[j], ![j] = q[i]]

Queue == [Index -> Slot]

(* The loop of sched_event_enqueue(): the event moves up. *)
MoveUp(queue, leaf) ==
    LET Up[child \in Index] ==
            [q \in Queue |->
               LET parent == child \div 2
               IN  IF /\ parent >= EVENT_QUEUE_HEAD
                      /\ event_is_more_recent(q[child], q[parent])
                   THEN Up[parent][Swap(q, parent, child)]
                   ELSE q]
    IN  Up[leaf][queue]

(* Mutant: the other child is not looked at. *)
MoreRecentChildFirst(q, child) == child

(* The child to descend to.  The slot after the last is looked at too: it  *)
(* holds the event that was moved to the head.                             *)
MoreRecentChild(q, child) ==
    IF event_is_more_recent(q[child + 1], q[child]) THEN child + 1 ELSE child

(* The loop of sched_event_dequeue(): the last event, now at the head,     *)
(* moves down among the first n.                                           *)
MoveDown(queue, n) ==
    LET Down[parent \in Index \ {0}] ==
            [q \in Queue |->
               LET child == MoreRecentChild(q, 2 * parent)
               IN  IF 2 * parent <= n /\ event_is_more_recent(q[child], q[parent])
                   THEN Down[child][Swap(q, parent, child)]
                   ELSE q]
    IN  Down[EVENT_QUEUE_HEAD][queue]

-----------------------------------------------------------------------------
(* sched_event_enqueue(), by thread t.  The main thread calls it while it  *)
(* handles an event.                                                       *)

Insert(t, e) ==
    /\ ppc[t] = "idle"
    /\ t = Main => mpc = "handle"
    /\ e.note \notin queued
    /\ tail < EVENT_QUEUE_LENGTH - 1
    /\ tail' = tail + 1
    /\ event_queue' = MoveUp([event_queue EXCEPT ![tail + 1] = e], tail + 1)
    /\ queued' = queued \cup {e.note}
    /\ ppc' = [ppc EXCEPT ![t] = "post"]
    /\ UNCHANGED <<sem, mpc, event, now, fired>>

Post(t) ==
    /\ ppc[t] = "post"
    /\ sem' = sem + 1
    /\ ppc' = [ppc EXCEPT ![t] = "signal"]
    /\ UNCHANGED <<event_queue, tail, mpc, event, now, queued, fired>>

(* Mutant: the sleeping thread is not woken. *)
SignalNobody(t) ==
    /\ ppc[t] = "signal"
    /\ mpc' = mpc
    /\ ppc' = [ppc EXCEPT ![t] = "idle"]
    /\ UNCHANGED <<event_queue, tail, sem, event, now, queued, fired>>

(* A signal is lost unless the main thread sleeps. *)
Signal(t) ==
    /\ ppc[t] = "signal"
    /\ mpc' = IF mpc = "wait" THEN "woken" ELSE mpc
    /\ ppc' = [ppc EXCEPT ![t] = "idle"]
    /\ UNCHANGED <<event_queue, tail, sem, event, now, queued, fired>>

-----------------------------------------------------------------------------
(* sched_event_dequeue(). *)

SemWait ==
    /\ mpc = "sem"
    /\ ppc[Main] = "idle"
    /\ sem > 0
    /\ sem' = sem - 1
    /\ mpc' = "lock"
    /\ UNCHANGED <<event_queue, tail, ppc, event, now, queued, fired>>

(* The first event is copied and waited for. *)
Sleep ==
    /\ mpc \in {"lock", "woken"}
    /\ event' = event_queue[EVENT_QUEUE_HEAD]
    /\ mpc' = "wait"
    /\ UNCHANGED <<event_queue, tail, sem, ppc, now, queued, fired>>

SpuriousWakeup ==
    /\ mpc = "wait"
    /\ mpc' = "woken"
    /\ UNCHANGED <<event_queue, tail, sem, ppc, event, now, queued, fired>>

(* The wait times out; the mutex has still to be taken. *)
TimeOut ==
    /\ mpc = "wait"
    /\ now >= event.time
    /\ mpc' = "timedout"
    /\ UNCHANGED <<event_queue, tail, sem, ppc, event, now, queued, fired>>

(* Mutant: the head is taken although it has changed. *)
SameHeadAssumed == TRUE

SameHead == event.note = event_queue[EVENT_QUEUE_HEAD].note

(* The head changed while the mutex was not held: look again. *)
LookAgain ==
    /\ mpc = "timedout" /\ ~SameHead
    /\ event' = event_queue[EVENT_QUEUE_HEAD]
    /\ mpc' = "wait"
    /\ UNCHANGED <<event_queue, tail, sem, ppc, now, queued, fired>>

Dequeue ==
    /\ mpc = "timedout" /\ SameHead
    /\ event_queue' =
         MoveDown([event_queue EXCEPT ![EVENT_QUEUE_HEAD] = event_queue[tail]],
                  tail - 1)
    /\ tail' = tail - 1
    /\ fired' = {event}
    /\ mpc' = "handle"
    /\ UNCHANGED <<sem, ppc, event, now, queued>>

(* dequeue() has fired the event, and whatever it queued is queued. *)
Handled ==
    /\ mpc = "handle" /\ ppc[Main] = "idle"
    /\ mpc' = "sem"
    /\ UNCHANGED <<event_queue, tail, sem, ppc, event, now, queued, fired>>

(* gettimeofday(). *)
Tick ==
    /\ now < MaxTime
    /\ now' = now + 1
    /\ UNCHANGED <<event_queue, tail, sem, ppc, mpc, event, queued, fired>>

-----------------------------------------------------------------------------
Consumer == SemWait \/ Sleep \/ TimeOut \/ LookAgain \/ Dequeue \/ Handled

Producer(t) == Post(t) \/ Signal(t)

Next ==
    \/ \E t \in Thread, e \in Event : Insert(t, e)
    \/ \E t \in Thread : Producer(t)
    \/ Consumer \/ SpuriousWakeup \/ Tick

(* Threads are scheduled and finish what they have begun; a wait times out *)
(* although spurious wake-ups happen.  Time need not go on.                *)
Fairness ==
    /\ WF_queueVars(Consumer)
    /\ SF_queueVars(TimeOut)
    /\ \A t \in Thread : WF_queueVars(Producer(t))

Spec == Init /\ [][Next]_queueVars /\ Fairness

-----------------------------------------------------------------------------
(* Properties. *)

(* The queue behaves as a collection from which the earliest event is      *)
(* taken, when it is due: nothing is lost, duplicated, early or out of     *)
(* order although the array is rearranged by two threads, a slot behind    *)
(* the last is read, and earlier events arrive while the main thread       *)
(* sleeps for a later one.                                                 *)
Bag == INSTANCE EventBag WITH
           pending <- {event_queue[i] : i \in EVENT_QUEUE_HEAD .. tail}, size <- tail
ImplementsBag == Bag!Spec

(* The sanity check of sched_event_queue_verify(), slot 0 included. *)
HeapVerified ==
    /\ event_queue[0] = NoEvent
    /\ \A i \in EVENT_QUEUE_HEAD .. tail : \A c \in {2 * i, 2 * i + 1} :
          c <= tail => event_is_more_recent(event_queue[i], event_queue[c])

Counted ==
    tail = sem + Cardinality({t \in Thread : ppc[t] = "post"})
             + (IF mpc \in {"lock", "wait", "woken", "timedout"} THEN 1 ELSE 0)

(* What the code asserts of its queue: the heap property after every       *)
(* change, and that the queue is not empty when sem_wait() returns, since  *)
(* every event in it has its count in the semaphore, is about to have it,  *)
(* or is the one the main thread sleeps for.                               *)
QueueVerified == HeapVerified /\ Counted

(* The events that are due are dequeued, also those that arrived while the *)
(* main thread slept for a later one, and if time stands still.            *)
DueIsFired == []<>(\A i \in EVENT_QUEUE_HEAD .. tail : event_queue[i].time > now)

=============================================================================
