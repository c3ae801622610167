------------------------------ MODULE EventBag ------------------------------
(***************************************************************************)
(* What the event scheduler's queue promises: a collection of events, from *)
(* which an event is taken when its time has come and only if none is      *)
(* earlier.                                                                *)
(***************************************************************************)
EXTENDS Integers, FiniteSets

CONSTANT Event      \* records with a field time

VARIABLES
    pending,        \* the events in the queue
    size,           \* and their number
    now,            \* the clock
    fired           \* the last event taken, in a set

bagVars == <<pending, size, now, fired>>

Init ==
    /\ pending = {} /\ size = 0
    /\ now = 0
    /\ fired = {}

Insert(e) ==
    /\ pending' = pending \cup {e}
    /\ size' = size + 1
    /\ UNCHANGED <<now, fired>>

Take(e) ==
    /\ e \in pending
    /\ e.time <= now
    /\ \A f \in pending : e.time <= f.time
    /\ pending' = pending \ {e}
    /\ size' = size - 1
    /\ fired' = {e}
    /\ UNCHANGED now

Tick ==
    /\ now' = now + 1
    /\ UNCHANGED <<pending, size, fired>>

Next == Tick \/ \E e \in Event : Insert(e) \/ Take(e)

Spec == Init /\ [][Next]_bagVars

=============================================================================
