---------------------------- MODULE MCImageUnzip ----------------------------
(***************************************************************************)
(* Every image of two chunks of three sectors each, and of one chunk of    *)
(* five, on a disk of seven; with and without a thread, zeroing, raw, old  *)
(* format, and into a partition that is too small.                         *)
(***************************************************************************)
EXTENDS ImageUnzip

(* The runs of consecutive sectors of S, in order. *)
Starts(S) == {s \in S : s - 1 \notin S}
RunLen(S, s) == CHOOSE n \in 1 .. Cardinality(S) :
                    /\ \A k \in 0 .. n - 1 : s + k \in S
                    /\ s + n \notin S
Runs(S) ==
    [k \in 1 .. Cardinality(Starts(S)) |->
        LET s == CHOOSE x \in Starts(S) :
                    Cardinality({y \in Starts(S) : y < x}) = k - 1
        IN  [start |-> s, size |-> RunLen(S, s)]]

ChunkOf(first, last, S) == [first |-> first, last |-> last, regions |-> Runs(S)]

AllImages ==
    {<<ChunkOf(0, 3, S), ChunkOf(3, 6, T)>> :
        S \in (SUBSET (0 .. 2)) \ {{}}, T \in {{3}, {5}, {3, 5}}}
      \cup {<<ChunkOf(0, 5, S)>> : S \in {{1, 3}, {0, 2, 4}, {0, 1, 2, 3, 4}, {1, 2, 4}}}

Disk(fill, threads, raw, v1) ==
    [fill |-> fill, threads |-> threads, raw |-> raw, v1 |-> v1, min |-> 0, max |-> 0]
Slice(fill) ==
    [fill |-> fill, threads |-> TRUE, raw |-> FALSE, v1 |-> FALSE, min |-> 1, max |-> 5]

AllOptions ==
    {Disk(TRUE, TRUE, FALSE, FALSE), Disk(FALSE, TRUE, FALSE, FALSE),
     Disk(TRUE, FALSE, FALSE, FALSE), Disk(TRUE, TRUE, TRUE, FALSE),
     Disk(TRUE, TRUE, FALSE, TRUE), Slice(TRUE), Slice(FALSE)}

=============================================================================
