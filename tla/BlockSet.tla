------------------------------ MODULE BlockSet ------------------------------
(***************************************************************************)
(* What a frisbee block map promises: it is a set of block numbers, and    *)
(* each operation of utils.c has the obvious meaning on sets.  A run is a  *)
(* pair <<first, length>> of consecutive members that no longer run of     *)
(* members contains.                                                       *)
(***************************************************************************)
EXTENDS Integers, FiniteSets, Sequences, SequencesExt

CONSTANT NBlocks

VARIABLES blocks,   \* the set
          ret       \* the operation just done, its arguments and its results

Blk == 0 .. NBlocks - 1
Ranges == {r \in Blk \X (1 .. NBlocks) : r[1] + r[2] <= NBlocks}
Range0(r) == r[1] .. (r[1] + r[2] - 1)

\* The runs of a set, and the sequence of them: the i-th is the one with
\* i - 1 runs before it.
RunSet(S) == {r \in Ranges : /\ Range0(r) \subseteq S
                             /\ r[1] - 1 \notin S
                             /\ r[1] + r[2] \notin S}

Before(S, x) == {q \in RunSet(S) : q[1] < x}

Runs(S) == [i \in 1 .. Cardinality(RunSet(S)) |->
              CHOOSE r \in RunSet(S) : Cardinality(Before(S, r[1])) = i - 1]

Size(seq) == FoldLeft(LAMBDA n, r : n + r[2], 0, seq)

Idle == << >>
Init == \E r \in Ranges : blocks = Range0(r) /\ ret = Idle

\* One operation: the new set, the arguments and the results.
Op(S, name, args, result) ==
  ret = Idle /\ blocks' = S /\ ret' = <<name, args, result>>

Reset   == \E r \in Ranges : Op(Range0(r), "init", r, << >>)
Add     == \E r \in Ranges : Op(blocks \cup Range0(r), "add", r, << >>)
Clear   == \E r \in Ranges : Op(blocks \ Range0(r), "clear", r, << >>)
Alloc   == \E b \in Blk : Op(blocks \cup {b}, "alloc", b,
                             IF b \in blocks THEN 1 ELSE 0)
Extract == IF blocks = {}
           THEN Op({}, "extract", << >>, <<0>>)
           ELSE LET r == Head(Runs(blocks))
                IN Op(blocks \ Range0(r), "extract", << >>, <<r[2], r[1]>>)
IsAlloc == \E r \in Ranges : Op(blocks, "isalloc", r,
                                Cardinality(blocks \cap Range0(r)))
Invert  == Op(Blk \ blocks, "invert", << >>, << >>)
Merge   == \E from \in SUBSET Blk :
             Op(blocks \cup from, "merge", from, Cardinality(from \ blocks))
First   == Op(blocks, "first", << >>,
              IF blocks = {} THEN NBlocks ELSE Head(Runs(blocks))[1])
\* The callback is given the runs in order until the call that stops it.
Apply   == \E stop \in 1 .. NBlocks + 1 :
             LET runs == Runs(blocks)
                 seen == IF stop < Len(runs) THEN SubSeq(runs, 1, stop) ELSE runs
             IN Op(blocks, "apply", stop, <<Size(seen), seen>>)
Return  == ret # Idle /\ ret' = Idle /\ UNCHANGED blocks

Next == Reset \/ Add \/ Clear \/ Alloc \/ Extract \/ IsAlloc \/ Invert
        \/ Merge \/ First \/ Apply \/ Return

Spec == Init /\ [][Next]_<<blocks, ret>>
=============================================================================
