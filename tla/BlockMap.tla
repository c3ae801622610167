------------------------------ MODULE BlockMap ------------------------------
(***************************************************************************)
(* The block maps of frisbee, clientside/os/frisbee.redux/utils.c: which   *)
(* blocks of a chunk a buffer holds, or a request asks for, as an array of *)
(* NBytes bytes of CHAR_BIT bits.  A byte is the set of its one bits, so   *)
(* ~0 is the set of all bit positions.  Each operation keeps the loop of   *)
(* the code, with its short cuts for whole bytes.                          *)
(***************************************************************************)
EXTENDS Integers, FiniteSets, Sequences, SequencesExt

CONSTANTS NBytes, CHAR_BIT

ASSUME MapAssumption == NBytes \in Nat \ {0} /\ CHAR_BIT \in Nat \ {0}

Bits  == 0 .. CHAR_BIT - 1
Byte  == SUBSET Bits
Index == 0 .. NBytes - 1
MAXCHUNKSIZE == NBytes * CHAR_BIT

VARIABLES map, ret

vars == <<map, ret>>

Empty == [i \in Index |-> {}]

\* The arguments the assertions of the operations accept.
Ranges == {r \in (0 .. MAXCHUNKSIZE - 1) \X (1 .. MAXCHUNKSIZE) :
             r[1] + r[2] <= MAXCHUNKSIZE}

\* A loop turns its variables s into step[s] until that changes nothing.  No
\* loop here takes more turns than there are bits and ends of bytes.
Turns == NBytes * (CHAR_BIT + 1)

Loop(step, s) ==
  LET after[n \in Nat] == IF n = 0 THEN s ELSE step[after[n - 1]]
  IN after[Turns]

\* The loop that BlockMapAdd and BlockMapClear share: whole bytes at a time
\* where it can, single bits where it cannot.
SetVars == [m: [Index -> Byte], i: 0 .. NBytes, off: Bits, count: 0 .. MAXCHUNKSIZE]

SetStep(on) == [s \in SetVars |->
  IF s.count = 0 THEN s
  ELSE IF s.off = 0 /\ s.count >= CHAR_BIT
  THEN [s EXCEPT !.m[s.i] = IF on THEN Bits ELSE {},
                 !.i = @ + 1, !.count = @ - CHAR_BIT]
  ELSE [s EXCEPT !.m[s.i] = IF on THEN @ \cup {s.off} ELSE @ \ {s.off},
                 !.off = IF @ + 1 = CHAR_BIT THEN 0 ELSE @ + 1,
                 !.i = IF s.off + 1 = CHAR_BIT THEN @ + 1 ELSE @,
                 !.count = @ - 1]]

SetLoop(m, block, count, on) ==
  Loop(SetStep(on), [m |-> m, i |-> block \div CHAR_BIT,
                     off |-> block % CHAR_BIT, count |-> count]).m

BlockMapAdd(m, block, count) == SetLoop(m, block, count, TRUE)

BlockMapClear(m, block, count) == SetLoop(m, block, count, FALSE)

BlockMapInit(block, count) ==
  IF count = MAXCHUNKSIZE THEN [i \in Index |-> Bits]
  ELSE BlockMapAdd(Empty, block, count)

IsSet(m, block) == block % CHAR_BIT \in m[block \div CHAR_BIT]

BlockMapAlloc(m, block) ==
  IF IsSet(m, block) THEN <<m, 1>>
  ELSE <<[m EXCEPT ![block \div CHAR_BIT] = @ \cup {block % CHAR_BIT}], 0>>

\* The first byte that is not zero, or NBytes.
FirstByte(m) ==
  LET used == {i \in Index : m[i] # {}}
  IN IF used = {} THEN NBytes ELSE CHOOSE i \in used : \A j \in used : i <= j

\* The nested loops of BlockMapExtract from byte i, bit bit: clear the ones
\* of the first run, stop after it, skip the rest of a byte that is empty.
ExtractVars == [m: [Index -> Byte], i: 0 .. NBytes, bit: 0 .. CHAR_BIT,
                block: Nat, count: Nat]

ExtractStep == [s \in ExtractVars |->
  IF s.i = NBytes THEN s
  ELSE IF s.bit = CHAR_BIT THEN [s EXCEPT !.i = @ + 1, !.bit = 0]
  ELSE IF s.bit \in s.m[s.i]
  THEN [s EXCEPT !.m[s.i] = @ \ {s.bit}, !.bit = @ + 1,
                 !.block = IF s.count = 0 THEN s.i * CHAR_BIT + s.bit ELSE @,
                 !.count = @ + 1]
  ELSE IF s.count > 0 THEN s
  ELSE IF s.m[s.i] = {} THEN [s EXCEPT !.i = @ + 1, !.bit = 0]
  ELSE [s EXCEPT !.bit = @ + 1]]

BlockMapExtract(m) ==
  LET s == Loop(ExtractStep, [m |-> m, i |-> FirstByte(m), bit |-> 0,
                              block |-> 0, count |-> 0])
  IN <<s.m, s.count, s.block>>

\* The byte under the cursor is counted whole if it is empty or full; the
\* next one is read only if there is more to count.
CountVars == [i: Index, off: 0 .. CHAR_BIT, count: 0 .. MAXCHUNKSIZE, did: Nat]

CountStep(m) == [s \in CountVars |->
  IF s.count = 0 THEN s
  ELSE LET whole == s.off = 0 /\ s.count >= CHAR_BIT /\ m[s.i] \in {{}, Bits}
           o     == IF whole THEN CHAR_BIT ELSE s.off + 1
           c     == IF whole THEN s.count - CHAR_BIT ELSE s.count - 1
           d     == IF whole THEN Cardinality(m[s.i])
                    ELSE IF s.off \in m[s.i] THEN 1 ELSE 0
           next  == o = CHAR_BIT /\ c > 0
       IN [i |-> IF next THEN s.i + 1 ELSE s.i, off |-> IF next THEN 0 ELSE o,
           count |-> c, did |-> s.did + d]]

BlockMapIsAlloc(m, block, count) ==
  Loop(CountStep(m), [i |-> block \div CHAR_BIT, off |-> block % CHAR_BIT,
                      count |-> count, did |-> 0]).did

BlockMapInvert(m) == [i \in Index |-> Bits \ m[i]]

\* Mutant: blocks the map already has are counted as added.
BlockMapMergeCountsAll(from, to) ==
  <<[i \in Index |-> to[i] \cup from[i]],
    FoldFunction(+, 0, [i \in Index |-> Cardinality(from[i])])>>

\* Bytes that can add nothing are skipped; the others are merged bit by bit.
BlockMapMerge(from, to) ==
  LET skipped == {i \in Index : from[i] = {} \/ to[i] = Bits \/ from[i] = to[i]}
      new(i)  == IF i \in skipped THEN {} ELSE from[i] \ to[i]
  IN <<[i \in Index |-> to[i] \cup new(i)],
       FoldFunction(+, 0, [i \in Index |-> Cardinality(new(i))])>>

BlockMapFirst(m) ==
  LET i == FirstByte(m)
  IN IF i = NBytes THEN MAXCHUNKSIZE
     ELSE i * CHAR_BIT + (CHOOSE b \in m[i] : \A c \in m[i] : b <= c)

\* The loops of BlockMapApply: func is called for every run until the call
\* that makes it stop; val is what is left of byte i.
ApplyVars == [i: 0 .. NBytes, bit: 0 .. CHAR_BIT, val: Byte, block: Nat, count: Nat,
              calls: Seq(Nat \X Nat)]

Called(s) == IF s.count > 0 THEN Append(s.calls, <<s.block, s.count>>) ELSE s.calls

ApplyStep(m, stop) == [s \in ApplyVars |->
  IF s.i = NBytes \/ Len(s.calls) = stop THEN s
  ELSE IF s.bit = CHAR_BIT
  THEN [s EXCEPT !.i = @ + 1, !.bit = 0,
                 !.val = IF s.i + 1 < NBytes THEN m[s.i + 1] ELSE {}]
  ELSE IF s.bit \in s.val
  THEN [s EXCEPT !.val = @ \ {s.bit}, !.bit = @ + 1,
                 !.block = IF s.count = 0 THEN s.i * CHAR_BIT + s.bit ELSE @,
                 !.count = @ + 1]
  ELSE [s EXCEPT !.calls = Called(s), !.count = 0,
                 !.bit = IF s.val = {} THEN CHAR_BIT ELSE @ + 1]]

\* The number of blocks processed, and the calls made.
BlockMapApply(m, stop) ==
  LET s == Loop(ApplyStep(m, stop), [i |-> 0, bit |-> 0, val |-> m[0], block |-> 0,
                                     count |-> 0, calls |-> << >>])
  IN <<FoldLeft(LAMBDA n, r : n + r[2], 0, Called(s)), Called(s)>>

-----------------------------------------------------------------------------
\* The blocks a map stands for.
Denotes(m) == {b \in 0 .. MAXCHUNKSIZE - 1 : IsSet(m, b)}

Idle == << >>
Init == \E r \in Ranges : map = BlockMapInit(r[1], r[2]) /\ ret = Idle

Call(m, name, args, result) ==
  ret = Idle /\ map' = m /\ ret' = <<name, args, result>>

DoInit    == \E r \in Ranges : Call(BlockMapInit(r[1], r[2]), "init", r, << >>)
DoAdd     == \E r \in Ranges : Call(BlockMapAdd(map, r[1], r[2]), "add", r, << >>)
DoClear   == \E r \in Ranges :
               Call(BlockMapClear(map, r[1], r[2]), "clear", r, << >>)
DoAlloc   == \E b \in 0 .. MAXCHUNKSIZE - 1 :
               LET a == BlockMapAlloc(map, b) IN Call(a[1], "alloc", b, a[2])
DoExtract == LET x == BlockMapExtract(map)
             IN Call(x[1], "extract", << >>,
                     IF x[2] = 0 THEN <<0>> ELSE <<x[2], x[3]>>)
DoIsAlloc == \E r \in Ranges :
               Call(map, "isalloc", r, BlockMapIsAlloc(map, r[1], r[2]))
DoInvert  == Call(BlockMapInvert(map), "invert", << >>, << >>)
DoMerge   == \E from \in [Index -> Byte] :
               LET a == BlockMapMerge(from, map)
               IN Call(a[1], "merge", Denotes(from), a[2])
DoFirst   == Call(map, "first", << >>, BlockMapFirst(map))
DoApply   == \E stop \in 1 .. MAXCHUNKSIZE + 1 :
               Call(map, "apply", stop, BlockMapApply(map, stop))
Return    == ret # Idle /\ ret' = Idle /\ UNCHANGED map

Next == DoInit \/ DoAdd \/ DoClear \/ DoAlloc \/ DoExtract \/ DoIsAlloc
        \/ DoInvert \/ DoMerge \/ DoFirst \/ DoApply \/ Return

Spec == Init /\ [][Next]_vars

-----------------------------------------------------------------------------
Sets == INSTANCE BlockSet WITH NBlocks <- MAXCHUNKSIZE,
                               blocks <- Denotes(map), ret <- ret

(* Every sequence of block map operations behaves, results included, as    *)
(* the same operations on a set of blocks (utils.c 277-560): the whole-    *)
(* byte short cuts and the early exits of the loops change nothing.        *)
ImplementsSets == Sets!Spec
=============================================================================
