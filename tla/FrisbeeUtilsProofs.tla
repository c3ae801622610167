------------------------- MODULE FrisbeeUtilsProofs -------------------------
(* Proofs about utils.c: the block maps implement sets of blocks, for any    *)
(* number of bytes and of bits in a byte, and the sizes add up to the image. *)
EXTENDS MCFrisbeeUtils, IntSets

Sizes == INSTANCE FrisbeeSizesProofs WITH ImageBytes <- bytes

(* Every step of the sweep has an image that is not empty.                   *)
BytesInv == bytes \in Nat \ {0}

LEMMA BytesKept == UtilsSpec => []BytesInv
<1>1. UtilsInit => BytesInv
  BY DEF UtilsInit, BytesInv
<1>2. BytesInv /\ [UtilsNext]_<<vars, bytes>> => BytesInv'
  BY DEF BytesInv, UtilsNext, Grow
<1> QED BY <1>1, <1>2, PTL DEF UtilsSpec

(* The chunks cut the image into its blocks, and the blocks into its bytes,  *)
(* for every image size, block size and chunk size (utils.c 196-275).        *)
THEOREM SizesKept == UtilsSpec => []SizesPartitionImage
<1>1. BytesInv => SizesPartitionImage
  <2> SUFFICES ASSUME BytesInv PROVE SizesPartitionImage
    OBVIOUS
  <2>1. NBytes * CHAR_BIT \in Nat \ {0}
    BY MapAssumption
  <2>2. Sizes!SizesGiven
    BY <2>1, SweepAssumption DEF Sizes!SizesGiven, MAXCHUNKSIZE, BytesInv
  <2>3. /\ MapThenSumSet(Sizes!ChunkSize, Sizes!Chunk) = Sizes!TotalBlocks
        /\ MapThenSumSet(Sizes!BlocksBytes, Sizes!Chunk) = bytes
    BY <2>2, Sizes!SizesAddUp DEF MapThenSumSet, MapThenFoldSet, Sizes!MapThenSumSet,
                                  Sizes!MapThenFoldSet
  <2>4. MapThenSumSet(Image!ChunkSize, Image!Chunk) = Image!TotalBlocks
    BY <2>3 DEF Sizes!TotalBlocks, Sizes!ChunkSize, Sizes!Chunk, Sizes!TotalChunks,
                Sizes!LastChunkSize, Image!TotalBlocks, Image!ChunkSize, Image!Chunk,
                Image!TotalChunks, Image!LastChunkSize, MapThenSumSet, MapThenFoldSet
  <2>5. ASSUME NEW c PROVE BlocksBytes(c) = Sizes!BlocksBytes(c)
    BY DEF BlocksBytes, MapThenSumSet, MapThenFoldSet,
           Image!BlockSize, Image!ChunkBlocks, Image!ChunkSize, Image!TotalChunks,
           Image!TotalBlocks, Image!LastChunkSize, Image!LastBlockSize,
           Sizes!BlocksBytes, Sizes!MapThenSumSet, Sizes!MapThenFoldSet,
           Sizes!BlockSize, Sizes!ChunkBlocks, Sizes!ChunkSize, Sizes!TotalChunks,
           Sizes!TotalBlocks, Sizes!LastChunkSize, Sizes!LastBlockSize
  <2>6. Image!Chunk = Sizes!Chunk
    BY DEF Image!Chunk, Sizes!Chunk, Sizes!TotalChunks, Image!TotalChunks,
           Sizes!TotalBlocks, Image!TotalBlocks
  <2>7. MapThenSumSet(BlocksBytes, Image!Chunk) = MapThenSumSet(Sizes!BlocksBytes, Sizes!Chunk)
    BY <2>5, <2>6 DEF MapThenSumSet, MapThenFoldSet
  <2> QED BY <2>3, <2>4, <2>7 DEF SizesPartitionImage
<1> QED BY <1>1, BytesKept, PTL

---------------------------------------------------------------------------
(* The number of the block that bit b of byte j stands for.                  *)
Pos(j, b) == j * CHAR_BIT + b
Blocks == 0 .. MAXCHUNKSIZE - 1
Maps == [Index -> Byte]

LEMMA Constants ==
  /\ NBytes \in Nat \ {0} /\ CHAR_BIT \in Nat \ {0} /\ MAXCHUNKSIZE \in Nat \ {0}
  /\ Turns \in Nat /\ MAXCHUNKSIZE <= Turns
  /\ Pos(NBytes, 0) = MAXCHUNKSIZE /\ Pos(0, 0) = 0
<1>1. NBytes \in Nat \ {0} /\ CHAR_BIT \in Nat \ {0}
  BY MapAssumption
<1>2. NBytes * CHAR_BIT \in Nat \ {0} /\ NBytes * (CHAR_BIT + 1) = NBytes * CHAR_BIT + NBytes
  BY <1>1
<1>3. Pos(NBytes, 0) = NBytes * CHAR_BIT /\ Pos(0, 0) = 0
  BY <1>1, <1>2 DEF Pos
<1> QED BY <1>1, <1>2, <1>3 DEF MAXCHUNKSIZE, Turns

LEMMA PosType ==
  ASSUME NEW j \in Nat, NEW b \in Nat
  PROVE  /\ Pos(j, b) \in Nat /\ Pos(j, b) + 1 = Pos(j, b + 1)
         /\ Pos(j, CHAR_BIT) = Pos(j + 1, 0) /\ Pos(j, 0) + CHAR_BIT = Pos(j + 1, 0)
         /\ Pos(j, 0) + b = Pos(j, b)
<1>1. CHAR_BIT \in Nat /\ j * CHAR_BIT \in Nat /\ (j + 1) * CHAR_BIT = j * CHAR_BIT + CHAR_BIT
  BY Constants
<1> QED BY <1>1 DEF Pos

(* Blocks are ordered by their bytes and, in a byte, by their bits.          *)
LEMMA PosOrder ==
  ASSUME NEW j \in Nat, NEW k \in Nat, NEW b \in 0 .. CHAR_BIT, NEW c \in Bits
  PROVE  Pos(k, c) < Pos(j, b) <=> (k < j \/ (k = j /\ c < b))
<1> DEFINE W == CHAR_BIT
<1>1. W \in Nat \ {0} /\ b \in 0 .. W /\ c \in 0 .. W - 1
  BY Constants DEF Bits
<1>2. Pos(k, c) = k * W + c /\ Pos(j, b) = j * W + b
  BY DEF Pos
<1> HIDE DEF W
<1>3. CASE k = j
  BY <1>1, <1>2, <1>3
<1>4. CASE k < j
  <2>1. (j - k - 1) * W >= 0
    BY <1>1, <1>4
  <2>2. j * W >= k * W + W
    BY <1>1, <2>1
  <2> QED BY <1>1, <1>2, <1>4, <2>2
<1>5. CASE j < k
  <2>1. (k - j - 1) * W >= 0
    BY <1>1, <1>5
  <2>2. k * W >= j * W + W
    BY <1>1, <2>1
  <2> QED BY <1>1, <1>2, <1>5, <2>2
<1> QED BY <1>3, <1>4, <1>5

(* Every bit is a block, with the byte and the bit that the code computes.   *)
LEMMA PosBlock ==
  ASSUME NEW j \in Index, NEW b \in Bits
  PROVE  Pos(j, b) \in Blocks /\ Pos(j, b) \div CHAR_BIT = j /\ Pos(j, b) % CHAR_BIT = b
<1>1. j \in Nat /\ j < NBytes /\ b \in Nat /\ NBytes \in Nat
  BY Constants DEF Index, Bits
<1>2. Pos(j, b) \in Nat
  BY <1>1, PosType
<1>3. Pos(j, b) < Pos(NBytes, 0)
  <2>1. 0 \in 0 .. CHAR_BIT
    BY Constants
  <2> QED BY <1>1, <2>1, PosOrder
<1>4. Pos(j, b) \in Blocks
  BY <1>2, <1>3, Constants DEF Blocks
<1> DEFINE p == Pos(j, b)
           d == p \div CHAR_BIT
           r == p % CHAR_BIT
<1>5. d \in Nat /\ r \in 0 .. CHAR_BIT - 1 /\ p = d * CHAR_BIT + r
  BY <1>2, Constants, DivMod
<1>6. p = j * CHAR_BIT + b /\ b \in 0 .. CHAR_BIT - 1
  BY DEF Pos, Bits
<1> HIDE DEF p, d, r
<1>7. d = j /\ r = b
  <2>1. d * CHAR_BIT + r = j * CHAR_BIT + b /\ d \in Int /\ j \in Int
    BY <1>1, <1>5, <1>6
  <2> QED BY <1>5, <1>6, <2>1, Constants, DivUnique
<1> QED BY <1>4, <1>7 DEF p, d, r

LEMMA BlockPos ==
  ASSUME NEW p \in Blocks
  PROVE  /\ p \div CHAR_BIT \in Index /\ p % CHAR_BIT \in Bits
         /\ p = Pos(p \div CHAR_BIT, p % CHAR_BIT)
<1>1. p \in Nat /\ p < MAXCHUNKSIZE
  BY Constants DEF Blocks
<1> DEFINE d == p \div CHAR_BIT
           r == p % CHAR_BIT
<1>2. d \in Nat /\ r \in 0 .. CHAR_BIT - 1 /\ p = d * CHAR_BIT + r
  BY <1>1, Constants, DivMod
<1> HIDE DEF d, r
<1>3. p = Pos(d, r) /\ r \in Bits
  BY <1>2 DEF Pos, Bits
<1>4. d < NBytes
  <2>1. Pos(d, r) < Pos(NBytes, 0)
    BY <1>1, <1>3, Constants
  <2>2. 0 \in 0 .. CHAR_BIT /\ NBytes \in Nat /\ r \in Nat /\ ~ (r < 0)
    BY <1>2, Constants
  <2> QED BY <1>2, <1>3, <2>1, <2>2, PosOrder
<1> QED BY <1>2, <1>3, <1>4, Constants DEF Index, d, r

LEMMA BitPos ==
  ASSUME NEW j \in Index, NEW b \in Bits
  PROVE  j \in Nat /\ b \in Nat /\ b \in 0 .. CHAR_BIT /\ Pos(j, b) \in Nat
<1>1. j \in Nat /\ b \in Nat /\ b \in 0 .. CHAR_BIT
  BY Constants DEF Index, Bits
<1> QED BY <1>1, PosType

(* Which blocks a map has.                                                   *)
LEMMA HasBit ==
  ASSUME NEW m \in Maps, NEW j \in Index, NEW b \in Bits
  PROVE  Pos(j, b) \in Denotes(m) <=> b \in m[j]
  BY PosBlock DEF Denotes, IsSet, Blocks

(* Two sets of blocks are equal if they have the same bits.                  *)
LEMMA SameBits ==
  ASSUME NEW S \in SUBSET Blocks, NEW T \in SUBSET Blocks,
         \A j \in Index : \A b \in Bits : Pos(j, b) \in S <=> Pos(j, b) \in T
  PROVE  S = T
<1>1. ASSUME NEW p \in Blocks PROVE p \in S <=> p \in T
  BY BlockPos
<1> QED BY <1>1

LEMMA DenotesType == \A m : Denotes(m) \in SUBSET Blocks
  BY DEF Denotes, Blocks

---------------------------------------------------------------------------
(* Loops: if the variables are in I[0] before the loop, and a turn takes     *)
(* what is in I[n] to I[n + 1], they are in I[Turns] after it.               *)
LEMMA LoopRule ==
  ASSUME NEW step, NEW s, NEW I, s \in I[0],
         \A n \in Nat : \A x \in I[n] : step[x] \in I[n + 1]
  PROVE  Loop(step, s) \in I[Turns]
<1> DEFINE g == Values(s, step)
<1>1. Loop(step, s) = g[Turns]
  BY DEF Loop, Values
<1>2. g[0] = s /\ \A n \in Nat : g[n + 1] = step[g[n]]
  BY Recursion
<1> HIDE DEF g
<1> DEFINE K == {n \in Nat : g[n] \in I[n]}
<1>3. 0 \in K
  BY <1>2
<1>4. ASSUME NEW n \in K PROVE n + 1 \in K
  BY <1>2
<1> HIDE DEF K
<1>5. K = Nat
  <2>1. K \in SUBSET Nat
    BY DEF K
  <2> QED BY <1>3, <1>4, <2>1, SetInduction
<1> QED BY <1>1, <1>5, Constants DEF K

(* BlockMapAdd and BlockMapClear: after n turns, the blocks from B up to the *)
(* cursor are set, or cleared, and the others as they were.                  *)
SetAfter(m0, B, C, on, s, n) ==
  /\ s \in SetVars /\ s.count <= C /\ (s.count = 0 \/ s.count <= C - n)
  /\ Pos(s.i, s.off) = B + C - s.count
  /\ \A j \in Index : \A b \in Bits :
       b \in s.m[j] <=> IF B <= Pos(j, b) /\ Pos(j, b) < B + C - s.count THEN on
                        ELSE b \in m0[j]

LEMMA SetTurn ==
  ASSUME NEW m0 \in Maps, NEW B \in Nat, NEW C \in Nat, B + C <= MAXCHUNKSIZE,
         NEW on \in BOOLEAN, NEW n \in Nat, NEW s, SetAfter(m0, B, C, on, s, n)
  PROVE  SetAfter(m0, B, C, on, SetStep(on)[s], n + 1)
<1> DEFINE i == s.i
           o == s.off
           c == s.count
           p == B + C - c
           t == SetStep(on)[s]
<1>1. /\ s.m \in Maps /\ i \in 0 .. NBytes /\ o \in Bits /\ c \in 0 .. MAXCHUNKSIZE
      /\ s = [m |-> s.m, i |-> i, off |-> o, count |-> c] /\ s \in SetVars
  BY DEF SetAfter, SetVars, Maps
<1>2. /\ c <= C /\ (c = 0 \/ c <= C - n) /\ Pos(i, o) = p
      /\ \A j \in Index : \A b \in Bits :
           b \in s.m[j] <=> IF B <= Pos(j, b) /\ Pos(j, b) < p THEN on ELSE b \in m0[j]
  BY DEF SetAfter
<1>3. /\ NBytes \in Nat \ {0} /\ CHAR_BIT \in Nat \ {0} /\ MAXCHUNKSIZE \in Nat
      /\ i \in Nat /\ o \in Nat /\ o < CHAR_BIT /\ c \in Nat /\ o \in 0 .. CHAR_BIT
      /\ 0 \in Bits /\ 0 \in 0 .. CHAR_BIT
  BY <1>1, Constants DEF Bits
<1>0. p = B + C - c /\ p \in Int
  BY <1>3
<1> SUFFICES SetAfter(m0, B, C, on, t, n + 1)
  OBVIOUS
<1> HIDE DEF i, o, c, p, t
<1>4. CASE c = 0
  <2>1. t = s
    BY <1>1, <1>4 DEF SetStep, t, c
  <2> QED BY <1>1, <1>2, <1>4, <2>1 DEF SetAfter, i, o, c, p
<1>5. CASE c # 0
  <2>1. i \in Index
    <3>1. Pos(i, o) < Pos(NBytes, 0)
      BY <1>0, <1>2, <1>3, <1>5, Constants
    <3>2. i < NBytes
      BY <1>3, <3>1, PosOrder, <1>1
    <3> QED BY <1>3, <3>2 DEF Index
  <2>2. ASSUME NEW q \in 0 .. NBytes, NEW u \in Bits, NEW d \in Nat, NEW M \in SUBSET Bits,
               t = [m |-> [s.m EXCEPT ![i] = M], i |-> q, off |-> u, count |-> d],
               d < c, Pos(q, u) = B + C - d,
               \A b \in Bits : b \in M <=> IF Pos(i, b) < B + C - d /\ Pos(i, b) >= p THEN on
                                           ELSE b \in s.m[i],
               \A j \in Index : \A b \in Bits :
                  j # i => (Pos(j, b) < p <=> Pos(j, b) < B + C - d)
        PROVE  SetAfter(m0, B, C, on, t, n + 1)
    <3>1. t.m \in Maps /\ t.i = q /\ t.off = u /\ t.count = d /\ t.m = [s.m EXCEPT ![i] = M]
      BY <1>1, <2>1, <2>2 DEF Maps, Byte
    <3>2. t \in SetVars
      BY <1>1, <1>3, <2>2, <3>1 DEF SetVars, Maps
    <3>3. d <= C /\ (d = 0 \/ d <= C - (n + 1))
      BY <1>0, <1>2, <1>3, <2>2
    <3>4. ASSUME NEW j \in Index, NEW b \in Bits
          PROVE  b \in t.m[j] <=> IF B <= Pos(j, b) /\ Pos(j, b) < B + C - d THEN on
                                  ELSE b \in m0[j]
      <4>1. Pos(j, b) \in Nat
        BY PosType DEF Index, Bits
      <4>2. b \in s.m[j] <=> IF B <= Pos(j, b) /\ Pos(j, b) < p THEN on ELSE b \in m0[j]
        BY <1>2
      <4>3. CASE j = i
        <5>1. b \in t.m[j] <=> b \in M
          BY <1>1, <2>1, <3>1, <4>3 DEF Maps
        <5>2. B <= p /\ p < B + C - d
          BY <1>0, <1>2, <1>3, <2>2
        <5>3. b \in M <=> IF Pos(i, b) < B + C - d /\ Pos(i, b) >= p THEN on ELSE b \in s.m[i]
          BY <2>2
        <5> QED BY <4>1, <4>2, <4>3, <5>1, <5>2, <5>3, <1>0, <1>3
      <4>4. CASE j # i
        <5>1. t.m[j] = s.m[j]
          BY <1>1, <2>1, <3>1, <4>4 DEF Maps
        <5>2. Pos(j, b) < p <=> Pos(j, b) < B + C - d
          BY <2>2, <4>4
        <5> QED BY <4>1, <4>2, <5>1, <5>2
      <4> QED BY <4>3, <4>4
    <3> QED BY <2>2, <3>1, <3>2, <3>3, <3>4 DEF SetAfter
  <2>3. ASSUME NEW j \in Index, NEW b \in Bits
        PROVE  /\ Pos(j, b) < p <=> (j < i \/ (j = i /\ b < o))
               /\ Pos(j, b) \in Nat
    <3>1. j \in Nat /\ b \in Nat
      BY <1>3 DEF Index, Bits
    <3>2. Pos(j, b) < Pos(i, o) <=> (j < i \/ (j = i /\ b < o))
      BY <1>3, <3>1, PosOrder
    <3> QED BY <1>2, <3>1, <3>2, PosType
  <2>4. CASE o = 0 /\ c >= CHAR_BIT
    <3> DEFINE M == IF on THEN Bits ELSE {}
               d == c - CHAR_BIT
    <3>1. t = [m |-> [s.m EXCEPT ![i] = M], i |-> i + 1, off |-> o, count |-> d]
      BY <1>1, <1>5, <2>4 DEF SetStep, t, i, o, c
    <3>2. i + 1 \in 0 .. NBytes /\ d \in Nat /\ d < c /\ M \in SUBSET Bits
      BY <2>1, <2>4, <1>3 DEF Index
    <3>3. Pos(i + 1, o) = B + C - d /\ Pos(i + 1, 0) = B + C - d
      <4>1. Pos(i, 0) + CHAR_BIT = Pos(i + 1, 0) /\ Pos(i, 0) = p
        BY <2>4, <1>2, <1>3, PosType
      <4> QED BY <4>1, <2>4, <1>0, <1>3
    <3>4. ASSUME NEW j \in Index, NEW b \in Bits
          PROVE  Pos(j, b) < B + C - d <=> j <= i
      <4>1. Pos(j, b) < Pos(i + 1, 0) <=> (j < i + 1 \/ (j = i + 1 /\ b < 0))
        BY <1>3, PosOrder DEF Index
      <4> QED BY <3>3, <4>1, <1>3 DEF Index, Bits
    <3> HIDE DEF d
    <3>5. ASSUME NEW b \in Bits
          PROVE  b \in M <=> IF Pos(i, b) < B + C - d /\ Pos(i, b) >= p THEN on
                             ELSE b \in s.m[i]
      <4>1. Pos(i, b) < B + C - d /\ Pos(i, b) >= p
        <5>1. b \in Nat /\ ~ (b < 0) /\ i <= i /\ ~ (i < i)
          BY <1>3 DEF Bits
        <5>2. Pos(i, b) < B + C - d /\ ~ (Pos(i, b) < p) /\ Pos(i, b) \in Nat
          BY <2>1, <2>3, <2>4, <3>4, <5>1
        <5> QED BY <5>2, <1>0
      <4> QED BY <4>1
    <3>6. ASSUME NEW j \in Index, NEW b \in Bits, j # i
          PROVE  Pos(j, b) < p <=> Pos(j, b) < B + C - d
      BY <2>3, <3>4, <3>6, <1>0, <1>3 DEF Index
    <3> HIDE DEF M
    <3> QED BY <1>1, <2>2, <3>1, <3>2, <3>3, <3>5, <3>6
  <2>5. CASE ~ (o = 0 /\ c >= CHAR_BIT)
    <3> DEFINE M == IF on THEN s.m[i] \cup {o} ELSE s.m[i] \ {o}
               d == c - 1
               u == IF o + 1 = CHAR_BIT THEN 0 ELSE o + 1
               q == IF o + 1 = CHAR_BIT THEN i + 1 ELSE i
    <3>1. t = [m |-> [s.m EXCEPT ![i] = M], i |-> q, off |-> u, count |-> d]
      BY <1>1, <1>5, <2>5, <2>1 DEF SetStep, t, i, o, c
    <3>2. q \in 0 .. NBytes /\ d \in Nat /\ d < c /\ M \in SUBSET Bits /\ u \in Bits
      <4>1. s.m[i] \in SUBSET Bits
        BY <1>1, <2>1 DEF Maps, Byte
      <4>2. q \in 0 .. NBytes /\ d \in Nat /\ d < c /\ u \in Bits
        BY <1>3, <1>5, <2>1 DEF Index, Bits
      <4> QED BY <1>1, <4>1, <4>2
    <3>3. Pos(q, u) = B + C - d
      <4>1. p + 1 = Pos(i, o + 1) /\ Pos(i, CHAR_BIT) = Pos(i + 1, 0)
        BY <1>2, <1>3, PosType
      <4> QED BY <4>1, <1>0, <1>3
    <3>4. ASSUME NEW j \in Index, NEW b \in Bits
          PROVE  Pos(j, b) < B + C - d <=> (j < i \/ (j = i /\ b <= o))
      <4>0. j \in Nat /\ b \in Nat /\ b < CHAR_BIT
        BY <1>3 DEF Index, Bits
      <4>1. Pos(j, b) < Pos(q, u) <=> (j < q \/ (j = q /\ b < u))
        <5>1. q \in Nat /\ u \in 0 .. CHAR_BIT
          BY <3>2, <1>3 DEF Bits
        <5> QED BY <4>0, <5>1, PosOrder
      <4> QED BY <3>3, <4>0, <4>1, <1>3
    <3> HIDE DEF d
    <3>5. ASSUME NEW b \in Bits
          PROVE  b \in M <=> IF Pos(i, b) < B + C - d /\ Pos(i, b) >= p THEN on
                             ELSE b \in s.m[i]
      <4>1. (Pos(i, b) < B + C - d /\ Pos(i, b) >= p) <=> b = o
        <5>1. (Pos(i, b) < B + C - d <=> b <= o) /\ (Pos(i, b) < p <=> b < o)
          BY <2>1, <2>3, <3>4, <1>3
        <5>2. Pos(i, b) >= p <=> ~ (Pos(i, b) < p)
          BY <2>1, <2>3, <1>0, <1>3
        <5> QED BY <5>1, <5>2, <1>3 DEF Bits
      <4> QED BY <4>1
    <3>6. ASSUME NEW j \in Index, NEW b \in Bits, j # i
          PROVE  Pos(j, b) < p <=> Pos(j, b) < B + C - d
      BY <2>3, <3>4, <3>6, <1>0, <1>3 DEF Index
    <3> HIDE DEF M, q, u
    <3> QED BY <1>1, <2>2, <3>1, <3>2, <3>3, <3>5, <3>6
  <2> QED BY <2>4, <2>5
<1> QED BY <1>4, <1>5

LEMMA SetLoopIs ==
  ASSUME NEW m0 \in Maps, NEW B \in Nat, NEW C \in Nat, B < MAXCHUNKSIZE,
         B + C <= MAXCHUNKSIZE, NEW on \in BOOLEAN,
         NEW m, m = SetLoop(m0, B, C, on)
  PROVE  /\ m \in Maps
         /\ Denotes(m) = IF on THEN Denotes(m0) \cup (B .. B + C - 1)
                         ELSE Denotes(m0) \ (B .. B + C - 1)
<1> DEFINE I == [n \in Nat |-> {s \in SetVars : SetAfter(m0, B, C, on, s, n)}]
           s0 == [m |-> m0, i |-> B \div CHAR_BIT, off |-> B % CHAR_BIT, count |-> C]
           s1 == Loop(SetStep(on), s0)
<1>1. B \in Blocks /\ MAXCHUNKSIZE \in Nat /\ NBytes \in Nat /\ CHAR_BIT \in Nat \ {0}
  BY Constants DEF Blocks
<1>2. B \div CHAR_BIT \in Index /\ B % CHAR_BIT \in Bits /\ B = Pos(B \div CHAR_BIT, B % CHAR_BIT)
  BY <1>1, BlockPos
<1>3. SetAfter(m0, B, C, on, s0, 0)
  <2>1. s0 \in SetVars
    BY <1>1, <1>2 DEF SetVars, Index, Maps
  <2>2. s0.m = m0 /\ s0.count = C /\ Pos(s0.i, s0.off) = B
    BY <1>2
  <2>3. ASSUME NEW j \in Index, NEW b \in Bits
        PROVE  ~ (B <= Pos(j, b) /\ Pos(j, b) < B + C - C)
    <3>1. Pos(j, b) \in Nat
      BY BitPos
    <3> QED BY <3>1
  <2> HIDE DEF s0
  <2> QED BY <2>1, <2>2, <2>3 DEF SetAfter
<1>4. s0 \in I[0]
  BY <1>3 DEF SetAfter
<1>5. ASSUME NEW n \in Nat, NEW x \in I[n] PROVE SetStep(on)[x] \in I[n + 1]
  <2>1. SetAfter(m0, B, C, on, x, n)
    OBVIOUS
  <2>2. SetAfter(m0, B, C, on, SetStep(on)[x], n + 1)
    BY <2>1, SetTurn
  <2> QED BY <2>2 DEF SetAfter
<1>6. s1 \in I[Turns]
  <2> HIDE DEF I, s0
  <2> QED BY <1>4, <1>5, LoopRule
<1>7. SetAfter(m0, B, C, on, s1, Turns) /\ m = s1.m
  BY <1>6, Constants DEF SetLoop
<1> HIDE DEF s1
<1>8. s1.count = 0 /\ m \in Maps
  BY <1>7, <1>1, Constants DEF SetAfter, SetVars, Maps
<1>9. ASSUME NEW j \in Index, NEW b \in Bits
      PROVE  /\ Pos(j, b) \in Nat
             /\ b \in m[j] <=> IF B <= Pos(j, b) /\ Pos(j, b) < B + C THEN on ELSE b \in m0[j]
  <2>1. Pos(j, b) \in Nat
    BY BitPos
  <2>2. b \in m[j] <=> IF B <= Pos(j, b) /\ Pos(j, b) < B + C - 0 THEN on ELSE b \in m0[j]
    BY <1>7, <1>8 DEF SetAfter
  <2> QED BY <2>1, <2>2
<1> DEFINE R == B .. B + C - 1
<1>10. ASSUME NEW j \in Index, NEW b \in Bits
       PROVE  Pos(j, b) \in Denotes(m) <=> IF Pos(j, b) \in R THEN on ELSE Pos(j, b) \in Denotes(m0)
  <2>1. Pos(j, b) \in R <=> B <= Pos(j, b) /\ Pos(j, b) < B + C
    BY <1>9
  <2> HIDE DEF R
  <2> QED BY <1>8, <1>9, <2>1, HasBit
<1>11. R \in SUBSET Blocks
  BY <1>1 DEF Blocks
<1> HIDE DEF R
<1>12. Denotes(m) \in SUBSET Blocks /\ Denotes(m0) \in SUBSET Blocks
  BY DenotesType
<1>13. CASE on
  <2> DEFINE T == Denotes(m0) \cup R
  <2>0. /\ T \in SUBSET Blocks
        /\ \A j \in Index : \A b \in Bits : Pos(j, b) \in Denotes(m) <=> Pos(j, b) \in T
    BY <1>10, <1>11, <1>12, <1>13
  <2> HIDE DEF T
  <2>1. Denotes(m) = Denotes(m0) \cup R
    BY <1>12, <2>0, SameBits DEF T
  <2> QED BY <1>8, <1>13, <2>1 DEF R
<1>14. CASE ~ on
  <2> DEFINE T == Denotes(m0) \ R
  <2>0. /\ T \in SUBSET Blocks
        /\ \A j \in Index : \A b \in Bits : Pos(j, b) \in Denotes(m) <=> Pos(j, b) \in T
    BY <1>10, <1>11, <1>12, <1>14
  <2> HIDE DEF T
  <2>1. Denotes(m) = Denotes(m0) \ R
    BY <1>12, <2>0, SameBits DEF T
  <2> QED BY <1>8, <1>14, <2>1 DEF R
<1> QED BY <1>13, <1>14

LEMMA AddIs ==
  ASSUME NEW m \in Maps, NEW r \in Ranges
  PROVE  /\ BlockMapAdd(m, r[1], r[2]) \in Maps
         /\ Denotes(BlockMapAdd(m, r[1], r[2])) = Denotes(m) \cup Sets!Range0(r)
<1>1. /\ r[1] \in Nat /\ r[2] \in Nat /\ r[1] < MAXCHUNKSIZE /\ r[1] + r[2] <= MAXCHUNKSIZE
  BY Constants DEF Ranges
<1> DEFINE on == TRUE
           n == BlockMapAdd(m, r[1], r[2])
<1>2. on \in BOOLEAN /\ n = SetLoop(m, r[1], r[2], on)
  BY DEF BlockMapAdd
<1> DEFINE B == r[1]
           C == r[2]
<1> HIDE DEF on, n, B, C
<1>3. n \in Maps /\ Denotes(n) = IF on THEN Denotes(m) \cup (B .. B + C - 1)
                              ELSE Denotes(m) \ (B .. B + C - 1)
  <2>1. /\ B \in Nat /\ C \in Nat /\ B < MAXCHUNKSIZE /\ B + C <= MAXCHUNKSIZE
        /\ n = SetLoop(m, B, C, on) /\ on \in BOOLEAN
    BY <1>1, <1>2 DEF B, C
  <2> QED BY <2>1, SetLoopIs
<1> QED BY <1>3 DEF Sets!Range0, on, n, B, C

LEMMA ClearIs ==
  ASSUME NEW m \in Maps, NEW r \in Ranges
  PROVE  /\ BlockMapClear(m, r[1], r[2]) \in Maps
         /\ Denotes(BlockMapClear(m, r[1], r[2])) = Denotes(m) \ Sets!Range0(r)
<1>1. /\ r[1] \in Nat /\ r[2] \in Nat /\ r[1] < MAXCHUNKSIZE /\ r[1] + r[2] <= MAXCHUNKSIZE
  BY Constants DEF Ranges
<1> DEFINE on == FALSE
           n == BlockMapClear(m, r[1], r[2])
<1>2. on \in BOOLEAN /\ n = SetLoop(m, r[1], r[2], on)
  BY DEF BlockMapClear
<1> DEFINE B == r[1]
           C == r[2]
<1> HIDE DEF on, n, B, C
<1>3. n \in Maps /\ Denotes(n) = IF on THEN Denotes(m) \cup (B .. B + C - 1)
                              ELSE Denotes(m) \ (B .. B + C - 1)
  <2>1. /\ B \in Nat /\ C \in Nat /\ B < MAXCHUNKSIZE /\ B + C <= MAXCHUNKSIZE
        /\ n = SetLoop(m, B, C, on) /\ on \in BOOLEAN
    BY <1>1, <1>2 DEF B, C
  <2> QED BY <2>1, SetLoopIs
<1> QED BY <1>3 DEF Sets!Range0, on, n, B, C

LEMMA InitIs ==
  ASSUME NEW r \in Ranges
  PROVE  /\ BlockMapInit(r[1], r[2]) \in Maps
         /\ Denotes(BlockMapInit(r[1], r[2])) = Sets!Range0(r)
<1>1. CASE r[2] = MAXCHUNKSIZE
  <2> DEFINE m == [i \in Index |-> Bits]
  <2>1. m \in Maps /\ m = BlockMapInit(r[1], r[2])
    BY <1>1 DEF Maps, Byte, BlockMapInit
  <2>2. Sets!Range0(r) = Blocks
    BY <1>1, Constants DEF Ranges, Sets!Range0, Blocks
  <2>3. Denotes(m) = Blocks
    <3>1. ASSUME NEW j \in Index, NEW b \in Bits PROVE Pos(j, b) \in Denotes(m) /\ Pos(j, b) \in Blocks
      BY <2>1, HasBit, PosBlock
    <3> HIDE DEF m
    <3> QED BY <3>1, DenotesType, SameBits
  <2> QED BY <2>1, <2>2, <2>3
<1>2. CASE r[2] # MAXCHUNKSIZE
  <2>1. Empty \in Maps /\ BlockMapInit(r[1], r[2]) = BlockMapAdd(Empty, r[1], r[2])
    BY <1>2 DEF Empty, Maps, Byte, BlockMapInit
  <2>2. Denotes(Empty) = {}
    <3>1. ASSUME NEW j \in Index, NEW b \in Bits PROVE Pos(j, b) \notin Denotes(Empty)
      BY <2>1, HasBit DEF Empty
    <3>2. {} \in SUBSET Blocks /\ Denotes(Empty) \in SUBSET Blocks
      BY DenotesType
    <3> QED BY <3>1, <3>2, SameBits
  <2> QED BY <2>1, <2>2, AddIs
<1> QED BY <1>1, <1>2

LEMMA AllocIs ==
  ASSUME NEW m \in Maps, NEW p \in Blocks, NEW a, a = BlockMapAlloc(m, p)
  PROVE  /\ a[1] \in Maps /\ Denotes(a[1]) = Denotes(m) \cup {p}
         /\ a[2] = IF p \in Denotes(m) THEN 1 ELSE 0
<1> DEFINE i == p \div CHAR_BIT
           o == p % CHAR_BIT
           n == [m EXCEPT ![i] = m[i] \cup {o}]
<1>1. i \in Index /\ o \in Bits /\ p = Pos(i, o)
  BY BlockPos
<1>2. IsSet(m, p) <=> p \in Denotes(m)
  BY DEF Denotes, Blocks
<1>3. CASE p \in Denotes(m)
  BY <1>2, <1>3 DEF BlockMapAlloc
<1>4. CASE p \notin Denotes(m)
  <2>1. a = <<n, 0>> /\ n \in Maps
    BY <1>1, <1>2, <1>4 DEF BlockMapAlloc, Maps, Byte
  <2>2. ASSUME NEW j \in Index, NEW b \in Bits
        PROVE  Pos(j, b) \in Denotes(n) <=> Pos(j, b) \in Denotes(m) \cup {p}
    <3>1. b \in n[j] <=> b \in m[j] \/ (j = i /\ b = o)
      BY <1>1 DEF Maps
    <3>2. Pos(j, b) = p <=> j = i /\ b = o
      <4>1. Pos(j, b) = p => j = i /\ b = o
        BY PosBlock
      <4> HIDE DEF i, o
      <4> QED BY <1>1, <4>1
    <3> HIDE DEF n, i, o
    <3> QED BY <2>1, <3>1, <3>2, HasBit
  <2> HIDE DEF n
  <2>3. Denotes(n) = Denotes(m) \cup {p}
    <3>1. Denotes(n) \in SUBSET Blocks /\ Denotes(m) \cup {p} \in SUBSET Blocks
      BY DenotesType
    <3> QED BY <2>2, <3>1, SameBits
  <2> QED BY <2>1, <2>3, <1>4
<1> QED BY <1>3, <1>4

LEMMA InvertIs ==
  ASSUME NEW m \in Maps
  PROVE  BlockMapInvert(m) \in Maps /\ Denotes(BlockMapInvert(m)) = Blocks \ Denotes(m)
<1> DEFINE n == BlockMapInvert(m)
<1>1. n \in Maps
  BY DEF BlockMapInvert, Maps, Byte
<1>2. ASSUME NEW j \in Index, NEW b \in Bits
      PROVE  Pos(j, b) \in Denotes(n) <=> Pos(j, b) \in Blocks \ Denotes(m)
  <2>1. b \in n[j] <=> b \notin m[j]
    BY DEF BlockMapInvert
  <2> HIDE DEF n
  <2> QED BY <1>1, <2>1, HasBit, PosBlock
<1> HIDE DEF n
<1>3. Denotes(n) = Blocks \ Denotes(m)
  <2>1. Denotes(n) \in SUBSET Blocks /\ Blocks \ Denotes(m) \in SUBSET Blocks
    BY DenotesType
  <2> QED BY <1>2, <2>1, SameBits
<1> QED BY <1>1, <1>3 DEF n

---------------------------------------------------------------------------
(* The number of members from a up to b; these numbers add up.              *)
Count(S, a, b) == Cardinality(S \cap (a .. b - 1))

LEMMA CountIs ==
  ASSUME NEW S, NEW a, NEW b, NEW T, T = S \cap (a .. b - 1)
  PROVE  Count(S, a, b) = Cardinality(T)
  BY DEF Count

LEMMA Members == ASSUME NEW S \in SUBSET Blocks PROVE IsFiniteSet(S) /\ Cardinality(S) \in Nat
<1>1. 0 \in Int /\ MAXCHUNKSIZE - 1 \in Int
  BY Constants
<1>2. IsFiniteSet(0 .. MAXCHUNKSIZE - 1)
  BY <1>1, FS_Interval
<1> QED BY <1>2, FS_Subset, FS_CardinalityType DEF Blocks

LEMMA CountMore ==
  ASSUME NEW S \in SUBSET Blocks, NEW B \in Nat, NEW p \in Nat, NEW q \in Nat, B <= p, p <= q
  PROVE  /\ Count(S, B, p) \in Nat /\ Count(S, p, q) \in Nat
         /\ Count(S, B, q) = Count(S, B, p) + Count(S, p, q)
<1> DEFINE U == S \cap (B .. p - 1)
           V == S \cap (p .. q - 1)
<1>1. U \cup V = S \cap (B .. q - 1) /\ U \cap V = {} /\ U \in SUBSET Blocks /\ V \in SUBSET Blocks
  BY Constants DEF Blocks
<1> HIDE DEF U, V
<1>2. IsFiniteSet(U) /\ IsFiniteSet(V) /\ Cardinality(U) \in Nat /\ Cardinality(V) \in Nat
  BY <1>1, Members
<1>3. Cardinality(U \cup V) = Cardinality(U) + Cardinality(V) - Cardinality(U \cap V)
  BY <1>2, FS_Union
<1>4. Cardinality(U \cap V) = 0
  BY <1>1, FS_EmptySet
<1>5. Cardinality(U \cup V) = Cardinality(U) + Cardinality(V)
  BY <1>2, <1>3, <1>4
<1> QED BY <1>1, <1>2, <1>5 DEF U, V, Count

(* The members that a byte stands for are as many as its bits.               *)
LEMMA ByteCount ==
  ASSUME NEW m \in Maps, NEW j \in Index
  PROVE  /\ IsFiniteSet(m[j]) /\ Cardinality(m[j]) \in Nat
         /\ Count(Denotes(m), Pos(j, 0), Pos(j + 1, 0)) = Cardinality(m[j])
<1> DEFINE T == Denotes(m) \cap (Pos(j, 0) .. Pos(j + 1, 0) - 1)
           f == [b \in m[j] |-> Pos(j, b)]
<1>1. m[j] \in SUBSET Bits /\ IsFiniteSet(Bits) /\ CHAR_BIT \in Nat \ {0} /\ j \in Nat /\ j + 1 \in Nat
  <2>1. CHAR_BIT \in Nat \ {0}
    BY Constants
  <2>2. 0 \in Int /\ CHAR_BIT - 1 \in Int
    BY <2>1
  <2>3. IsFiniteSet(Bits)
    BY <2>2, FS_Interval DEF Bits
  <2>4. m[j] \in SUBSET Bits
    BY DEF Maps, Byte
  <2> QED BY <2>1, <2>3, <2>4 DEF Index
<1>2. IsFiniteSet(m[j]) /\ Cardinality(m[j]) \in Nat
  BY <1>1, FS_Subset, FS_CardinalityType
<1>3. 0 \in 0 .. CHAR_BIT /\ 0 \in Bits /\ Pos(j, 0) \in Nat /\ Pos(j + 1, 0) \in Nat
  BY <1>1, PosType DEF Bits
<1>4. ASSUME NEW k \in Index, NEW b \in Bits
      PROVE  Pos(k, b) \in Pos(j, 0) .. Pos(j + 1, 0) - 1 <=> k = j
  <2>1. k \in Nat /\ b \in Nat /\ b \in 0 .. CHAR_BIT /\ Pos(k, b) \in Nat
    BY BitPos
  <2>2. Pos(k, b) < Pos(j, 0) <=> (k < j \/ (k = j /\ b < 0))
    BY <1>1, <1>3, <2>1, PosOrder
  <2>3. Pos(k, b) < Pos(j + 1, 0) <=> (k < j + 1 \/ (k = j + 1 /\ b < 0))
    BY <1>1, <1>3, <2>1, PosOrder
  <2> QED BY <1>1, <1>3, <2>1, <2>2, <2>3
<1>5. ASSUME NEW b \in m[j] PROVE Pos(j, b) \in T
  BY <1>1, <1>4, HasBit
<1>6. ASSUME NEW p \in T PROVE \E b \in m[j] : p = Pos(j, b)
  <2>1. p \in Blocks
    BY DenotesType
  <2>2. PICK k \in Index, b \in Bits : p = Pos(k, b)
    BY <2>1, BlockPos
  <2>3. k = j
    BY <1>4, <2>2
  <2> QED BY <2>2, <2>3, HasBit
<1>7. ASSUME NEW b \in m[j], NEW c \in m[j], Pos(j, b) = Pos(j, c) PROVE b = c
  BY <1>1, <1>7, PosBlock
<1> HIDE DEF T
<1>8. f \in Bijection(m[j], T)
  BY <1>5, <1>6, <1>7, Zenon DEF Bijection, Injection, Surjection, IsInjective
<1> HIDE DEF f
<1>9. Cardinality(T) = Cardinality(m[j])
  BY <1>2, <1>8, FS_Bijection DEF ExistsBijection
<1> QED BY <1>2, <1>9 DEF T, Count

(* BlockMapIsAlloc: after n turns, the members from B up to the cursor have  *)
(* been counted.                                                             *)
CountAfter(m, B, C, s, n) ==
  /\ s \in CountVars /\ s.count <= C
  /\ s.count = 0 \/ (s.count <= C - n /\ s.off < CHAR_BIT)
  /\ Pos(s.i, s.off) = B + C - s.count
  /\ s.did = Count(Denotes(m), B, B + C - s.count)

LEMMA CountTurn ==
  ASSUME NEW m \in Maps, NEW B \in Nat, NEW C \in Nat, B + C <= MAXCHUNKSIZE,
         NEW n \in Nat, NEW s, CountAfter(m, B, C, s, n)
  PROVE  CountAfter(m, B, C, CountStep(m)[s], n + 1)
<1> DEFINE i == s.i
           off == s.off
           k == s.count
           p == B + C - k
           t == CountStep(m)[s]
           S == Denotes(m)
<1>1. /\ i \in Index /\ off \in 0 .. CHAR_BIT /\ k \in 0 .. MAXCHUNKSIZE /\ s.did \in Nat
      /\ s = [i |-> i, off |-> off, count |-> k, did |-> s.did] /\ s \in CountVars
  BY DEF CountAfter, CountVars
<1>2. /\ k <= C /\ (k = 0 \/ (k <= C - n /\ off < CHAR_BIT)) /\ Pos(i, off) = p
      /\ s.did = Count(S, B, p)
  BY DEF CountAfter
<1>3. /\ NBytes \in Nat \ {0} /\ CHAR_BIT \in Nat \ {0} /\ MAXCHUNKSIZE \in Nat
      /\ i \in Nat /\ i < NBytes /\ off \in Nat /\ k \in Nat /\ 0 \in 0 .. CHAR_BIT /\ 0 \in Bits
  BY <1>1, Constants DEF Index, Bits
<1>4. p = B + C - k /\ p \in Nat /\ B <= p /\ S \in SUBSET Blocks
  BY <1>2, <1>3, DenotesType
<1> SUFFICES CountAfter(m, B, C, t, n + 1)
  OBVIOUS
<1> HIDE DEF i, off, k, p, t, S
<1>5. CASE k = 0
  <2>1. t = s
    BY <1>1, <1>5 DEF CountStep, t, k
  <2> QED BY <1>1, <1>2, <1>4, <1>5, <2>1 DEF CountAfter, i, off, k, p, S
<1>6. CASE k # 0
  <2> DEFINE whole == off = 0 /\ k >= CHAR_BIT /\ m[i] \in {{}, Bits}
             o == IF whole THEN CHAR_BIT ELSE off + 1
             c == IF whole THEN k - CHAR_BIT ELSE k - 1
             d == IF whole THEN Cardinality(m[i]) ELSE IF off \in m[i] THEN 1 ELSE 0
             next == o = CHAR_BIT /\ c > 0
             j == IF next THEN i + 1 ELSE i
             u == IF next THEN 0 ELSE o
             q == B + C - c
  <2>1. t = [i |-> j, off |-> u, count |-> c, did |-> s.did + d]
    BY <1>1, <1>6 DEF CountStep, t, k, i, off
  <2>2. off < CHAR_BIT /\ off \in Bits
    BY <1>2, <1>3, <1>6 DEF Bits
  <2>3. /\ c \in Nat /\ c < k /\ q \in Nat /\ p <= q /\ o \in 1 .. CHAR_BIT
        /\ q = B + C - c
    BY <1>2, <1>3, <1>4, <1>6, <2>2
  <2>4. Pos(i, o) = q /\ Count(S, p, q) = d /\ d \in Nat
    <3>1. CASE whole
      <4>1. Pos(i, CHAR_BIT) = Pos(i + 1, 0) /\ Pos(i, 0) + CHAR_BIT = Pos(i + 1, 0)
        BY <1>3, PosType
      <4>2. p = Pos(i, 0) /\ q = Pos(i + 1, 0)
        BY <1>2, <1>3, <1>4, <3>1, <4>1
      <4> QED BY <1>1, <3>1, <4>1, <4>2, ByteCount DEF S
    <3>2. CASE ~ whole
      <4>1. p + 1 = Pos(i, off + 1) /\ q = p + 1
        <5>1. Pos(i, off) + 1 = Pos(i, off + 1)
          BY <1>3, PosType
        <5> QED BY <1>2, <1>3, <1>4, <3>2, <5>1
      <4>2. p \in S <=> off \in m[i]
        BY <1>1, <1>2, <2>2, HasBit DEF S
      <4>3. p .. q - 1 = {p}
        BY <1>4, <4>1
      <4>4. S \cap {p} = IF off \in m[i] THEN {p} ELSE {}
        BY <4>2
      <4>5. Cardinality({p}) = 1 /\ Cardinality({}) = 0
        BY FS_Singleton, FS_EmptySet
      <4> QED BY <3>2, <4>1, <4>3, <4>4, <4>5 DEF Count
    <3> QED BY <3>1, <3>2
  <2> HIDE DEF whole, o, c, d, q
  <2>5. s.did + d = Count(S, B, q) /\ s.did + d \in Nat
    <3>1. Count(S, B, q) = Count(S, B, p) + Count(S, p, q)
      BY <1>4, <2>3, CountMore
    <3> QED BY <1>1, <1>2, <2>4, <3>1
  <2>6. j \in Index /\ u \in 0 .. CHAR_BIT /\ Pos(j, u) = q /\ (c > 0 => u < CHAR_BIT)
    <3>1. CASE next
      <4>1. Pos(i + 1, 0) = q
        BY <1>3, <2>4, <3>1, PosType
      <4>2. Pos(i + 1, 0) < Pos(NBytes, 0)
        BY <1>3, <2>3, <3>1, <4>1, Constants
      <4>3. i + 1 < NBytes
        BY <1>3, <4>2, PosOrder
      <4> QED BY <1>3, <3>1, <4>1, <4>3 DEF Index
    <3>2. CASE ~ next
      BY <1>1, <1>3, <2>3, <2>4, <3>2
    <3> QED BY <3>1, <3>2
  <2> HIDE DEF j, u, next
  <2>7. t.i = j /\ t.off = u /\ t.count = c /\ t.did = s.did + d
    BY <2>1
  <2>8. t \in CountVars
    BY <1>1, <1>3, <2>1, <2>3, <2>5, <2>6 DEF CountVars
  <2>9. c <= C /\ (c = 0 \/ (c <= C - (n + 1) /\ u < CHAR_BIT))
    BY <1>2, <1>3, <1>6, <2>3, <2>6
  <2> QED BY <2>3, <2>5, <2>6, <2>7, <2>8, <2>9 DEF CountAfter, S
<1> QED BY <1>5, <1>6

LEMMA IsAllocIs ==
  ASSUME NEW m \in Maps, NEW r \in Ranges
  PROVE  BlockMapIsAlloc(m, r[1], r[2]) = Cardinality(Denotes(m) \cap Sets!Range0(r))
<1> DEFINE B == r[1]
           C == r[2]
<1>1. B \in Nat /\ C \in Nat /\ B < MAXCHUNKSIZE /\ B + C <= MAXCHUNKSIZE
  BY Constants DEF Ranges
<1>2. Sets!Range0(r) = B .. B + C - 1
  BY DEF Sets!Range0
<1>0. Cardinality(Denotes(m) \cap Sets!Range0(r)) = Count(Denotes(m), B, B + C)
  <2> HIDE DEF B, C
  <2> DEFINE T == Denotes(m) \cap Sets!Range0(r)
             c == B + C
  <2>0. B + C - 1 = c - 1
    BY <1>1
  <2>1. T = Denotes(m) \cap (B .. c - 1)
    BY <1>2, <2>0
  <2> HIDE DEF T, c
  <2>2. Cardinality(T) = Count(Denotes(m), B, c)
    BY <2>1, CountIs
  <2> QED BY <2>2 DEF T, c
<1> SUFFICES BlockMapIsAlloc(m, B, C) = Count(Denotes(m), B, B + C)
  BY <1>0
<1> HIDE DEF B, C
<1> DEFINE I == [n \in Nat |-> {s \in CountVars : CountAfter(m, B, C, s, n)}]
           s0 == [i |-> B \div CHAR_BIT, off |-> B % CHAR_BIT, count |-> C, did |-> 0]
           s1 == Loop(CountStep(m), s0)
<1>3. B \in Blocks /\ MAXCHUNKSIZE \in Nat /\ NBytes \in Nat /\ CHAR_BIT \in Nat \ {0}
  BY <1>1, Constants DEF Blocks
<1>4. B \div CHAR_BIT \in Index /\ B % CHAR_BIT \in Bits /\ B = Pos(B \div CHAR_BIT, B % CHAR_BIT)
  BY <1>3, BlockPos
<1>5. CountAfter(m, B, C, s0, 0)
  <2>1. /\ s0.i = B \div CHAR_BIT /\ s0.off = B % CHAR_BIT /\ s0.count = C /\ s0.did = 0
        /\ Pos(s0.i, s0.off) = B /\ s0.off < CHAR_BIT
    BY <1>3, <1>4 DEF Bits
  <2>2. s0 \in CountVars
    BY <1>1, <1>3, <1>4 DEF CountVars, Bits
  <2>3. B .. B + C - C - 1 = {} /\ Cardinality({}) = 0 /\ B + C - C = B /\ C <= C - 0 /\ C <= C
    BY <1>1, FS_EmptySet
  <2> HIDE DEF s0
  <2>4. Count(Denotes(m), B, B + C - C) = 0
    <3> DEFINE c == B + C - C
    <3>1. {} = Denotes(m) \cap (B .. c - 1)
      BY <1>1
    <3> HIDE DEF c
    <3>2. Count(Denotes(m), B, c) = Cardinality({})
      BY <3>1, CountIs
    <3> QED BY <2>3, <3>2 DEF c
  <2> QED BY <1>1, <2>1, <2>2, <2>3, <2>4 DEF CountAfter
<1>6. s0 \in I[0]
  BY <1>5 DEF CountAfter
<1>7. ASSUME NEW n \in Nat, NEW x \in I[n] PROVE CountStep(m)[x] \in I[n + 1]
  <2>1. CountAfter(m, B, C, x, n)
    OBVIOUS
  <2>2. CountAfter(m, B, C, CountStep(m)[x], n + 1)
    BY <1>1, <2>1, CountTurn
  <2> QED BY <2>2 DEF CountAfter
<1>8. s1 \in I[Turns]
  <2> HIDE DEF I, s0
  <2> QED BY <1>6, <1>7, LoopRule
<1>9. CountAfter(m, B, C, s1, Turns) /\ BlockMapIsAlloc(m, B, C) = s1.did
  BY <1>8, Constants DEF BlockMapIsAlloc
<1> HIDE DEF s1
<1>10. s1.count = 0 /\ s1.did = Count(Denotes(m), B, B + C - s1.count)
  BY <1>1, <1>3, <1>9, Constants DEF CountAfter, CountVars
<1>11. B + C - 0 = B + C
  BY <1>1
<1> QED BY <1>9, <1>10, <1>11

---------------------------------------------------------------------------
(* The sum of a function on an interval.                                     *)
LEMMA FunctionSum ==
  ASSUME NEW n \in Nat, NEW h, h \in [0 .. n - 1 -> Int], NEW F, SumsTo(F, h, n)
  PROVE  FoldFunction(+, 0, h) = F[n]
<1> DEFINE D == 0 .. n - 1
           G == CHOOSE k : k = [s \in SUBSET D |->
                  IF s = {} THEN 0
                  ELSE h[CHOOSE x \in s : TRUE] + k[s \ {CHOOSE x \in s : TRUE}]]
<1>1. FoldFunction(+, 0, h) = G[D]
  <2>1. DOMAIN h = D
    OBVIOUS
  <2> HIDE DEF D
  <2> QED BY <2>1, Zenon DEF FoldFunction, FoldFunctionOnSet, MapThenFoldSet
<1>2. IsFiniteSet(D) /\ h \in [D -> Int]
  <2>1. 0 \in Int /\ n - 1 \in Int
    OBVIOUS
  <2> QED BY <2>1, FS_Interval
<1> HIDE DEF D
<1>4. PICK g : Sums(g, h, SUBSET D)
  BY <1>2, SetSumsExist
<1>5. g = [s \in SUBSET D |-> IF s = {} THEN 0 ELSE h[AMember(s)] + g[s \ {AMember(s)}]]
  <2>1. ASSUME NEW s \in SUBSET D
        PROVE  g[s] = IF s = {} THEN 0 ELSE h[AMember(s)] + g[s \ {AMember(s)}]
    BY <1>4 DEF Sums
  <2> QED BY <1>4, <2>1 DEF Sums
<1>6. G = [s \in SUBSET D |-> IF s = {} THEN 0 ELSE h[AMember(s)] + G[s \ {AMember(s)}]]
  BY <1>5, Zenon DEF AMember
<1> HIDE DEF G
<1>7. SumsOver(D, h, G)
  BY <1>2, <1>6 DEF Sums, SumsOver
<1>8. G[D] = F[n]
  BY <1>7, SumInterval DEF D
<1> QED BY <1>1, <1>8

LEMMA MergeIs ==
  ASSUME NEW from \in Maps, NEW to \in Maps, NEW a, a = BlockMapMerge(from, to)
  PROVE  /\ a[1] \in Maps /\ Denotes(a[1]) = Denotes(to) \cup Denotes(from)
         /\ a[2] = Cardinality(Denotes(from) \ Denotes(to))
<1> DEFINE skipped == {i \in Index : from[i] = {} \/ to[i] = Bits \/ from[i] = to[i]}
           new(i) == IF i \in skipped THEN {} ELSE from[i] \ to[i]
           d == [i \in Index |-> from[i] \ to[i]]
           m == [i \in Index |-> to[i] \cup new(i)]
           h == [i \in Index |-> Cardinality(new(i))]
<1>1. a[1] = m /\ a[2] = FoldFunction(+, 0, h)
  BY DEF BlockMapMerge
<1>2. ASSUME NEW i \in Index
      PROVE  new(i) = d[i] /\ from[i] \in SUBSET Bits /\ to[i] \in SUBSET Bits
  <2>1. from[i] \in SUBSET Bits /\ to[i] \in SUBSET Bits
    BY DEF Maps, Byte
  <2> QED BY <2>1
<1>3. m = [i \in Index |-> to[i] \cup d[i]] /\ h = [i \in Index |-> Cardinality(d[i])]
  BY <1>2
<1> HIDE DEF skipped, new
<1>4. d \in Maps /\ m \in Maps
  <2>1. d \in Maps
    BY <1>2 DEF Maps, Byte
  <2> HIDE DEF d, m
  <2> QED BY <1>2, <1>3, <2>1 DEF Maps, Byte
<1>5. ASSUME NEW j \in Index, NEW b \in Bits
      PROVE  /\ b \in d[j] <=> b \in from[j] /\ b \notin to[j]
             /\ b \in m[j] <=> b \in to[j] \/ b \in from[j]
  <2>1. b \in d[j] <=> b \in from[j] /\ b \notin to[j]
    OBVIOUS
  <2>2. m[j] = to[j] \cup d[j]
    BY <1>3
  <2> HIDE DEF m, d
  <2> QED BY <2>1, <2>2
<1> HIDE DEF d, m, h
<1>6. Denotes(m) = Denotes(to) \cup Denotes(from)
  <2> DEFINE T == Denotes(to) \cup Denotes(from)
  <2>1. ASSUME NEW j \in Index, NEW b \in Bits
        PROVE  Pos(j, b) \in Denotes(m) <=> Pos(j, b) \in T
    BY <1>4, <1>5, HasBit
  <2>2. T \in SUBSET Blocks /\ Denotes(m) \in SUBSET Blocks
    BY DenotesType
  <2> HIDE DEF T
  <2> QED BY <2>1, <2>2, SameBits DEF T
<1>7. Denotes(d) = Denotes(from) \ Denotes(to)
  <2> DEFINE T == Denotes(from) \ Denotes(to)
  <2>1. ASSUME NEW j \in Index, NEW b \in Bits
        PROVE  Pos(j, b) \in Denotes(d) <=> Pos(j, b) \in T
    BY <1>4, <1>5, HasBit
  <2>2. T \in SUBSET Blocks /\ Denotes(d) \in SUBSET Blocks
    BY DenotesType
  <2> HIDE DEF T
  <2> QED BY <2>1, <2>2, SameBits DEF T
<1> DEFINE S == Denotes(d)
           F == [k \in 0 .. NBytes |-> Count(S, 0, Pos(k, 0))]
<1>8. S \in SUBSET Blocks /\ NBytes \in Nat /\ 0 \in Nat
  BY DenotesType, Constants
<1>9. ASSUME NEW k \in 0 .. NBytes
      PROVE  Pos(k, 0) \in Nat /\ Count(S, 0, Pos(k, 0)) \in Nat
  <2>1. k \in Nat
    BY <1>8
  <2>2. Pos(k, 0) \in Nat /\ 0 <= Pos(k, 0) /\ Pos(k, 0) <= Pos(k, 0)
    BY <2>1, PosType
  <2> HIDE DEF S
  <2> QED BY <1>8, <2>2, CountMore
<1>10. ASSUME NEW k \in Index PROVE Count(S, 0, Pos(k + 1, 0)) = Count(S, 0, Pos(k, 0)) + h[k]
  <2>1. k \in Nat /\ k + 1 \in Nat /\ k \in 0 .. NBytes /\ k + 1 \in 0 .. NBytes
    BY <1>8 DEF Index
  <2>2. Pos(k, 0) \in Nat /\ Pos(k + 1, 0) \in Nat /\ Pos(k, 0) <= Pos(k + 1, 0) /\ 0 <= Pos(k, 0)
    BY <2>1, PosType, Constants
  <2>3. Count(S, Pos(k, 0), Pos(k + 1, 0)) = h[k]
    BY <1>3, <1>4, ByteCount
  <2> HIDE DEF S
  <2> QED BY <1>8, <2>2, <2>3, CountMore
<1>11. Count(S, 0, Pos(0, 0)) = 0
  <2>1. S \cap (0 .. 0 - 1) = {}
    OBVIOUS
  <2> HIDE DEF S
  <2>2. Count(S, 0, 0) = Cardinality({})
    BY <2>1, CountIs
  <2> QED BY <2>2, Constants, FS_EmptySet
<1>12. S = S \cap (0 .. Pos(NBytes, 0) - 1)
  BY <1>8, Constants DEF Blocks
<1> HIDE DEF S
<1>13. SumsTo(F, h, NBytes)
  <2>1. F \in [0 .. NBytes -> Int] /\ F[0] = 0
    BY <1>8, <1>9, <1>11
  <2>2. ASSUME NEW k \in 0 .. NBytes - 1 PROVE F[k + 1] = F[k] + h[k]
    <3>1. k \in Index /\ k \in 0 .. NBytes /\ k + 1 \in 0 .. NBytes
      BY <1>8 DEF Index
    <3> QED BY <1>10, <3>1
  <2> HIDE DEF F
  <2> QED BY <2>1, <2>2 DEF SumsTo
<1>14. h \in [0 .. NBytes - 1 -> Int]
  <2>1. ASSUME NEW k \in Index PROVE Cardinality(d[k]) \in Int
    BY <1>4, ByteCount
  <2> QED BY <1>3, <2>1 DEF Index
<1>15. F[NBytes] = Cardinality(S)
  <2>1. Count(S, 0, Pos(NBytes, 0)) = Cardinality(S)
    BY <1>12, CountIs
  <2> QED BY <1>8, <2>1
<1> HIDE DEF F
<1>16. FoldFunction(+, 0, h) = Cardinality(S)
  BY <1>8, <1>13, <1>14, <1>15, FunctionSum
<1> QED BY <1>1, <1>4, <1>6, <1>7, <1>16 DEF S

---------------------------------------------------------------------------
(* Runs of a set of blocks.                                                  *)
LEMMA SetsCardinality == \A T : Sets!Cardinality(T) = Cardinality(T)
  BY DEF Sets!Cardinality, Cardinality

LEMMA RunType ==
  ASSUME NEW S \in SUBSET Blocks, NEW r \in Sets!RunSet(S)
  PROVE  /\ r = <<r[1], r[2]>> /\ r[1] \in Nat /\ r[2] \in Nat \ {0}
         /\ r[1] + r[2] <= MAXCHUNKSIZE
         /\ \A x \in Nat : r[1] <= x /\ x < r[1] + r[2] => x \in S
         /\ r[1] - 1 \notin S /\ r[1] + r[2] \notin S /\ r[1] \in S
<1>1. /\ r \in (0 .. MAXCHUNKSIZE - 1) \X (1 .. MAXCHUNKSIZE) /\ r[1] + r[2] <= MAXCHUNKSIZE
      /\ r[1] .. (r[1] + r[2] - 1) \subseteq S /\ r[1] - 1 \notin S /\ r[1] + r[2] \notin S
  BY DEF Sets!RunSet, Sets!Ranges, Sets!Blk, Sets!Range0
<1>2. MAXCHUNKSIZE \in Nat \ {0}
  BY Constants
<1>3. r = <<r[1], r[2]>> /\ r[1] \in 0 .. MAXCHUNKSIZE - 1 /\ r[2] \in 1 .. MAXCHUNKSIZE
  BY <1>1
<1> DEFINE a == r[1]
           c == r[2]
<1>4. a \in Nat /\ c \in Nat \ {0} /\ a .. (a + c - 1) \subseteq S
  BY <1>1, <1>2, <1>3
<1> HIDE DEF a, c
<1>5. \A x \in Nat : a <= x /\ x < a + c => x \in S
  BY <1>4
<1>6. a \in S
  BY <1>4, <1>5
<1> QED BY <1>1, <1>3, <1>4, <1>5, <1>6 DEF a, c

LEMMA RunIs ==
  ASSUME NEW S \in SUBSET Blocks, NEW b \in Nat, NEW c \in Nat \ {0},
         \A x \in Nat : b <= x /\ x < b + c => x \in S, b - 1 \notin S, b + c \notin S
  PROVE  <<b, c>> \in Sets!RunSet(S) /\ b + c <= MAXCHUNKSIZE
<1>1. MAXCHUNKSIZE \in Nat \ {0} /\ S \in SUBSET (0 .. MAXCHUNKSIZE - 1)
  BY Constants DEF Blocks
<1>2. b \in S /\ b + c - 1 \in S
  <2>1. b + c - 1 \in Nat /\ b <= b + c - 1 /\ b + c - 1 < b + c /\ b <= b /\ b < b + c
    OBVIOUS
  <2> QED BY <2>1
<1>3. b + c <= MAXCHUNKSIZE /\ b < MAXCHUNKSIZE /\ c <= MAXCHUNKSIZE
  BY <1>1, <1>2
<1>4. <<b, c>> \in (0 .. MAXCHUNKSIZE - 1) \X (1 .. MAXCHUNKSIZE)
  BY <1>1, <1>3
<1>5. b .. (b + c - 1) \subseteq S
  OBVIOUS
<1> QED BY <1>3, <1>4, <1>5 DEF Sets!RunSet, Sets!Ranges, Sets!Blk, Sets!Range0

(* Two runs are apart.                                                       *)
LEMMA RunsApart ==
  ASSUME NEW S \in SUBSET Blocks, NEW r \in Sets!RunSet(S), NEW q \in Sets!RunSet(S),
         r[1] <= q[1]
  PROVE  r = q \/ r[1] + r[2] < q[1]
<1> DEFINE a == r[1]
           c == r[2]
           b == q[1]
           d == q[2]
<1>1. /\ r = <<a, c>> /\ a \in Nat /\ c \in Nat \ {0}
      /\ \A x \in Nat : a <= x /\ x < a + c => x \in S
      /\ a + c \notin S
  BY RunType
<1>2. /\ q = <<b, d>> /\ b \in Nat /\ d \in Nat \ {0}
      /\ \A x \in Nat : b <= x /\ x < b + d => x \in S
      /\ b - 1 \notin S /\ b + d \notin S /\ b \in S
  BY RunType
<1>3. a <= b
  OBVIOUS
<1> SUFFICES r = q \/ a + c < b
  OBVIOUS
<1> HIDE DEF a, b, c, d
<1>4. b # a + c
  BY <1>1, <1>2
<1>5. CASE a < b /\ b < a + c
  <2>1. b - 1 \in Nat /\ a <= b - 1 /\ b - 1 < a + c
    BY <1>1, <1>2, <1>5
  <2> QED BY <1>1, <1>2, <2>1
<1>6. CASE a = b
  <2>1. ~ (c < d)
    BY <1>1, <1>2, <1>6
  <2>2. ~ (d < c)
    BY <1>1, <1>2, <1>6
  <2>3. c = d
    BY <1>1, <1>2, <2>1, <2>2
  <2> QED BY <1>1, <1>2, <1>6, <2>3
<1> QED BY <1>1, <1>2, <1>3, <1>4, <1>5, <1>6

LEMMA RunsFinite ==
  ASSUME NEW S \in SUBSET Blocks, NEW T \in SUBSET Sets!RunSet(S)
  PROVE  IsFiniteSet(T) /\ Cardinality(T) \in Nat
<1> DEFINE f == [r \in T |-> r[1]]
<1>1. ASSUME NEW r \in T PROVE r[1] \in S
  BY RunType
<1>2. ASSUME NEW r \in T, NEW q \in T, r[1] = q[1] PROVE r = q
  <2>1. r[1] \in Nat /\ q[1] \in Nat /\ r[2] \in Nat
    BY RunType
  <2>2. r[1] <= q[1] /\ ~ (r[1] + r[2] < q[1])
    BY <1>2, <2>1
  <2> QED BY <2>2, RunsApart
<1>3. f \in Injection(T, S)
  BY <1>1, <1>2, Zenon DEF Injection, IsInjective
<1> HIDE DEF f
<1>4. IsFiniteSet(T)
  BY <1>3, Members, FS_Injection
<1> QED BY <1>4, FS_CardinalityType

LEMMA BeforeType ==
  ASSUME NEW S \in SUBSET Blocks, NEW x
  PROVE  /\ Sets!Before(S, x) \in SUBSET Sets!RunSet(S)
         /\ IsFiniteSet(Sets!Before(S, x)) /\ Cardinality(Sets!Before(S, x)) \in Nat
<1>1. Sets!Before(S, x) \in SUBSET Sets!RunSet(S)
  BY DEF Sets!Before
<1> QED BY <1>1, RunsFinite

(* A run that ends is one more.                                              *)
LEMMA OneMore ==
  ASSUME NEW S \in SUBSET Blocks, NEW r \in Sets!RunSet(S), NEW x \in Nat,
         r[1] < x, \A q \in Sets!RunSet(S) : q[1] < x => q[1] <= r[1]
  PROVE  /\ Sets!Before(S, x) = Sets!Before(S, r[1]) \cup {r}
         /\ Cardinality(Sets!Before(S, x)) = Cardinality(Sets!Before(S, r[1])) + 1
<1>1. ASSUME NEW q \in Sets!RunSet(S)
      PROVE  q[1] < x <=> (q[1] < r[1] \/ q = r)
  <2>1. q[1] \in Nat /\ r[1] \in Nat /\ q[2] \in Nat
    BY RunType
  <2>2. q[1] < x => q[1] <= r[1]
    OBVIOUS
  <2>3. q[1] = r[1] => q = r
    <3> SUFFICES ASSUME q[1] = r[1] PROVE q = r
      OBVIOUS
    <3>1. q[1] <= r[1] /\ ~ (q[1] + q[2] < r[1])
      BY <2>1
    <3> QED BY <3>1, RunsApart
  <2> QED BY <2>1, <2>2, <2>3
<1>2. Sets!Before(S, x) = Sets!Before(S, r[1]) \cup {r}
  BY <1>1 DEF Sets!Before
<1>3. r \notin Sets!Before(S, r[1])
  <2>1. r[1] \in Nat
    BY RunType
  <2> QED BY <2>1 DEF Sets!Before
<1> QED BY <1>2, <1>3, BeforeType, FS_AddElement

(* The run with k - 1 runs before it is the k-th.                            *)
LEMMA RunAt ==
  ASSUME NEW S \in SUBSET Blocks, NEW r \in Sets!RunSet(S),
         NEW k, k = Cardinality(Sets!Before(S, r[1])) + 1
  PROVE  /\ k \in 1 .. Cardinality(Sets!RunSet(S))
         /\ Sets!Runs(S)[k] = r
<1> DEFINE rank(q) == Cardinality(Sets!Before(S, q[1]))
           R == Sets!RunSet(S)
<1>1. IsFiniteSet(R) /\ Cardinality(R) \in Nat
  BY RunsFinite
<1>2. ASSUME NEW q \in R
      PROVE  /\ rank(q) \in Nat /\ rank(q) < Cardinality(R) /\ q \notin Sets!Before(S, q[1])
             /\ IsFiniteSet(Sets!Before(S, q[1]) \cup {q})
             /\ Cardinality(Sets!Before(S, q[1]) \cup {q}) = rank(q) + 1
  <2>1. q \notin Sets!Before(S, q[1])
    <3>1. q[1] \in Nat
      BY RunType
    <3> QED BY <3>1 DEF Sets!Before
  <2> DEFINE T == Sets!Before(S, q[1])
  <2>2. T \in SUBSET R /\ IsFiniteSet(T) /\ Cardinality(T) \in Nat
    BY BeforeType
  <2> HIDE DEF T, R
  <2>3. IsFiniteSet(T \cup {q}) /\ Cardinality(T \cup {q}) = Cardinality(T) + 1 /\ T \cup {q} \in SUBSET R
    <3>1. q \notin T
      BY <2>1 DEF T
    <3> QED BY <2>2, <3>1, FS_AddElement
  <2>4. Cardinality(T \cup {q}) <= Cardinality(R)
    BY <1>1, <2>3, FS_Subset
  <2>5. Cardinality(T) < Cardinality(R)
    BY <1>1, <2>2, <2>3, <2>4
  <2> QED BY <2>1, <2>2, <2>3, <2>5 DEF T
<1>3. ASSUME NEW q \in R, NEW u \in R, q[1] < u[1] PROVE rank(q) < rank(u)
  <2> DEFINE T == Sets!Before(S, q[1]) \cup {q}
             U == Sets!Before(S, u[1])
  <2>1. T \in SUBSET U
    <3>1. ASSUME NEW v \in R, v[1] < q[1] PROVE v[1] < u[1]
      <4>1. v[1] \in Nat /\ q[1] \in Nat /\ u[1] \in Nat
        BY RunType
      <4> QED BY <1>3, <3>1, <4>1
    <3> QED BY <1>3, <3>1 DEF Sets!Before
  <2>2. IsFiniteSet(U) /\ Cardinality(U) \in Nat
    BY BeforeType
  <2>3. Cardinality(T) = rank(q) + 1 /\ rank(q) \in Nat
    BY <1>2
  <2>5. Cardinality(U) = rank(u)
    OBVIOUS
  <2> HIDE DEF T, U, rank
  <2>4. Cardinality(T) <= Cardinality(U)
    BY <2>1, <2>2, FS_Subset
  <2> QED BY <2>2, <2>3, <2>4, <2>5
<1>4. ASSUME NEW q \in R, rank(q) = rank(r) PROVE q = r
  <2>1. q[1] \in Nat /\ r[1] \in Nat /\ q[2] \in Nat /\ rank(q) \in Nat
    BY RunType, <1>2
  <2> HIDE DEF rank
  <2>2. ~ (q[1] < r[1]) /\ ~ (r[1] < q[1])
    BY <1>3, <1>4, <2>1
  <2>3. q[1] <= r[1] /\ ~ (q[1] + q[2] < r[1])
    BY <2>1, <2>2
  <2> QED BY <2>3, RunsApart DEF R
<1>5. rank(r) \in Nat /\ rank(r) < Cardinality(R) /\ k = rank(r) + 1
  BY <1>2
<1>6. k \in 1 .. Cardinality(R) /\ k - 1 = rank(r)
  <2> HIDE DEF rank, R
  <2> QED BY <1>1, <1>5
<1> DEFINE C(i) == CHOOSE q \in R : rank(q) = i - 1
<1>7. Sets!Runs(S) = [i \in 1 .. Cardinality(R) |-> C(i)]
  BY SetsCardinality DEF Sets!Runs
<1>8. C(k) = r
  <2> HIDE DEF rank
  <2> QED BY <1>4, <1>6
<1> HIDE DEF C, R
<1>9. Sets!Runs(S)[k] = r
  BY <1>6, <1>7, <1>8
<1> QED BY <1>6, <1>9 DEF R

(* The first run starts with the least block.                                *)
LEMMA RunFrom ==
  ASSUME NEW S \in SUBSET Blocks, NEW x \in S, x - 1 \notin S
  PROVE  \E r \in Sets!RunSet(S) : r[1] = x
<1>1. MAXCHUNKSIZE \in Nat \ {0} /\ x \in Nat /\ x < MAXCHUNKSIZE /\ MAXCHUNKSIZE \notin S
  BY Constants DEF Blocks
<1> DEFINE G == {y \in Nat : x < y /\ y \notin S}
<1>2. G \in SUBSET Nat /\ MAXCHUNKSIZE \in G
  BY <1>1
<1> HIDE DEF G
<1>3. PICK y \in G : \A z \in G : y <= z
  BY <1>2, LeastExists
<1>4. y \in Nat /\ x < y /\ y \notin S
  BY DEF G
<1>5. ASSUME NEW z \in Nat, x <= z, z < y PROVE z \in S
  <2>1. z \notin G
    BY <1>3, <1>4, <1>5
  <2>2. CASE z = x
    BY <2>2
  <2>3. CASE z # x
    BY <1>1, <1>5, <2>1, <2>3 DEF G
  <2> QED BY <2>2, <2>3
<1>6. y - x \in Nat \ {0} /\ x + (y - x) = y
  BY <1>1, <1>4
<1>7. <<x, y - x>> \in Sets!RunSet(S)
  BY <1>1, <1>4, <1>5, <1>6, RunIs
<1> QED BY <1>7

LEMMA FirstRun ==
  ASSUME NEW S \in SUBSET Blocks, NEW r \in Sets!RunSet(S), \A y \in S : r[1] <= y
  PROVE  Sets!Runs(S)[1] = r
<1>1. ASSUME NEW q \in Sets!RunSet(S) PROVE ~ (q[1] < r[1])
  <2>1. q[1] \in S /\ q[1] \in Nat /\ r[1] \in Nat
    BY RunType
  <2> QED BY <2>1
<1>2. Sets!Before(S, r[1]) = {}
  BY <1>1 DEF Sets!Before
<1>3. Cardinality(Sets!Before(S, r[1])) + 1 = 1
  BY <1>2, FS_EmptySet
<1> QED BY <1>3, RunAt

(* The runs are a sequence.                                                  *)
LEMMA RunsSeq ==
  ASSUME NEW S \in SUBSET Blocks
  PROVE  /\ Sets!Runs(S) \in Seq(UNION {{Sets!Runs(S)[i]} : i \in DOMAIN Sets!Runs(S)})
         /\ Len(Sets!Runs(S)) = Cardinality(Sets!RunSet(S))
         /\ DOMAIN Sets!Runs(S) = 1 .. Cardinality(Sets!RunSet(S))
         /\ Sets!Runs(S) = [i \in 1 .. Cardinality(Sets!RunSet(S)) |-> Sets!Runs(S)[i]]
         /\ Cardinality(Sets!RunSet(S)) \in Nat
<1> DEFINE N == Cardinality(Sets!RunSet(S))
           f == Sets!Runs(S)
<1>1. N \in Nat
  BY RunsFinite
<1>2. f = [i \in 1 .. N |-> f[i]]
  BY SetsCardinality DEF Sets!Runs
<1> HIDE DEF N, f
<1> DEFINE V == UNION {{f[i]} : i \in DOMAIN f}
<1>3. f \in [1 .. N -> V]
  BY <1>2, Zenon
<1> HIDE DEF V
<1>4. f \in Seq(V) /\ Len(f) = N
  BY <1>1, <1>3
<1> QED BY <1>1, <1>2, <1>3, <1>4 DEF N, f, V

(* BlockMapFirst.                                                            *)
LEMMA FirstByteIs ==
  ASSUME NEW m \in Maps
  PROVE  /\ FirstByte(m) \in 0 .. NBytes
         /\ \A j \in Index : j < FirstByte(m) => m[j] = {}
         /\ FirstByte(m) # NBytes => FirstByte(m) \in Index /\ m[FirstByte(m)] # {}
<1> DEFINE used == {i \in Index : m[i] # {}}
           f == CHOOSE i \in used : \A j \in used : i <= j
<1>1. FirstByte(m) = IF used = {} THEN NBytes ELSE f
  BY DEF FirstByte
<1>2. NBytes \in Nat \ {0} /\ used \in SUBSET Nat /\ used \in SUBSET Index
  BY Constants DEF Index
<1>3. CASE used = {}
  <2>1. FirstByte(m) = NBytes
    BY <1>1, <1>3
  <2> QED BY <1>2, <1>3, <2>1
<1>4. CASE used # {}
  <2>1. f \in used /\ \A j \in used : f <= j
    <3> HIDE DEF used
    <3> QED BY <1>2, <1>4, LeastExists
  <2>2. FirstByte(m) = f
    BY <1>1, <1>4
  <2> HIDE DEF f
  <2>3. f \in Index /\ m[f] # {} /\ f \in 0 .. NBytes
    BY <1>2, <2>1 DEF Index
  <2>4. ASSUME NEW j \in Index, j < f PROVE m[j] = {}
    BY <1>2, <2>1, <2>4
  <2> QED BY <2>2, <2>3, <2>4
<1> QED BY <1>3, <1>4

LEMMA FirstIs ==
  ASSUME NEW m \in Maps
  PROVE  BlockMapFirst(m) = IF Denotes(m) = {} THEN MAXCHUNKSIZE ELSE Sets!Runs(Denotes(m))[1][1]
<1> DEFINE i == FirstByte(m)
           S == Denotes(m)
           b == CHOOSE u \in m[i] : \A c \in m[i] : u <= c
<1>1. BlockMapFirst(m) = IF i = NBytes THEN MAXCHUNKSIZE ELSE Pos(i, b)
  BY DEF BlockMapFirst, Pos
<1>2. /\ i \in 0 .. NBytes /\ \A j \in Index : j < i => m[j] = {}
      /\ i # NBytes => i \in Index /\ m[i] # {}
  BY FirstByteIs
<1>3. S \in SUBSET Blocks
  BY DenotesType
<1> HIDE DEF i
<1>4. CASE i = NBytes
  <2>1. ASSUME NEW p \in S PROVE FALSE
    <3>1. p \in Blocks /\ p \div CHAR_BIT \in Index /\ p % CHAR_BIT \in m[p \div CHAR_BIT]
      BY <1>3, BlockPos DEF Denotes, IsSet
    <3>2. p \div CHAR_BIT < NBytes
      BY <3>1, Constants DEF Index
    <3> QED BY <1>2, <1>4, <3>1, <3>2
  <2> QED BY <1>1, <1>4, <2>1
<1>5. CASE i # NBytes
  <2>1. i \in Index /\ m[i] # {} /\ m[i] \in SUBSET Bits /\ m[i] \in SUBSET Nat
    BY <1>2, <1>5, Constants DEF Maps, Byte, Bits
  <2>2. b \in m[i] /\ \A c \in m[i] : b <= c
    BY <2>1, LeastExists
  <2> HIDE DEF b
  <2>3. Pos(i, b) \in S /\ b \in Bits
    BY <2>1, <2>2, HasBit
  <2>4. ASSUME NEW p \in S PROVE Pos(i, b) <= p
    <3>1. PICK j \in Index, c \in Bits : p = Pos(j, c)
      BY <1>3, BlockPos
    <3>2. c \in m[j] /\ ~ (j < i)
      BY <1>2, <3>1, HasBit
    <3>3. j = i => b <= c
      BY <2>2, <3>2
    <3>4. j \in Nat /\ i \in Nat /\ b \in Nat /\ c \in Nat /\ Pos(j, c) \in Nat /\ Pos(i, b) \in Nat
          /\ b \in 0 .. CHAR_BIT
      BY <2>1, <2>3, BitPos
    <3>5. Pos(j, c) < Pos(i, b) <=> (j < i \/ (j = i /\ c < b))
      BY <3>4, PosOrder
    <3> QED BY <3>1, <3>2, <3>3, <3>4, <3>5
  <2> DEFINE x == Pos(i, b)
  <2>5. x \in S /\ x \in Nat /\ \A p \in S : x <= p
    BY <2>1, <2>3, <2>4, BitPos
  <2> HIDE DEF x, S
  <2>6. x - 1 \notin S
    BY <2>5
  <2>7. PICK r \in Sets!RunSet(S) : r[1] = x
    BY <1>3, <2>5, <2>6, RunFrom
  <2>8. Sets!Runs(S)[1] = r
    BY <1>3, <2>5, <2>7, FirstRun
  <2>9. S # {}
    BY <2>5
  <2> QED BY <1>1, <1>5, <2>7, <2>8, <2>9 DEF x, S
<1> QED BY <1>4, <1>5

---------------------------------------------------------------------------
(* The number of turns before a cursor; it bounds every loop.                *)
Turn(i, b) == i * (CHAR_BIT + 1) + b

LEMMA TurnMore ==
  ASSUME NEW i \in 0 .. NBytes, NEW b \in 0 .. CHAR_BIT
  PROVE  /\ Turn(i, b) \in Nat /\ Turn(i, b + 1) = Turn(i, b) + 1
         /\ Turn(i + 1, 0) >= Turn(i, b) + 1
         /\ Turn(i, CHAR_BIT) >= Turn(i, b)
         /\ Turn(i, b) >= Turns => i = NBytes
<1>1. NBytes \in Nat /\ CHAR_BIT \in Nat /\ i \in Nat /\ b \in Nat /\ b <= CHAR_BIT /\ i <= NBytes
  BY Constants
<1> DEFINE w == CHAR_BIT + 1
<1>2. /\ i * w \in Nat /\ (i + 1) * w = i * w + w /\ NBytes * w \in Nat
      /\ w \in Nat /\ b < w /\ CHAR_BIT = w - 1
  BY <1>1
<1>3. i < NBytes => (i + 1) * w <= NBytes * w
  <2> SUFFICES ASSUME i < NBytes PROVE (i + 1) * w <= NBytes * w
    OBVIOUS
  <2>1. (NBytes - (i + 1)) * w >= 0
    BY <1>1, <1>2
  <2>2. (NBytes - (i + 1)) * w = NBytes * w - (i + 1) * w
    BY <1>1, <1>2
  <2> QED BY <1>1, <1>2, <2>1, <2>2
<1>4. /\ Turn(i, b) = i * w + b /\ Turn(i, b + 1) = i * w + (b + 1)
      /\ Turn(i + 1, 0) = (i + 1) * w + 0
      /\ Turn(i, CHAR_BIT) = i * w + CHAR_BIT /\ Turns = NBytes * w
  BY DEF Turn, Turns
<1> HIDE DEF w
<1> QED BY <1>1, <1>2, <1>3, <1>4

(* BlockMapExtract: while no block has been found there is none up to the    *)
(* cursor; then the blocks from the first one up to the cursor are taken.    *)
ExtractDone(s) ==
  s.i = NBytes \/ (s.count > 0 /\ s.bit # CHAR_BIT /\ s.bit \notin s.m[s.i])

ExtractAfter(m0, s, n) ==
  /\ s \in ExtractVars /\ (s.i = NBytes => s.bit = 0)
  /\ s.count = 0 => s.m = m0 /\ \A x \in Denotes(m0) : Pos(s.i, s.bit) <= x
  /\ s.count > 0 =>
       /\ s.block + s.count = Pos(s.i, s.bit)
       /\ \A x \in Nat : s.block <= x /\ x < Pos(s.i, s.bit) => x \in Denotes(m0)
       /\ \A x \in Denotes(m0) : s.block <= x
       /\ \A x : x \in Denotes(s.m) <=> x \in Denotes(m0) /\ Pos(s.i, s.bit) <= x
  /\ ExtractDone(s) \/ Turn(s.i, s.bit) >= n

LEMMA ExtractTurn ==
  ASSUME NEW m0 \in Maps, NEW n \in Nat, NEW s, ExtractAfter(m0, s, n)
  PROVE  ExtractAfter(m0, ExtractStep[s], n + 1)
<1> DEFINE i == s.i
           b == s.bit
           c == s.count
           k == s.block
           m == s.m
           p == Pos(i, b)
           t == ExtractStep[s]
           S == Denotes(m0)
<1>1. /\ m \in Maps /\ i \in 0 .. NBytes /\ b \in 0 .. CHAR_BIT /\ k \in Nat /\ c \in Nat
      /\ s = [m |-> m, i |-> i, bit |-> b, block |-> k, count |-> c] /\ s \in ExtractVars
  BY DEF ExtractAfter, ExtractVars, Maps
<1>2. /\ i = NBytes => b = 0
      /\ c = 0 => m = m0 /\ \A x \in S : p <= x
      /\ c > 0 => /\ k + c = p
                  /\ \A x \in Nat : k <= x /\ x < p => x \in S
                  /\ \A x \in S : k <= x
                  /\ \A x : x \in Denotes(m) <=> x \in S /\ p <= x
      /\ (i = NBytes \/ (c > 0 /\ b # CHAR_BIT /\ b \notin m[i])) \/ Turn(i, b) >= n
  BY DEF ExtractAfter, ExtractDone
<1>3. /\ NBytes \in Nat \ {0} /\ CHAR_BIT \in Nat \ {0} /\ i \in Nat /\ b \in Nat
      /\ i <= NBytes /\ b <= CHAR_BIT /\ 0 \in Bits /\ 0 \in 0 .. CHAR_BIT
  BY <1>1, Constants DEF Bits
<1>4. p \in Nat /\ S \in SUBSET Blocks /\ S \in SUBSET Nat /\ p = Pos(i, b)
  <2>1. S \in SUBSET Blocks /\ Blocks \in SUBSET Nat
    BY DenotesType, Constants DEF Blocks
  <2>2. Pos(i, b) \in Nat
    BY <1>3, PosType
  <2> QED BY <2>1, <2>2
<1>5. t = IF i = NBytes THEN s
          ELSE IF b = CHAR_BIT THEN [s EXCEPT !.i = @ + 1, !.bit = 0]
          ELSE IF b \in m[i]
          THEN [s EXCEPT !.m[i] = @ \ {b}, !.bit = @ + 1,
                         !.block = IF c = 0 THEN p ELSE @, !.count = @ + 1]
          ELSE IF c > 0 THEN s
          ELSE IF m[i] = {} THEN [s EXCEPT !.i = @ + 1, !.bit = 0]
          ELSE [s EXCEPT !.bit = @ + 1]
  BY <1>1 DEF ExtractStep, Pos
<1> SUFFICES ExtractAfter(m0, t, n + 1)
  OBVIOUS
<1>6. CASE i = NBytes \/ (c > 0 /\ b # CHAR_BIT /\ b \notin m[i])
  <2>1. t = s
    <3> HIDE DEF i, b, c, k, m, p, t, S
    <3> QED BY <1>5, <1>6
  <2>2. ExtractAfter(m0, s, n + 1)
    BY <1>6 DEF ExtractAfter, ExtractDone
  <2> QED BY <2>1, <2>2
<1> HIDE DEF i, b, c, k, m, p, t, S
<1>7. ASSUME i # NBytes, ~ (c > 0 /\ b # CHAR_BIT /\ b \notin m[i])
      PROVE  ExtractAfter(m0, t, n + 1)
  <2>1. i \in Index /\ m[i] \in SUBSET Bits /\ i + 1 \in 0 .. NBytes /\ Turn(i, b) >= n
    BY <1>1, <1>2, <1>3, <1>7 DEF Index, Maps, Byte
  <2>2. /\ Turn(i, b) \in Nat /\ Turn(i, b + 1) = Turn(i, b) + 1 /\ Turn(i + 1, 0) >= Turn(i, b) + 1
    BY <1>1, TurnMore
  <2>3. Turn(i, b + 1) >= n + 1 /\ (Turn(i + 1, 0) \in Int => Turn(i + 1, 0) >= n + 1)
    BY <2>1, <2>2
  <2>4. Turn(i + 1, 0) >= n + 1
    <3>1. Turn(i + 1, 0) \in Nat
      BY <1>3, <2>1, TurnMore
    <3> QED BY <2>3, <3>1
  \* The cursor moves to a later position q, and no member is passed over.
  <2>6. ASSUME NEW j \in 0 .. NBytes, NEW d \in 0 .. CHAR_BIT,
               t = [m |-> m, i |-> j, bit |-> d, block |-> k, count |-> c],
               j = NBytes => d = 0, Turn(j, d) >= n + 1,
               c > 0 => Pos(j, d) = p,
               c = 0 => \A x \in S : p <= x => Pos(j, d) <= x
        PROVE  ExtractAfter(m0, t, n + 1)
    <3>1. t.m = m /\ t.i = j /\ t.bit = d /\ t.block = k /\ t.count = c
      BY <2>6
    <3>2. t \in ExtractVars
      BY <1>1, <2>6 DEF ExtractVars, Maps
    <3>3. c = 0 => m = m0 /\ \A x \in S : Pos(j, d) <= x
      BY <1>2, <2>6
    <3>4. c > 0 => /\ k + c = Pos(j, d)
                   /\ \A x \in Nat : k <= x /\ x < Pos(j, d) => x \in S
                   /\ \A x \in S : k <= x
                   /\ \A x : x \in Denotes(m) <=> x \in S /\ Pos(j, d) <= x
      BY <1>2, <2>6
    <3> QED BY <2>6, <3>1, <3>2, <3>3, <3>4 DEF ExtractAfter, S
  <2>7. CASE b = CHAR_BIT
    <3>1. t = [m |-> m, i |-> i + 1, bit |-> 0, block |-> k, count |-> c]
      <4>1. t = [s EXCEPT !.i = @ + 1, !.bit = 0]
        BY <1>5, <1>7, <2>7
      <4> QED BY <1>1, <4>1
    <3>2. Pos(i + 1, 0) = p
      BY <1>3, <1>4, <2>7, PosType
    <3> QED BY <1>3, <2>1, <2>4, <2>6, <3>1, <3>2
  <2>8. CASE b # CHAR_BIT /\ b \in m[i]
    <3> DEFINE M == [m EXCEPT ![i] = @ \ {b}]
               K == IF c = 0 THEN p ELSE k
    <3>1. t = [m |-> M, i |-> i, bit |-> b + 1, block |-> K, count |-> c + 1]
      <4>1. t = [s EXCEPT !.m[i] = @ \ {b}, !.bit = @ + 1,
                          !.block = IF c = 0 THEN p ELSE @, !.count = @ + 1]
        BY <1>5, <1>7, <2>8
      <4> QED BY <1>1, <4>1
    <3>2. b \in Bits /\ b + 1 \in 0 .. CHAR_BIT
      BY <1>3, <2>8 DEF Bits
    <3>3. M \in Maps
      BY <1>1, <2>1 DEF Maps, Byte
    <3>4. p + 1 = Pos(i, b + 1) /\ p \in Denotes(m)
      BY <1>1, <1>3, <1>4, <2>1, <2>8, <3>2, PosType, HasBit
    <3>5. Denotes(M) = Denotes(m) \ {p}
      <4> DEFINE T == Denotes(m) \ {p}
      <4>1. ASSUME NEW j \in Index, NEW d \in Bits
            PROVE  Pos(j, d) \in Denotes(M) <=> Pos(j, d) \in T
        <5>1. d \in M[j] <=> d \in m[j] /\ ~ (j = i /\ d = b)
          BY <1>1, <2>1 DEF Maps
        <5>2. Pos(j, d) = p <=> j = i /\ d = b
          <6>1. Pos(j, d) = p => j = i /\ d = b
            BY <1>4, <2>1, <3>2, PosBlock
          <6> QED BY <1>4, <6>1
        <5> HIDE DEF M
        <5> QED BY <1>1, <3>3, <5>1, <5>2, HasBit
      <4>2. T \in SUBSET Blocks /\ Denotes(M) \in SUBSET Blocks
        BY DenotesType
      <4> HIDE DEF T, M
      <4> QED BY <4>1, <4>2, SameBits DEF T
    <3>6. K \in Nat /\ K <= p /\ K + (c + 1) = p + 1
      BY <1>1, <1>2, <1>4
    <3>7. p \in S /\ \A x \in S : K <= x
      <4>1. CASE c = 0
        BY <1>2, <3>4, <4>1 DEF S
      <4>2. CASE c # 0
        BY <1>1, <1>2, <3>4, <4>2 DEF S
      <4> QED BY <4>1, <4>2
    <3>8. \A x \in Nat : K <= x /\ x < p + 1 => x \in S
      <4> SUFFICES ASSUME NEW x \in Nat, K <= x, x < p + 1 PROVE x \in S
        OBVIOUS
      <4>1. CASE x = p
        BY <3>7, <4>1
      <4>2. CASE x # p
        <5>1. x < p /\ K < p
          BY <1>4, <3>6, <4>2
        <5>2. c > 0 /\ k <= x
          BY <1>1, <1>4, <5>1
        <5> QED BY <1>2, <5>1, <5>2
      <4> QED BY <4>1, <4>2
    <3>9. ASSUME NEW x PROVE x \in Denotes(M) <=> x \in S /\ p + 1 <= x
      <4>1. x \in Denotes(m) <=> x \in S /\ p <= x
        <5>1. CASE c = 0
          BY <1>2, <5>1 DEF S
        <5>2. CASE c # 0
          BY <1>1, <1>2, <5>2
        <5> QED BY <5>1, <5>2
      <4>2. x \in S => (p + 1 <= x <=> p <= x /\ x # p)
        BY <1>4
      <4> QED BY <3>5, <4>1, <4>2
    <3> HIDE DEF M, K
    <3>10. t.m = M /\ t.i = i /\ t.bit = b + 1 /\ t.block = K /\ t.count = c + 1
      BY <3>1
    <3>11. t \in ExtractVars
      <4>1. c + 1 \in Nat
        BY <1>1
      <4> QED BY <1>1, <3>1, <3>2, <3>3, <3>6, <4>1 DEF ExtractVars, Maps
    <3>12. c + 1 # 0 /\ c + 1 > 0
      BY <1>1
    <3>13. Pos(t.i, t.bit) = p + 1 /\ t.i # NBytes /\ Turn(t.i, t.bit) >= n + 1
      BY <1>7, <2>3, <3>4, <3>10
    <3> HIDE DEF t
    <3> QED BY <3>6, <3>7, <3>8, <3>9, <3>10, <3>11, <3>12, <3>13 DEF ExtractAfter, S
  <2>9. CASE b # CHAR_BIT /\ b \notin m[i]
    <3>0. c = 0 /\ m = m0 /\ b \in Bits
      BY <1>1, <1>2, <1>3, <1>7, <2>9 DEF Bits
    <3>1. CASE m[i] = {}
      <4>1. t = [m |-> m, i |-> i + 1, bit |-> 0, block |-> k, count |-> c]
        <5>1. t = [s EXCEPT !.i = @ + 1, !.bit = 0]
          BY <1>5, <1>7, <2>9, <3>0, <3>1
        <5> QED BY <1>1, <5>1
      <4>2. ASSUME NEW x \in S, p <= x PROVE Pos(i + 1, 0) <= x
        <5>1. PICK j \in Index, d \in Bits : x = Pos(j, d)
          BY <1>4, BlockPos
        <5>2. j # i
          BY <3>0, <3>1, <5>1, HasBit DEF S
        <5>3. j \in Nat /\ d \in Nat /\ x \in Nat /\ i + 1 \in Nat /\ Pos(i + 1, 0) \in Nat
          <6>1. i + 1 \in Nat
            BY <1>3
          <6>2. Pos(i + 1, 0) \in Nat
            BY <6>1, PosType
          <6> QED BY <5>1, <6>1, <6>2, BitPos
        <5>4. x < p <=> (j < i \/ (j = i /\ d < b))
          BY <1>1, <1>3, <1>4, <5>1, <5>3, PosOrder
        <5>5. x < Pos(i + 1, 0) <=> (j < i + 1 \/ (j = i + 1 /\ d < 0))
          BY <1>3, <5>1, <5>3, PosOrder
        <5> QED BY <1>3, <1>4, <4>2, <5>2, <5>3, <5>4, <5>5
      <4> QED BY <1>3, <2>1, <2>4, <2>6, <3>0, <4>1, <4>2
    <3>2. CASE m[i] # {}
      <4>1. t = [m |-> m, i |-> i, bit |-> b + 1, block |-> k, count |-> c]
        <5>1. t = [s EXCEPT !.bit = @ + 1]
          BY <1>5, <1>7, <2>9, <3>0, <3>2
        <5> QED BY <1>1, <5>1
      <4>2. p + 1 = Pos(i, b + 1) /\ p \notin S
        BY <1>3, <1>4, <2>1, <2>9, <3>0, PosType, HasBit DEF S
      <4>3. ASSUME NEW x \in S, p <= x PROVE Pos(i, b + 1) <= x
        BY <1>4, <4>2, <4>3
      <4>4. b + 1 \in 0 .. CHAR_BIT
        BY <1>3, <2>9
      <4> QED BY <1>1, <1>7, <2>3, <2>6, <3>0, <4>1, <4>3, <4>4
    <3> QED BY <3>1, <3>2
  <2> QED BY <2>7, <2>8, <2>9
<1> QED BY <1>6, <1>7

LEMMA ExtractIs ==
  ASSUME NEW m0 \in Maps, NEW x, x = BlockMapExtract(m0)
  PROVE  /\ x[1] \in Maps
         /\ Denotes(m0) = {} => x[2] = 0 /\ Denotes(x[1]) = {}
         /\ Denotes(m0) # {} => /\ x[2] # 0 /\ Sets!Runs(Denotes(m0))[1] = <<x[3], x[2]>>
                                /\ Denotes(x[1]) = Denotes(m0) \ Sets!Range0(<<x[3], x[2]>>)
<1> DEFINE I == [n \in Nat |-> {s \in ExtractVars : ExtractAfter(m0, s, n)}]
           f == FirstByte(m0)
           s0 == [m |-> m0, i |-> f, bit |-> 0, block |-> 0, count |-> 0]
           s1 == Loop(ExtractStep, s0)
           S == Denotes(m0)
<1>1. /\ f \in 0 .. NBytes /\ \A j \in Index : j < f => m0[j] = {}
  BY FirstByteIs
<1>2. /\ NBytes \in Nat \ {0} /\ CHAR_BIT \in Nat \ {0} /\ MAXCHUNKSIZE \in Nat /\ Turns \in Nat
      /\ 0 \in 0 .. CHAR_BIT /\ S \in SUBSET Blocks /\ Blocks \in SUBSET Nat /\ MAXCHUNKSIZE \notin Blocks
  BY Constants, DenotesType DEF Blocks
<1> HIDE DEF f
<1>3. ASSUME NEW y \in S PROVE Pos(f, 0) <= y
  <2>1. PICK j \in Index, b \in Bits : y = Pos(j, b)
    BY <1>2, BlockPos
  <2>2. b \in m0[j] /\ ~ (j < f)
    BY <1>1, <2>1, HasBit
  <2>3. j \in Nat /\ b \in Nat /\ y \in Nat /\ f \in Nat
    BY <1>1, <1>2, <2>1, BitPos
  <2>4. Pos(f, 0) \in Nat
    BY <2>3, PosType
  <2>5. y < Pos(f, 0) <=> (j < f \/ (j = f /\ b < 0))
    BY <1>2, <2>1, <2>3, PosOrder
  <2> QED BY <2>2, <2>3, <2>4, <2>5
<1>4. ExtractAfter(m0, s0, 0)
  <2>1. s0.m = m0 /\ s0.i = f /\ s0.bit = 0 /\ s0.block = 0 /\ s0.count = 0
    OBVIOUS
  <2>2. s0 \in ExtractVars
    BY <1>1, <1>2 DEF ExtractVars, Maps
  <2>3. Turn(f, 0) >= 0
    BY <1>1, <1>2, TurnMore
  <2> HIDE DEF s0
  <2> QED BY <1>3, <2>1, <2>2, <2>3 DEF ExtractAfter
<1>5. s0 \in I[0]
  BY <1>4 DEF ExtractAfter
<1>6. ASSUME NEW n \in Nat, NEW y \in I[n] PROVE ExtractStep[y] \in I[n + 1]
  <2>1. ExtractAfter(m0, y, n)
    OBVIOUS
  <2>2. ExtractAfter(m0, ExtractStep[y], n + 1)
    BY <2>1, ExtractTurn
  <2> QED BY <2>2 DEF ExtractAfter
<1>7. s1 \in I[Turns]
  <2> HIDE DEF I, s0
  <2> QED BY <1>5, <1>6, LoopRule
<1>8. ExtractAfter(m0, s1, Turns) /\ x = <<s1.m, s1.count, s1.block>>
  BY <1>2, <1>7 DEF BlockMapExtract, f
<1> HIDE DEF s1, s0, I
<1> DEFINE m == s1.m
           i == s1.i
           b == s1.bit
           k == s1.block
           c == s1.count
           p == Pos(i, b)
<1>9. /\ m \in Maps /\ i \in 0 .. NBytes /\ b \in 0 .. CHAR_BIT /\ k \in Nat /\ c \in Nat
  BY <1>8 DEF ExtractAfter, ExtractVars, Maps
<1>10. /\ i = NBytes => b = 0
       /\ c = 0 => m = m0 /\ \A y \in S : p <= y
       /\ c > 0 => /\ k + c = p
                   /\ \A y \in Nat : k <= y /\ y < p => y \in S
                   /\ \A y \in S : k <= y
                   /\ \A y : y \in Denotes(m) <=> y \in S /\ p <= y
       /\ (i = NBytes \/ (c > 0 /\ b # CHAR_BIT /\ b \notin m[i])) \/ Turn(i, b) >= Turns
  BY <1>8 DEF ExtractAfter, ExtractDone
<1>11. x[1] = m /\ x[2] = c /\ x[3] = k
  BY <1>8
<1>12. Pos(NBytes, 0) = MAXCHUNKSIZE
  BY Constants
<1> HIDE DEF m, i, b, k, c, p, S
<1>13. i = NBytes \/ (c > 0 /\ b # CHAR_BIT /\ b \notin m[i])
  BY <1>9, <1>10, TurnMore
<1>14. i \in Nat /\ b \in Nat /\ p \in Nat
  <2>1. i \in Nat /\ b \in Nat
    BY <1>2, <1>9
  <2> QED BY <2>1, PosType DEF p
<1>15. CASE c = 0
  <2>1. p = MAXCHUNKSIZE
    BY <1>10, <1>12, <1>13, <1>15 DEF p
  <2>2. ASSUME NEW y \in S PROVE FALSE
    <3>1. y \in Nat /\ y < MAXCHUNKSIZE /\ p <= y
      BY <1>2, <1>10, <1>15 DEF Blocks
    <3> QED BY <1>2, <2>1, <3>1
  <2>3. S = {} /\ m = m0
    BY <1>10, <1>15, <2>2
  <2> QED BY <1>9, <1>11, <1>15, <2>3 DEF S
<1>16. CASE c # 0
  <2>0. c > 0
    BY <1>9, <1>16
  <2>1. p \notin S
    <3>1. CASE i = NBytes
      BY <1>2, <1>10, <1>12, <3>1 DEF p
    <3>2. CASE i # NBytes
      <4>1. i \in Index /\ b \in Bits /\ b \notin m[i]
        BY <1>2, <1>9, <1>13, <3>2 DEF Index, Bits
      <4>2. p \notin Denotes(m) /\ p <= p
        BY <1>9, <1>14, <4>1, HasBit DEF p
      <4> QED BY <1>10, <2>0, <4>2
    <3> QED BY <3>1, <3>2
  <2>2. k + c = p /\ c \in Nat \ {0} /\ k - 1 \notin S
    <3>1. k - 1 \in S => k <= k - 1
      BY <1>10, <2>0
    <3> QED BY <1>9, <1>10, <2>0, <3>1
  <2>3. \A y \in Nat : k <= y /\ y < k + c => y \in S
    BY <1>10, <2>0, <2>2
  <2>4. <<k, c>> \in Sets!RunSet(S)
    BY <1>2, <1>9, <2>1, <2>2, <2>3, RunIs
  <2> DEFINE r == <<k, c>>
  <2>5. r \in Sets!RunSet(S) /\ r[1] = k /\ \A y \in S : r[1] <= y
    BY <1>10, <2>0, <2>4
  <2> HIDE DEF r
  <2>6. Sets!Runs(S)[1] = r
    BY <1>2, <2>5, FirstRun
  <2>7. S # {}
    BY <1>9, <2>2, <2>3
  <2>8. Sets!Range0(<<k, c>>) = k .. (k + c - 1)
    BY DEF Sets!Range0
  <2>9. ASSUME NEW y PROVE y \in Denotes(m) <=> y \in S \ Sets!Range0(<<k, c>>)
    <3>1. y \in Denotes(m) <=> y \in S /\ p <= y
      BY <1>10, <2>0
    <3>2. y \in S => y \in Nat /\ k <= y
      BY <1>2, <1>10, <2>0
    <3>3. y \in S => (p <= y <=> y \notin k .. (k + c - 1))
      BY <1>9, <2>2, <3>2
    <3> QED BY <2>8, <3>1, <3>3
  <2>10. Denotes(m) = S \ Sets!Range0(<<k, c>>)
    BY <2>9
  <2> QED BY <1>9, <1>11, <1>16, <2>6, <2>7, <2>10 DEF r, S
<1> QED BY <1>15, <1>16

---------------------------------------------------------------------------
(* BlockMapApply: the calls made are the runs that ended before the cursor,  *)
(* in order; a run that has begun ends at the cursor so far.                 *)
CallsAre(S, calls, x) ==
  /\ calls \in Seq(Nat \X Nat) /\ Len(calls) = Cardinality(Sets!Before(S, x))
  /\ \A k \in 1 .. Len(calls) :
       /\ calls[k] \in Sets!RunSet(S)
       /\ Cardinality(Sets!Before(S, calls[k][1])) + 1 = k

ApplyAfter(m, stop, s, n) ==
  /\ s \in ApplyVars /\ (s.i = NBytes => s.bit = 0)
  /\ s.i # NBytes => s.val = {b \in m[s.i] : s.bit <= b}
  /\ s.count = 0 => /\ Pos(s.i, s.bit) - 1 \notin Denotes(m)
                    /\ CallsAre(Denotes(m), s.calls, Pos(s.i, s.bit))
  /\ s.count > 0 => /\ s.block + s.count = Pos(s.i, s.bit)
                    /\ \A x \in Nat : s.block <= x /\ x < Pos(s.i, s.bit) => x \in Denotes(m)
                    /\ s.block - 1 \notin Denotes(m)
                    /\ CallsAre(Denotes(m), s.calls, s.block)
  /\ Len(s.calls) <= stop /\ (Len(s.calls) = stop => s.count = 0)
  /\ s.i = NBytes \/ Len(s.calls) = stop \/ Turn(s.i, s.bit) >= n

(* Where there is no member between p and q, the runs before them are the    *)
(* same.                                                                     *)
LEMMA SameBefore ==
  ASSUME NEW S \in SUBSET Blocks, NEW p \in Nat, NEW q \in Nat, p <= q,
         \A x \in S : ~ (p <= x /\ x < q)
  PROVE  Sets!Before(S, p) = Sets!Before(S, q)
<1>1. ASSUME NEW r \in Sets!RunSet(S) PROVE r[1] < p <=> r[1] < q
  <2>1. r[1] \in S /\ r[1] \in Nat
    BY RunType
  <2> QED BY <2>1
<1> QED BY <1>1 DEF Sets!Before

(* A run that ends at p is one more run before q.                            *)
LEMMA CallsMore ==
  ASSUME NEW S \in SUBSET Blocks, NEW calls, NEW b \in Nat, NEW c \in Nat \ {0},
         NEW p \in Nat, NEW q \in Nat, CallsAre(S, calls, b),
         b + c = p, p <= q, \A x \in Nat : b <= x /\ x < p => x \in S,
         b - 1 \notin S, p \notin S, \A x \in S : ~ (p <= x /\ x < q)
  PROVE  /\ CallsAre(S, Append(calls, <<b, c>>), q)
         /\ Len(Append(calls, <<b, c>>)) = Len(calls) + 1
<1> DEFINE r == <<b, c>>
           C == Append(calls, r)
           R == Sets!RunSet(S)
<1>1. r \in R /\ r[1] = b /\ r[2] = c /\ r \in Nat \X Nat
  BY RunIs
<1>2. b < q
  OBVIOUS
<1>3. ASSUME NEW u \in R, u[1] < q PROVE u[1] <= b
  <2>1. u[1] \in S /\ u[1] \in Nat
    BY RunType
  <2>2. u[1] < p
    BY <1>3, <2>1
  <2>3. CASE b < u[1]
    <3>1. b <= u[1] /\ r[1] <= u[1]
      BY <1>1, <2>1, <2>3
    <3>2. r = u \/ r[1] + r[2] < u[1]
      BY <1>1, <3>1, RunsApart
    <3>3. r # u
      BY <1>1, <2>1, <2>3
    <3> HIDE DEF r
    <3> QED BY <1>1, <2>1, <2>2, <3>2, <3>3
  <2> QED BY <2>1, <2>3
<1> HIDE DEF r
<1>4. Cardinality(Sets!Before(S, q)) = Cardinality(Sets!Before(S, b)) + 1
  BY <1>1, <1>2, <1>3, OneMore
<1>5. /\ calls \in Seq(Nat \X Nat) /\ Len(calls) = Cardinality(Sets!Before(S, b))
      /\ \A k \in 1 .. Len(calls) : /\ calls[k] \in R
                                    /\ Cardinality(Sets!Before(S, calls[k][1])) + 1 = k
  BY DEF CallsAre
<1>6. /\ C \in Seq(Nat \X Nat) /\ Len(C) = Len(calls) + 1 /\ Len(calls) \in Nat
      /\ C[Len(calls) + 1] = r /\ \A k \in 1 .. Len(calls) : C[k] = calls[k]
  BY <1>1, <1>5
<1> HIDE DEF C, R
<1>7. Len(C) = Cardinality(Sets!Before(S, q))
  BY <1>4, <1>5, <1>6
<1>8. ASSUME NEW k \in 1 .. Len(C)
      PROVE  C[k] \in R /\ Cardinality(Sets!Before(S, C[k][1])) + 1 = k
  <2>1. CASE k = Len(calls) + 1
    BY <1>1, <1>5, <1>6, <2>1
  <2>2. CASE k # Len(calls) + 1
    <3>1. k \in 1 .. Len(calls)
      BY <1>6, <2>2
    <3> QED BY <1>5, <1>6, <3>1
  <2> QED BY <2>1, <2>2
<1> QED BY <1>6, <1>7, <1>8 DEF CallsAre, C, R, r

LEMMA ApplyTurn ==
  ASSUME NEW m \in Maps, NEW stop \in Nat \ {0}, NEW n \in Nat, NEW s, ApplyAfter(m, stop, s, n)
  PROVE  ApplyAfter(m, stop, ApplyStep(m, stop)[s], n + 1)
<1> DEFINE i == s.i
           b == s.bit
           c == s.count
           k == s.block
           v == s.val
           C == s.calls
           L == Len(C)
           p == Pos(i, b)
           t == ApplyStep(m, stop)[s]
           S == Denotes(m)
<1>1. /\ i \in 0 .. NBytes /\ b \in 0 .. CHAR_BIT /\ v \in SUBSET Bits /\ k \in Nat /\ c \in Nat
      /\ C \in Seq(Nat \X Nat)
      /\ s = [i |-> i, bit |-> b, val |-> v, block |-> k, count |-> c, calls |-> C]
      /\ s \in ApplyVars
  BY DEF ApplyAfter, ApplyVars, Byte
<1>2. /\ i = NBytes => b = 0
      /\ i # NBytes => v = {d \in m[i] : b <= d}
      /\ c = 0 => p - 1 \notin S /\ CallsAre(S, C, p)
      /\ c > 0 => /\ k + c = p
                  /\ \A x \in Nat : k <= x /\ x < p => x \in S
                  /\ k - 1 \notin S
                  /\ CallsAre(S, C, k)
      /\ L <= stop /\ (L = stop => c = 0)
      /\ i = NBytes \/ L = stop \/ Turn(i, b) >= n
  BY DEF ApplyAfter
<1>3. /\ NBytes \in Nat \ {0} /\ CHAR_BIT \in Nat \ {0} /\ i \in Nat /\ b \in Nat
      /\ i <= NBytes /\ b <= CHAR_BIT /\ 0 \in Bits /\ 0 \in 0 .. CHAR_BIT /\ L \in Nat
  BY <1>1, Constants DEF Bits
<1>4. p \in Nat /\ S \in SUBSET Blocks /\ S \in SUBSET Nat /\ p = Pos(i, b)
  <2>1. S \in SUBSET Blocks /\ Blocks \in SUBSET Nat
    BY DenotesType, Constants DEF Blocks
  <2>2. Pos(i, b) \in Nat
    BY <1>3, PosType
  <2> QED BY <2>1, <2>2
<1> DEFINE CC == IF c > 0 THEN Append(C, <<k, c>>) ELSE C
<1>5. t = IF i = NBytes \/ L = stop THEN s
          ELSE IF b = CHAR_BIT
          THEN [s EXCEPT !.i = @ + 1, !.bit = 0,
                         !.val = IF i + 1 < NBytes THEN m[i + 1] ELSE {}]
          ELSE IF b \in v
          THEN [s EXCEPT !.val = @ \ {b}, !.bit = @ + 1,
                         !.block = IF c = 0 THEN p ELSE @, !.count = @ + 1]
          ELSE [s EXCEPT !.calls = CC, !.count = 0,
                         !.bit = IF v = {} THEN CHAR_BIT ELSE @ + 1]
  BY <1>1 DEF ApplyStep, Pos, Called
<1> SUFFICES ApplyAfter(m, stop, t, n + 1)
  OBVIOUS
<1>6. CASE i = NBytes \/ L = stop
  <2>1. t = s
    <3> HIDE DEF i, b, c, k, v, C, L, p, t, S, CC
    <3> QED BY <1>5, <1>6
  <2>2. ApplyAfter(m, stop, s, n + 1)
    BY <1>6 DEF ApplyAfter
  <2> QED BY <2>1, <2>2
<1> HIDE DEF i, b, c, k, v, C, L, p, t, S
<1>7. ASSUME i # NBytes, L # stop
      PROVE  ApplyAfter(m, stop, t, n + 1)
  <2>1. /\ i \in Index /\ m[i] \in SUBSET Bits /\ i + 1 \in 0 .. NBytes /\ Turn(i, b) >= n
        /\ v = {d \in m[i] : b <= d} /\ L < stop
    BY <1>1, <1>2, <1>3, <1>7 DEF Index, Maps, Byte
  <2>2. /\ Turn(i, b) \in Nat /\ Turn(i, b + 1) = Turn(i, b) + 1 /\ Turn(i + 1, 0) >= Turn(i, b) + 1
    BY <1>1, TurnMore
  <2>3. Turn(i, b + 1) >= n + 1
    BY <2>1, <2>2
  <2>4. Turn(i + 1, 0) >= n + 1
    <3>1. Turn(i + 1, 0) \in Nat
      BY <1>3, <2>1, TurnMore
    <3> QED BY <2>1, <2>2, <3>1
  <2>5. CASE b = CHAR_BIT
    <3> DEFINE w == IF i + 1 < NBytes THEN m[i + 1] ELSE {}
    <3>1. t = [i |-> i + 1, bit |-> 0, val |-> w, block |-> k, count |-> c, calls |-> C]
      <4>1. t = [s EXCEPT !.i = @ + 1, !.bit = 0, !.val = w]
        BY <1>5, <1>7, <2>5
      <4> QED BY <1>1, <4>1
    <3>2. Pos(i + 1, 0) = p
      BY <1>3, <1>4, <2>5, PosType
    <3>3. w \in SUBSET Bits /\ (i + 1 # NBytes => w = {d \in m[i + 1] : 0 <= d})
      <4>1. CASE i + 1 < NBytes
        <5>1. i + 1 \in Index
          BY <1>3, <4>1 DEF Index
        <5>2. m[i + 1] \in SUBSET Bits
          BY <5>1 DEF Maps, Byte
        <5>3. \A d \in Bits : 0 <= d
          BY Constants DEF Bits
        <5> QED BY <4>1, <5>2, <5>3
      <4>2. CASE ~ (i + 1 < NBytes)
        BY <1>3, <2>1, <4>2
      <4> QED BY <4>1, <4>2
    <3> HIDE DEF w
    <3>4. /\ t.i = i + 1 /\ t.bit = 0 /\ t.val = w /\ t.block = k /\ t.count = c /\ t.calls = C
      BY <3>1
    <3>5. t \in ApplyVars
      BY <1>1, <1>3, <2>1, <3>1, <3>3 DEF ApplyVars, Byte
    <3> QED BY <1>2, <2>4, <3>2, <3>3, <3>4, <3>5 DEF ApplyAfter, S, L
  <2>6. CASE b # CHAR_BIT /\ b \in v
    <3> DEFINE K == IF c = 0 THEN p ELSE k
    <3>1. t = [i |-> i, bit |-> b + 1, val |-> v \ {b}, block |-> K, count |-> c + 1, calls |-> C]
      <4>1. t = [s EXCEPT !.val = @ \ {b}, !.bit = @ + 1,
                          !.block = IF c = 0 THEN p ELSE @, !.count = @ + 1]
        BY <1>5, <1>7, <2>6
      <4> QED BY <1>1, <4>1
    <3>2. b \in Bits /\ b + 1 \in 0 .. CHAR_BIT /\ b \in m[i]
      BY <1>3, <2>1, <2>6 DEF Bits
    <3>3. p + 1 = Pos(i, b + 1) /\ p \in S
      BY <1>3, <1>4, <2>1, <3>2, PosType, HasBit DEF S
    <3>4. v \ {b} = {d \in m[i] : b + 1 <= d} /\ v \ {b} \in SUBSET Bits
      <4>1. ASSUME NEW d \in Bits PROVE b + 1 <= d <=> b <= d /\ d # b
        BY <1>3 DEF Bits
      <4> QED BY <2>1, <4>1
    <3>5. K \in Nat /\ K <= p /\ K + (c + 1) = p + 1 /\ K - 1 \notin S /\ CallsAre(S, C, K)
      <4>1. CASE c = 0
        <5>1. K = p /\ p - 1 \notin S /\ CallsAre(S, C, p)
          BY <1>2, <4>1
        <5> HIDE DEF K
        <5> QED BY <1>4, <4>1, <5>1
      <4>2. CASE c # 0
        <5>1. c > 0
          BY <1>1, <4>2
        <5>2. K = k /\ k - 1 \notin S /\ CallsAre(S, C, k) /\ k + c = p
          BY <1>2, <4>2, <5>1
        <5> HIDE DEF K
        <5> QED BY <1>1, <1>4, <5>2
      <4> QED BY <4>1, <4>2
    <3>6. \A x \in Nat : K <= x /\ x < p + 1 => x \in S
      <4> SUFFICES ASSUME NEW x \in Nat, K <= x, x < p + 1 PROVE x \in S
        OBVIOUS
      <4>1. CASE x = p
        BY <3>3, <4>1
      <4>2. CASE x # p
        <5>1. x < p /\ K < p
          BY <1>4, <3>5, <4>2
        <5>2. c > 0 /\ k <= x
          BY <1>1, <1>4, <5>1
        <5> QED BY <1>2, <5>1, <5>2
      <4> QED BY <4>1, <4>2
    <3> HIDE DEF K
    <3>7. /\ t.i = i /\ t.bit = b + 1 /\ t.val = v \ {b} /\ t.block = K /\ t.count = c + 1
          /\ t.calls = C
      BY <3>1
    <3>8. t \in ApplyVars
      <4>1. c + 1 \in Nat
        BY <1>1
      <4> QED BY <1>1, <3>1, <3>2, <3>4, <3>5, <4>1 DEF ApplyVars, Byte
    <3>9. c + 1 # 0 /\ c + 1 > 0
      BY <1>1
    <3>10. Pos(t.i, t.bit) = p + 1 /\ t.i # NBytes /\ Turn(t.i, t.bit) >= n + 1
      BY <1>7, <2>3, <3>3, <3>7
    <3>11. Len(t.calls) <= stop /\ Len(t.calls) # stop
      BY <1>2, <1>7, <3>7 DEF L
    <3> QED BY <3>4, <3>5, <3>6, <3>7, <3>8, <3>9, <3>10, <3>11 DEF ApplyAfter, S
  <2>7. CASE b # CHAR_BIT /\ b \notin v
    <3> DEFINE d == IF v = {} THEN CHAR_BIT ELSE b + 1
               q == Pos(i, d)
    <3>1. t = [i |-> i, bit |-> d, val |-> v, block |-> k, count |-> 0, calls |-> CC]
      <4>1. t = [s EXCEPT !.calls = CC, !.count = 0, !.bit = IF v = {} THEN CHAR_BIT ELSE @ + 1]
        BY <1>5, <1>7, <2>7
      <4> QED BY <1>1, <4>1
    <3>2. b \in Bits /\ d \in 1 .. CHAR_BIT /\ b + 1 <= d
      BY <1>3, <2>7 DEF Bits
    <3>3. \A u \in m[i] : u \in Bits /\ u \in Nat /\ ~ (b <= u /\ u < d)
      <4> SUFFICES ASSUME NEW u \in m[i] PROVE u \in Bits /\ u \in Nat /\ ~ (b <= u /\ u < d)
        OBVIOUS
      <4>1. u \in Bits /\ u \in Nat /\ u < CHAR_BIT
        BY <1>3, <2>1 DEF Bits
      <4>2. b <= u => u \in v
        BY <2>1
      <4>3. u # b
        BY <2>1, <2>7, <1>3
      <4> QED BY <1>3, <4>1, <4>2, <4>3
    <3>4. v = {u \in m[i] : d <= u}
      <4>1. ASSUME NEW u \in m[i] PROVE b <= u <=> d <= u
        BY <1>3, <3>2, <3>3
      <4> QED BY <2>1, <4>1
    <3>5. Turn(i, d) >= n + 1
      <4>1. CASE v = {}
        <5>1. b + 1 \in 0 .. CHAR_BIT
          BY <1>3, <3>2
        <5>2. Turn(i, CHAR_BIT) >= Turn(i, b + 1)
          BY <1>1, <5>1, TurnMore
        <5>3. Turn(i, CHAR_BIT) \in Nat
          <6>1. CHAR_BIT \in 0 .. CHAR_BIT
            BY <1>3
          <6> QED BY <1>1, <6>1, TurnMore
        <5> QED BY <2>1, <2>2, <2>3, <4>1, <5>2, <5>3
      <4>2. CASE v # {}
        BY <2>3, <4>2
      <4> QED BY <4>1, <4>2
    <3> HIDE DEF d
    <3>6. q \in Nat /\ p < q /\ d \in Nat /\ d \in 0 .. CHAR_BIT
      <4>1. d \in Nat /\ d \in 0 .. CHAR_BIT
        BY <3>2, <1>3
      <4>2. q \in Nat
        BY <1>3, <4>1, PosType
      <4>3. Pos(i, b) < Pos(i, d)
        BY <1>3, <3>2, <4>1, PosOrder
      <4> QED BY <1>4, <4>1, <4>2, <4>3
    <3>7. ASSUME NEW x \in S PROVE ~ (p <= x /\ x < q)
      <4>1. PICK j \in Index, u \in Bits : x = Pos(j, u)
        BY <1>4, BlockPos
      <4>2. u \in m[j]
        BY <4>1, HasBit DEF S
      <4>3. j \in Nat /\ u \in Nat /\ x \in Nat
        BY <4>1, BitPos
      <4>4. x < p <=> (j < i \/ (j = i /\ u < b))
        BY <1>1, <1>3, <1>4, <4>1, <4>3, PosOrder
      <4>5. x < q <=> (j < i \/ (j = i /\ u < d))
        BY <1>3, <3>6, <4>1, <4>3, PosOrder
      <4>6. j = i => ~ (b <= u /\ u < d)
        BY <3>3, <4>2
      <4> HIDE DEF q
      <4> QED BY <1>3, <1>4, <3>6, <4>3, <4>4, <4>5, <4>6
    <3> HIDE DEF q
    <3>8. p \notin S /\ q - 1 \notin S
      <4>1. p <= p /\ p < q /\ p <= q - 1 /\ q - 1 < q
        BY <1>4, <3>6
      <4> QED BY <3>7, <4>1
    <3>9. CallsAre(S, CC, q) /\ Len(CC) <= stop /\ CC \in Seq(Nat \X Nat)
      <4>1. CASE c > 0
        <5>1. c \in Nat \ {0} /\ p <= q
          BY <1>1, <1>4, <3>6, <4>1
        <5>2. CallsAre(S, Append(C, <<k, c>>), q) /\ Len(Append(C, <<k, c>>)) = L + 1
          <6>1. /\ CallsAre(S, C, k) /\ k + c = p /\ k - 1 \notin S
                /\ \A x \in Nat : k <= x /\ x < p => x \in S
            BY <1>2, <4>1
          <6>2. k \in Nat /\ p \in Nat /\ q \in Nat /\ S \in SUBSET Blocks /\ p \notin S
            BY <1>1, <1>4, <3>6, <3>8
          <6>3. \A x \in S : ~ (p <= x /\ x < q)
            BY <3>7
          <6> QED BY ONLY <5>1, <6>1, <6>2, <6>3, CallsMore DEF L
        <5>3. L + 1 <= stop
          BY <1>3, <2>1
        <5> HIDE DEF CallsAre
        <5>4. CC = Append(C, <<k, c>>)
          BY <4>1
        <5> HIDE DEF CC
        <5>5. CallsAre(S, CC, q) /\ Len(CC) <= stop
          BY <5>2, <5>3, <5>4
        <5> QED BY <5>5 DEF CallsAre
      <4>2. CASE ~ (c > 0)
        <5>1. c = 0 /\ CC = C /\ p <= q
          BY <1>1, <1>4, <3>6, <4>2
        <5>2. Sets!Before(S, p) = Sets!Before(S, q)
          BY <1>4, <3>6, <3>7, <5>1, SameBefore
        <5> HIDE DEF CC
        <5> QED BY <1>1, <1>2, <5>1, <5>2 DEF CallsAre, L
      <4> QED BY <4>1, <4>2
    <3> HIDE DEF CC
    <3>10. /\ t.i = i /\ t.bit = d /\ t.val = v /\ t.block = k /\ t.count = 0 /\ t.calls = CC
      BY <3>1
    <3>11. t \in ApplyVars
      BY <1>1, <3>1, <3>6, <3>9 DEF ApplyVars, Byte
    <3> QED BY <1>7, <3>4, <3>5, <3>8, <3>9, <3>10, <3>11 DEF ApplyAfter, S, q
  <2> QED BY <2>5, <2>6, <2>7
<1> QED BY <1>6, <1>7

LEMMA CallsSeen ==
  ASSUME NEW S \in SUBSET Blocks, NEW C, NEW x, CallsAre(S, C, x)
  PROVE  /\ Len(C) \in Nat /\ Len(C) <= Len(Sets!Runs(S)) /\ DOMAIN C = 1 .. Len(C)
         /\ C = [k \in 1 .. Len(C) |-> Sets!Runs(S)[k]]
         /\ Sets!Before(S, x) = Sets!RunSet(S) => Len(C) = Len(Sets!Runs(S))
<1> DEFINE N == Cardinality(Sets!RunSet(S))
           f == Sets!Runs(S)
<1>1. Len(f) = N /\ N \in Nat /\ IsFiniteSet(Sets!RunSet(S))
  BY RunsSeq, RunsFinite
<1>2. /\ C \in Seq(Nat \X Nat) /\ Len(C) = Cardinality(Sets!Before(S, x))
      /\ \A k \in 1 .. Len(C) : /\ C[k] \in Sets!RunSet(S)
                                /\ Cardinality(Sets!Before(S, C[k][1])) + 1 = k
  BY DEF CallsAre
<1>3. ASSUME NEW k \in 1 .. Len(C) PROVE C[k] = f[k]
  BY <1>2, RunAt
<1>4. Len(C) <= N
  BY <1>1, <1>2, BeforeType, FS_Subset
<1> HIDE DEF f, N
<1>5. Len(C) \in Nat /\ DOMAIN C = 1 .. Len(C) /\ C = [k \in 1 .. Len(C) |-> C[k]]
  BY <1>2
<1>6. C = [k \in 1 .. Len(C) |-> f[k]]
  BY <1>3, <1>5, Zenon
<1> QED BY <1>1, <1>2, <1>4, <1>5, <1>6 DEF f, N

LEMMA SizeIs == \A C : FoldLeft(LAMBDA n, r : n + r[2], 0, C) = Sets!Size(C)
  BY DEF FoldLeft, Sets!Size, Sets!FoldLeft, MapThenFoldSet, Sets!MapThenFoldSet, Max, Sets!Max

LEMMA ApplyIs ==
  ASSUME NEW m \in Maps, NEW stop \in Nat \ {0}, NEW runs, runs = Sets!Runs(Denotes(m)),
         NEW seen, seen = IF stop < Len(runs) THEN SubSeq(runs, 1, stop) ELSE runs
  PROVE  BlockMapApply(m, stop) = <<Sets!Size(seen), seen>>
<1> DEFINE I == [n \in Nat |-> {s \in ApplyVars : ApplyAfter(m, stop, s, n)}]
           s0 == [i |-> 0, bit |-> 0, val |-> m[0], block |-> 0, count |-> 0, calls |-> << >>]
           s1 == Loop(ApplyStep(m, stop), s0)
           S == Denotes(m)
<1>1. /\ NBytes \in Nat \ {0} /\ CHAR_BIT \in Nat \ {0} /\ MAXCHUNKSIZE \in Nat /\ Turns \in Nat
      /\ 0 \in 0 .. CHAR_BIT /\ 0 \in 0 .. NBytes /\ 0 \in Index
      /\ S \in SUBSET Blocks /\ Blocks \in SUBSET Nat /\ MAXCHUNKSIZE \notin S
      /\ Pos(NBytes, 0) = MAXCHUNKSIZE /\ Pos(0, 0) = 0
  BY Constants, DenotesType DEF Blocks, Index
<1>2. ApplyAfter(m, stop, s0, 0)
  <2>1. /\ s0.i = 0 /\ s0.bit = 0 /\ s0.val = m[0] /\ s0.block = 0 /\ s0.count = 0
        /\ s0.calls = << >> /\ Len(<< >>) = 0 /\ << >> \in Seq(Nat \X Nat)
    OBVIOUS
  <2>2. m[0] \in SUBSET Bits /\ m[0] = {b \in m[0] : 0 <= b}
    <3>1. m[0] \in SUBSET Bits
      BY <1>1 DEF Maps, Byte
    <3>2. \A b \in Bits : 0 <= b
      BY <1>1 DEF Bits
    <3> QED BY <3>1, <3>2
  <2>3. s0 \in ApplyVars
    BY <1>1, <2>1, <2>2 DEF ApplyVars, Byte
  <2>4. 0 - 1 \notin S
    BY <1>1
  <2>5. CallsAre(S, << >>, 0)
    <3>1. ASSUME NEW r \in Sets!RunSet(S) PROVE ~ (r[1] < 0)
      <4>1. r[1] \in Nat
        BY <1>1, RunType
      <4> QED BY <4>1
    <3>2. Sets!Before(S, 0) = {}
      BY <3>1 DEF Sets!Before
    <3> HIDE DEF S
    <3> DEFINE E == << >>
    <3>3. E \in Seq(Nat \X Nat) /\ Len(E) = 0 /\ 1 .. Len(E) = {}
      OBVIOUS
    <3>4. Len(E) = Cardinality(Sets!Before(S, 0))
      BY <3>2, <3>3, FS_EmptySet
    <3> HIDE DEF E
    <3>5. CallsAre(S, E, 0)
      BY <3>3, <3>4 DEF CallsAre
    <3> QED BY <3>5 DEF E
  <2>6. Turn(0, 0) >= 0
    BY <1>1, TurnMore
  <2> HIDE DEF s0
  <2>7. 0 # NBytes /\ 0 <= stop /\ 0 # stop
    BY <1>1
  <2> QED BY <1>1, <2>1, <2>2, <2>3, <2>4, <2>5, <2>6, <2>7 DEF ApplyAfter
<1>3. s0 \in I[0]
  BY <1>2 DEF ApplyAfter
<1>4. ASSUME NEW n \in Nat, NEW y \in I[n] PROVE ApplyStep(m, stop)[y] \in I[n + 1]
  <2>1. ApplyAfter(m, stop, y, n)
    OBVIOUS
  <2>2. ApplyAfter(m, stop, ApplyStep(m, stop)[y], n + 1)
    BY <2>1, ApplyTurn
  <2> QED BY <2>2 DEF ApplyAfter
<1>5. s1 \in I[Turns]
  <2> HIDE DEF I, s0
  <2> QED BY <1>3, <1>4, LoopRule
<1> DEFINE C == Called(s1)
<1>6. ApplyAfter(m, stop, s1, Turns) /\ BlockMapApply(m, stop) = <<Sets!Size(C), C>>
  <2>1. BlockMapApply(m, stop) = <<FoldLeft(LAMBDA n, r : n + r[2], 0, C), C>>
    BY DEF BlockMapApply
  <2>2. ApplyAfter(m, stop, s1, Turns)
    BY <1>1, <1>5
  <2> HIDE DEF s1, C
  <2> QED BY <2>1, <2>2, SizeIs
<1> HIDE DEF s1, s0, I
<1> DEFINE i == s1.i
           b == s1.bit
           k == s1.block
           c == s1.count
           p == Pos(i, b)
           L == Len(s1.calls)
<1>7. /\ i \in 0 .. NBytes /\ b \in 0 .. CHAR_BIT /\ k \in Nat /\ c \in Nat
      /\ s1.calls \in Seq(Nat \X Nat) /\ L \in Nat
  BY <1>6 DEF ApplyAfter, ApplyVars
<1>8. /\ i = NBytes => b = 0
      /\ c = 0 => CallsAre(S, s1.calls, p)
      /\ c > 0 => /\ k + c = p
                  /\ \A x \in Nat : k <= x /\ x < p => x \in S
                  /\ k - 1 \notin S
                  /\ CallsAre(S, s1.calls, k)
      /\ L <= stop /\ (L = stop => c = 0)
      /\ i = NBytes \/ L = stop \/ Turn(i, b) >= Turns
  BY <1>6 DEF ApplyAfter
<1>9. C = IF c > 0 THEN Append(s1.calls, <<k, c>>) ELSE s1.calls
  BY DEF Called
<1> HIDE DEF C, i, b, k, c, p, L, S
<1>10. i = NBytes \/ L = stop
  BY <1>7, <1>8, TurnMore
<1>11. ASSUME NEW r \in Sets!RunSet(S) PROVE r[1] < MAXCHUNKSIZE
  <2>1. r[1] \in S /\ r[1] \in Nat
    BY <1>1, RunType
  <2>2. r[1] \in 0 .. MAXCHUNKSIZE - 1
    BY <1>1, <2>1 DEF Blocks
  <2> QED BY <1>1, <2>1, <2>2
<1>12. Sets!Before(S, MAXCHUNKSIZE) = Sets!RunSet(S)
  BY <1>11 DEF Sets!Before
<1>13. /\ \E x : CallsAre(S, C, x)
       /\ Len(C) = stop \/ (Len(C) <= stop /\ CallsAre(S, C, MAXCHUNKSIZE))
  <2>1. CASE c = 0
    <3>1. C = s1.calls /\ CallsAre(S, C, p) /\ Len(C) = L
      BY <1>8, <1>9, <2>1 DEF L
    <3>2. i = NBytes => p = MAXCHUNKSIZE
      BY <1>1, <1>8 DEF p
    <3> QED BY <1>8, <1>10, <3>1, <3>2
  <2>2. CASE c # 0
    <3>1. c > 0 /\ c \in Nat \ {0}
      BY <1>7, <2>2
    <3>2. L # stop /\ i = NBytes /\ p = MAXCHUNKSIZE
      BY <1>1, <1>8, <1>10, <2>2 DEF p
    <3> DEFINE M == MAXCHUNKSIZE
    <3>3. /\ CallsAre(S, s1.calls, k) /\ k + c = M /\ k - 1 \notin S /\ M \notin S /\ M \in Nat
          /\ \A x \in Nat : k <= x /\ x < M => x \in S
      BY <1>1, <1>8, <3>1, <3>2
    <3>4. M <= M /\ \A x \in S : ~ (M <= x /\ x < M)
      BY <1>1, <3>3
    <3> HIDE DEF M
    <3>5. /\ CallsAre(S, Append(s1.calls, <<k, c>>), M)
          /\ Len(Append(s1.calls, <<k, c>>)) = L + 1
      BY <1>1, <1>7, <3>1, <3>3, <3>4, CallsMore DEF L
    <3>6. C = Append(s1.calls, <<k, c>>)
      BY <1>9, <3>1
    <3>7. L + 1 <= stop
      BY <1>7, <1>8, <3>2
    <3> QED BY <3>5, <3>6, <3>7 DEF M
  <2> QED BY <2>1, <2>2
<1>14. runs = Sets!Runs(S)
  BY DEF S
<1>15. /\ Len(C) \in Nat /\ Len(C) <= Len(runs) /\ C = [j \in 1 .. Len(C) |-> runs[j]]
       /\ CallsAre(S, C, MAXCHUNKSIZE) => Len(C) = Len(runs)
  BY <1>1, <1>12, <1>13, <1>14, CallsSeen
<1> DEFINE N == Cardinality(Sets!RunSet(S))
<1>16. Len(runs) = N /\ N \in Nat /\ runs = [j \in 1 .. N |-> runs[j]]
  BY <1>1, <1>14, RunsSeq
<1> HIDE DEF N
<1>17. C = seen
  <2>1. CASE stop < Len(runs)
    <3>1. Len(C) = stop
      BY <1>13, <1>15, <1>16, <2>1
    <3>2. seen = SubSeq(runs, 1, stop)
      BY <2>1
    <3>3. SubSeq(runs, 1, stop) = [j \in 1 .. stop |-> runs[j]]
      BY <1>14, <1>16, <2>1, RunsSeq
    <3> QED BY <1>15, <3>1, <3>2, <3>3
  <2>2. CASE ~ (stop < Len(runs))
    <3>1. Len(C) = Len(runs)
      BY <1>13, <1>15, <1>16, <2>2
    <3> QED BY <1>15, <1>16, <2>2, <3>1
  <2> QED BY <2>1, <2>2
<1> QED BY <1>6, <1>17

---------------------------------------------------------------------------
(* Every operation on a map is the operation on the set it stands for.       *)
MapType == map \in Maps

LEMMA MapStarts == Init => MapType /\ Sets!Init
<1> SUFFICES ASSUME NEW r \in Ranges, map = BlockMapInit(r[1], r[2]), ret = Idle
             PROVE  MapType /\ Sets!Init
  BY DEF Init
<1>1. r \in Sets!Ranges
  BY DEF Ranges, Sets!Ranges, Sets!Blk
<1>2. map \in Maps /\ Denotes(map) = Sets!Range0(r)
  BY InitIs
<1> QED BY <1>1, <1>2 DEF MapType, Sets!Init, Idle, Sets!Idle

LEMMA OpIs ==
  ASSUME NEW M, NEW T, NEW name, NEW args, NEW result,
         Call(M, name, args, result), M \in Maps, Denotes(M) = T
  PROVE  MapType' /\ Sets!Op(T, name, args, result)
<1>1. ret = Idle /\ map' = M /\ ret' = <<name, args, result>>
  BY DEF Call
<1>2. Denotes(map)' = T
  <2>1. Denotes(map)' = Denotes(map')
    BY DEF Denotes, IsSet
  <2> QED BY <1>1, <2>1
<1>3. MapType'
  BY <1>1 DEF MapType, Maps
<1> QED BY <1>1, <1>2, <1>3 DEF Sets!Op, Sets!Idle, Idle

LEMMA MapSteps == MapType /\ [Next]_vars => MapType' /\ [Sets!Next]_<<Denotes(map), ret>>
<1> SUFFICES ASSUME MapType, [Next]_vars
             PROVE  MapType' /\ [Sets!Next]_<<Denotes(map), ret>>
  OBVIOUS
<1> DEFINE S == Denotes(map)
<1>0. map \in Maps /\ Ranges = Sets!Ranges /\ Blocks = Sets!Blk /\ S \in SUBSET Blocks
  BY DenotesType DEF MapType, Ranges, Sets!Ranges, Sets!Blk, Blocks
<1>1. CASE DoInit
  <2>1. PICK r \in Ranges : Call(BlockMapInit(r[1], r[2]), "init", r, << >>)
    BY <1>1 DEF DoInit
  <2>2. MapType' /\ Sets!Op(Sets!Range0(r), "init", r, << >>)
    BY <2>1, InitIs, OpIs
  <2> QED BY <1>0, <2>2 DEF Sets!Next, Sets!Reset
<1>2. CASE DoAdd
  <2>1. PICK r \in Ranges : Call(BlockMapAdd(map, r[1], r[2]), "add", r, << >>)
    BY <1>2 DEF DoAdd
  <2>2. MapType' /\ Sets!Op(S \cup Sets!Range0(r), "add", r, << >>)
    BY <1>0, <2>1, AddIs, OpIs
  <2> QED BY <1>0, <2>2 DEF Sets!Next, Sets!Add
<1>3. CASE DoClear
  <2>1. PICK r \in Ranges : Call(BlockMapClear(map, r[1], r[2]), "clear", r, << >>)
    BY <1>3 DEF DoClear
  <2>2. MapType' /\ Sets!Op(S \ Sets!Range0(r), "clear", r, << >>)
    BY <1>0, <2>1, ClearIs, OpIs
  <2> QED BY <1>0, <2>2 DEF Sets!Next, Sets!Clear
<1>4. CASE DoAlloc
  <2>1. PICK b \in Blocks : Call(BlockMapAlloc(map, b)[1], "alloc", b, BlockMapAlloc(map, b)[2])
    BY <1>4 DEF DoAlloc, Blocks
  <2> DEFINE a == BlockMapAlloc(map, b)
  <2>2. a[1] \in Maps /\ Denotes(a[1]) = S \cup {b} /\ a[2] = IF b \in S THEN 1 ELSE 0
    BY <1>0, AllocIs
  <2>3. MapType' /\ Sets!Op(S \cup {b}, "alloc", b, a[2])
    BY <2>1, <2>2, OpIs
  <2> HIDE DEF a
  <2> QED BY <1>0, <2>2, <2>3 DEF Sets!Next, Sets!Alloc
<1>5. CASE DoExtract
  <2> DEFINE x == BlockMapExtract(map)
             out == IF x[2] = 0 THEN <<0>> ELSE <<x[2], x[3]>>
             run == <<x[3], x[2]>>
  <2>1. Call(x[1], "extract", << >>, out)
    BY <1>5 DEF DoExtract
  <2>2. /\ x[1] \in Maps
        /\ S = {} => x[2] = 0 /\ Denotes(x[1]) = {}
        /\ S # {} => /\ x[2] # 0 /\ Sets!Runs(S)[1] = run
                     /\ Denotes(x[1]) = S \ Sets!Range0(run)
    BY <1>0, ExtractIs
  <2>3. run[1] = x[3] /\ run[2] = x[2]
    OBVIOUS
  <2> HIDE DEF x, run
  <2>4. CASE S = {}
    <3>1. out = <<0>>
      BY <2>2, <2>4
    <3>2. MapType' /\ Sets!Op({}, "extract", << >>, <<0>>)
      BY <2>1, <2>2, <2>4, <3>1, OpIs
    <3> QED BY <2>4, <3>2 DEF Sets!Next, Sets!Extract
  <2>5. CASE S # {}
    <3>1. out = <<run[2], run[1]>>
      BY <2>2, <2>3, <2>5
    <3>2. MapType' /\ Sets!Op(S \ Sets!Range0(run), "extract", << >>, <<run[2], run[1]>>)
      BY <2>1, <2>2, <2>5, <3>1, OpIs
    <3>3. Head(Sets!Runs(S)) = run
      BY <2>2, <2>5
    <3> QED BY <2>5, <3>2, <3>3 DEF Sets!Next, Sets!Extract
  <2> QED BY <2>4, <2>5
<1>6. CASE DoIsAlloc
  <2>1. PICK r \in Ranges : Call(map, "isalloc", r, BlockMapIsAlloc(map, r[1], r[2]))
    BY <1>6 DEF DoIsAlloc
  <2>2. BlockMapIsAlloc(map, r[1], r[2]) = Sets!Cardinality(S \cap Sets!Range0(r))
    BY <1>0, IsAllocIs, SetsCardinality
  <2>3. MapType' /\ Sets!Op(S, "isalloc", r, Sets!Cardinality(S \cap Sets!Range0(r)))
    BY <1>0, <2>1, <2>2, OpIs
  <2> QED BY <1>0, <2>3 DEF Sets!Next, Sets!IsAlloc
<1>7. CASE DoInvert
  <2>1. Call(BlockMapInvert(map), "invert", << >>, << >>)
    BY <1>7 DEF DoInvert
  <2>2. MapType' /\ Sets!Op(Blocks \ S, "invert", << >>, << >>)
    BY <1>0, <2>1, InvertIs, OpIs
  <2> QED BY <1>0, <2>2 DEF Sets!Next, Sets!Invert
<1>8. CASE DoMerge
  <2>1. PICK from \in Maps : Call(BlockMapMerge(from, map)[1], "merge", Denotes(from),
                                  BlockMapMerge(from, map)[2])
    BY <1>8 DEF DoMerge, Maps
  <2> DEFINE a == BlockMapMerge(from, map)
             F == Denotes(from)
  <2>2. a[1] \in Maps /\ Denotes(a[1]) = S \cup F /\ a[2] = Cardinality(F \ S)
    BY <1>0, MergeIs
  <2>3. MapType' /\ Sets!Op(S \cup F, "merge", F, a[2])
    BY <2>1, <2>2, OpIs
  <2>4. F \in SUBSET Sets!Blk
    BY <1>0, DenotesType
  <2> HIDE DEF a, F
  <2> QED BY <2>2, <2>3, <2>4, SetsCardinality DEF Sets!Next, Sets!Merge
<1>9. CASE DoFirst
  <2>1. Call(map, "first", << >>, BlockMapFirst(map))
    BY <1>9 DEF DoFirst
  <2>2. BlockMapFirst(map) = IF S = {} THEN MAXCHUNKSIZE ELSE Head(Sets!Runs(S))[1]
    BY <1>0, FirstIs
  <2>3. MapType' /\ Sets!Op(S, "first", << >>, BlockMapFirst(map))
    BY <1>0, <2>1, OpIs
  <2> QED BY <2>2, <2>3 DEF Sets!Next, Sets!First
<1>10. CASE DoApply
  <2>1. PICK stop \in 1 .. MAXCHUNKSIZE + 1 :
          Call(map, "apply", stop, BlockMapApply(map, stop))
    BY <1>10 DEF DoApply
  <2> DEFINE runs == Sets!Runs(S)
             seen == IF stop < Len(runs) THEN SubSeq(runs, 1, stop) ELSE runs
  <2>2. stop \in Nat \ {0}
    BY Constants
  <2>3. BlockMapApply(map, stop) = <<Sets!Size(seen), seen>>
    BY <1>0, <2>2, ApplyIs
  <2>4. MapType' /\ Sets!Op(S, "apply", stop, <<Sets!Size(seen), seen>>)
    BY <1>0, <2>1, <2>3, OpIs
  <2> QED BY <2>4 DEF Sets!Next, Sets!Apply
<1>11. CASE Return
  <2>1. ret # Idle /\ ret' = Idle /\ map' = map
    BY <1>11 DEF Return
  <2>2. Denotes(map)' = Denotes(map)
    BY <2>1 DEF Denotes, IsSet
  <2>3. MapType'
    BY <1>0, <2>1 DEF MapType, Maps
  <2> QED BY <2>1, <2>2, <2>3 DEF Sets!Next, Sets!Return, Idle, Sets!Idle
<1>12. CASE UNCHANGED vars
  <2>1. ret' = ret /\ map' = map
    BY <1>12 DEF vars
  <2>2. Denotes(map)' = Denotes(map)
    BY <2>1 DEF Denotes, IsSet
  <2>3. MapType'
    BY <1>0, <2>1 DEF MapType, Maps
  <2> QED BY <2>1, <2>2, <2>3
<1> QED BY <1>1, <1>2, <1>3, <1>4, <1>5, <1>6, <1>7, <1>8, <1>9, <1>10, <1>11, <1>12 DEF Next

(* The block maps of utils.c implement sets of blocks, for any number of     *)
(* bytes and of bits in a byte: the whole-byte short cuts and the early      *)
(* exits of its loops change no result (utils.c 277-560).                    *)
THEOREM MapsAreSets == Spec => ImplementsSets
<1>1. Spec => []MapType
  BY MapStarts, MapSteps, PTL DEF Spec
<1> QED BY <1>1, MapStarts, MapSteps, PTL DEF Spec, ImplementsSets, Sets!Spec

(* The same where the map is one half of the sweep that the run checks.      *)
THEOREM UtilsAreSets == UtilsSpec => ImplementsSets
<1>1. UtilsInit => Init
  BY DEF UtilsInit
<1>2. [UtilsNext]_<<vars, bytes>> => [Next]_vars
  BY DEF UtilsNext, MapStep, vars
<1>3. UtilsSpec => Spec
  BY <1>1, <1>2, PTL DEF UtilsSpec, Spec
<1> QED BY <1>3, MapsAreSets, PTL

=============================================================================
