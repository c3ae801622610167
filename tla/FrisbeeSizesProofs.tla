------------------------- MODULE FrisbeeSizesProofs -------------------------
(* Facts about InitSizes(), ChunkSize() and BlockSize(), for any image that  *)
(* is not empty and any block and chunk size: the chunks cut the image into  *)
(* its blocks and the blocks cut it into its bytes.                          *)
EXTENDS FrisbeeSizes, IntSets

(* What InitSizes() is given: sizes that are not zero.                       *)
SizesGiven ==
  /\ MAXCHUNKSIZE \in Nat \ {0}
  /\ MAXBLOCKSIZE \in Nat \ {0}
  /\ ImageBytes \in Nat \ {0}

(* (a + n - 1) div n is the quotient, rounded up.                            *)
LEMMA RoundUp ==
  ASSUME NEW a \in Nat \ {0}, NEW n \in Nat \ {0},
         NEW q, q = (a + n - 1) \div n
  PROVE  /\ q \in Nat \ {0}
         /\ a % n = 0 => a = q * n
         /\ a % n # 0 => a = (q - 1) * n + (a % n)
<1> DEFINE d == a \div n
           r == a % n
           s == (a + n - 1) % n
<1>1. d \in Nat /\ r \in 0 .. n - 1 /\ a = d * n + r
  BY DivMod
<1>2. q \in Nat /\ s \in 0 .. n - 1 /\ a + n - 1 = q * n + s
  <2>1. a + n - 1 \in Nat
    OBVIOUS
  <2> QED BY <2>1, DivMod
<1> HIDE DEF d, r, s
<1>3. CASE r = 0
  <2>1. q * n + s = d * n + (n - 1)
    BY <1>1, <1>2, <1>3
  <2>2. q = d
    BY <1>1, <1>2, <2>1, DivUnique
  <2>3. q # 0
    BY <1>1, <1>3, <2>2
  <2> QED BY <1>1, <1>2, <1>3, <2>2, <2>3 DEF r
<1>4. CASE r # 0
  <2>1. q * n + s = (d + 1) * n + (r - 1)
    BY <1>1, <1>2
  <2>2. r - 1 \in 0 .. n - 1 /\ d + 1 \in Int /\ q \in Int
    BY <1>1, <1>2, <1>4
  <2>3. q = d + 1
    BY <1>2, <2>1, <2>2, DivUnique
  <2> QED BY <1>1, <1>4, <2>3 DEF r
<1> QED BY <1>3, <1>4

(* The image has blocks and chunks, and the last chunk has what the full     *)
(* ones leave.                                                               *)
LEMMA Totals ==
  ASSUME SizesGiven
  PROVE  /\ TotalBlocks \in Nat \ {0} /\ TotalChunks \in Nat \ {0}
         /\ LastChunkSize \in 0 .. MAXCHUNKSIZE - 1
         /\ LastBlockSize \in 0 .. MAXBLOCKSIZE - 1
         /\ TotalBlocks = (TotalChunks - 1) * MAXCHUNKSIZE
                          + ChunkSize(TotalChunks - 1)
         /\ LastBlockSize = 0 => ImageBytes = TotalBlocks * MAXBLOCKSIZE
         /\ LastBlockSize # 0 =>
              ImageBytes = (TotalBlocks - 1) * MAXBLOCKSIZE + LastBlockSize
<1> USE DEF SizesGiven
<1>1. /\ TotalBlocks \in Nat \ {0}
      /\ LastBlockSize = 0 => ImageBytes = TotalBlocks * MAXBLOCKSIZE
      /\ LastBlockSize # 0 =>
           ImageBytes = (TotalBlocks - 1) * MAXBLOCKSIZE + LastBlockSize
  BY RoundUp DEF TotalBlocks, LastBlockSize
<1>2. /\ TotalChunks \in Nat \ {0}
      /\ LastChunkSize = 0 => TotalBlocks = TotalChunks * MAXCHUNKSIZE
      /\ LastChunkSize # 0 =>
           TotalBlocks = (TotalChunks - 1) * MAXCHUNKSIZE + LastChunkSize
  BY <1>1, RoundUp DEF TotalChunks, LastChunkSize
<1>3. LastChunkSize \in 0 .. MAXCHUNKSIZE - 1
  BY <1>1, DivMod DEF LastChunkSize
<1>4. LastBlockSize \in 0 .. MAXBLOCKSIZE - 1
  BY DivMod DEF LastBlockSize
<1>5. TotalBlocks = (TotalChunks - 1) * MAXCHUNKSIZE + ChunkSize(TotalChunks - 1)
  BY <1>2, <1>3 DEF ChunkSize
<1> QED BY <1>1, <1>2, <1>3, <1>4, <1>5

(* No chunk is empty, and none is longer than a buffer.                      *)
LEMMA ChunkSizeBounds ==
  ASSUME SizesGiven, NEW c
  PROVE  /\ ChunkSize(c) \in 1 .. MAXCHUNKSIZE
         /\ ChunkBlocks(c) \subseteq 0 .. MAXCHUNKSIZE - 1
         /\ 0 \in ChunkBlocks(c)
         /\ IsFiniteSet(ChunkBlocks(c))
         /\ Cardinality(ChunkBlocks(c)) = ChunkSize(c)
<1>1. ChunkSize(c) \in 1 .. MAXCHUNKSIZE
  BY Totals DEF ChunkSize, SizesGiven
<1> DEFINE n == ChunkSize(c)
<1>2. n \in Nat \ {0} /\ n <= MAXCHUNKSIZE /\ MAXCHUNKSIZE \in Nat
  BY <1>1 DEF SizesGiven
<1> HIDE DEF n
<1>3. /\ IsFiniteSet(0 .. n - 1) /\ Cardinality(0 .. n - 1) = n
      /\ 0 .. n - 1 \subseteq 0 .. MAXCHUNKSIZE - 1
      /\ 0 \in 0 .. n - 1
  <2>1. n - 1 \in Int /\ ~ (0 > n - 1) /\ n - 1 - 0 + 1 = n
    BY <1>2
  <2>2. IsFiniteSet(0 .. n - 1) /\ Cardinality(0 .. n - 1) = n
    BY <2>1, FS_Interval
  <2> QED BY <1>2, <2>2
<1> QED BY <1>1, <1>3 DEF n, ChunkBlocks

(* The chunks of an image are a finite set, as many as InitSizes() says.     *)
LEMMA ChunksFinite ==
  ASSUME SizesGiven
  PROVE  /\ IsFiniteSet(Chunk) /\ Cardinality(Chunk) = TotalChunks
         /\ Chunk \subseteq Nat /\ -1 \notin Chunk /\ 0 \in Chunk
<1>1. TotalChunks \in Nat \ {0}
  BY Totals
<1> DEFINE n == TotalChunks
<1>2. n \in Nat \ {0}
  BY <1>1
<1> HIDE DEF n
<1>3. IsFiniteSet(0 .. n - 1) /\ Cardinality(0 .. n - 1) = n
  <2>1. n - 1 \in Int /\ ~ (0 > n - 1) /\ n - 1 - 0 + 1 = n
    BY <1>2
  <2> QED BY <2>1, FS_Interval
<1> QED BY <1>2, <1>3 DEF n, Chunk

(* The number a block has in the image: what the server multiplies by the    *)
(* block size to find where to read (server.c, PlayFrisbee()).               *)
Number(c, b) == c * MAXCHUNKSIZE + b

(* The chunks cut the image into its blocks: every block of every chunk is   *)
(* a block of the image, every block of the image is in a chunk, and in no   *)
(* two of them.                                                              *)
THEOREM ChunksPartitionBlocks ==
  ASSUME SizesGiven
  PROVE  /\ \A c \in Chunk : \A b \in ChunkBlocks(c) :
               Number(c, b) \in 0 .. TotalBlocks - 1
         /\ \A g \in 0 .. TotalBlocks - 1 :
               \E c \in Chunk : \E b \in ChunkBlocks(c) : g = Number(c, b)
         /\ \A c, d \in Chunk : \A b \in ChunkBlocks(c) : \A e \in ChunkBlocks(d) :
               Number(c, b) = Number(d, e) => c = d /\ b = e
<1> DEFINE M == MAXCHUNKSIZE
           T == TotalBlocks
           C == TotalChunks
<1>1. /\ M \in Nat \ {0} /\ T \in Nat \ {0} /\ C \in Nat \ {0}
      /\ T = (C - 1) * M + ChunkSize(C - 1)
  BY Totals DEF SizesGiven
<1>2. \A c : ChunkSize(c) \in 1 .. M /\ ChunkBlocks(c) \subseteq 0 .. M - 1
  BY ChunkSizeBounds
<1>3. \A c \in Int : c < C - 1 => ChunkSize(c) = M
  BY DEF ChunkSize
<1>4. \A c : ChunkBlocks(c) = 0 .. ChunkSize(c) - 1
  BY DEF ChunkBlocks
<1>5. \A c, b : Number(c, b) = c * M + b
  BY DEF Number
<1>6. Chunk = 0 .. C - 1
  BY DEF Chunk
<1> HIDE DEF M, T, C
<1>7. ASSUME NEW c \in Chunk, NEW b \in ChunkBlocks(c)
      PROVE  c * M + b \in 0 .. T - 1
  <2>1. c \in Nat /\ c <= C - 1 /\ b \in Nat /\ b < M /\ b < ChunkSize(c)
    BY <1>1, <1>2, <1>4, <1>6
  <2>2. CASE c = C - 1
    BY <1>1, <1>2, <2>1, <2>2
  <2>3. CASE c < C - 1
    <3>1. (c + 1) * M <= (C - 1) * M
      <4>1. (C - 1 - (c + 1)) * M >= 0
        BY <1>1, <2>1, <2>3
      <4> QED BY <1>1, <2>1, <4>1
    <3>2. c * M + b < (c + 1) * M
      BY <1>1, <2>1
    <3>3. ChunkSize(C - 1) >= 1 /\ ChunkSize(C - 1) \in Int
      BY <1>1, <1>2
    <3> QED BY <1>1, <2>1, <3>1, <3>2, <3>3
  <2> QED BY <2>1, <2>2, <2>3, <1>1
<1>8. ASSUME NEW g \in 0 .. T - 1
      PROVE  \E c \in Chunk : \E b \in ChunkBlocks(c) : g = c * M + b
  <2> DEFINE c == g \div M
             b == g % M
  <2>1. c \in Nat /\ b \in 0 .. M - 1 /\ g = c * M + b
    <3>1. g \in Nat
      BY <1>1
    <3> QED BY <1>1, <3>1, DivMod
  <2> HIDE DEF c, b
  <2>2. ChunkSize(C - 1) \in 1 .. M
    BY <1>2
  <2>3. c <= C - 1
    <3>1. SUFFICES ASSUME c >= C PROVE FALSE
      BY <1>1, <2>1
    <3>2. c * M >= C * M
      <4>1. (c - C) * M >= 0
        BY <1>1, <2>1, <3>1
      <4> QED BY <1>1, <2>1, <4>1
    <3> QED BY <1>1, <2>1, <2>2, <3>2
  <2>4. c \in Chunk
    BY <1>1, <1>6, <2>1, <2>3
  <2>5. b \in ChunkBlocks(c)
    <3>1. CASE c = C - 1
      BY <1>1, <1>4, <2>1, <2>2, <3>1
    <3>2. CASE c # C - 1
      BY <1>1, <1>3, <1>4, <2>1, <2>3, <3>2
    <3> QED BY <3>1, <3>2
  <2> QED BY <2>1, <2>4, <2>5
<1>9. ASSUME NEW c \in Chunk, NEW d \in Chunk, NEW b \in ChunkBlocks(c),
             NEW e \in ChunkBlocks(d), c * M + b = d * M + e
      PROVE  c = d /\ b = e
  <2>1. /\ c \in Int /\ d \in Int /\ b \in 0 .. M - 1 /\ e \in 0 .. M - 1
    BY <1>1, <1>2, <1>6
  <2> QED BY <1>1, <1>9, <2>1, DivUnique
<1> QED BY <1>5, <1>7, <1>8, <1>9 DEF T

(* The bytes of a block, as the server reads them and the client writes      *)
(* them: from its number times the block size on.                            *)
Bytes(c, b) ==
  LET first == Number(c, b) * MAXBLOCKSIZE
  IN  first .. first + BlockSize(c, b) - 1

(* The blocks cut the image into its bytes: the blocks lie inside the image, *)
(* every byte of the image is in a block, and no two blocks overlap.         *)
THEOREM BlocksPartitionBytes ==
  ASSUME SizesGiven
  PROVE  /\ \A c \in Chunk : \A b \in ChunkBlocks(c) :
               Bytes(c, b) # {} /\ Bytes(c, b) \subseteq 0 .. ImageBytes - 1
         /\ \A i \in 0 .. ImageBytes - 1 :
               \E c \in Chunk : \E b \in ChunkBlocks(c) : i \in Bytes(c, b)
         /\ \A c, d \in Chunk : \A b \in ChunkBlocks(c) : \A e \in ChunkBlocks(d) :
               Bytes(c, b) \cap Bytes(d, e) # {} => c = d /\ b = e
<1> DEFINE M == MAXBLOCKSIZE
           T == TotalBlocks
           L == LastBlockSize
           I == ImageBytes
           Size(g) == IF g < T - 1 \/ L = 0 THEN M ELSE L
<1>1. /\ M \in Nat \ {0} /\ T \in Nat \ {0} /\ L \in 0 .. M - 1
      /\ I \in Nat \ {0}
      /\ L = 0 => I = T * M
      /\ L # 0 => I = (T - 1) * M + L
  BY Totals DEF SizesGiven
<1>2. ASSUME NEW c \in Chunk, NEW b \in ChunkBlocks(c)
      PROVE  /\ Number(c, b) \in 0 .. T - 1
             /\ Bytes(c, b) = Number(c, b) * M .. Number(c, b) * M + Size(Number(c, b)) - 1
  <2>1. Number(c, b) \in 0 .. T - 1
    BY ChunksPartitionBlocks
  <2>2. ~ (c < 0)
    BY ChunksFinite
  <2>3. BlockSize(c, b) = Size(Number(c, b))
    BY <2>2 DEF BlockSize, Number
  <2> QED BY <2>1, <2>3 DEF Bytes
<1> HIDE DEF M, T, L, I
<1>3. ASSUME NEW g \in 0 .. T - 1
      PROVE  /\ Size(g) \in 1 .. M
             /\ g * M + Size(g) - 1 < I
             /\ g * M \in Nat
  <2>1. g \in Nat /\ g <= T - 1
    BY <1>1
  <2>2. CASE g = T - 1
    BY <1>1, <2>1, <2>2
  <2>3. CASE g < T - 1
    <3>1. (g + 1) * M <= (T - 1) * M
      <4>1. (T - 1 - (g + 1)) * M >= 0
        BY <1>1, <2>1, <2>3
      <4> QED BY <1>1, <2>1, <4>1
    <3>2. (T - 1) * M <= I /\ g * M \in Nat
      BY <1>1, <2>1
    <3>3. Size(g) = M
      BY <2>3
    <3> HIDE DEF Size
    <3> QED BY <1>1, <2>1, <3>1, <3>2, <3>3
  <2> QED BY <2>1, <2>2, <2>3, <1>1
<1>4. ASSUME NEW i \in 0 .. I - 1
      PROVE  \E g \in 0 .. T - 1 : i \in g * M .. g * M + Size(g) - 1
  <2> DEFINE g == i \div M
             r == i % M
  <2>1. g \in Nat /\ r \in 0 .. M - 1 /\ i = g * M + r
    <3>1. i \in Nat
      BY <1>1
    <3> QED BY <1>1, <3>1, DivMod
  <2> HIDE DEF g, r
  <2>2. g <= T - 1
    <3>1. SUFFICES ASSUME g >= T PROVE FALSE
      BY <1>1, <2>1
    <3>2. g * M >= T * M
      <4>1. (g - T) * M >= 0
        BY <1>1, <2>1, <3>1
      <4> QED BY <1>1, <2>1, <4>1
    <3>3. T * M >= I
      BY <1>1
    <3> QED BY <1>1, <2>1, <3>2, <3>3
  <2>3. r < Size(g)
    <3>1. CASE g = T - 1 /\ L # 0
      BY <1>1, <2>1, <3>1
    <3>2. CASE g < T - 1 \/ L = 0
      BY <1>1, <2>1, <3>2
    <3> QED BY <1>1, <2>1, <2>2, <3>1, <3>2
  <2>4. Size(g) \in Int /\ g * M \in Int /\ g \in 0 .. T - 1
    BY <1>1, <1>3, <2>1, <2>2
  <2>5. i \in g * M .. g * M + Size(g) - 1
    <3> HIDE DEF Size
    <3> QED BY <1>1, <2>1, <2>3, <2>4
  <2> QED BY <2>4, <2>5
<1>5. ASSUME NEW g \in 0 .. T - 1, NEW h \in 0 .. T - 1, NEW i,
             i \in g * M .. g * M + Size(g) - 1, i \in h * M .. h * M + Size(h) - 1
      PROVE  g = h
  <2>1. /\ g \in Int /\ h \in Int /\ g * M \in Int /\ h * M \in Int
        /\ Size(g) \in 1 .. M /\ Size(h) \in 1 .. M
    BY <1>1, <1>3
  <2> HIDE DEF Size
  <2>2. i - g * M \in 0 .. M - 1 /\ i - h * M \in 0 .. M - 1
    BY <1>1, <1>5, <2>1
  <2>3. g * M + (i - g * M) = h * M + (i - h * M)
    BY <1>5, <2>1
  <2> QED BY <1>1, <2>1, <2>2, <2>3, DivUnique
<1>6. ASSUME NEW c \in Chunk, NEW b \in ChunkBlocks(c)
      PROVE  Bytes(c, b) # {} /\ Bytes(c, b) \subseteq 0 .. I - 1
  <2> DEFINE g == Number(c, b)
  <2>1. g \in 0 .. T - 1 /\ Bytes(c, b) = g * M .. g * M + Size(g) - 1
    BY <1>2
  <2> HIDE DEF g
  <2>2. Size(g) \in 1 .. M /\ g * M + Size(g) - 1 < I /\ g * M \in Nat
    BY <1>3, <2>1
  <2> HIDE DEF Size
  <2>3. g * M \in Bytes(c, b)
    BY <1>1, <2>1, <2>2
  <2> QED BY <1>1, <2>1, <2>2, <2>3
<1>7. ASSUME NEW i \in 0 .. I - 1
      PROVE  \E c \in Chunk : \E b \in ChunkBlocks(c) : i \in Bytes(c, b)
  <2>1. PICK g \in 0 .. T - 1 : i \in g * M .. g * M + Size(g) - 1
    BY <1>4
  <2>2. PICK c \in Chunk : \E b \in ChunkBlocks(c) : g = Number(c, b)
    BY ChunksPartitionBlocks DEF T
  <2> HIDE DEF Size
  <2> QED BY <1>2, <2>1, <2>2
<1>8. ASSUME NEW c \in Chunk, NEW d \in Chunk, NEW b \in ChunkBlocks(c),
             NEW e \in ChunkBlocks(d), Bytes(c, b) \cap Bytes(d, e) # {}
      PROVE  c = d /\ b = e
  <2>1. PICK i : i \in Bytes(c, b) /\ i \in Bytes(d, e)
    BY <1>8
  <2> HIDE DEF Size
  <2> DEFINE g == Number(c, b)
             h == Number(d, e)
  <2>2. g = h
    <3>1. /\ g \in 0 .. T - 1 /\ i \in g * M .. g * M + Size(g) - 1
          /\ h \in 0 .. T - 1 /\ i \in h * M .. h * M + Size(h) - 1
      BY <1>2, <2>1
    <3> HIDE DEF g, h
    <3> QED BY <1>5, <3>1
  <2> QED BY <2>2, ChunksPartitionBlocks
<1> QED BY <1>6, <1>7, <1>8 DEF I

---------------------------------------------------------------------------
(* The bytes of a chunk, added up over its blocks.                           *)
BlocksBytes(c) == MapThenSumSet(LAMBDA b : BlockSize(c, b), ChunkBlocks(c))

(* Where block g of the image begins, and where the last one ends.           *)
Start(g) == IF g < TotalBlocks THEN g * MAXBLOCKSIZE ELSE ImageBytes

(* The library's sum of the sizes of the chunks is one of Sums.              *)
LEMMA ChunkSums ==
  ASSUME SizesGiven, NEW h, h = [c \in Chunk |-> ChunkSize(c)]
  PROVE  \E g : SumsOver(Chunk, h, g) /\ MapThenSumSet(ChunkSize, Chunk) = g[Chunk]
<1> DEFINE F == CHOOSE k : k = [s \in SUBSET Chunk |->
                  IF s = {} THEN 0
                  ELSE ChunkSize(CHOOSE x \in s : TRUE) + k[s \ {CHOOSE x \in s : TRUE}]]
<1>1. MapThenSumSet(ChunkSize, Chunk) = F[Chunk]
  BY DEF MapThenSumSet, MapThenFoldSet
<1>2. IsFiniteSet(Chunk) /\ h \in [Chunk -> Int]
  BY ChunksFinite, ChunkSizeBounds
<1>3. ASSUME NEW s \in SUBSET Chunk, s # {} PROVE h[AMember(s)] = ChunkSize(AMember(s))
  BY <1>3 DEF AMember
<1>4. PICK g : Sums(g, h, SUBSET Chunk)
  BY <1>2, SetSumsExist
<1>5. g = [s \in SUBSET Chunk |->
             IF s = {} THEN 0 ELSE ChunkSize(AMember(s)) + g[s \ {AMember(s)}]]
  <2>1. ASSUME NEW s \in SUBSET Chunk
        PROVE  g[s] = IF s = {} THEN 0 ELSE ChunkSize(AMember(s)) + g[s \ {AMember(s)}]
    BY <1>3, <1>4 DEF Sums
  <2> QED BY <1>4, <2>1 DEF Sums
<1>6. F = [s \in SUBSET Chunk |->
             IF s = {} THEN 0 ELSE ChunkSize(AMember(s)) + F[s \ {AMember(s)}]]
  BY <1>5, Zenon DEF AMember
<1> HIDE DEF F
<1>7. Sums(F, h, SUBSET Chunk)
  BY <1>3, <1>6 DEF Sums
<1> QED BY <1>1, <1>2, <1>7 DEF SumsOver


(* The same for the blocks of a chunk ...                                    *)
LEMMA BlockSums ==
  ASSUME SizesGiven, NEW c \in Chunk, NEW h, h = [b \in ChunkBlocks(c) |-> BlockSize(c, b)]
  PROVE  \E g : SumsOver(ChunkBlocks(c), h, g) /\ BlocksBytes(c) = g[ChunkBlocks(c)]
<1> DEFINE D == ChunkBlocks(c)
           F == CHOOSE k : k = [s \in SUBSET D |->
                  IF s = {} THEN 0
                  ELSE BlockSize(c, CHOOSE x \in s : TRUE) + k[s \ {CHOOSE x \in s : TRUE}]]
<1>1. BlocksBytes(c) = F[D]
  BY DEF BlocksBytes, MapThenSumSet, MapThenFoldSet
<1> HIDE DEF D
<1>2. IsFiniteSet(D) /\ h \in [D -> Int]
  <2>1. IsFiniteSet(D)
    BY ChunkSizeBounds DEF D
  <2>2. \A b \in D : BlockSize(c, b) \in Int
    BY Totals DEF BlockSize, SizesGiven
  <2> QED BY <2>1, <2>2 DEF D
<1>3. ASSUME NEW s \in SUBSET D, s # {} PROVE h[AMember(s)] = BlockSize(c, AMember(s))
  BY <1>3 DEF AMember, D
<1>4. PICK g : Sums(g, h, SUBSET D)
  BY <1>2, SetSumsExist
<1>5. g = [s \in SUBSET D |->
             IF s = {} THEN 0 ELSE BlockSize(c, AMember(s)) + g[s \ {AMember(s)}]]
  <2>1. ASSUME NEW s \in SUBSET D
        PROVE  g[s] = IF s = {} THEN 0 ELSE BlockSize(c, AMember(s)) + g[s \ {AMember(s)}]
    BY <1>3, <1>4 DEF Sums
  <2> QED BY <1>4, <2>1 DEF Sums
<1>6. F = [s \in SUBSET D |->
             IF s = {} THEN 0 ELSE BlockSize(c, AMember(s)) + F[s \ {AMember(s)}]]
  BY <1>5, Zenon DEF AMember
<1> HIDE DEF F
<1>7. Sums(F, h, SUBSET D)
  BY <1>3, <1>6 DEF Sums
<1> QED BY <1>1, <1>2, <1>7 DEF SumsOver, D

(* ... and for the bytes of the chunks.                                      *)
LEMMA ByteSums ==
  ASSUME SizesGiven, NEW h, h = [c \in Chunk |-> BlocksBytes(c)], h \in [Chunk -> Int]
  PROVE  \E g : SumsOver(Chunk, h, g) /\ MapThenSumSet(BlocksBytes, Chunk) = g[Chunk]
<1> DEFINE F == CHOOSE k : k = [s \in SUBSET Chunk |->
                  IF s = {} THEN 0
                  ELSE BlocksBytes(CHOOSE x \in s : TRUE) + k[s \ {CHOOSE x \in s : TRUE}]]
<1>1. MapThenSumSet(BlocksBytes, Chunk) = F[Chunk]
  BY DEF MapThenSumSet, MapThenFoldSet
<1>2. IsFiniteSet(Chunk) /\ h \in [Chunk -> Int]
  BY ChunksFinite
<1>3. ASSUME NEW s \in SUBSET Chunk, s # {} PROVE h[AMember(s)] = BlocksBytes(AMember(s))
  BY <1>3 DEF AMember
<1>4. PICK g : Sums(g, h, SUBSET Chunk)
  BY <1>2, SetSumsExist
<1>5. g = [s \in SUBSET Chunk |->
             IF s = {} THEN 0 ELSE BlocksBytes(AMember(s)) + g[s \ {AMember(s)}]]
  <2>1. ASSUME NEW s \in SUBSET Chunk
        PROVE  g[s] = IF s = {} THEN 0 ELSE BlocksBytes(AMember(s)) + g[s \ {AMember(s)}]
    BY <1>3, <1>4 DEF Sums
  <2> QED BY <1>4, <2>1 DEF Sums
<1>6. F = [s \in SUBSET Chunk |->
             IF s = {} THEN 0 ELSE BlocksBytes(AMember(s)) + F[s \ {AMember(s)}]]
  BY <1>5, Zenon DEF AMember
<1> HIDE DEF F
<1>7. Sums(F, h, SUBSET Chunk)
  BY <1>3, <1>6 DEF Sums
<1> QED BY <1>1, <1>2, <1>7 DEF SumsOver

(* The chunks of an image have all its blocks.                               *)
LEMMA ChunkSizesAddUp ==
  ASSUME SizesGiven
  PROVE  MapThenSumSet(ChunkSize, Chunk) = TotalBlocks
<1> DEFINE h == [c \in Chunk |-> ChunkSize(c)]
           n == TotalChunks
           M == MAXCHUNKSIZE
           F == [k \in 0 .. n |-> IF k = n THEN TotalBlocks ELSE k * M]
<1>1. PICK g : SumsOver(Chunk, h, g) /\ MapThenSumSet(ChunkSize, Chunk) = g[Chunk]
  BY ChunkSums
<1>2. /\ n \in Nat \ {0} /\ M \in Nat \ {0} /\ TotalBlocks \in Nat
      /\ TotalBlocks = (n - 1) * M + ChunkSize(n - 1)
      /\ Chunk = 0 .. n - 1
  BY Totals DEF SizesGiven, Chunk
<1>3. ASSUME NEW k \in 0 .. n - 1
      PROVE  h[k] \in Int /\ h[k] = ChunkSize(k) /\ (k < n - 1 => h[k] = M)
  <2>1. k \in Chunk
    BY <1>2
  <2> QED BY <2>1, ChunkSizeBounds DEF ChunkSize
<1>4. SumsOver(0 .. n - 1, h, g)
  BY <1>1, <1>2
<1> HIDE DEF n, M, h
<1>5. F \in [0 .. n -> Int] /\ F[0] = 0
  BY <1>2
<1>6. ASSUME NEW k \in 0 .. n - 1 PROVE F[k + 1] = F[k] + h[k]
  <2>1. k \in 0 .. n /\ k + 1 \in 0 .. n /\ k # n /\ k \in Int
    BY <1>2
  <2>2. CASE k = n - 1
    <3>1. k + 1 = n /\ h[k] = ChunkSize(n - 1) /\ h[k] \in Int
      BY <1>2, <1>3, <2>2
    <3> QED BY <1>2, <2>1, <2>2, <3>1
  <2>3. CASE k < n - 1
    <3>1. k + 1 # n /\ h[k] = M /\ (k + 1) * M = k * M + M
      BY <1>2, <1>3, <2>1, <2>3
    <3> QED BY <1>2, <2>1, <3>1
  <2> QED BY <1>2, <2>1, <2>2, <2>3
<1>7. F[n] = TotalBlocks
  BY <1>2
<1> HIDE DEF F
<1>8. g[0 .. n - 1] = F[n]
  <2>1. SumsTo(F, h, n) /\ n \in Nat
    BY <1>2, <1>5, <1>6 DEF SumsTo
  <2> QED BY <1>4, <2>1, SumInterval
<1> QED BY <1>1, <1>2, <1>7, <1>8


(* A block has the bytes from where it begins to where the next one begins.  *)
LEMMA BlockSizeIs ==
  ASSUME SizesGiven, NEW c \in Chunk, NEW b \in ChunkBlocks(c)
  PROVE  /\ Start(Number(c, b)) \in Int /\ Start(Number(c, b) + 1) \in Int
         /\ BlockSize(c, b) = Start(Number(c, b) + 1) - Start(Number(c, b))
<1> DEFINE g == Number(c, b)
           M == MAXBLOCKSIZE
           T == TotalBlocks
           L == LastBlockSize
           I == ImageBytes
<1>1. g \in 0 .. T - 1 /\ ~ (c < 0)
  BY ChunksPartitionBlocks, ChunksFinite
<1>2. BlockSize(c, b) = IF g < T - 1 \/ L = 0 THEN M ELSE L
  BY <1>1 DEF BlockSize, Number
<1>3. /\ M \in Nat \ {0} /\ T \in Nat \ {0} /\ L \in 0 .. M - 1 /\ I \in Nat \ {0}
      /\ L = 0 => I = T * M
      /\ L # 0 => I = (T - 1) * M + L
  BY Totals DEF SizesGiven
<1>4. /\ Start(g) = IF g < T THEN g * M ELSE I
      /\ Start(g + 1) = IF g + 1 < T THEN (g + 1) * M ELSE I
  BY DEF Start
<1> SUFFICES /\ Start(g) \in Int /\ Start(g + 1) \in Int
             /\ BlockSize(c, b) = Start(g + 1) - Start(g)
  OBVIOUS
<1> HIDE DEF g, M, T, L, I
<1>5. g \in Int /\ g < T /\ g * M \in Int /\ (g + 1) * M = g * M + M
  BY <1>1, <1>3
<1>6. CASE g < T - 1
  BY <1>2, <1>3, <1>4, <1>5, <1>6
<1>7. CASE g = T - 1 /\ L # 0
  BY <1>2, <1>3, <1>4, <1>5, <1>7
<1>8. CASE g = T - 1 /\ L = 0
  <2>1. I = g * M + M /\ ~ (g + 1 < T)
    BY <1>3, <1>5, <1>8
  <2> QED BY <1>2, <1>3, <1>4, <1>5, <1>8, <2>1
<1>9. g < T - 1 \/ g = T - 1
  BY <1>1, <1>3
<1> QED BY <1>6, <1>7, <1>8, <1>9

(* The blocks of a chunk have the bytes from the chunk's first block to the  *)
(* next chunk's, or to the end of the image.                                 *)
LEMMA BlocksBytesIs ==
  ASSUME SizesGiven, NEW c \in Chunk
  PROVE  /\ Start(c * MAXCHUNKSIZE) \in Int
         /\ Start(c * MAXCHUNKSIZE + ChunkSize(c)) \in Int
         /\ BlocksBytes(c) = Start(c * MAXCHUNKSIZE + ChunkSize(c)) - Start(c * MAXCHUNKSIZE)
<1> DEFINE n == ChunkSize(c)
           p == c * MAXCHUNKSIZE
           h == [b \in ChunkBlocks(c) |-> BlockSize(c, b)]
           F == [k \in 0 .. n |-> Start(p + k) - Start(p)]
<1>1. PICK g : SumsOver(ChunkBlocks(c), h, g) /\ BlocksBytes(c) = g[ChunkBlocks(c)]
  BY BlockSums
<1>2. n \in Nat \ {0} /\ p \in Nat /\ ChunkBlocks(c) = 0 .. n - 1
  BY ChunkSizeBounds, ChunksFinite DEF SizesGiven, ChunkBlocks
<1>3. ASSUME NEW b \in 0 .. n - 1
      PROVE  /\ Start(p + b) \in Int /\ Start(p + (b + 1)) \in Int
             /\ h[b] = Start(p + (b + 1)) - Start(p + b)
  <2>1. b \in ChunkBlocks(c) /\ Number(c, b) = p + b
    BY <1>2 DEF Number
  <2>2. Number(c, b) + 1 = p + (b + 1)
    BY <1>2, <2>1
  <2>3. h[b] = BlockSize(c, b)
    BY <2>1
  <2> HIDE DEF h, p
  <2> QED BY <2>1, <2>2, <2>3, BlockSizeIs
<1>4. SumsOver(0 .. n - 1, h, g)
  BY <1>1, <1>2
<1> HIDE DEF n, p, h
<1>5. \A k \in 0 .. n : Start(p + k) \in Int
  <2>1. ASSUME NEW k \in 0 .. n PROVE Start(p + k) \in Int
    <3>1. CASE k \in 0 .. n - 1
      BY <1>3, <3>1
    <3>2. CASE k = n
      <4>1. n - 1 \in 0 .. n - 1 /\ (n - 1) + 1 = n
        BY <1>2
      <4>2. Start(p + ((n - 1) + 1)) \in Int
        BY <4>1, <1>3
      <4> QED BY <4>1, <4>2, <3>2
    <3> QED BY <1>2, <3>1, <3>2
  <2> QED BY <2>1
<1>6. Start(p) \in Int /\ p + 0 = p
  <2>1. 0 \in 0 .. n /\ p + 0 = p
    BY <1>2
  <2> QED BY <1>5, <2>1
<1>7. F \in [0 .. n -> Int] /\ F[0] = 0
  <2>1. 0 \in 0 .. n
    BY <1>2
  <2> QED BY <1>5, <1>6, <2>1
<1>8. ASSUME NEW k \in 0 .. n - 1 PROVE F[k + 1] = F[k] + h[k]
  <2>1. k \in 0 .. n /\ k + 1 \in 0 .. n
    BY <1>2
  <2>2. F[k + 1] = Start(p + (k + 1)) - Start(p) /\ F[k] = Start(p + k) - Start(p)
    BY <2>1
  <2> QED BY <1>3, <1>6, <2>2
<1>9. F[n] = Start(p + n) - Start(p) /\ Start(p + n) \in Int
  BY <1>2, <1>5
<1> HIDE DEF F
<1>10. g[0 .. n - 1] = F[n]
  <2>1. SumsTo(F, h, n) /\ n \in Nat
    BY <1>2, <1>7, <1>8 DEF SumsTo
  <2> QED BY <1>4, <2>1, SumInterval
<1> QED BY <1>1, <1>2, <1>6, <1>9, <1>10 DEF n, p


(* The sizes that InitSizes(), ChunkSize() and BlockSize() give add up to    *)
(* the image, whatever its length: the chunks to its blocks and the blocks   *)
(* to its bytes (utils.c 196-275).                                           *)
THEOREM SizesAddUp ==
  ASSUME SizesGiven
  PROVE  /\ MapThenSumSet(ChunkSize, Chunk) = TotalBlocks
         /\ MapThenSumSet(BlocksBytes, Chunk) = ImageBytes
<1> DEFINE h == [c \in Chunk |-> BlocksBytes(c)]
           n == TotalChunks
           M == MAXCHUNKSIZE
           F == [k \in 0 .. n |-> IF k = n THEN ImageBytes ELSE Start(k * M)]
<1>1. h \in [Chunk -> Int]
  BY BlocksBytesIs
<1>2. PICK g : SumsOver(Chunk, h, g) /\ MapThenSumSet(BlocksBytes, Chunk) = g[Chunk]
  BY <1>1, ByteSums
<1>3. /\ n \in Nat \ {0} /\ M \in Nat \ {0} /\ TotalBlocks \in Nat \ {0}
      /\ TotalBlocks = (n - 1) * M + ChunkSize(n - 1)
      /\ Chunk = 0 .. n - 1 /\ ImageBytes \in Nat
  BY Totals DEF SizesGiven, Chunk
<1>4. ASSUME NEW k \in 0 .. n - 1
      PROVE  /\ Start(k * M) \in Int /\ Start(k * M + ChunkSize(k)) \in Int
             /\ h[k] = Start(k * M + ChunkSize(k)) - Start(k * M)
             /\ k < n - 1 => ChunkSize(k) = M
  <2>1. k \in Chunk
    BY <1>3
  <2> QED BY <2>1, BlocksBytesIs DEF ChunkSize
<1>5. SumsOver(0 .. n - 1, h, g)
  BY <1>2, <1>3
<1>6. Start(TotalBlocks) = ImageBytes /\ Start(0) = 0
  BY <1>3 DEF Start, SizesGiven
<1> HIDE DEF n, M, h
<1>7. F \in [0 .. n -> Int] /\ F[0] = 0
  <2>1. ASSUME NEW k \in 0 .. n, k # n PROVE Start(k * M) \in Int
    <3>1. k \in 0 .. n - 1
      BY <1>3, <2>1
    <3> QED BY <3>1, <1>4
  <2>2. 0 \in 0 .. n /\ 0 # n /\ 0 * M = 0
    BY <1>3
  <2> QED BY <1>3, <1>6, <2>1, <2>2
<1>8. ASSUME NEW k \in 0 .. n - 1 PROVE F[k + 1] = F[k] + h[k]
  <2>1. k \in 0 .. n /\ k + 1 \in 0 .. n /\ k # n /\ k \in Int
    BY <1>3
  <2>2. F[k] = Start(k * M)
    BY <2>1
  <2>3. F[k + 1] = Start(k * M + ChunkSize(k))
    <3>1. CASE k = n - 1
      <4>1. k + 1 = n /\ k * M + ChunkSize(k) = TotalBlocks
        BY <1>3, <3>1
      <4> QED BY <2>1, <4>1, <1>6
    <3>2. CASE k < n - 1
      <4>1. k + 1 # n /\ (k + 1) * M = k * M + M /\ ChunkSize(k) = M
        BY <1>3, <1>4, <2>1, <3>2
      <4> QED BY <2>1, <4>1
    <3> QED BY <1>3, <2>1, <3>1, <3>2
  <2> HIDE DEF F
  <2> QED BY <1>4, <2>2, <2>3
<1>9. F[n] = ImageBytes
  BY <1>3
<1> HIDE DEF F
<1>10. g[0 .. n - 1] = F[n]
  <2>1. SumsTo(F, h, n) /\ n \in Nat
    BY <1>3, <1>7, <1>8 DEF SumsTo
  <2> QED BY <1>5, <2>1, SumInterval
<1> QED BY <1>2, <1>3, <1>9, <1>10, ChunkSizesAddUp

=============================================================================
