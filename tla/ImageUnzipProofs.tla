-------------------------- MODULE ImageUnzipProofs --------------------------
(***************************************************************************)
(* Proofs about the image writer, for any image, any sizes of sectors and  *)
(* buffers and any memory: reference counts and memory are exact, the      *)
(* assertions of the code hold, and the disk gets what the image wants.    *)
(***************************************************************************)
EXTENDS ImageUnzip, IntSets, SequenceTheorems

-----------------------------------------------------------------------------
(* The inductive invariant.                                                *)

(* The places of the caller's thread inside a region and in                *)
(* inflate_subblock() at all.                                              *)
Filling   == {"inflate", "inflatewait", "region", "head"}
Unzipping == Filling \cup {"gap", "break"}

WriteBuf  == [offset : Int, size : Int, buf : BufId \cup {0}, data : Int]
Buffer    == [refs : Nat, size : 0 .. OUTSIZE, bytes : Seq(Int)]
Locals    == [chunk : DOMAIN image \cup {0}, region : Nat, pos : Nat,
              resid : Seq(Int), offset : Nat, size : Nat, count : Nat,
              wbuf : WriteBuf, tail : WriteBuf]

FixedTypes  == opt \in Options /\ image \in Images
BufferTypes == bufs \in [BufId -> Buffer] /\ curmem \in Nat
WriteTypes  == writequeue \in Seq(WriteBuf) /\ wcur \in WriteBuf
DiskTypes   == maxwritten \in Int
CallerTypes == d \in Locals /\ todo \subseteq DOMAIN image

(* The caller's thread is inside region d.region, d.size bytes before its  *)
(* end; in a gap or after the last region it is at that end.               *)
RegionFrame ==
    mpc \in Unzipping =>
      /\ d.chunk \in DOMAIN image
      /\ d.region \in 1 .. Len(Chunk.regions)
      /\ sectobytes(Region(d.region).start) <= d.offset
      /\ d.offset + d.size = sectobytes(Region(d.region).start + Region(d.region).size)
      /\ d.offset % SECSIZE = 0
      /\ mpc \in Filling => d.size > 0
      /\ mpc \in {"gap", "break"} => d.size = 0
      /\ mpc = "gap" => d.region < Len(Chunk.regions)
      /\ mpc = "break" => d.region = Len(Chunk.regions)

(* The data of chunk c from byte o of the disk on.                         *)
Left(c, o) == {a \in DataOf(c) : a >= o}

(* The data that is still to be queued is what is in the buffer, what was  *)
(* left over of a sector and what has not been decompressed.               *)
Accounted ==
    mpc \in Unzipping =>
      /\ d.pos <= Cardinality(DataOf(Chunk))
      /\ Len(d.resid) < SECSIZE
      /\ d.count % SECSIZE = 0
      /\ mpc \in {"inflate", "inflatewait", "break"} => d.count = 0
      /\ Cardinality(Left(Chunk, d.offset))
           = d.count + Len(d.resid) + (Cardinality(DataOf(Chunk)) - d.pos)

(* The writes in the hands of the caller's thread.                         *)
InHand ==
    /\ mpc \in {"region", "gap"} =>
         IF d.count = 0 THEN d.wbuf = NULL
         ELSE d.wbuf.buf \in BufId /\ d.wbuf.size = d.count
    /\ mpc = "head" =>
         /\ d.size < d.count
         /\ d.wbuf.buf \in BufId /\ d.wbuf.size = d.size
         /\ d.tail.buf = d.wbuf.buf /\ d.tail.size = d.count - d.size
    /\ mpc = "rawwrite" => d.wbuf.buf \in BufId /\ d.wbuf.size \in 1 .. d.size
    /\ mpc \notin {"region", "gap", "head", "rawwrite", "exit"} => d.wbuf = NULL
    /\ mpc \notin {"head", "exit"} => d.tail = NULL

(* The write in the hands of DiskWriter().                                 *)
InWriter == wpc \in {"take", "clear"} => wcur = NULL

IInv ==
    /\ FixedTypes /\ BufferTypes /\ WriteTypes /\ DiskTypes /\ CallerTypes
    /\ RegionFrame /\ Accounted /\ InHand /\ InWriter
    /\ BuffersExact

-----------------------------------------------------------------------------
(* The constants.                                                          *)

(* The buffers are numbered from 1, so no buffer is the 0 of a write that  *)
(* has none.                                                               *)
LEMMA BufIds ==
    /\ SECSIZE \in Nat \ {0} /\ OUTSIZE \in Nat \ {0} /\ MaxWriteBufMem \in Nat
    /\ BufId \subseteq Nat \ {0} /\ IsFiniteSet(BufId)
    /\ 0 \notin BufId
<1>1. SECSIZE \in Nat \ {0} /\ OUTSIZE \in Nat \ {0} /\ MaxWriteBufMem \in Nat
  BY UnzipAssumption
<1> DEFINE n == MaxWriteBufMem \div SECSIZE
<1>2. n \in Nat
  BY <1>1, DivMod
<1> HIDE DEF n
<1>3. IsFiniteSet(1 .. n)
  BY <1>2, FS_Interval
<1> QED BY <1>1, <1>2, <1>3 DEF BufId, n

(* The write that is none.                                                 *)
LEMMA NullIs == NULL \in WriteBuf /\ NULL.buf = 0 /\ NULL.size = 0
  BY DEF NULL, WriteBuf

-----------------------------------------------------------------------------
(* The references of a queue of writes.                                    *)

QueueRefs(q, b) == {i \in DOMAIN q : q[i].buf = b}
One(c) == IF c THEN 1 ELSE 0

(* They can be counted.                                                    *)
LEMMA QueueRefsFinite ==
    ASSUME NEW q \in Seq(WriteBuf), NEW b
    PROVE  IsFiniteSet(QueueRefs(q, b)) /\ Cardinality(QueueRefs(q, b)) \in Nat
<1>1. Len(q) \in Nat /\ DOMAIN q = 1 .. Len(q)
  BY LenProperties
<1>2. IsFiniteSet(1 .. Len(q))
  BY <1>1, FS_Interval
<1>3. QueueRefs(q, b) \in SUBSET (1 .. Len(q))
  BY <1>1 DEF QueueRefs
<1> QED BY <1>2, <1>3, FS_Subset, FS_CardinalityType

(* A write that is queued refers to its buffer.                            *)
LEMMA QueueAppend ==
    ASSUME NEW q \in Seq(WriteBuf), NEW w \in WriteBuf, NEW b
    PROVE  Cardinality(QueueRefs(Append(q, w), b))
             = Cardinality(QueueRefs(q, b)) + One(w.buf = b)
<1> DEFINE r == Append(q, w)
           n == Len(q)
<1>1. n \in Nat /\ DOMAIN q = 1 .. n
  BY LenProperties
<1>2. /\ DOMAIN r = 1 .. n + 1 /\ r[n + 1] = w
      /\ \A i \in 1 .. n : r[i] = q[i]
  BY <1>1, AppendProperties, LenProperties
<1> HIDE DEF r, n
<1>3. CASE w.buf = b
  <2>1. QueueRefs(r, b) = QueueRefs(q, b) \cup {n + 1} /\ n + 1 \notin QueueRefs(q, b)
    BY <1>1, <1>2, <1>3 DEF QueueRefs
  <2> QED BY <1>3, <2>1, QueueRefsFinite, FS_AddElement DEF r, One
<1>4. CASE w.buf # b
  <2>1. QueueRefs(r, b) = QueueRefs(q, b)
    BY <1>1, <1>2, <1>4 DEF QueueRefs
  <2> QED BY <1>4, <2>1, QueueRefsFinite DEF r, One
<1> QED BY <1>3, <1>4

(* A write that is taken off takes its reference with it.                  *)
LEMMA QueueTail ==
    ASSUME NEW q \in Seq(WriteBuf), q # <<>>, NEW b
    PROVE  Cardinality(QueueRefs(q, b))
             = Cardinality(QueueRefs(Tail(q), b)) + One(Head(q).buf = b)
<1> DEFINE r == Tail(q)
           n == Len(q)
           S == QueueRefs(r, b)
           T == QueueRefs(q, b) \ {1}
           f == [i \in S |-> i + 1]
<1>1. n \in Nat \ {0} /\ DOMAIN q = 1 .. n
  BY LenProperties, EmptySeq
<1>2. r \in Seq(WriteBuf) /\ Len(r) = n - 1 /\ \A i \in 1 .. n - 1 : r[i] = q[i + 1]
  BY HeadTailProperties
<1>3. DOMAIN r = 1 .. n - 1
  BY <1>2, LenProperties
<1>4. Head(q) = q[1]
  OBVIOUS
<1> HIDE DEF r, n
<1>5. S \subseteq 1 .. n - 1 /\ T \subseteq 2 .. n
      /\ \A i \in 1 .. n - 1 : i \in S <=> i + 1 \in T
  BY <1>1, <1>2, <1>3 DEF QueueRefs
<1> HIDE DEF S, T
<1>6. f \in Bijection(S, T)
  <2>1. f \in [S -> T]
    BY <1>5
  <2>2. \A i, j \in S : f[i] = f[j] => i = j
    BY <1>1, <1>5
  <2>3. ASSUME NEW t \in T PROVE \E i \in S : f[i] = t
    <3>1. t - 1 \in 1 .. n - 1 /\ (t - 1) + 1 = t
      BY <1>1, <1>5
    <3>2. t - 1 \in S
      BY <1>5, <3>1
    <3> QED BY <3>1, <3>2
  <2> QED BY <2>1, <2>2, <2>3 DEF Bijection, Injection, Surjection, IsInjective
<1>7. IsFiniteSet(S) /\ Cardinality(S) \in Nat
  BY <1>2, QueueRefsFinite DEF S
<1>8. Cardinality(T) = Cardinality(S)
  BY <1>6, <1>7, FS_Bijection DEF ExistsBijection
<1>9. 1 \in QueueRefs(q, b) <=> Head(q).buf = b
  BY <1>1, <1>4 DEF QueueRefs
<1>10. Cardinality(T) = Cardinality(QueueRefs(q, b)) - One(Head(q).buf = b)
  <2> DEFINE U == QueueRefs(q, b)
  <2>1. IsFiniteSet(U) /\ Cardinality(U) \in Nat
    BY QueueRefsFinite
  <2> HIDE DEF U
  <2>2. Cardinality(U \ {1}) = IF 1 \in U THEN Cardinality(U) - 1 ELSE Cardinality(U)
    BY <2>1, FS_RemoveElement
  <2>3. T = U \ {1} /\ (1 \in U <=> Head(q).buf = b)
    BY <1>9 DEF T, U
  <2> QED BY <2>1, <2>2, <2>3 DEF One, U
<1> QED BY <1>7, <1>8, <1>10, QueueRefsFinite DEF S, r, One

-----------------------------------------------------------------------------
(* The bytes of the buffers in use.                                        *)

BytesOf(f) ==
    {x \in BufId \X (1 .. OUTSIZE) : f[x[1]].refs > 0 /\ x[2] <= f[x[1]].size}

(* The bytes of one buffer.                                                *)
LEMMA ColumnSize ==
    ASSUME NEW b, NEW n \in Nat
    PROVE  IsFiniteSet({b} \X (1 .. n)) /\ Cardinality({b} \X (1 .. n)) = n
<1> DEFINE S == 1 .. n
           T == {b} \X (1 .. n)
           f == [i \in S |-> <<b, i>>]
<1>1. f \in Bijection(S, T)
  <2>1. f \in [S -> T]
    OBVIOUS
  <2>2. \A i, j \in S : f[i] = f[j] => i = j
    OBVIOUS
  <2>3. \A t \in T : \E i \in S : f[i] = t
    OBVIOUS
  <2> QED BY <2>1, <2>2, <2>3 DEF Bijection, Injection, Surjection, IsInjective
<1>2. IsFiniteSet(S) /\ Cardinality(S) = n
  BY FS_Interval
<1> HIDE DEF f, S, T
<1>3. ExistsBijection(S, T)
  BY <1>1 DEF ExistsBijection
<1>4. IsFiniteSet(T) /\ Cardinality(T) = Cardinality(S)
  BY <1>2, <1>3, FS_Bijection
<1> QED BY <1>2, <1>4 DEF T

(* They are finitely many.                                                 *)
LEMMA BytesFinite ==
    ASSUME NEW f
    PROVE  IsFiniteSet(BytesOf(f)) /\ Cardinality(BytesOf(f)) \in Nat
<1> DEFINE Col(b) == {b} \X (1 .. OUTSIZE)
           Cols == {Col(b) : b \in BufId}
           g == [b \in BufId |-> Col(b)]
<1>1. OUTSIZE \in Nat /\ IsFiniteSet(BufId)
  BY BufIds
<1>2. \A C \in Cols : IsFiniteSet(C)
  BY <1>1, ColumnSize
<1>3. IsFiniteSet(Cols)
  <2>1. g \in Surjection(BufId, Cols)
    BY DEF Surjection
  <2> QED BY <1>1, <2>1, FS_Surjection
<1>4. IsFiniteSet(UNION Cols)
  <2> HIDE DEF Cols
  <2> QED BY <1>2, <1>3, FS_UNION
<1>5. BytesOf(f) \in SUBSET (UNION Cols)
  BY DEF BytesOf
<1> QED BY <1>4, <1>5, FS_Subset, FS_CardinalityType

(* A buffer with one reference more or fewer is a buffer.                  *)
LEMMA Counted ==
    ASSUME NEW r \in Buffer
    PROVE  /\ r.refs \in Nat /\ r.size \in 0 .. OUTSIZE
           /\ LET e == [r EXCEPT !.refs = @ + 1]
              IN  e \in Buffer /\ e.refs = r.refs + 1 /\ e.size = r.size
           /\ r.refs > 0 =>
              LET e == [r EXCEPT !.refs = @ - 1]
              IN  e \in Buffer /\ e.refs = r.refs - 1 /\ e.size = r.size
  BY DEF Buffer

(* A buffer that is allocated adds its size.                               *)
LEMMA BytesAlloc ==
    ASSUME NEW f \in [BufId -> Buffer], NEW b \in BufId, NEW e \in Buffer,
           f[b].refs = 0, e.refs = 1
    PROVE  Cardinality(BytesOf([f EXCEPT ![b] = e])) = Cardinality(BytesOf(f)) + e.size
<1> DEFINE g == [f EXCEPT ![b] = e]
           S == BytesOf(f)
           T == {b} \X (1 .. e.size)
<1>1. e.size \in Nat /\ e.size \in 0 .. OUTSIZE /\ OUTSIZE \in Nat
  BY BufIds DEF Buffer
<1>2. g[b] = e /\ \A c \in BufId : c # b => g[c] = f[c]
  OBVIOUS
<1> HIDE DEF g
<1>3. ASSUME NEW x \in BufId \X (1 .. OUTSIZE)
      PROVE  x \in BytesOf(g) <=> x \in S \/ x \in T
  <2>1. x[1] \in BufId /\ x[2] \in 1 .. OUTSIZE /\ x = <<x[1], x[2]>>
    OBVIOUS
  <2>2. CASE x[1] = b
    BY <1>1, <1>2, <2>1, <2>2 DEF BytesOf
  <2>3. CASE x[1] # b
    BY <1>1, <1>2, <2>1, <2>3 DEF BytesOf
  <2> QED BY <2>2, <2>3
<1>4. /\ BytesOf(g) \subseteq BufId \X (1 .. OUTSIZE)
      /\ S \subseteq BufId \X (1 .. OUTSIZE) /\ T \subseteq BufId \X (1 .. OUTSIZE)
  BY <1>1 DEF BytesOf
<1>5. BytesOf(g) = S \cup T
  BY <1>3, <1>4
<1>6. S \cap T = {}
  BY DEF BytesOf
<1>7. IsFiniteSet(T) /\ Cardinality(T) = e.size
  BY <1>1, ColumnSize
<1>8. IsFiniteSet(S) /\ Cardinality(S) \in Nat
  BY BytesFinite
<1> HIDE DEF S, T
<1>9. Cardinality(S \cup T) = Cardinality(S) + Cardinality(T) - Cardinality(S \cap T)
  BY <1>7, <1>8, FS_Union
<1>10. Cardinality(S \cap T) = 0
  BY <1>6, FS_EmptySet
<1>11. Cardinality(BytesOf(g)) = Cardinality(S) + e.size
  BY <1>1, <1>5, <1>7, <1>8, <1>9, <1>10
<1> QED BY <1>11 DEF g, S

(* A buffer whose last reference goes takes its size.                      *)
LEMMA BytesFree ==
    ASSUME NEW f \in [BufId -> Buffer], NEW b \in BufId, f[b].refs = 1
    PROVE  Cardinality(BytesOf([f EXCEPT ![b].refs = @ - 1]))
             = Cardinality(BytesOf(f)) - f[b].size
<1> DEFINE g == [f EXCEPT ![b].refs = @ - 1]
<1>1. f[b] \in Buffer
  OBVIOUS
<1>2. g \in [BufId -> Buffer] /\ g[b].refs = 0
  <2> DEFINE e == [f[b] EXCEPT !.refs = @ - 1]
  <2>1. e \in Buffer /\ e.refs = 0
    <3> DEFINE r == f[b]
    <3>1. r \in Buffer /\ r.refs > 0 /\ r.refs = 1
      BY <1>1
    <3> HIDE DEF r
    <3>2. [r EXCEPT !.refs = @ - 1] \in Buffer
          /\ [r EXCEPT !.refs = @ - 1].refs = r.refs - 1
      BY <3>1, Counted
    <3> QED BY <3>1, <3>2 DEF r
  <2>2. g = [f EXCEPT ![b] = e]
    OBVIOUS
  <2> HIDE DEF e, g
  <2> QED BY <2>1, <2>2
<1>3. [g EXCEPT ![b] = f[b]] = f
  <2>1. \A c \in BufId : [g EXCEPT ![b] = f[b]][c] = f[c]
    OBVIOUS
  <2> QED BY <2>1
<1> HIDE DEF g
<1>4. Cardinality(BytesOf(f)) = Cardinality(BytesOf(g)) + f[b].size
  BY <1>1, <1>2, <1>3, BytesAlloc
<1>5. f[b].size \in Nat /\ Cardinality(BytesOf(g)) \in Nat
  BY <1>1, BytesFinite, BufIds DEF Buffer
<1> QED BY <1>4, <1>5 DEF g

(* Sharing a buffer, or dropping a reference that is not the last, changes *)
(* nothing.                                                                *)
LEMMA BytesShared ==
    ASSUME NEW f \in [BufId -> Buffer], NEW g \in [BufId -> Buffer],
           \A b \in BufId : /\ f[b].refs > 0 <=> g[b].refs > 0
                            /\ f[b].size = g[b].size
    PROVE  BytesOf(g) = BytesOf(f)
  BY DEF BytesOf

-----------------------------------------------------------------------------
(* Whole sectors.                                                          *)

(* Numbers of bytes that are whole sectors.                                *)
LEMMA WholeSectors ==
    ASSUME NEW a \in Nat
    PROVE  /\ a % SECSIZE = 0 <=> \E k \in Nat : a = k * SECSIZE
           /\ a % SECSIZE \in 0 .. SECSIZE - 1 /\ a % SECSIZE <= a
           /\ (a - (a % SECSIZE)) % SECSIZE = 0
<1> DEFINE n == SECSIZE
           q == a \div n
           r == a % n
<1>1. n \in Nat \ {0}
  BY BufIds
<1> HIDE DEF n
<1>2. q \in Nat /\ r \in 0 .. n - 1 /\ a = q * n + r
  BY <1>1, DivMod
<1>3. ASSUME NEW k \in Nat PROVE k * n \in Nat /\ (k * n) % n = 0
  <2>1. k * n \in Nat
    BY <1>1
  <2> DEFINE p == (k * n) \div n
             s == (k * n) % n
  <2>2. p \in Nat /\ s \in 0 .. n - 1 /\ k * n = p * n + s
    BY <1>1, <2>1, DivMod
  <2> HIDE DEF p, s
  <2>3. k * n + 0 = p * n + s /\ 0 \in 0 .. n - 1
    BY <1>1, <2>1, <2>2
  <2>4. s = 0
    BY <1>1, <2>2, <2>3, DivUnique
  <2> QED BY <2>1, <2>4 DEF s
<1> HIDE DEF q, r
<1>4. r = 0 <=> \E k \in Nat : a = k * n
  <2>1. ASSUME r = 0 PROVE \E k \in Nat : a = k * n
    <3>1. a = q * n
      BY <1>1, <1>2, <2>1
    <3> QED BY <1>2, <3>1
  <2>2. ASSUME NEW k \in Nat, a = k * n PROVE r = 0
    BY <1>3, <2>2 DEF r
  <2> QED BY <2>1, <2>2
<1>5. q * n \in Nat
  BY <1>2, <1>3
<1>6. a - r = q * n /\ r <= a
  BY <1>1, <1>2, <1>5
<1>7. (a - r) % n = 0
  BY <1>2, <1>3, <1>6
<1> QED BY <1>2, <1>4, <1>6, <1>7 DEF n, r

(* Sums and differences of whole sectors are whole sectors, and one is the *)
(* least.                                                                  *)
LEMMA WholeSectorSums ==
    ASSUME NEW a \in Nat, NEW b \in Nat, a % SECSIZE = 0, b % SECSIZE = 0
    PROVE  /\ (a + b) % SECSIZE = 0
           /\ a >= b => (a - b) % SECSIZE = 0
           /\ a > 0 => a >= SECSIZE
<1> DEFINE n == SECSIZE
<1>1. n \in Nat \ {0}
  BY BufIds
<1>2. PICK j \in Nat : a = j * n
  BY WholeSectors
<1>3. PICK k \in Nat : b = k * n
  BY WholeSectors
<1>4. (a + b) % SECSIZE = 0
  <2>1. a + b = (j + k) * n /\ j + k \in Nat /\ a + b \in Nat
    <3> HIDE DEF n
    <3> QED BY <1>1, <1>2, <1>3
  <2> QED BY <2>1, WholeSectors
<1>5. ASSUME a >= b PROVE (a - b) % SECSIZE = 0
  <2>1. a - b = (j - k) * n /\ a - b \in Nat
    <3> HIDE DEF n
    <3> QED BY <1>1, <1>2, <1>3, <1>5
  <2>2. j - k \in Nat
    <3>1. CASE j < k
      <4>1. (k - j) * n >= n
        <5> HIDE DEF n
        <5> QED BY <1>1, <3>1
      <4>2. (k - j) * n = b - a
        <5> HIDE DEF n
        <5> QED BY <1>1, <1>2, <1>3
      <4> QED BY <1>1, <1>5, <4>1, <4>2
    <3> QED BY <3>1
  <2> QED BY <2>1, <2>2, WholeSectors
<1>6. ASSUME a > 0 PROVE a >= SECSIZE
  <2>1. j # 0
    <3> HIDE DEF n
    <3> QED BY <1>1, <1>2, <1>6
  <2>2. j * n >= n
    <3> HIDE DEF n
    <3> QED BY <1>1, <2>1
  <2> QED BY <1>2, <2>2
<1> QED BY <1>4, <1>5, <1>6

-----------------------------------------------------------------------------
(* The regions of a chunk, as bytes of the disk.                           *)

Lo(c, i) == sectobytes(c.regions[i].start)
Hi(c, i) == sectobytes(c.regions[i].start + c.regions[i].size)

(* A region is some whole sectors, and the next one begins after it.       *)
LEMMA RegionBytes ==
    ASSUME NEW c, IsChunk(c), NEW i \in 1 .. Len(c.regions)
    PROVE  /\ Len(c.regions) \in Nat \ {0}
           /\ Lo(c, i) \in Nat /\ Hi(c, i) \in Nat /\ Lo(c, i) < Hi(c, i)
           /\ Lo(c, i) % SECSIZE = 0 /\ Hi(c, i) % SECSIZE = 0
           /\ sectobytes(c.regions[i].size) = Hi(c, i) - Lo(c, i)
           /\ i < Len(c.regions) => Hi(c, i) < Lo(c, i + 1)
<1>1. SECSIZE \in Nat \ {0}
  BY BufIds
<1>2. Len(c.regions) \in Nat \ {0}
  BY EmptySeq DEF IsChunk
<1>3. ASSUME NEW j \in 1 .. Len(c.regions)
      PROVE  c.regions[j].start \in Nat /\ c.regions[j].size \in Nat \ {0}
  <2>1. c.regions[j] \in [start : Nat, size : Nat \ {0}]
    BY ElementOfSeq DEF IsChunk
  <2> QED BY <2>1
<1> DEFINE s == c.regions[i].start
           z == c.regions[i].size
<1>4. s \in Nat /\ z \in Nat \ {0}
  BY <1>3
<1> HIDE DEF s, z
<1>5. s * SECSIZE \in Nat /\ (s + z) * SECSIZE \in Nat
  BY <1>1, <1>4
<1>6. /\ z * SECSIZE = (s + z) * SECSIZE - s * SECSIZE
      /\ s * SECSIZE < (s + z) * SECSIZE
  BY <1>1, <1>4
<1>7. (s * SECSIZE) % SECSIZE = 0 /\ ((s + z) * SECSIZE) % SECSIZE = 0
  <2>1. ASSUME NEW k \in Nat, k * SECSIZE \in Nat PROVE (k * SECSIZE) % SECSIZE = 0
    <3> DEFINE x == k * SECSIZE
    <3>1. x \in Nat /\ \E m \in Nat : x = m * SECSIZE
      BY <2>1
    <3> HIDE DEF x
    <3>2. x % SECSIZE = 0
      BY <3>1, WholeSectors
    <3> QED BY <3>2 DEF x
  <2>2. s \in Nat /\ s + z \in Nat
    BY <1>4
  <2> QED BY <2>1, <2>2, <1>5
<1>8. ASSUME i < Len(c.regions) PROVE Hi(c, i) < Lo(c, i + 1)
  <2> DEFINE t == c.regions[i + 1].start
  <2>1. i + 1 \in 1 .. Len(c.regions) /\ i \in 1 .. Len(c.regions) - 1
    BY <1>2, <1>8
  <2>2. t \in Nat
    BY <1>3, <2>1
  <2>3. s + z < t
    BY <2>1 DEF s, z, IsChunk
  <2> HIDE DEF t
  <2>4. (s + z) * SECSIZE < t * SECSIZE
    BY <1>1, <1>4, <2>2, <2>3
  <2> QED BY <2>4 DEF Hi, Lo, sectobytes, s, z, t
<1> QED BY <1>2, <1>5, <1>6, <1>7, <1>8 DEF Hi, Lo, sectobytes, s, z

(* All later ones do.                                                      *)
LEMMA RegionsInOrder ==
    ASSUME NEW c, IsChunk(c), NEW i \in 1 .. Len(c.regions),
           NEW j \in 1 .. Len(c.regions), i < j
    PROVE  Hi(c, i) < Lo(c, j)
<1> DEFINE n == Len(c.regions)
           S == {k \in Nat : i + k + 1 <= n => Hi(c, i) < Lo(c, i + k + 1)}
<1>1. n \in Nat /\ i \in 1 .. n /\ j \in 1 .. n
  BY RegionBytes
<1> HIDE DEF n
<1>2. ASSUME NEW m \in 1 .. n
      PROVE  /\ Lo(c, m) \in Nat /\ Hi(c, m) \in Nat /\ Lo(c, m) < Hi(c, m)
             /\ m < n => Hi(c, m) < Lo(c, m + 1)
  BY RegionBytes DEF n
<1>3. 0 \in S
  BY <1>1, <1>2
<1>4. ASSUME NEW k \in S PROVE k + 1 \in S
  <2> SUFFICES ASSUME i + (k + 1) + 1 <= n PROVE Hi(c, i) < Lo(c, i + (k + 1) + 1)
    OBVIOUS
  <2> DEFINE m == i + k + 1
  <2>1. k \in Nat /\ m \in 1 .. n /\ m < n /\ m + 1 \in 1 .. n /\ m + 1 = i + (k + 1) + 1
    BY <1>1
  <2>2. Hi(c, i) < Lo(c, m)
    BY <1>1, <2>1
  <2> HIDE DEF m
  <2>3. Lo(c, m) < Hi(c, m) /\ Hi(c, m) < Lo(c, m + 1)
    BY <1>2, <2>1
  <2>4. Hi(c, i) \in Nat /\ Lo(c, m) \in Nat /\ Hi(c, m) \in Nat /\ Lo(c, m + 1) \in Nat
    BY <1>1, <1>2, <2>1
  <2>5. Hi(c, i) < Lo(c, m + 1)
    BY <2>2, <2>3, <2>4
  <2> QED BY <2>1, <2>5
<1> HIDE DEF S
<1>5. S = Nat
  <2>1. S \in SUBSET Nat
    BY DEF S
  <2> QED BY <1>3, <1>4, <2>1, SetInduction
<1>6. j - i - 1 \in S /\ i + (j - i - 1) + 1 = j
  BY <1>1, <1>5
<1> QED BY <1>1, <1>6 DEF S

-----------------------------------------------------------------------------
(* The data of a chunk.                                                    *)

(* It is the bytes of the regions, finitely many.                          *)
LEMMA DataIs ==
    ASSUME NEW c, IsChunk(c)
    PROVE  /\ \A a : a \in DataOf(c) <=>
                \E i \in 1 .. Len(c.regions) : a \in Lo(c, i) .. Hi(c, i) - 1
           /\ DataOf(c) \subseteq Nat /\ IsFiniteSet(DataOf(c))
           /\ Cardinality(DataOf(c)) \in Nat
<1> DEFINE n == Len(c.regions)
<1>1. n \in Nat /\ n \in 1 .. n /\ DOMAIN c.regions = 1 .. n
  BY LenProperties, EmptySeq DEF IsChunk
<1>2. \A a : a \in DataOf(c) <=> \E i \in 1 .. n : a \in Lo(c, i) .. Hi(c, i) - 1
  BY <1>1 DEF DataOf, Lo, Hi
<1>3. \A i \in 1 .. n : Lo(c, i) \in Nat /\ Hi(c, i) \in Nat
  BY RegionBytes
<1>4. ASSUME NEW i \in 1 .. n PROVE Hi(c, i) <= Hi(c, n)
  <2>1. CASE i = n
    BY <1>3, <2>1
  <2>2. CASE i < n
    <3>1. Hi(c, i) < Lo(c, n) /\ Lo(c, n) < Hi(c, n)
      BY <1>1, <2>2, RegionsInOrder, RegionBytes
    <3> QED BY <1>1, <1>3, <3>1
  <2> QED BY <1>1, <2>1, <2>2
<1>5. DataOf(c) \in SUBSET Nat
  BY <1>2, <1>3
<1>6. \A a \in DataOf(c) : a <= Hi(c, n)
  BY <1>1, <1>2, <1>3, <1>4
<1>7. IsFiniteSet(DataOf(c))
  BY <1>1, <1>3, <1>5, <1>6, FS_BoundedSetOfNaturals
<1> QED BY <1>2, <1>5, <1>7, FS_CardinalityType

(* The number of bytes of data before byte a.                              *)
Rank(c, a) == Cardinality({b \in DataOf(c) : b < a})

(* It grows with the data.                                                 *)
LEMMA RankGrows ==
    ASSUME NEW c, IsChunk(c), NEW a \in DataOf(c)
    PROVE  /\ Rank(c, a) \in 0 .. Cardinality(DataOf(c)) - 1
           /\ \A b \in DataOf(c) : a < b => Rank(c, a) < Rank(c, b)
<1> DEFINE D == DataOf(c)
           Below(x) == {b \in D : b < x}
<1>1. D \subseteq Nat /\ IsFiniteSet(D) /\ Cardinality(D) \in Nat /\ a \in D
  BY DataIs
<1> HIDE DEF D
<1>2. \A x : IsFiniteSet(Below(x)) /\ Cardinality(Below(x)) \in Nat
  <2>1. \A x : Below(x) \in SUBSET D
    OBVIOUS
  <2> HIDE DEF Below
  <2> QED BY <1>1, <2>1, FS_Subset, FS_CardinalityType
<1>3. a \notin Below(a)
  BY <1>1
<1>4. ASSUME NEW T, IsFiniteSet(T), Below(a) \cup {a} \subseteq T
      PROVE  Cardinality(Below(a)) < Cardinality(T)
  <2> DEFINE B == Below(a)
  <2>1. IsFiniteSet(B) /\ a \notin B /\ Cardinality(B) \in Nat
    BY <1>2, <1>3
  <2>2. B \cup {a} \in SUBSET T
    BY <1>4
  <2> HIDE DEF B
  <2>3. Cardinality(B \cup {a}) = Cardinality(B) + 1
    BY <2>1, FS_AddElement
  <2>4. Cardinality(B \cup {a}) <= Cardinality(T) /\ Cardinality(T) \in Nat
    BY <1>4, <2>2, FS_Subset, FS_CardinalityType
  <2>5. Cardinality(B) < Cardinality(T)
    BY <2>1, <2>3, <2>4
  <2> QED BY <2>5 DEF B
<1>5. Cardinality(Below(a)) < Cardinality(D)
  <2>1. Below(a) \cup {a} \subseteq D
    BY <1>1
  <2> HIDE DEF Below
  <2> QED BY <1>1, <1>4, <2>1
<1>6. ASSUME NEW b \in D, a < b PROVE Cardinality(Below(a)) < Cardinality(Below(b))
  <2>1. Below(a) \cup {a} \subseteq Below(b)
    <3>1. a \in Nat /\ b \in Nat /\ \A x \in D : x \in Nat
      BY <1>1
    <3>2. \A x \in D : x < a => x < b
      BY <1>6, <3>1
    <3> QED BY <1>1, <1>6, <3>2
  <2> HIDE DEF Below
  <2> QED BY <1>2, <1>4, <2>1
<1>7. Cardinality(Below(a)) \in Nat
  BY <1>2
<1>8. Rank(c, a) = Cardinality(Below(a)) /\ \A b : Rank(c, b) = Cardinality(Below(b))
  BY DEF Rank, D
<1> HIDE DEF Below
<1> QED BY <1>1, <1>5, <1>6, <1>7, <1>8 DEF D

(* The stream is as long as the data, and byte a is where its rank says.   *)
LEMMA StreamIs ==
    ASSUME NEW c, IsChunk(c)
    PROVE  /\ Stream(c) \in Seq(Int)
           /\ Len(Stream(c)) = Cardinality(DataOf(c))
           /\ \A a \in DataOf(c) : Stream(c)[Rank(c, a) + 1] = a
<1> DEFINE D == DataOf(c)
           N == Cardinality(DataOf(c))
           r == [a \in D |-> Rank(c, a) + 1]
<1>1. D \subseteq Nat /\ IsFiniteSet(D) /\ N \in Nat
  BY DataIs
<1>2. \A a \in D : Rank(c, a) \in 0 .. N - 1
  BY RankGrows
<1>3. \A a, b \in D : a < b => Rank(c, a) < Rank(c, b)
  BY RankGrows
<1>4. \A a, b \in D : Rank(c, a) = Rank(c, b) => a = b
  <2> SUFFICES ASSUME NEW a \in D, NEW b \in D, Rank(c, a) = Rank(c, b) PROVE a = b
    OBVIOUS
  <2>1. Rank(c, a) \in Nat /\ Rank(c, b) \in Nat /\ a \in Nat /\ b \in Nat
    BY <1>1, <1>2
  <2>2. ~ (a < b) /\ ~ (b < a)
    BY <1>3, <2>1
  <2> QED BY <2>1, <2>2
<1> HIDE DEF D, N
<1>5. r \in Injection(D, 1 .. N)
  <2>1. r \in [D -> 1 .. N]
    BY <1>1, <1>2
  <2>2. ASSUME NEW a \in D, NEW b \in D, r[a] = r[b] PROVE a = b
    <3>1. Rank(c, a) + 1 = Rank(c, b) + 1 /\ Rank(c, a) \in Nat /\ Rank(c, b) \in Nat
      BY <1>1, <1>2, <2>2
    <3> QED BY <1>4, <3>1
  <2> HIDE DEF r
  <2> QED BY <2>1, <2>2 DEF Injection, IsInjective
<1>6. r \in Surjection(D, 1 .. N)
  <2>1. IsFiniteSet(1 .. N) /\ Cardinality(1 .. N) = N
    BY <1>1, FS_Interval
  <2>2. Cardinality(D) = Cardinality(1 .. N)
    BY <2>1 DEF D, N
  <2> HIDE DEF r
  <2> QED BY <1>5, <2>1, <2>2, FS_Injection
<1>7. ASSUME NEW k \in 1 .. N PROVE \E a \in D : Rank(c, a) = k - 1
  <2>1. PICK a \in D : r[a] = k
    <3> HIDE DEF r
    <3> QED BY <1>6 DEF Surjection
  <2>2. Rank(c, a) + 1 = k /\ Rank(c, a) \in Nat
    BY <1>1, <1>2, <2>1
  <2> QED BY <1>1, <2>2
<1> DEFINE At(k) == CHOOSE a \in D : Rank(c, a) = k - 1
<1>8. Stream(c) = [k \in 1 .. N |-> At(k)]
  BY DEF Stream, Rank, D, N
<1>9. ASSUME NEW k \in 1 .. N PROVE At(k) \in D /\ Rank(c, At(k)) = k - 1
  BY <1>7
<1> HIDE DEF At
<1>10. \A k \in 1 .. N : Stream(c)[k] \in Int /\ Stream(c)[k] = At(k)
  <2> SUFFICES ASSUME NEW k \in 1 .. N
               PROVE  Stream(c)[k] \in Int /\ Stream(c)[k] = At(k)
    OBVIOUS
  <2>1. Stream(c)[k] = At(k)
    BY <1>8
  <2>2. At(k) \in Nat
    BY <1>1, <1>9
  <2> QED BY <2>1, <2>2
<1>11. Stream(c) \in Seq(Int) /\ Len(Stream(c)) = N
  BY <1>1, <1>8, <1>10
<1>12. ASSUME NEW a \in D PROVE Stream(c)[Rank(c, a) + 1] = a
  <2> DEFINE k == Rank(c, a) + 1
  <2>1. k \in 1 .. N /\ k - 1 = Rank(c, a)
    BY <1>1, <1>2
  <2> HIDE DEF k
  <2>2. At(k) \in D /\ Rank(c, At(k)) = Rank(c, a)
    BY <1>9, <2>1
  <2>3. At(k) = a
    BY <1>4, <2>2
  <2> QED BY <1>10, <2>1, <2>3 DEF k
<1> QED BY <1>11, <1>12 DEF D, N

-----------------------------------------------------------------------------
(* What is left of the data.                                               *)

(* At the first region all of it, after the last one nothing.              *)
LEMMA LeftEnds ==
    ASSUME NEW c, IsChunk(c)
    PROVE  /\ Left(c, Lo(c, 1)) = DataOf(c)
           /\ Left(c, Hi(c, Len(c.regions))) = {}
<1> DEFINE n == Len(c.regions)
<1>1. n \in Nat \ {0} /\ 1 \in 1 .. n /\ n \in 1 .. n
  BY EmptySeq DEF IsChunk
<1>2. \A i \in 1 .. n : Lo(c, i) \in Nat /\ Hi(c, i) \in Nat /\ Lo(c, i) < Hi(c, i)
  BY RegionBytes
<1>3. \A i, j \in 1 .. n : i < j => Hi(c, i) < Lo(c, j)
  BY RegionsInOrder
<1>4. \A a : a \in DataOf(c) <=> \E i \in 1 .. n : a \in Lo(c, i) .. Hi(c, i) - 1
  BY DataIs
<1> HIDE DEF n
<1>5. ASSUME NEW a \in DataOf(c) PROVE a >= Lo(c, 1) /\ ~ (a >= Hi(c, n))
  <2>1. PICK i \in 1 .. n : a \in Lo(c, i) .. Hi(c, i) - 1
    BY <1>4
  <2>2. Lo(c, 1) <= Lo(c, i)
    <3>1. CASE i = 1
      BY <1>2, <3>1
    <3>2. CASE 1 < i
      <4>1. Hi(c, 1) < Lo(c, i)
        BY <1>1, <1>3, <3>2
      <4> QED BY <1>1, <1>2, <4>1
    <3> QED BY <1>1, <3>1, <3>2
  <2>3. Hi(c, i) <= Hi(c, n)
    <3>1. CASE i = n
      BY <1>2, <3>1
    <3>2. CASE i < n
      <4>1. Hi(c, i) < Lo(c, n)
        BY <1>1, <1>3, <3>2
      <4> QED BY <1>1, <1>2, <4>1
    <3> QED BY <1>1, <3>1, <3>2
  <2> QED BY <1>1, <1>2, <2>1, <2>2, <2>3
<1> QED BY <1>5 DEF Left, n

(* There is none between two regions.                                      *)
LEMMA LeftGap ==
    ASSUME NEW c, IsChunk(c), NEW i \in 1 .. Len(c.regions), i < Len(c.regions)
    PROVE  Left(c, Hi(c, i)) = Left(c, Lo(c, i + 1))
<1> DEFINE n == Len(c.regions)
<1>1. n \in Nat \ {0} /\ i \in 1 .. n /\ i + 1 \in 1 .. n
  BY EmptySeq DEF IsChunk
<1>2. \A j \in 1 .. n : Lo(c, j) \in Nat /\ Hi(c, j) \in Nat /\ Lo(c, j) < Hi(c, j)
  BY RegionBytes
<1>3. \A j, k \in 1 .. n : j < k => Hi(c, j) < Lo(c, k)
  BY RegionsInOrder
<1>4. \A a : a \in DataOf(c) <=> \E j \in 1 .. n : a \in Lo(c, j) .. Hi(c, j) - 1
  BY DataIs
<1> HIDE DEF n
<1>5. ASSUME NEW a \in DataOf(c) PROVE a >= Hi(c, i) <=> a >= Lo(c, i + 1)
  <2>1. PICK j \in 1 .. n : a \in Lo(c, j) .. Hi(c, j) - 1
    BY <1>4
  <2>2. a \in Nat /\ Lo(c, j) <= a /\ a < Hi(c, j)
    BY <1>2, <2>1
  <2>3. CASE j <= i
    <3>1. Hi(c, j) <= Hi(c, i)
      <4>1. CASE j = i
        BY <1>2, <4>1
      <4>2. CASE j < i
        <5>1. Hi(c, j) < Lo(c, i)
          BY <1>1, <1>3, <4>2
        <5> QED BY <1>1, <1>2, <5>1
      <4> QED BY <1>1, <2>3, <4>1, <4>2
    <3>2. Hi(c, i) < Lo(c, i + 1)
      BY <1>1, <1>3
    <3> QED BY <1>1, <1>2, <2>2, <3>1, <3>2
  <2>4. CASE j > i
    <3>1. Lo(c, i + 1) <= Lo(c, j)
      <4>1. CASE j = i + 1
        BY <1>2, <4>1
      <4>2. CASE j > i + 1
        <5>1. Hi(c, i + 1) < Lo(c, j)
          BY <1>1, <1>3, <4>2
        <5> QED BY <1>1, <1>2, <5>1
      <4> QED BY <1>1, <2>4, <4>1, <4>2
    <3>2. Hi(c, i) < Lo(c, i + 1)
      BY <1>1, <1>3
    <3> QED BY <1>1, <1>2, <2>2, <3>1, <3>2
  <2> QED BY <1>1, <2>3, <2>4
<1> QED BY <1>5 DEF Left

(* Inside a region every byte is data.                                     *)
LEMMA LeftStep ==
    ASSUME NEW c, IsChunk(c), NEW i \in 1 .. Len(c.regions),
           NEW o \in Nat, NEW k \in Nat, Lo(c, i) <= o, o + k <= Hi(c, i)
    PROVE  /\ IsFiniteSet(Left(c, o)) /\ Cardinality(Left(c, o)) \in Nat
           /\ Cardinality(Left(c, o + k)) = Cardinality(Left(c, o)) - k
<1>1. Lo(c, i) \in Nat /\ Hi(c, i) \in Nat
  BY RegionBytes
<1>2. DataOf(c) \subseteq Nat /\ IsFiniteSet(DataOf(c))
  BY DataIs
<1>3. \A x : IsFiniteSet(Left(c, x)) /\ Cardinality(Left(c, x)) \in Nat
  <2>1. \A x : Left(c, x) \in SUBSET DataOf(c)
    BY DEF Left
  <2> QED BY <1>2, <2>1, FS_Subset, FS_CardinalityType
<1> DEFINE T == o .. o + k - 1
<1>4. IsFiniteSet(T) /\ Cardinality(T) = k
  <2>1. o \in Int /\ o + k - 1 \in Int
    OBVIOUS
  <2>2. IsFiniteSet(T) /\ Cardinality(T) = IF o > o + k - 1 THEN 0 ELSE o + k - 1 - o + 1
    BY <2>1, FS_Interval
  <2> QED BY <2>2
<1>5. T \subseteq DataOf(c)
  <2>1. T \subseteq Lo(c, i) .. Hi(c, i) - 1
    BY <1>1
  <2> QED BY <2>1, DataIs
<1>6. Left(c, o) = Left(c, o + k) \cup T
  <2>1. ASSUME NEW a \in DataOf(c) PROVE a >= o <=> a >= o + k \/ a \in T
    BY <1>2
  <2> HIDE DEF T
  <2> QED BY <1>5, <2>1 DEF Left
<1>7. Left(c, o + k) \cap T = {}
  BY <1>2 DEF Left
<1> DEFINE S == Left(c, o + k)
<1>8. IsFiniteSet(S) /\ Cardinality(S) \in Nat
  BY <1>3
<1> HIDE DEF S, T
<1>9. Cardinality(S \cup T) = Cardinality(S) + Cardinality(T) - Cardinality(S \cap T)
  BY <1>4, <1>8, FS_Union
<1>10. Cardinality(S \cap T) = 0
  BY <1>7, FS_EmptySet DEF S
<1>11. Cardinality(S \cup T) = Cardinality(S) + k
  BY <1>4, <1>8, <1>9, <1>10
<1>12. Left(c, o) = S \cup T
  BY <1>6 DEF S
<1>13. Cardinality(S) = Cardinality(Left(c, o)) - k
  BY <1>8, <1>11, <1>12
<1> QED BY <1>3, <1>13 DEF S

-----------------------------------------------------------------------------
(* Buffers and writes.                                                     *)

MemExact == curmem = Cardinality(BytesOf(bufs)) /\ curmem <= MaxWriteBufMem

(* The parts of BuffersExact.                                              *)
LEMMA ExactIs ==
    /\ BuffersExact <=> (\A b \in BufId : bufs[b].refs = Refs(b)) /\ MemExact
    /\ \A b : Refs(b) = Cardinality(QueueRefs(writequeue, b)) + One(wcur.buf = b)
                          + One(d.wbuf.buf = b) + One(d.tail.buf = b)
<1>1. BytesInUse = BytesOf(bufs)
  BY DEF BytesInUse, BytesOf
<1>2. BuffersExact <=> (\A b \in BufId : bufs[b].refs = Refs(b)) /\ MemExact
  BY <1>1, Zenon DEF BuffersExact, MemExact
<1>3. \A b : Refs(b) = Cardinality(QueueRefs(writequeue, b)) + One(wcur.buf = b)
                          + One(d.wbuf.buf = b) + One(d.tail.buf = b)
  BY Zenon DEF Refs, QueueRefs, One
<1> QED BY <1>2, <1>3

(* free_writebuf() takes one reference of one buffer.                      *)
LEMMA FreeDoes ==
    ASSUME BufferTypes, MemExact, NEW w \in WriteBuf, FreeWritebuf(w),
           w.buf # 0 => bufs[w.buf].refs > 0
    PROVE  /\ BufferTypes' /\ MemExact'
           /\ \A b \in BufId : bufs[b].refs = bufs'[b].refs + One(w.buf = b)
<1> DEFINE v == w.buf
<1>1. v \in BufId \cup {0}
  BY DEF WriteBuf
<1>2. bufs \in [BufId -> Buffer] /\ curmem \in Nat /\ MaxWriteBufMem \in Nat
  BY BufIds DEF BufferTypes
<1>3. \A b \in BufId : bufs[b].refs \in Nat /\ bufs[b].size \in Nat
  <2>1. \A b \in BufId : bufs[b] \in Buffer
    BY <1>2
  <2> QED BY <2>1, BufIds DEF Buffer
<1>4. CASE v = 0
  <2>1. bufs' = bufs /\ curmem' = curmem
    BY <1>4 DEF FreeWritebuf
  <2>2. \A b \in BufId : One(w.buf = b) = 0
    BY <1>4, BufIds DEF One
  <2>3. BufferTypes' /\ MemExact'
    BY <2>1 DEF BufferTypes, MemExact, BytesOf
  <2> QED BY <1>3, <2>1, <2>2, <2>3
<1>5. CASE v # 0
  <2> DEFINE r == bufs[v]
             e == [r EXCEPT !.refs = @ - 1]
  <2>1. v \in BufId /\ r \in Buffer /\ r.refs > 0 /\ r.refs \in Nat /\ r.size \in Nat
    BY <1>1, <1>2, <1>3, <1>5
  <2>2. bufs' = [bufs EXCEPT ![v] = e]
    BY <1>5 DEF FreeWritebuf
  <2>3. curmem' = IF r.refs = 1 THEN curmem - r.size ELSE curmem
    BY <1>5 DEF FreeWritebuf
  <2>4. bufs' = [bufs EXCEPT ![v].refs = @ - 1]
    BY <2>2
  <2>5. e \in Buffer /\ e.refs = r.refs - 1 /\ e.size = r.size
    <3> HIDE DEF r
    <3> QED BY <2>1, Counted
  <2> HIDE DEF e
  <2>6. bufs' \in [BufId -> Buffer] /\ bufs'[v] = e
        /\ \A b \in BufId : b # v => bufs'[b] = bufs[b]
    BY <1>2, <2>1, <2>2, <2>5
  <2>7. ASSUME NEW b \in BufId PROVE bufs[b].refs = bufs'[b].refs + One(w.buf = b)
    <3>1. CASE b = v
      BY <2>1, <2>5, <2>6, <3>1 DEF One
    <3>2. CASE b # v
      BY <1>3, <2>6, <3>2 DEF One
    <3> QED BY <3>1, <3>2
  <2>8. curmem = Cardinality(BytesOf(bufs)) /\ curmem <= MaxWriteBufMem
    BY DEF MemExact
  <2>9. Cardinality(BytesOf(bufs')) \in Nat
    BY BytesFinite
  <2>10. curmem' = Cardinality(BytesOf(bufs')) /\ curmem' <= MaxWriteBufMem
    <3>1. CASE r.refs = 1
      <4>1. Cardinality(BytesOf(bufs')) = Cardinality(BytesOf(bufs)) - r.size
        BY <1>2, <2>1, <2>4, <3>1, BytesFree
      <4>2. curmem' = curmem - r.size
        BY <2>3, <3>1
      <4> HIDE DEF r
      <4> QED BY <1>2, <2>1, <2>8, <4>1, <4>2
    <3>2. CASE r.refs # 1
      <4>1. \A b \in BufId : /\ bufs[b].refs > 0 <=> bufs'[b].refs > 0
                             /\ bufs[b].size = bufs'[b].size
        <5> SUFFICES ASSUME NEW b \in BufId
                     PROVE  /\ bufs[b].refs > 0 <=> bufs'[b].refs > 0
                            /\ bufs[b].size = bufs'[b].size
          OBVIOUS
        <5>1. CASE b = v
          BY <2>1, <2>5, <2>6, <3>2, <5>1
        <5>2. CASE b # v
          BY <2>6, <5>2
        <5> QED BY <5>1, <5>2
      <4>2. BytesOf(bufs') = BytesOf(bufs)
        BY <1>2, <2>6, <4>1, BytesShared
      <4> QED BY <2>3, <2>8, <3>2, <4>2
    <3> QED BY <3>1, <3>2
  <2>11. MemExact'
    BY <2>10 DEF MemExact, BytesOf
  <2> QED BY <2>6, <2>7, <2>9, <2>10, <2>11 DEF BufferTypes
<1> QED BY <1>4, <1>5

(* The smaller of two numbers.                                             *)
LEMMA MinOfTwo ==
    ASSUME NEW x \in Int, NEW y \in Int
    PROVE  Min({x, y}) = IF x <= y THEN x ELSE y
<1> DEFINE m == Min({x, y})
<1>1. \E z \in {x, y} : \A s \in {x, y} : z <= s
  OBVIOUS
<1>2. m \in {x, y} /\ \A s \in {x, y} : m <= s
  BY <1>1 DEF Min
<1> HIDE DEF m
<1>3. m = IF x <= y THEN x ELSE y
  BY <1>2
<1> QED BY <1>3 DEF m

(* Adjusting a write keeps its buffer.                                     *)
LEMMA AdjustIs ==
    ASSUME FixedTypes, NEW w \in WriteBuf
    PROVE  /\ Adjust(w) \in WriteBuf
           /\ Adjust(w) # NULL => Adjust(w).buf = w.buf
<1>1. opt.min \in Nat /\ opt.max \in Nat
  BY UnzipAssumption DEF FixedTypes
<1>2. w.offset \in Int /\ w.size \in Int
  BY DEF WriteBuf
<1>3. SECSIZE \in Nat
  BY BufIds
<1> DEFINE off == w.offset + sectobytes(opt.min)
           end == IF opt.max > 0 THEN Min({off + w.size, sectobytes(opt.max)})
                  ELSE off + w.size
<1>4. sectobytes(opt.min) \in Int /\ sectobytes(opt.max) \in Int
  BY <1>1, <1>3 DEF sectobytes
<1>5. off \in Int /\ off + w.size \in Int
  BY <1>2, <1>4
<1>6. end \in Int
  <2> HIDE DEF off
  <2> QED BY <1>4, <1>5, MinOfTwo
<1>7. Adjust(w) = IF off >= end THEN NULL ELSE [w EXCEPT !.offset = off, !.size = end - off]
  BY DEF Adjust
<1> HIDE DEF off, end
<1>8. CASE off >= end
  BY <1>7, <1>8, NullIs
<1>9. CASE ~ (off >= end)
  <2> DEFINE v == [w EXCEPT !.offset = off, !.size = end - off]
  <2>1. end - off \in Int
    BY <1>5, <1>6
  <2>2. v \in WriteBuf /\ v.buf = w.buf
    BY <1>5, <2>1 DEF WriteBuf
  <2>3. Adjust(w) = v
    BY <1>7, <1>9
  <2> HIDE DEF v
  <2> QED BY <2>2, <2>3
<1> QED BY <1>8, <1>9

(* What becomes of write w: its reference is dropped or is in the queue.   *)
Disposed(w) ==
    /\ BufferTypes' /\ MemExact'
    /\ writequeue' \in Seq(WriteBuf)
    /\ \A b \in BufId :
         bufs[b].refs + Cardinality(QueueRefs(writequeue', b))
           = bufs'[b].refs + Cardinality(QueueRefs(writequeue, b)) + One(w.buf = b)

(* dowrite_request() disposes of the write.                                *)
LEMMA DoWriteDoes ==
    ASSUME FixedTypes, BufferTypes, MemExact, writequeue \in Seq(WriteBuf),
           NEW w \in WriteBuf, DoWriteRequest(w),
           w.buf # 0 => bufs[w.buf].refs > 0
    PROVE  Disposed(w)
<1>1. \A b \in BufId : bufs[b].refs \in Nat
  <2>1. \A b \in BufId : bufs[b] \in Buffer
    BY DEF BufferTypes
  <2> QED BY <2>1 DEF Buffer
<1>2. \A b : Cardinality(QueueRefs(writequeue, b)) \in Nat
  BY QueueRefsFinite
<1>3. CASE FreeWritebuf(w) /\ writequeue' = writequeue
  <2>1. /\ BufferTypes' /\ MemExact'
        /\ \A b \in BufId : bufs[b].refs = bufs'[b].refs + One(w.buf = b)
    BY <1>3, FreeDoes
  <2>2. \A b \in BufId : bufs'[b].refs \in Nat
    <3>1. \A b \in BufId : bufs'[b] \in Buffer
      BY <2>1 DEF BufferTypes
    <3> QED BY <3>1 DEF Buffer
  <2>3. ASSUME NEW b \in BufId
        PROVE  bufs[b].refs + Cardinality(QueueRefs(writequeue', b))
                 = bufs'[b].refs + Cardinality(QueueRefs(writequeue, b)) + One(w.buf = b)
    <3>1. One(w.buf = b) \in Nat
      BY DEF One
    <3>2. Cardinality(QueueRefs(writequeue', b)) = Cardinality(QueueRefs(writequeue, b))
      BY <1>3
    <3> QED BY <1>1, <1>2, <2>1, <2>2, <3>1, <3>2
  <2> QED BY <1>3, <2>1, <2>3 DEF Disposed
<1>4. CASE /\ Adjust(w) # NULL /\ writequeue' = Append(writequeue, Adjust(w))
           /\ bufs' = bufs /\ curmem' = curmem
  <2> DEFINE v == Adjust(w)
  <2>1. v \in WriteBuf /\ v.buf = w.buf
    BY <1>4, AdjustIs
  <2> HIDE DEF v
  <2>2. writequeue' = Append(writequeue, v)
    BY <1>4 DEF v
  <2>3. writequeue' \in Seq(WriteBuf)
    BY <2>1, <2>2, AppendProperties
  <2>4. ASSUME NEW b \in BufId
        PROVE  bufs[b].refs + Cardinality(QueueRefs(writequeue', b))
                 = bufs'[b].refs + Cardinality(QueueRefs(writequeue, b)) + One(w.buf = b)
    <3>1. One(w.buf = b) \in Nat
      BY DEF One
    <3>2. Cardinality(QueueRefs(writequeue', b))
            = Cardinality(QueueRefs(writequeue, b)) + One(w.buf = b)
      BY <2>1, <2>2, QueueAppend
    <3> QED BY <1>1, <1>2, <1>4, <3>1, <3>2
  <2>5. BufferTypes' /\ MemExact'
    BY <1>4 DEF BufferTypes, MemExact, BytesOf
  <2> QED BY <2>3, <2>4, <2>5 DEF Disposed
<1> QED BY <1>3, <1>4 DEF DoWriteRequest

(* A step that leaves buffers and queue alone disposes of nothing.         *)
LEMMA NothingDisposed ==
    ASSUME BufferTypes, MemExact, writequeue \in Seq(WriteBuf),
           bufs' = bufs, curmem' = curmem, writequeue' = writequeue
    PROVE  Disposed(NULL)
<1>1. \A b \in BufId : One(NULL.buf = b) = 0
  BY NullIs, BufIds DEF One
<1>2. \A b \in BufId : bufs[b].refs \in Nat
  <2>1. \A b \in BufId : bufs[b] \in Buffer
    BY DEF BufferTypes
  <2> QED BY <2>1 DEF Buffer
<1>3. \A b : Cardinality(QueueRefs(writequeue, b)) \in Nat
  BY QueueRefsFinite
<1>4. BufferTypes' /\ MemExact'
  BY DEF BufferTypes, MemExact, BytesOf
<1> QED BY <1>1, <1>2, <1>3, <1>4 DEF Disposed

(* A request to zero refers to no buffer.                                  *)
LEMMA ZeroFillDoes ==
    ASSUME FixedTypes, BufferTypes, MemExact, writequeue \in Seq(WriteBuf),
           NEW from \in Int, NEW to \in Int, ZeroFill(from, to)
    PROVE  Disposed(NULL)
<1> DEFINE w == [offset |-> from, size |-> to - from, buf |-> 0, data |-> 0]
<1>1. CASE DoWriteRequest(w)
  <2>1. w \in WriteBuf /\ w.buf = 0 /\ NULL.buf = 0
    BY NullIs DEF WriteBuf
  <2>2. Disposed(w)
    <3> HIDE DEF w
    <3> QED BY <1>1, <2>1, DoWriteDoes
  <2> HIDE DEF w
  <2> QED BY <2>1, <2>2 DEF Disposed
<1>2. CASE UNCHANGED shared
  <2>1. bufs' = bufs /\ curmem' = curmem /\ writequeue' = writequeue
    BY <1>2 DEF shared
  <2> QED BY <2>1, NothingDisposed
<1> QED BY <1>1, <1>2 DEF ZeroFill

(* alloc_writebuf() uses a free buffer and counts its memory.              *)
LEMMA AllocDoes ==
    ASSUME BufferTypes, MemExact, NEW n \in 0 .. OUTSIZE, NEW bytes \in Seq(Int),
           NEW b \in BufId, AllocBuf(n, bytes, b)
    PROVE  /\ BufferTypes' /\ MemExact'
           /\ bufs[b].refs = 0 /\ bufs'[b].refs = 1
           /\ \A c \in BufId : c # b => bufs'[c] = bufs[c]
           /\ UNCHANGED <<maxwritten, writequeue>>
<1> DEFINE e == [refs |-> 1, size |-> n, bytes |-> bytes]
<1>1. e \in Buffer /\ e.refs = 1 /\ e.size = n
  BY DEF Buffer
<1>2. bufs' = [bufs EXCEPT ![b] = e]
  BY DEF AllocBuf
<1> HIDE DEF e
<1>3. bufs \in [BufId -> Buffer] /\ curmem \in Nat
  BY DEF BufferTypes
<1>4. bufs' \in [BufId -> Buffer] /\ bufs'[b] = e
      /\ \A c \in BufId : c # b => bufs'[c] = bufs[c]
  BY <1>1, <1>2, <1>3
<1>5. bufs[b].refs = 0 /\ curmem' = curmem + n /\ curmem + n <= MaxWriteBufMem
  BY DEF AllocBuf, HasRoom
<1>6. Cardinality(BytesOf(bufs')) = Cardinality(BytesOf(bufs)) + n
  BY <1>1, <1>2, <1>3, <1>5, BytesAlloc
<1>7. n \in Nat /\ curmem = Cardinality(BytesOf(bufs))
  BY BufIds DEF MemExact
<1>8. curmem' = Cardinality(BytesOf(bufs')) /\ curmem' <= MaxWriteBufMem
  BY <1>5, <1>6, <1>7
<1>9. MemExact'
  BY <1>8 DEF MemExact, BytesOf
<1>10. BufferTypes'
  BY <1>3, <1>4, <1>5, <1>7 DEF BufferTypes
<1> QED BY <1>1, <1>4, <1>5, <1>9, <1>10 DEF AllocBuf

(* BuffersExact after a step, from its parts.                              *)
LEMMA ExactPrime ==
    ASSUME \A b \in BufId : bufs'[b].refs = Refs(b)', MemExact'
    PROVE  BuffersExact'
<1>1. BytesInUse' = BytesOf(bufs')
  BY DEF BytesInUse, BytesOf
<1>2. curmem' = Cardinality(BytesInUse') /\ curmem' <= MaxWriteBufMem
  BY <1>1 DEF MemExact, BytesOf
<1> QED BY <1>2 DEF BuffersExact

(* A new buffer has the one reference of the write it is for.              *)
LEMMA AllocRefs ==
    ASSUME BufferTypes, WriteTypes, BuffersExact, NEW b \in BufId,
           bufs[b].refs = 0, bufs'[b].refs = 1,
           \A c \in BufId : c # b => bufs'[c] = bufs[c],
           writequeue' = writequeue, wcur' = wcur,
           d.wbuf = NULL, d.tail = NULL, d'.tail = NULL, d'.wbuf.buf = b
    PROVE  \A c \in BufId : bufs'[c].refs = Refs(c)'
<1> SUFFICES ASSUME NEW c \in BufId PROVE bufs'[c].refs = Refs(c)'
  OBVIOUS
<1> DEFINE q == Cardinality(QueueRefs(writequeue, c))
           k == One(wcur.buf = c)
<1>1. bufs[c].refs = q + k + One(d.wbuf.buf = c) + One(d.tail.buf = c)
  BY ExactIs
<1>2. Refs(c)' = Cardinality(QueueRefs(writequeue', c)) + One(wcur'.buf = c)
                    + One(d'.wbuf.buf = c) + One(d'.tail.buf = c)
  BY Zenon DEF Refs, QueueRefs, One
<1>3. One(d.wbuf.buf = c) = 0 /\ One(d.tail.buf = c) = 0 /\ One(d'.tail.buf = c) = 0
  BY NullIs, BufIds DEF One
<1>4. Cardinality(QueueRefs(writequeue', c)) = q /\ One(wcur'.buf = c) = k
  OBVIOUS
<1>5. q \in Nat /\ k \in Nat
  BY QueueRefsFinite DEF WriteTypes, One
<1> HIDE DEF q, k
<1>6. bufs[c].refs = q + k /\ Refs(c)' = q + k + One(d'.wbuf.buf = c)
  BY <1>1, <1>2, <1>3, <1>4, <1>5 DEF One
<1>7. CASE c = b
  BY <1>5, <1>6, <1>7 DEF One
<1>8. CASE c # b
  BY <1>5, <1>6, <1>8 DEF One
<1> QED BY <1>7, <1>8

(* The references that the caller's thread holds to b in the writes v, t.  *)
Holds(v, t, b) == One(v.buf = b) + One(t.buf = b)

(* If the step disposes of w and the caller's thread holds w no longer,    *)
(* all references are counted.                                             *)
LEMMA Settled ==
    ASSUME BufferTypes, WriteTypes, BuffersExact,
           NEW w, Disposed(w), wcur' = wcur,
           \A b \in BufId : Holds(d.wbuf, d.tail, b)
                              = Holds(d'.wbuf, d'.tail, b) + One(w.buf = b)
    PROVE  BufferTypes' /\ WriteTypes' /\ BuffersExact'
<1>1. ASSUME NEW b \in BufId PROVE bufs'[b].refs = Refs(b)'
  <2>1. bufs[b].refs = Refs(b)
    BY ExactIs
  <2>2. Refs(b) = Cardinality(QueueRefs(writequeue, b)) + One(wcur.buf = b)
                    + One(d.wbuf.buf = b) + One(d.tail.buf = b)
    BY ExactIs
  <2>3. Refs(b)' = Cardinality(QueueRefs(writequeue', b)) + One(wcur'.buf = b)
                    + One(d'.wbuf.buf = b) + One(d'.tail.buf = b)
    BY Zenon DEF Refs, QueueRefs, One
  <2>4. /\ One(wcur.buf = b) \in Nat /\ One(d.wbuf.buf = b) \in Nat
        /\ One(d.tail.buf = b) \in Nat /\ One(d'.wbuf.buf = b) \in Nat
        /\ One(d'.tail.buf = b) \in Nat /\ One(w.buf = b) \in Nat
    BY DEF One
  <2>5. /\ Cardinality(QueueRefs(writequeue, b)) \in Nat
        /\ Cardinality(QueueRefs(writequeue', b)) \in Nat
    BY QueueRefsFinite DEF WriteTypes, Disposed
  <2>6. bufs'[b].refs \in Nat
    <3>1. bufs'[b] \in Buffer
      BY DEF Disposed, BufferTypes
    <3> QED BY <3>1 DEF Buffer
  <2>7. One(d.wbuf.buf = b) + One(d.tail.buf = b)
          = One(d'.wbuf.buf = b) + One(d'.tail.buf = b) + One(w.buf = b)
    BY DEF Holds
  <2>8. bufs[b].refs + Cardinality(QueueRefs(writequeue', b))
          = bufs'[b].refs + Cardinality(QueueRefs(writequeue, b)) + One(w.buf = b)
    BY DEF Disposed
  <2>9. One(wcur'.buf = b) = One(wcur.buf = b)
    OBVIOUS
  <2> HIDE DEF One
  <2> QED BY <2>1, <2>2, <2>3, <2>4, <2>5, <2>6, <2>7, <2>8, <2>9
<1>2. MemExact' /\ BufferTypes' /\ WriteTypes'
  BY DEF Disposed, WriteTypes
<1>3. BuffersExact'
  BY <1>1, <1>2, ExactPrime
<1> QED BY <1>2, <1>3

(* Every buffer that a write in hand refers to is in use.                  *)
LEMMA HeldInUse ==
    ASSUME BufferTypes, WriteTypes, BuffersExact,
           NEW w \in WriteBuf, w \in {wcur, d.wbuf, d.tail}, w.buf # 0
    PROVE  w.buf \in BufId /\ bufs[w.buf].refs > 0
<1> DEFINE b == w.buf
<1>1. b \in BufId
  BY DEF WriteBuf
<1>2. bufs[b].refs = Cardinality(QueueRefs(writequeue, b)) + One(wcur.buf = b)
                    + One(d.wbuf.buf = b) + One(d.tail.buf = b)
  BY <1>1, ExactIs
<1>3. Cardinality(QueueRefs(writequeue, b)) \in Nat
  BY QueueRefsFinite DEF WriteTypes
<1>4. wcur.buf = b \/ d.wbuf.buf = b \/ d.tail.buf = b
  OBVIOUS
<1> HIDE DEF b
<1>5. bufs[b].refs > 0
  BY <1>2, <1>3, <1>4 DEF One
<1> QED BY <1>1, <1>5 DEF b

-----------------------------------------------------------------------------
(* The steps of the caller's thread.                                       *)

LocalInv == CallerTypes /\ RegionFrame /\ Accounted /\ InHand
SharedInv == BufferTypes /\ WriteTypes /\ BuffersExact

(* Every variable of the local frame has its type.                         *)
LEMMA LocalTypes ==
    ASSUME CallerTypes
    PROVE  /\ d.chunk \in DOMAIN image \cup {0} /\ d.region \in Nat /\ d.pos \in Nat
           /\ d.resid \in Seq(Int) /\ Len(d.resid) \in Nat
           /\ d.offset \in Nat /\ d.size \in Nat
           /\ d.count \in Nat /\ d.wbuf \in WriteBuf /\ d.tail \in WriteBuf
<1>1. d \in Locals
  BY DEF CallerTypes
<1>2. d.resid \in Seq(Int)
  BY <1>1 DEF Locals
<1>3. Len(d.resid) \in Nat
  BY <1>2, LenProperties
<1> QED BY <1>1, <1>2, <1>3 DEF Locals

(* The chunks of the image are as imagezip made them.                      *)
LEMMA ChunksAre ==
    ASSUME FixedTypes, NEW c \in DOMAIN image
    PROVE  IsChunk(image[c])
  BY UnzipAssumption DEF FixedTypes, IsImage

(* What is known in the middle of a chunk.                                 *)
LEMMA Middle ==
    ASSUME FixedTypes, CallerTypes, RegionFrame, mpc \in Unzipping
    PROVE  /\ d.chunk \in DOMAIN image /\ IsChunk(Chunk)
           /\ Len(Chunk.regions) \in Nat /\ d.region \in 1 .. Len(Chunk.regions)
           /\ Lo(Chunk, d.region) \in Nat /\ Hi(Chunk, d.region) \in Nat
           /\ Lo(Chunk, d.region) <= d.offset
           /\ d.offset + d.size = Hi(Chunk, d.region)
           /\ d.offset % SECSIZE = 0 /\ d.size % SECSIZE = 0
<1>1. d.chunk \in DOMAIN image
  BY DEF RegionFrame
<1>2. IsChunk(Chunk)
  BY <1>1, ChunksAre DEF Chunk
<1>3. d.region \in 1 .. Len(Chunk.regions)
  BY DEF RegionFrame
<1>4. /\ Len(Chunk.regions) \in Nat
      /\ Lo(Chunk, d.region) \in Nat /\ Hi(Chunk, d.region) \in Nat
      /\ Hi(Chunk, d.region) % SECSIZE = 0
  BY <1>2, <1>3, RegionBytes
<1>5. /\ Lo(Chunk, d.region) <= d.offset
      /\ d.offset + d.size = Hi(Chunk, d.region)
      /\ d.offset % SECSIZE = 0
  BY DEF RegionFrame, Region, Lo, Hi
<1>6. d.size % SECSIZE = 0
  <2> DEFINE a == Hi(Chunk, d.region)
             b == d.offset
  <2>1. a \in Nat /\ b \in Nat /\ a >= b /\ a - b = d.size
    BY <1>4, <1>5, LocalTypes
  <2>2. a % SECSIZE = 0 /\ b % SECSIZE = 0
    BY <1>4, <1>5
  <2> HIDE DEF a, b
  <2>3. (a - b) % SECSIZE = 0
    BY <2>1, <2>2, WholeSectorSums
  <2> QED BY <2>1, <2>3
<1> QED BY <1>1, <1>2, <1>3, <1>4, <1>5, <1>6

(* A step that keeps the locals and moves between places of which the same *)
(* is known.                                                               *)
LEMMA QuietLocal ==
    ASSUME FixedTypes, LocalInv, d' = d, image' = image, todo' \subseteq todo,
           \/ mpc' = mpc \/ mpc' \notin Unzipping \cup {"rawwrite"}
           \/ mpc \in {"inflate", "inflatewait"} /\ mpc' \in {"inflate", "inflatewait"},
           mpc \in {"region", "gap", "head", "rawwrite", "exit"} =>
             mpc' \in {mpc, "exit"} \/ (d.wbuf = NULL /\ d.tail = NULL)
    PROVE  LocalInv'
<1>1. CallerTypes'
  BY DEF LocalInv, CallerTypes, Locals
<1>2. Chunk' = Chunk /\ \A i : Region(i)' = Region(i)
  BY DEF Chunk, Region
<1>3. RegionFrame'
  BY <1>2 DEF LocalInv, RegionFrame, Unzipping, Filling
<1>4. Accounted'
  BY <1>2 DEF LocalInv, Accounted, Unzipping, Filling
<1>5. InHand'
  BY DEF LocalInv, InHand, Unzipping, Filling
<1> QED BY <1>1, <1>3, <1>4, <1>5 DEF LocalInv

(* ImageUnzipChunk() begins with all of the data left.                     *)
LEMMA UnzipChunkLocal ==
    ASSUME FixedTypes, LocalInv, NEW c \in todo, UnzipChunk(c)
    PROVE  LocalInv'
<1> DEFINE C == image[c]
<1>1. c \in DOMAIN image /\ image' = image /\ todo' = todo /\ mpc' = "inflate"
  BY DEF LocalInv, CallerTypes, UnzipChunk, fixed
<1>2. IsChunk(C)
  BY <1>1, ChunksAre
<1>3. Len(C.regions) \in Nat /\ 1 \in 1 .. Len(C.regions)
  BY <1>2, EmptySeq DEF IsChunk
<1>4. /\ Lo(C, 1) \in Nat /\ Hi(C, 1) \in Nat /\ Lo(C, 1) < Hi(C, 1)
      /\ Lo(C, 1) % SECSIZE = 0
      /\ sectobytes(C.regions[1].size) = Hi(C, 1) - Lo(C, 1)
  BY <1>2, <1>3, RegionBytes
<1>5. d' = [chunk |-> c, region |-> 1, pos |-> 0, resid |-> <<>>,
            offset |-> Lo(C, 1), size |-> Hi(C, 1) - Lo(C, 1),
            count |-> 0, wbuf |-> NULL, tail |-> NULL]
  BY <1>4 DEF UnzipChunk, Lo
<1>6. Chunk' = C /\ \A i : Region(i)' = C.regions[i]
  BY <1>1, <1>5 DEF Chunk, Region
<1> HIDE DEF C
<1>7. CallerTypes'
  <2>1. Hi(C, 1) - Lo(C, 1) \in Nat /\ <<>> \in Seq(Int)
    BY <1>4
  <2> QED BY <1>1, <1>4, <1>5, <2>1, NullIs DEF CallerTypes, Locals, LocalInv
<1>8. RegionFrame'
  <2>1. /\ d'.chunk = c /\ d'.region = 1 /\ d'.offset = Lo(C, 1)
        /\ d'.size = Hi(C, 1) - Lo(C, 1)
    BY <1>5
  <2>2. d'.size > 0 /\ d'.offset + d'.size = Hi(C, 1) /\ Lo(C, 1) <= d'.offset
    BY <1>4, <2>1
  <2> QED BY <1>1, <1>3, <1>4, <1>6, <2>1, <2>2 DEF RegionFrame, Lo, Hi, Filling
<1>9. Accounted'
  <2>1. /\ d'.pos = 0 /\ d'.resid = <<>> /\ d'.count = 0 /\ d'.offset = Lo(C, 1)
    BY <1>5
  <2>2. Cardinality(DataOf(C)) \in Nat /\ SECSIZE \in Nat \ {0}
    BY <1>2, DataIs, BufIds
  <2>3. Cardinality(Left(C, Lo(C, 1))) = Cardinality(DataOf(C))
    BY <1>2, LeftEnds
  <2>4. 0 % SECSIZE = 0
    <3>1. 0 = 0 * SECSIZE
      BY <2>2
    <3> QED BY <3>1, WholeSectors
  <2>5. Len(d'.resid) = 0
    BY <2>1
  <2>6. /\ d'.pos <= Cardinality(DataOf(C)) /\ Len(d'.resid) < SECSIZE
        /\ d'.count % SECSIZE = 0 /\ d'.count = 0
        /\ Cardinality(Left(C, d'.offset))
             = d'.count + Len(d'.resid) + (Cardinality(DataOf(C)) - d'.pos)
    BY <2>1, <2>2, <2>3, <2>4, <2>5
  <2> QED BY <1>6, <2>6 DEF Accounted
<1>10. InHand'
  <2>1. d'.wbuf = NULL /\ d'.tail = NULL
    BY <1>5
  <2> QED BY <1>1, <2>1 DEF InHand
<1> QED BY <1>7, <1>8, <1>9, <1>10 DEF LocalInv

(* Nothing is held between two chunks, and nothing is disposed of but the  *)
(* zeros before the first region.                                          *)
LEMMA UnzipChunkShared ==
    ASSUME FixedTypes, LocalInv, SharedInv, NEW c \in todo, UnzipChunk(c)
    PROVE  SharedInv'
<1>1. BufferTypes /\ WriteTypes /\ BuffersExact /\ MemExact /\ writequeue \in Seq(WriteBuf)
  BY ExactIs DEF SharedInv, WriteTypes
<1>2. c \in DOMAIN image
  BY DEF LocalInv, CallerTypes
<1>3. Disposed(NULL)
  <2> DEFINE from == sectobytes(image[c].first)
             to == sectobytes(image[c].regions[1].start)
  <2>1. from \in Int /\ to \in Int
    <3>1. IsChunk(image[c])
      BY <1>2, ChunksAre
    <3>2. image[c].first \in Nat /\ SECSIZE \in Nat
      BY <3>1, BufIds DEF IsChunk
    <3>3. from \in Int
      BY <3>2 DEF sectobytes
    <3>4. 1 \in 1 .. Len(image[c].regions)
      BY <3>1, EmptySeq DEF IsChunk
    <3>5. to \in Int
      BY <3>1, <3>4, RegionBytes DEF Lo
    <3> QED BY <3>3, <3>5
  <2>2. CASE ZeroFill(from, to)
    <3> HIDE DEF from, to
    <3> QED BY <1>1, <2>1, <2>2, ZeroFillDoes
  <2>3. CASE UNCHANGED shared
    BY <1>1, <2>3, NothingDisposed DEF shared
  <2> QED BY <2>2, <2>3 DEF UnzipChunk
<1>4. d.wbuf = NULL /\ d.tail = NULL /\ d'.wbuf = NULL /\ d'.tail = NULL /\ wcur' = wcur
  BY DEF UnzipChunk, LocalInv, InHand, writer
<1>5. \A b \in BufId : One(NULL.buf = b) = 0
  BY NullIs, BufIds DEF One
<1>6. \A b \in BufId : Holds(d.wbuf, d.tail, b)
                              = Holds(d'.wbuf, d'.tail, b) + One(NULL.buf = b)
  BY <1>4, <1>5 DEF Holds
<1> QED BY <1>1, <1>3, <1>4, <1>6, Settled DEF SharedInv

(* A step that disposes of nothing and holds on to what it has.            *)
LEMMA QuietShared ==
    ASSUME SharedInv, Disposed(NULL), wcur' = wcur,
           d'.wbuf.buf = d.wbuf.buf, d'.tail.buf = d.tail.buf
    PROVE  SharedInv'
<1>1. BufferTypes /\ WriteTypes /\ BuffersExact
  BY DEF SharedInv
<1>2. \A b \in BufId : One(NULL.buf = b) = 0
  BY NullIs, BufIds DEF One
<1>3. \A b \in BufId : Holds(d.wbuf, d.tail, b)
                              = Holds(d'.wbuf, d'.tail, b) + One(NULL.buf = b)
  BY <1>2 DEF Holds, One
<1> QED BY <1>1, <1>3, Settled DEF SharedInv

(* ImageWriteChunk() begins with nothing in hand.                          *)
LEMMA WriteChunkStep ==
    ASSUME FixedTypes, LocalInv, SharedInv, NEW c \in todo, WriteChunk(c)
    PROVE  LocalInv' /\ SharedInv'
<1>1. c \in DOMAIN image /\ image' = image /\ todo' = todo /\ mpc' = "raw" /\ mpc = "idle"
  BY DEF LocalInv, CallerTypes, WriteChunk, fixed
<1>2. d.wbuf = NULL /\ d.tail = NULL
  BY <1>1 DEF LocalInv, InHand
<1> DEFINE o == sectobytes(image[c].first)
           z == sectobytes(image[c].last - image[c].first)
<1>3. o \in Nat /\ z \in Nat
  <2>1. image[c].first \in Nat /\ image[c].last \in Nat /\ image[c].first <= image[c].last
    BY <1>1, ChunksAre DEF IsChunk
  <2>2. SECSIZE \in Nat
    BY BufIds
  <2>3. image[c].last - image[c].first \in Nat
    BY <2>1
  <2> DEFINE k == image[c].last - image[c].first
  <2> HIDE DEF k
  <2>4. k * SECSIZE \in Nat /\ image[c].first * SECSIZE \in Nat
    BY <2>1, <2>2, <2>3 DEF k
  <2> QED BY <2>4 DEF sectobytes, k
<1>4. d' = [d EXCEPT !.chunk = c, !.offset = o, !.size = z]
  BY DEF WriteChunk
<1> HIDE DEF o, z
<1>5. d \in Locals
  BY DEF LocalInv, CallerTypes
<1>6. d' \in Locals /\ d'.wbuf = d.wbuf /\ d'.tail = d.tail
  BY <1>1, <1>3, <1>4, <1>5 DEF Locals
<1>7. CallerTypes'
  BY <1>1, <1>6 DEF CallerTypes, Locals, LocalInv
<1>8. RegionFrame' /\ Accounted' /\ InHand'
  BY <1>1, <1>2, <1>6 DEF RegionFrame, Accounted, InHand, Unzipping, Filling
<1>9. Disposed(NULL) /\ wcur' = wcur
  <2>1. BufferTypes /\ MemExact /\ writequeue \in Seq(WriteBuf)
    BY ExactIs DEF SharedInv, WriteTypes
  <2> QED BY <2>1, NothingDisposed DEF WriteChunk, shared, writer
<1> QED BY <1>6, <1>7, <1>8, <1>9, QuietShared DEF LocalInv

(* What one call of inflate() adds: n bytes after the leftover, of which   *)
(* the whole sectors are the new data and the rest the new leftover.       *)
LEMMA InflatedBytes ==
    ASSUME FixedTypes, LocalInv, mpc = "inflate", NEW n \in Produced
    PROVE  LET bytes  == d.resid \o SubSeq(Stream(Chunk), d.pos + 1, d.pos + n)
               ibleft == Len(bytes) % SECSIZE
               count  == Len(bytes) - ibleft
               rest   == SubSeq(bytes, count + 1, Len(bytes))
           IN  /\ n \in Nat /\ d.pos + n <= Cardinality(DataOf(Chunk))
               /\ bytes \in Seq(Int) /\ rest \in Seq(Int)
               /\ count \in Nat \ {0} /\ count % SECSIZE = 0
               /\ Len(rest) \in 0 .. SECSIZE - 1
               /\ count + Len(rest) = Len(d.resid) + n
<1> DEFINE bytes  == d.resid \o SubSeq(Stream(Chunk), d.pos + 1, d.pos + n)
           L      == Len(bytes)
           ibleft == L % SECSIZE
           count  == L - ibleft
           rest   == SubSeq(bytes, count + 1, L)
           N      == Cardinality(DataOf(Chunk))
           S      == Stream(Chunk)
<1>1. mpc \in Unzipping
  BY DEF Unzipping, Filling
<1>2. IsChunk(Chunk)
  BY <1>1, Middle DEF LocalInv
<1>3. N \in Nat /\ S \in Seq(Int) /\ Len(S) = N
  BY <1>2, DataIs, StreamIs
<1>4. d.pos \in Nat /\ d.resid \in Seq(Int) /\ Len(d.resid) \in Nat
  BY LocalTypes DEF LocalInv
<1>5. d.pos <= N
  BY <1>1 DEF LocalInv, Accounted
<1>6. SECSIZE \in Nat \ {0} /\ OUTSIZE \in Nat
  BY BufIds
<1>7. n \in Nat \ {0} /\ d.pos + n <= N /\ Len(d.resid) + n >= SECSIZE
  <2> DEFINE x == OUTSIZE - Len(d.resid)
             y == Len(S) - d.pos
  <2>1. x \in Int /\ y \in Int /\ y = N - d.pos
    BY <1>3, <1>4, <1>6
  <2>2. n \in 1 .. Min({x, y}) /\ Len(d.resid) + n >= SECSIZE
    BY DEF Produced
  <2> HIDE DEF x, y
  <2>3. Min({x, y}) \in Int /\ Min({x, y}) <= y
    BY <2>1, MinOfTwo
  <2> QED BY <1>3, <1>4, <1>5, <2>1, <2>2, <2>3
<1> HIDE DEF N, S
<1>8. /\ SubSeq(S, d.pos + 1, d.pos + n) \in Seq(Int)
      /\ Len(SubSeq(S, d.pos + 1, d.pos + n)) = n
  <2>1. \A i \in d.pos + 1 .. d.pos + n : S[i] \in Int
    <3>1. d.pos + 1 .. d.pos + n \subseteq 1 .. Len(S)
      BY <1>3, <1>4, <1>7
    <3> QED BY <1>3, <3>1, ElementOfSeq
  <2>2. d.pos + 1 \in Int /\ d.pos + n \in Int /\ d.pos + 1 <= d.pos + n
        /\ (d.pos + n) - (d.pos + 1) + 1 = n
    BY <1>4, <1>7
  <2> QED BY <2>1, <2>2, SubSeqProperties
<1>9. bytes \in Seq(Int) /\ L = Len(d.resid) + n
  BY <1>4, <1>8, ConcatProperties DEF S
<1> HIDE DEF bytes, L
<1>10. L \in Nat /\ L >= SECSIZE
  BY <1>4, <1>7, <1>9
<1>11. ibleft \in 0 .. SECSIZE - 1 /\ ibleft <= L /\ count % SECSIZE = 0
  BY <1>10, WholeSectors
<1> HIDE DEF ibleft
<1>12. count \in Nat \ {0} /\ count <= L /\ L - count = ibleft
  BY <1>6, <1>10, <1>11
<1> HIDE DEF count
<1>13. rest \in Seq(Int) /\ Len(rest) = ibleft
  <2>1. \A i \in count + 1 .. L : bytes[i] \in Int
    <3>1. count + 1 .. L \subseteq 1 .. Len(bytes)
      BY <1>10, <1>12 DEF L
    <3> QED BY <1>9, <3>1, ElementOfSeq
  <2>2. count + 1 \in Int /\ L \in Int
    BY <1>10, <1>12
  <2>3. rest \in Seq(Int) /\ Len(rest) = IF count + 1 <= L THEN L - (count + 1) + 1 ELSE 0
    BY <2>1, <2>2, SubSeqProperties
  <2> QED BY <1>10, <1>11, <1>12, <2>3
<1> HIDE DEF rest
<1>14. count + Len(rest) = Len(d.resid) + n
  BY <1>9, <1>10, <1>11, <1>12, <1>13
<1> QED BY <1>7, <1>9, <1>11, <1>12, <1>13, <1>14
        DEF bytes, L, ibleft, count, rest, N, S

(* The data is accounted for after inflate(), and the buffer is in hand.   *)
LEMMA InflateStep ==
    ASSUME FixedTypes, LocalInv, SharedInv, Inflate
    PROVE  LocalInv' /\ SharedInv' /\ maxwritten' = maxwritten
<1>1. PICK n \in Produced, b \in BufId :
          LET bytes  == d.resid \o SubSeq(Stream(Chunk), d.pos + 1, d.pos + n)
              ibleft == Len(bytes) % SECSIZE
              count  == Len(bytes) - ibleft
          IN  /\ AllocBuf(OUTSIZE, bytes, b)
              /\ d' = [d EXCEPT !.pos = @ + n, !.count = count,
                                !.resid = SubSeq(bytes, count + 1, Len(bytes)),
                                !.wbuf = [offset |-> d.offset, size |-> count,
                                          buf |-> b, data |-> 0]]
  BY DEF Inflate
<1> DEFINE bytes  == d.resid \o SubSeq(Stream(Chunk), d.pos + 1, d.pos + n)
           count  == Len(bytes) - (Len(bytes) % SECSIZE)
           rest   == SubSeq(bytes, count + 1, Len(bytes))
           w      == [offset |-> d.offset, size |-> count, buf |-> b, data |-> 0]
<1>2. mpc = "inflate" /\ mpc' = "region" /\ image' = image /\ todo' = todo /\ wcur' = wcur
  BY DEF Inflate, fixed, writer
<1>3. AllocBuf(OUTSIZE, bytes, b)
  BY <1>1
<1>4. d' = [d EXCEPT !.pos = @ + n, !.count = count, !.resid = rest, !.wbuf = w]
  BY <1>1
<1>5. /\ n \in Nat /\ d.pos + n <= Cardinality(DataOf(Chunk))
      /\ bytes \in Seq(Int) /\ rest \in Seq(Int)
      /\ count \in Nat \ {0} /\ count % SECSIZE = 0
      /\ Len(rest) \in 0 .. SECSIZE - 1
      /\ count + Len(rest) = Len(d.resid) + n
  BY <1>2, InflatedBytes
<1> HIDE DEF bytes, count, rest
<1>6. d \in Locals
  BY DEF LocalInv, CallerTypes
<1>7. d.pos \in Nat /\ d.offset \in Nat /\ Len(d.resid) \in Nat
  BY LocalTypes DEF LocalInv
<1>8. w \in WriteBuf /\ w.buf = b /\ w.size = count
  BY <1>5, <1>7 DEF WriteBuf
<1> HIDE DEF w
<1>9. /\ d' \in Locals /\ d'.pos = d.pos + n /\ d'.count = count /\ d'.resid = rest
      /\ d'.wbuf = w /\ d'.tail = d.tail /\ d'.chunk = d.chunk
      /\ d'.region = d.region /\ d'.offset = d.offset /\ d'.size = d.size
  <2> DEFINE p == d.pos + n
  <2>1. p \in Nat
    BY <1>5, <1>7
  <2>2. d' = [d EXCEPT !.pos = p, !.count = count, !.resid = rest, !.wbuf = w]
    BY <1>4
  <2> HIDE DEF p
  <2>3. d' \in Locals /\ d'.pos = p
    BY <1>5, <1>6, <1>8, <2>1, <2>2 DEF Locals
  <2>4. /\ d'.count = count /\ d'.resid = rest
        /\ d'.wbuf = w /\ d'.tail = d.tail /\ d'.chunk = d.chunk
        /\ d'.region = d.region /\ d'.offset = d.offset /\ d'.size = d.size
    BY <1>6, <2>2 DEF Locals
  <2> QED BY <2>3, <2>4 DEF p
<1>10. Chunk' = Chunk /\ \A i : Region(i)' = Region(i)
  BY <1>2, <1>9 DEF Chunk, Region
<1>11. CallerTypes'
  BY <1>2, <1>9 DEF LocalInv, CallerTypes, Locals
<1>12. RegionFrame'
  BY <1>2, <1>9, <1>10 DEF LocalInv, RegionFrame, Unzipping, Filling
<1>13. Accounted'
  <2> DEFINE N == Cardinality(DataOf(Chunk))
  <2>1. /\ d.count = 0 /\ d.pos <= N
        /\ Cardinality(Left(Chunk, d.offset)) = d.count + Len(d.resid) + (N - d.pos)
    BY <1>2 DEF LocalInv, Accounted, Unzipping, Filling
  <2>2. N \in Nat
    BY <1>2, Middle, DataIs DEF LocalInv, Unzipping, Filling
  <2> HIDE DEF N
  <2> DEFINE x == Cardinality(Left(Chunk, d.offset))
             r == Len(d.resid)
             s == Len(rest)
             p == d.pos
  <2>3. /\ x = 0 + r + (N - p) /\ r \in Nat /\ s \in 0 .. SECSIZE - 1
        /\ p + n <= N /\ count + s = r + n /\ SECSIZE \in Nat
        /\ p \in Nat /\ n \in Nat /\ count \in Nat /\ N \in Nat
    BY <1>5, <1>7, <2>1, <2>2, BufIds DEF N
  <2> HIDE DEF x, r, s, p
  <2>4. p + n <= N /\ s < SECSIZE /\ x = count + s + (N - (p + n))
    BY <2>3
  <2>5. /\ d'.pos <= N /\ Len(d'.resid) < SECSIZE /\ d'.count % SECSIZE = 0
        /\ Cardinality(Left(Chunk, d'.offset)) = d'.count + Len(d'.resid) + (N - d'.pos)
    BY <1>5, <1>9, <2>4 DEF x, s, p
  <2> QED BY <1>2, <1>10, <2>5 DEF Accounted, N
<1>14. d.wbuf = NULL /\ d.tail = NULL
  BY <1>2 DEF LocalInv, InHand
<1>15. InHand'
  BY <1>2, <1>5, <1>8, <1>9, <1>14 DEF InHand
<1>16. BufferTypes /\ MemExact /\ OUTSIZE \in 0 .. OUTSIZE
  BY ExactIs, BufIds DEF SharedInv
<1>17. /\ BufferTypes' /\ MemExact'
       /\ bufs[b].refs = 0 /\ bufs'[b].refs = 1
       /\ \A c \in BufId : c # b => bufs'[c] = bufs[c]
       /\ writequeue' = writequeue /\ maxwritten' = maxwritten
  BY <1>3, <1>5, <1>16, AllocDoes
<1>18. \A c \in BufId : bufs'[c].refs = Refs(c)'
  <2>1. WriteTypes /\ BuffersExact
    BY DEF SharedInv
  <2> QED BY <1>2, <1>8, <1>9, <1>14, <1>16, <1>17, <2>1, AllocRefs
<1>19. BuffersExact'
  BY <1>17, <1>18, ExactPrime
<1> QED BY <1>2, <1>11, <1>12, <1>13, <1>15, <1>17, <1>19
        DEF LocalInv, SharedInv, WriteTypes

(* Queueing cc bytes of the region takes as many from what is left.        *)
LEMMA AdvanceLocal ==
    ASSUME FixedTypes, LocalInv, mpc \in {"region", "head"},
           NEW cc \in Nat \ {0}, cc <= d.size, cc <= d.count, cc % SECSIZE = 0,
           NEW w \in WriteBuf, Advance(cc, w),
           d.count = cc => w = NULL,
           d.count > cc => w.buf \in BufId /\ w.size = d.count - cc
    PROVE  LocalInv'
<1> DEFINE C == Chunk
           n == Len(Chunk.regions)
           i == d.region
           N == Cardinality(DataOf(Chunk))
<1>1. mpc \in Unzipping /\ image' = image /\ todo' = todo
  BY DEF Advance, fixed, Unzipping, Filling
<1>2. /\ IsChunk(C) /\ n \in Nat /\ i \in 1 .. n
      /\ Lo(C, i) \in Nat /\ Hi(C, i) \in Nat
      /\ Lo(C, i) <= d.offset /\ d.offset + d.size = Hi(C, i)
      /\ d.offset % SECSIZE = 0 /\ d.chunk \in DOMAIN image
  BY <1>1, Middle DEF LocalInv
<1>3. d \in Locals
  BY DEF LocalInv, CallerTypes
<1>4. /\ d.offset \in Nat /\ d.size \in Nat /\ d.count \in Nat /\ d.pos \in Nat
      /\ Len(d.resid) \in Nat /\ N \in Nat
  BY <1>2, LocalTypes, DataIs DEF LocalInv
<1>5. /\ d.pos <= N /\ Len(d.resid) < SECSIZE /\ d.count % SECSIZE = 0
      /\ Cardinality(Left(C, d.offset)) = d.count + Len(d.resid) + (N - d.pos)
  BY <1>1 DEF LocalInv, Accounted
<1> DEFINE o == d.offset + cc
           z == d.size - cc
           k == d.count - cc
<1>6. o \in Nat /\ z \in Nat /\ k \in Nat /\ o + z = Hi(C, i) /\ Lo(C, i) <= o
  <2> DEFINE x == Lo(C, i)
             y == Hi(C, i)
  <2>1. x \in Nat /\ y \in Nat /\ x <= d.offset /\ d.offset + d.size = y
    BY <1>2
  <2> HIDE DEF x, y, N
  <2>2. o \in Nat /\ z \in Nat /\ k \in Nat
    <3>1. d.offset \in Nat /\ d.size \in Nat /\ d.count \in Nat
      BY <1>4
    <3> QED BY <3>1
  <2>3. o + z = y /\ x <= o
    BY <1>4, <2>1
  <2> QED BY <2>2, <2>3 DEF x, y
<1>7. o % SECSIZE = 0 /\ k % SECSIZE = 0
  BY <1>2, <1>4, <1>5, WholeSectorSums
<1>8. Cardinality(Left(C, o)) = k + Len(d.resid) + (N - d.pos)
  <2>1. o <= Hi(C, i) /\ cc \in Nat
    BY <1>2, <1>6
  <2>2. /\ Cardinality(Left(C, o)) = Cardinality(Left(C, d.offset)) - cc
    BY <1>2, <1>4, <2>1, LeftStep
  <2> DEFINE x == Cardinality(Left(C, d.offset))
             y == Cardinality(Left(C, o))
             r == Len(d.resid)
  <2>3. /\ y = x - cc /\ x = d.count + r + (N - d.pos)
        /\ r \in Nat /\ N \in Nat /\ d.pos \in Nat /\ d.count \in Nat
    BY <1>4, <1>5, <2>2
  <2> HIDE DEF C, N, x, y, r
  <2>4. y = k + r + (N - d.pos)
    BY <2>3
  <2> QED BY <2>4 DEF y, r
<1>9. d' = [d EXCEPT !.count = k, !.size = z, !.offset = o, !.wbuf = w, !.tail = NULL]
  BY DEF Advance
<1>10. mpc' = IF d.size # cc THEN "region" ELSE IF i = n THEN "break" ELSE "gap"
  BY DEF Advance
<1>11. d.size # cc <=> z # 0
  BY <1>4
<1>12. k = 0 => w = NULL
  BY <1>4
<1>13. k # 0 => w.buf \in BufId /\ w.size = k
  BY <1>4
<1> HIDE DEF o, z, k
<1>14. d' \in Locals
  BY <1>3, <1>6, <1>9, NullIs DEF Locals
<1>15. /\ d'.count = k /\ d'.size = z /\ d'.offset = o /\ d'.wbuf = w /\ d'.tail = NULL
       /\ d'.chunk = d.chunk /\ d'.region = d.region /\ d'.pos = d.pos /\ d'.resid = d.resid
  BY <1>3, <1>9 DEF Locals
<1>16. Chunk' = Chunk /\ \A j : Region(j)' = Region(j)
  BY <1>1, <1>15 DEF Chunk, Region
<1>17. CallerTypes'
  BY <1>1, <1>14 DEF LocalInv, CallerTypes, Locals
<1>18. RegionFrame'
  <2>1. mpc' \in {"region", "break", "gap"}
    BY <1>10
  <2>2. /\ mpc' = "region" => z > 0
        /\ mpc' \in {"gap", "break"} => z = 0
        /\ mpc' = "gap" => i < n
        /\ mpc' = "break" => i = n
    BY <1>2, <1>6, <1>10, <1>11
  <2>3. sectobytes(Region(i).start) <= o
        /\ o + z = sectobytes(Region(i).start + Region(i).size)
    BY <1>6 DEF Lo, Hi, Region
  <2> QED BY <1>1, <1>2, <1>7, <1>15, <1>16, <2>1, <2>2, <2>3
          DEF RegionFrame, Unzipping, Filling
<1>19. mpc' = "break" => k = 0
  <2> SUFFICES ASSUME mpc' = "break" PROVE k = 0
    OBVIOUS
  <2>1. i = n /\ z = 0
    BY <1>10, <1>11
  <2>2. o = Hi(C, n)
    BY <1>6, <2>1
  <2>3. Left(C, o) = {}
    BY <1>2, <2>2, LeftEnds
  <2>4. Cardinality(Left(C, o)) = 0
    BY <2>3, FS_EmptySet
  <2> HIDE DEF N, C
  <2> QED BY <1>4, <1>5, <1>6, <1>8, <2>4
<1>20. Accounted'
  BY <1>5, <1>7, <1>8, <1>10, <1>15, <1>16, <1>19 DEF Accounted
<1>21. InHand'
  BY <1>10, <1>12, <1>13, <1>15, <1>19 DEF InHand
<1> QED BY <1>17, <1>18, <1>20, <1>21 DEF LocalInv

(* What is written is a number of bytes.                                   *)
LEMMA WriteMax ==
    ASSUME DiskTypes, NEW w \in WriteBuf, Write(w)
    PROVE  DiskTypes'
<1> DEFINE x == maxwritten
           y == w.offset + w.size
<1>1. x \in Int /\ y \in Int
  BY DEF DiskTypes, WriteBuf
<1>2. maxwritten' = Max({x, y})
  BY DEF Write
<1> HIDE DEF x, y
<1>3. \E z \in {x, y} : \A s \in {x, y} : z >= s
  BY <1>1
<1>4. Max({x, y}) \in {x, y}
  BY <1>3 DEF Max
<1> QED BY <1>1, <1>2, <1>4 DEF DiskTypes

(* The same for a request to write.                                     *)
LEMMA DoWriteMax ==
    ASSUME FixedTypes, DiskTypes, NEW w \in WriteBuf, DoWriteRequest(w)
    PROVE  DiskTypes'
<1>1. CASE maxwritten' = maxwritten
  BY <1>1 DEF DiskTypes
<1>2. CASE Write(Adjust(w))
  BY <1>2, AdjustIs, WriteMax
<1> QED BY <1>1, <1>2 DEF DoWriteRequest

(* The same for a request to zero.                                      *)
LEMMA ZeroFillMax ==
    ASSUME FixedTypes, DiskTypes, NEW from \in Int, NEW to \in Int, ZeroFill(from, to)
    PROVE  DiskTypes'
<1> DEFINE w == [offset |-> from, size |-> to - from, buf |-> 0, data |-> 0]
<1>1. w \in WriteBuf
  BY DEF WriteBuf
<1>2. CASE DoWriteRequest(w)
  BY <1>1, <1>2, DoWriteMax
<1>3. CASE UNCHANGED shared
  BY <1>3 DEF shared, DiskTypes
<1> QED BY <1>2, <1>3 DEF ZeroFill

(* The data ends in its region.                                            *)
LEMMA WriteRegionStep ==
    ASSUME FixedTypes, LocalInv, SharedInv, DiskTypes, WriteRegion
    PROVE  LocalInv' /\ SharedInv' /\ DiskTypes'
<1>1. /\ mpc = "region" /\ d.count > 0 /\ d.count <= d.size
      /\ DoWriteRequest(d.wbuf) /\ Advance(d.count, NULL)
  BY DEF WriteRegion, FitsRegion
<1>2. d.count \in Nat \ {0} /\ d.wbuf \in WriteBuf /\ d \in Locals
  BY <1>1, LocalTypes DEF LocalInv, CallerTypes
<1>3. d.count % SECSIZE = 0
  BY <1>1 DEF LocalInv, Accounted, Unzipping, Filling
<1>4. LocalInv'
  BY <1>1, <1>2, <1>3, NullIs, AdvanceLocal
<1>5. d.tail = NULL
  BY <1>1 DEF LocalInv, InHand
<1>6. d'.wbuf = NULL /\ d'.tail = NULL /\ wcur' = wcur
  BY <1>1, <1>2 DEF Advance, writer, Locals
<1>7. BufferTypes /\ WriteTypes /\ BuffersExact /\ MemExact /\ writequeue \in Seq(WriteBuf)
  BY ExactIs DEF SharedInv, WriteTypes
<1>8. Disposed(d.wbuf)
  BY <1>1, <1>2, <1>7, HeldInUse, DoWriteDoes
<1>9. ASSUME NEW b \in BufId
      PROVE  Holds(d.wbuf, d.tail, b) = Holds(d'.wbuf, d'.tail, b) + One(d.wbuf.buf = b)
  BY <1>5, <1>6, NullIs, BufIds DEF Holds, One
<1>10. SharedInv'
  BY <1>6, <1>7, <1>8, <1>9, Settled DEF SharedInv
<1>11. DiskTypes'
  BY <1>1, <1>2, DoWriteMax
<1> QED BY <1>4, <1>10, <1>11

(* The first part of data that was split.                                  *)
LEMMA WriteHeadStep ==
    ASSUME FixedTypes, LocalInv, SharedInv, DiskTypes, WriteHead
    PROVE  LocalInv' /\ SharedInv' /\ DiskTypes'
<1>1. mpc = "head" /\ DoWriteRequest(d.wbuf) /\ Advance(d.size, d.tail)
  BY DEF WriteHead
<1>2. /\ d.size \in Nat /\ d.count \in Nat /\ d.wbuf \in WriteBuf /\ d.tail \in WriteBuf
      /\ d \in Locals
  BY LocalTypes DEF LocalInv, CallerTypes
<1>3. d.size > 0 /\ d.size % SECSIZE = 0
  BY <1>1, Middle DEF LocalInv, RegionFrame, Unzipping, Filling
<1>4. /\ d.size < d.count /\ d.wbuf.buf \in BufId
      /\ d.tail.buf = d.wbuf.buf /\ d.tail.size = d.count - d.size
  BY <1>1 DEF LocalInv, InHand
<1>5. LocalInv'
  <2>1. /\ d.size \in Nat \ {0} /\ d.size <= d.size /\ d.size <= d.count
        /\ d.count # d.size /\ d.tail.buf \in BufId
    BY <1>2, <1>3, <1>4
  <2> QED BY <1>1, <1>2, <1>3, <1>4, <2>1, AdvanceLocal
<1>6. d'.wbuf = d.tail /\ d'.tail = NULL /\ wcur' = wcur
  BY <1>1, <1>2 DEF Advance, writer, Locals
<1>7. BufferTypes /\ WriteTypes /\ BuffersExact /\ MemExact /\ writequeue \in Seq(WriteBuf)
  BY ExactIs DEF SharedInv, WriteTypes
<1>8. Disposed(d.wbuf)
  BY <1>1, <1>2, <1>7, HeldInUse, DoWriteDoes
<1>9. ASSUME NEW b \in BufId
      PROVE  Holds(d.wbuf, d.tail, b) = Holds(d'.wbuf, d'.tail, b) + One(d.wbuf.buf = b)
  BY <1>6, NullIs, BufIds DEF Holds, One
<1>10. SharedInv'
  BY <1>6, <1>7, <1>8, <1>9, Settled DEF SharedInv
<1>11. DiskTypes'
  BY <1>1, <1>2, DoWriteMax
<1> QED BY <1>5, <1>10, <1>11

(* split_writebuf() makes two writes of one, and counts the second.        *)
LEMMA SplitStep ==
    ASSUME FixedTypes, LocalInv, SharedInv, DiskTypes, SplitWritebuf
    PROVE  LocalInv' /\ SharedInv' /\ DiskTypes'
<1> DEFINE v == d.wbuf.buf
           w == [d.wbuf EXCEPT !.size = d.size]
           t == [offset |-> d.wbuf.offset + d.size, size |-> d.wbuf.size - d.size,
                 buf |-> d.wbuf.buf, data |-> d.wbuf.data + d.size]
<1>1. /\ mpc = "region" /\ d.count > 0 /\ ~ (d.count <= d.size) /\ mpc' = "head"
      /\ image' = image /\ todo' = todo /\ wcur' = wcur /\ writequeue' = writequeue
      /\ maxwritten' = maxwritten /\ curmem' = curmem
  BY DEF SplitWritebuf, FitsRegion, fixed, writer
<1>2. d' = [d EXCEPT !.wbuf = w, !.tail = t]
  BY DEF SplitWritebuf
<1>3. /\ d.size \in Nat /\ d.count \in Nat /\ d.wbuf \in WriteBuf /\ d \in Locals
  BY LocalTypes DEF LocalInv, CallerTypes
<1>4. v \in BufId /\ d.wbuf.size = d.count /\ d.tail = NULL
  BY <1>1 DEF LocalInv, InHand
<1>5. /\ w \in WriteBuf /\ w.buf = v /\ w.size = d.size
      /\ t \in WriteBuf /\ t.buf = v /\ t.size = d.count - d.size
  BY <1>3, <1>4 DEF WriteBuf
<1>6. bufs' = [bufs EXCEPT ![v].refs = @ + 1]
  BY DEF SplitWritebuf
<1> HIDE DEF v, w, t
<1>7. /\ d' \in Locals /\ d'.wbuf = w /\ d'.tail = t
      /\ d'.chunk = d.chunk /\ d'.region = d.region /\ d'.pos = d.pos
      /\ d'.resid = d.resid /\ d'.offset = d.offset /\ d'.size = d.size /\ d'.count = d.count
  BY <1>2, <1>3, <1>5 DEF Locals
<1>8. Chunk' = Chunk /\ \A j : Region(j)' = Region(j)
  BY <1>1, <1>7 DEF Chunk, Region
<1>9. CallerTypes'
  BY <1>1, <1>7 DEF LocalInv, CallerTypes, Locals
<1>10. RegionFrame'
  BY <1>1, <1>7, <1>8 DEF LocalInv, RegionFrame, Unzipping, Filling
<1>11. Accounted'
  BY <1>1, <1>7, <1>8 DEF LocalInv, Accounted, Unzipping, Filling
<1>12. InHand'
  <2>1. d.size < d.count
    BY <1>1, <1>3
  <2> QED BY <1>1, <1>4, <1>5, <1>7, <2>1 DEF InHand
<1>13. BufferTypes /\ WriteTypes /\ BuffersExact /\ MemExact
  BY ExactIs DEF SharedInv
<1>14. bufs \in [BufId -> Buffer] /\ curmem \in Nat
  BY <1>13 DEF BufferTypes
<1> DEFINE r == bufs[v]
           e == [r EXCEPT !.refs = @ + 1]
<1>15. r \in Buffer
  BY <1>4, <1>14
<1>16. bufs' = [bufs EXCEPT ![v] = e]
  BY <1>6
<1>17. e \in Buffer /\ e.refs = r.refs + 1 /\ e.size = r.size /\ r.refs \in Nat
  <2> HIDE DEF r
  <2> QED BY <1>15, Counted
<1> HIDE DEF e
<1>18. bufs' \in [BufId -> Buffer] /\ bufs'[v] = e
       /\ \A b \in BufId : b # v => bufs'[b] = bufs[b]
  BY <1>4, <1>14, <1>16, <1>17
<1>19. r.refs > 0
  BY <1>3, <1>4, <1>13, HeldInUse, BufIds DEF v
<1>20. BytesOf(bufs') = BytesOf(bufs)
  <2>1. ASSUME NEW b \in BufId
        PROVE  (bufs[b].refs > 0 <=> bufs'[b].refs > 0) /\ bufs[b].size = bufs'[b].size
    <3>1. CASE b = v
      BY <1>17, <1>18, <1>19, <3>1
    <3>2. CASE b # v
      BY <1>18, <3>2
    <3> QED BY <3>1, <3>2
  <2> QED BY <1>14, <1>18, <2>1, BytesShared
<1>21. MemExact' /\ BufferTypes' /\ WriteTypes'
  BY <1>1, <1>13, <1>14, <1>18, <1>20 DEF MemExact, BytesOf, BufferTypes, WriteTypes
<1>22. ASSUME NEW b \in BufId PROVE bufs'[b].refs = Refs(b)'
  <2> DEFINE q == Cardinality(QueueRefs(writequeue, b))
             k == One(wcur.buf = b)
  <2>1. bufs[b].refs = q + k + One(d.wbuf.buf = b) + One(d.tail.buf = b)
    BY <1>13, ExactIs
  <2>2. Refs(b)' = Cardinality(QueueRefs(writequeue', b)) + One(wcur'.buf = b)
                      + One(d'.wbuf.buf = b) + One(d'.tail.buf = b)
    BY Zenon DEF Refs, QueueRefs, One
  <2>3. Cardinality(QueueRefs(writequeue', b)) = q /\ One(wcur'.buf = b) = k
    BY <1>1
  <2>4. q \in Nat /\ k \in Nat
    BY <1>13, QueueRefsFinite DEF WriteTypes, One
  <2>5. One(d.wbuf.buf = b) = One(v = b) /\ One(d.tail.buf = b) = 0
        /\ One(d'.wbuf.buf = b) = One(v = b) /\ One(d'.tail.buf = b) = One(v = b)
    BY <1>4, <1>5, <1>7, NullIs, BufIds DEF One, v
  <2>6. One(v = b) \in Nat
    BY DEF One
  <2> HIDE DEF q, k
  <2>7. bufs[b].refs = q + k + One(v = b) /\ Refs(b)' = q + k + One(v = b) + One(v = b)
    BY <2>1, <2>2, <2>3, <2>4, <2>5, <2>6
  <2>8. CASE b = v
    <3>1. One(v = b) = 1
      BY <2>8 DEF One
    <3> QED BY <1>17, <1>18, <2>4, <2>7, <2>8, <3>1
  <2>9. CASE b # v
    <3>1. One(v = b) = 0
      BY <2>9 DEF One
    <3> QED BY <1>18, <2>4, <2>7, <2>9, <3>1
  <2> QED BY <2>8, <2>9
<1>23. BuffersExact'
  BY <1>21, <1>22, ExactPrime
<1> QED BY <1>1, <1>9, <1>10, <1>11, <1>12, <1>21, <1>23 DEF LocalInv, SharedInv, DiskTypes

(* Zeros take no buffer.                                                   *)
LEMMA FillStep ==
    ASSUME FixedTypes, SharedInv, DiskTypes, NEW from \in Int, NEW to \in Int,
           ZeroFill(from, to) \/ UNCHANGED shared, wcur' = wcur,
           d'.wbuf.buf = d.wbuf.buf, d'.tail.buf = d.tail.buf
    PROVE  SharedInv' /\ DiskTypes'
<1>1. BufferTypes /\ MemExact /\ writequeue \in Seq(WriteBuf)
  BY ExactIs DEF SharedInv, WriteTypes
<1>2. CASE ZeroFill(from, to)
  BY <1>1, <1>2, ZeroFillDoes, ZeroFillMax, QuietShared
<1>3. CASE UNCHANGED shared
  <2>1. Disposed(NULL) /\ maxwritten' = maxwritten
    BY <1>1, <1>3, NothingDisposed DEF shared
  <2> QED BY <2>1, QuietShared DEF DiskTypes
<1> QED BY <1>2, <1>3

(* ImageUnzipChunk() as a whole.                                           *)
LEMMA UnzipChunkStep ==
    ASSUME FixedTypes, LocalInv, SharedInv, DiskTypes, NEW c \in todo, UnzipChunk(c)
    PROVE  LocalInv' /\ SharedInv' /\ DiskTypes'
<1> DEFINE from == sectobytes(image[c].first)
           to == Lo(image[c], 1)
<1>1. IsChunk(image[c])
  BY ChunksAre DEF LocalInv, CallerTypes
<1>2. from \in Int
  BY <1>1, BufIds DEF IsChunk, sectobytes
<1>3. to \in Int
  <2>1. 1 \in 1 .. Len(image[c].regions)
    BY <1>1, EmptySeq DEF IsChunk
  <2> QED BY <1>1, <2>1, RegionBytes
<1>4. ZeroFill(from, to) \/ UNCHANGED shared
  BY DEF UnzipChunk, Lo
<1> HIDE DEF from, to
<1>5. DiskTypes'
  <2>1. CASE ZeroFill(from, to)
    BY <1>2, <1>3, <2>1, ZeroFillMax
  <2>2. CASE UNCHANGED shared
    BY <2>2 DEF shared, DiskTypes
  <2> QED BY <1>4, <2>1, <2>2
<1> QED BY <1>5, UnzipChunkLocal, UnzipChunkShared

(* The first bytes of the next region are the next data, so what is left   *)
(* moves there.                                                            *)
LEMMA NextRegionStep ==
    ASSUME FixedTypes, LocalInv, SharedInv, DiskTypes, NextRegion
    PROVE  LocalInv' /\ SharedInv' /\ DiskTypes'
<1> DEFINE C == Chunk
           i == d.region
           N == Cardinality(DataOf(C))
           o == Lo(C, i + 1)
           z == sectobytes(C.regions[i + 1].size)
           w == IF d.wbuf = NULL THEN NULL ELSE [d.wbuf EXCEPT !.offset = o]
<1>1. /\ mpc = "gap" /\ mpc' = "region" /\ image' = image /\ todo' = todo /\ wcur' = wcur
      /\ mpc \in Unzipping
  BY DEF NextRegion, fixed, writer, Unzipping
<1>2. /\ IsChunk(C) /\ Len(C.regions) \in Nat /\ i \in 1 .. Len(C.regions)
      /\ Lo(C, i) <= d.offset /\ d.offset + d.size = Hi(C, i)
      /\ d.chunk \in DOMAIN image
  BY <1>1, Middle DEF LocalInv
<1>3. d.size = 0 /\ i < Len(C.regions)
  BY <1>1 DEF LocalInv, RegionFrame
<1>4. /\ d \in Locals /\ d.offset \in Nat /\ d.count \in Nat /\ d.pos \in Nat
      /\ Len(d.resid) \in Nat /\ d.wbuf \in WriteBuf
  BY LocalTypes DEF LocalInv, CallerTypes
<1>5. i + 1 \in 1 .. Len(C.regions) /\ i + 1 \in Nat
  BY <1>2, <1>3
<1>6. /\ o \in Nat /\ Hi(C, i + 1) \in Nat /\ o < Hi(C, i + 1) /\ o % SECSIZE = 0
      /\ z = Hi(C, i + 1) - o
  BY <1>2, <1>5, RegionBytes
<1>7. z \in Nat \ {0} /\ o + z = Hi(C, i + 1)
  BY <1>6
<1>8. d.offset = Hi(C, i)
  BY <1>2, <1>3, <1>4
<1>9. Left(C, d.offset) = Left(C, o)
  BY <1>2, <1>3, <1>8, LeftGap
<1>10. /\ w \in WriteBuf /\ w.buf = d.wbuf.buf /\ w.size = d.wbuf.size
       /\ d.wbuf = NULL => w = NULL
  BY <1>4, <1>6 DEF WriteBuf, NULL
<1>11. d' = [d EXCEPT !.region = i + 1, !.offset = o, !.size = z, !.wbuf = w]
  BY DEF NextRegion, Lo, Region
<1>12. ZeroFill(d.offset, o)
  BY DEF NextRegion, Lo, Region
<1> HIDE DEF o, z, w
<1>13. /\ d'.region = i + 1 /\ d'.offset = o /\ d'.size = z /\ d'.wbuf = w
       /\ d'.chunk = d.chunk /\ d'.pos = d.pos /\ d'.resid = d.resid
       /\ d'.count = d.count /\ d'.tail = d.tail
  BY <1>4, <1>11 DEF Locals
<1>14. d' \in Locals
  BY <1>4, <1>5, <1>6, <1>7, <1>10, <1>11 DEF Locals
<1>15. Chunk' = Chunk /\ \A j : Region(j)' = Region(j)
  BY <1>1, <1>13 DEF Chunk, Region
<1>16. CallerTypes'
  BY <1>1, <1>14 DEF LocalInv, CallerTypes, Locals
<1>17. RegionFrame'
  <2>1. /\ sectobytes(Region(i + 1).start) <= o /\ z > 0
        /\ o + z = sectobytes(Region(i + 1).start + Region(i + 1).size)
    BY <1>6, <1>7 DEF Lo, Hi, Region, o
  <2> QED BY <1>1, <1>2, <1>5, <1>6, <1>13, <1>15, <2>1
          DEF RegionFrame, Unzipping, Filling
<1>18. Accounted'
  BY <1>1, <1>9, <1>13, <1>15 DEF LocalInv, Accounted
<1>19. InHand'
  BY <1>1, <1>10, <1>13 DEF LocalInv, InHand
<1>20. SharedInv' /\ DiskTypes'
  <2>1. d.offset \in Int /\ o \in Int
    BY <1>4, <1>6
  <2> QED BY <1>1, <1>10, <1>12, <1>13, <2>1, FillStep
<1> QED BY <1>16, <1>17, <1>18, <1>19, <1>20 DEF LocalInv

(* After the last region nothing is left anywhere.                         *)
LEMMA BreakEnds ==
    ASSUME FixedTypes, LocalInv, mpc = "break"
    PROVE  d.pos = Len(Stream(Chunk)) /\ Len(d.resid) = 0
<1> DEFINE C == Chunk
           n == Len(C.regions)
           N == Cardinality(DataOf(C))
<1>1. mpc \in Unzipping
  BY DEF Unzipping
<1>2. IsChunk(C) /\ d.offset + d.size = Hi(C, d.region)
  BY <1>1, Middle DEF LocalInv
<1>3. d.size = 0 /\ d.region = n
  BY DEF LocalInv, RegionFrame, Unzipping
<1>4. d.offset \in Nat /\ d.pos \in Nat /\ Len(d.resid) \in Nat /\ N \in Nat
  BY <1>2, LocalTypes, DataIs DEF LocalInv
<1>5. d.offset = Hi(C, n)
  BY <1>2, <1>3, <1>4
<1>6. Cardinality(Left(C, d.offset)) = 0
  BY <1>2, <1>5, LeftEnds, FS_EmptySet
<1>7. d.pos <= N /\ d.count = 0
      /\ Cardinality(Left(C, d.offset)) = d.count + Len(d.resid) + (N - d.pos)
  BY <1>1 DEF LocalInv, Accounted
<1>8. N = Len(Stream(C))
  BY <1>2, StreamIs
<1> HIDE DEF N, C
<1>9. d.pos = N /\ Len(d.resid) = 0
  BY <1>4, <1>6, <1>7
<1> QED BY <1>8, <1>9 DEF C

(* Another buffer is filled for the same region.                           *)
LEMMA MoreInputStep ==
    ASSUME FixedTypes, LocalInv, SharedInv, DiskTypes, MoreInput
    PROVE  LocalInv' /\ SharedInv' /\ DiskTypes'
<1>1. /\ BufferDone /\ d.pos < Len(Stream(Chunk)) /\ mpc' = "inflate" /\ d' = d
      /\ UNCHANGED shared /\ wcur' = wcur /\ image' = image /\ todo' = todo
  BY DEF MoreInput, fixed, writer
<1>2. mpc # "break"
  <2> SUFFICES ASSUME mpc = "break" PROVE FALSE
    OBVIOUS
  <2>1. d.pos = Len(Stream(Chunk)) /\ d.pos \in Nat
    BY BreakEnds, LocalTypes DEF LocalInv
  <2> QED BY <1>1, <2>1
<1>3. mpc = "region" /\ d.count = 0
  BY <1>1, <1>2 DEF BufferDone
<1>4. Chunk' = Chunk /\ \A i : Region(i)' = Region(i)
  BY <1>1 DEF Chunk, Region
<1>5. CallerTypes'
  BY <1>1 DEF LocalInv, CallerTypes, Locals
<1>6. RegionFrame' /\ Accounted'
  BY <1>1, <1>3, <1>4 DEF LocalInv, RegionFrame, Accounted, Unzipping, Filling
<1>7. InHand'
  BY <1>1, <1>3 DEF LocalInv, InHand
<1>8. SharedInv' /\ DiskTypes'
  <2>1. 0 \in Int
    OBVIOUS
  <2> QED BY <1>1, <2>1, FillStep
<1> QED BY <1>5, <1>6, <1>7, <1>8 DEF LocalInv

(* The end of a chunk, after the zeros that follow its last region.        *)
LEMMA ChunkDoneStep ==
    ASSUME FixedTypes, LocalInv, SharedInv, DiskTypes, ChunkDone
    PROVE  LocalInv' /\ SharedInv' /\ DiskTypes'
<1> DEFINE from == Hi(Chunk, Len(Chunk.regions))
           to == sectobytes(Chunk.last)
<1>1. /\ BufferDone /\ mpc' = "idle" /\ d' = d /\ todo' \subseteq todo
      /\ image' = image /\ wcur' = wcur
  BY DEF ChunkDone, fixed, writer
<1>2. mpc \in Unzipping /\ (mpc = "break" \/ (mpc = "region" /\ d.count = 0))
  BY <1>1 DEF BufferDone, Unzipping, Filling
<1>3. d.wbuf = NULL /\ d.tail = NULL
  BY <1>2 DEF LocalInv, InHand
<1>4. LocalInv'
  BY <1>1, <1>2, <1>3, QuietLocal DEF Unzipping, Filling
<1>5. IsChunk(Chunk)
  BY <1>2, Middle DEF LocalInv
<1>6. from \in Int
  <2>1. Len(Chunk.regions) \in 1 .. Len(Chunk.regions)
    BY <1>5, EmptySeq DEF IsChunk
  <2> QED BY <1>5, <2>1, RegionBytes
<1>7. to \in Int
  BY <1>5, BufIds DEF IsChunk, sectobytes
<1>8. ZeroFill(from, to) \/ UNCHANGED shared
  BY DEF ChunkDone, Hi, Region
<1> HIDE DEF from, to
<1> QED BY <1>1, <1>4, <1>6, <1>7, <1>8, FillStep

(* Waiting for memory and going on, the end of a chunk that is written as  *)
(* it is, and the steps of the flush: they move no data.                   *)
LEMMA WaitingSteps ==
    ASSUME FixedTypes, LocalInv, SharedInv, DiskTypes,
           AllocWait \/ AllocWoken \/ RawDone \/ Flush \/ ThreadWait \/ Quit
    PROVE  LocalInv' /\ SharedInv' /\ DiskTypes'
<1>1. /\ d' = d /\ image' = image /\ todo' \subseteq todo /\ wcur' = wcur
      /\ bufs' = bufs /\ curmem' = curmem /\ writequeue' = writequeue
      /\ maxwritten' = maxwritten
  BY DEF AllocWait, AllocWoken, RawDone, Flush, ThreadWait, Quit, fixed, shared, writer
<1>2. /\ mpc' \notin Unzipping \cup {"rawwrite"}
         \/ (mpc \in {"inflate", "inflatewait"} /\ mpc' \in {"inflate", "inflatewait"})
      /\ mpc \notin {"region", "gap", "head", "rawwrite", "exit"}
  BY DEF AllocWait, AllocWoken, RawDone, Flush, ThreadWait, Quit, Unzipping, Filling
<1>3. LocalInv'
  BY <1>1, <1>2, QuietLocal
<1>4. BufferTypes /\ MemExact /\ writequeue \in Seq(WriteBuf)
  BY ExactIs DEF SharedInv, WriteTypes
<1>5. Disposed(NULL)
  BY <1>1, <1>4, NothingDisposed
<1> QED BY <1>1, <1>3, <1>5, QuietShared DEF DiskTypes

(* zero_remainder() zeroes what is after the last write.                   *)
LEMMA ZeroRemainderStep ==
    ASSUME FixedTypes, LocalInv, SharedInv, DiskTypes, ZeroRemainder
    PROVE  LocalInv' /\ SharedInv' /\ DiskTypes'
<1>1. /\ mpc = "remainder" /\ mpc' = "drain" /\ d' = d /\ image' = image /\ todo' = todo
      /\ wcur' = wcur /\ ZeroFill(maxwritten, DiskBytes)
  BY DEF ZeroRemainder, fixed, writer
<1>2. LocalInv'
  BY <1>1, QuietLocal DEF Unzipping, Filling
<1>3. maxwritten \in Int /\ DiskBytes \in Int
  BY UnzipAssumption DEF DiskTypes, DiskBytes, sectobytes
<1> QED BY <1>1, <1>2, <1>3, FillStep

(* write_subblock() takes a buffer of what is left, at most OUTSIZE bytes. *)
LEMMA RawAllocStep ==
    ASSUME FixedTypes, LocalInv, SharedInv, DiskTypes, RawAlloc
    PROVE  LocalInv' /\ SharedInv' /\ DiskTypes'
<1> DEFINE n == Min({OUTSIZE, d.size})
           bytes == [i \in 1 .. n |-> d.offset + i - 1]
<1>1. /\ mpc = "raw" /\ d.size > 0 /\ mpc' = "rawwrite" /\ image' = image /\ todo' = todo
      /\ wcur' = wcur
  BY DEF RawAlloc, fixed, writer
<1>2. PICK b \in BufId :
         /\ AllocBuf(n, bytes, b)
         /\ d' = [d EXCEPT !.wbuf = [offset |-> d.offset, size |-> n,
                                     buf |-> b, data |-> 0]]
  BY DEF RawAlloc
<1>3. d \in Locals /\ d.size \in Nat /\ d.offset \in Nat
  BY LocalTypes DEF LocalInv, CallerTypes
<1>4. n \in 1 .. OUTSIZE /\ n \in 1 .. d.size /\ n \in 0 .. OUTSIZE /\ n \in Nat
  <2>1. OUTSIZE \in Nat \ {0}
    BY BufIds
  <2>2. n = IF OUTSIZE <= d.size THEN OUTSIZE ELSE d.size
    BY <1>3, <2>1, MinOfTwo
  <2> QED BY <1>1, <1>3, <2>1, <2>2
<1> HIDE DEF n
<1>5. bytes \in Seq(Int)
  BY <1>3, <1>4, IsASeq
<1> DEFINE w == [offset |-> d.offset, size |-> n, buf |-> b, data |-> 0]
<1>6. w \in WriteBuf /\ w.buf = b /\ w.size = n
  BY <1>3, <1>4 DEF WriteBuf
<1>7. d' = [d EXCEPT !.wbuf = w] /\ AllocBuf(n, bytes, b)
  BY <1>2
<1> HIDE DEF w, bytes
<1>8. d' \in Locals /\ d'.wbuf = w /\ d'.tail = d.tail /\ d'.size = d.size
  BY <1>3, <1>6, <1>7 DEF Locals
<1>9. CallerTypes'
  BY <1>1, <1>8 DEF LocalInv, CallerTypes, Locals
<1>10. RegionFrame' /\ Accounted'
  BY <1>1 DEF RegionFrame, Accounted, Unzipping, Filling
<1>11. d.wbuf = NULL /\ d.tail = NULL
  BY <1>1 DEF LocalInv, InHand
<1>12. InHand'
  BY <1>1, <1>4, <1>6, <1>8, <1>11 DEF InHand
<1>13. BufferTypes /\ WriteTypes /\ BuffersExact /\ MemExact
  BY ExactIs DEF SharedInv
<1>14. /\ BufferTypes' /\ MemExact'
       /\ bufs[b].refs = 0 /\ bufs'[b].refs = 1
       /\ \A c \in BufId : c # b => bufs'[c] = bufs[c]
       /\ writequeue' = writequeue /\ maxwritten' = maxwritten
  BY <1>4, <1>5, <1>7, <1>13, AllocDoes
<1>15. \A c \in BufId : bufs'[c].refs = Refs(c)'
  BY <1>1, <1>6, <1>8, <1>11, <1>13, <1>14, AllocRefs
<1>16. BuffersExact'
  BY <1>14, <1>15, ExactPrime
<1> QED BY <1>1, <1>9, <1>10, <1>12, <1>13, <1>14, <1>16
        DEF LocalInv, SharedInv, WriteTypes, DiskTypes

(* The buffer goes to the disk as it is.                                   *)
LEMMA RawWriteStep ==
    ASSUME FixedTypes, LocalInv, SharedInv, DiskTypes, RawWrite
    PROVE  LocalInv' /\ SharedInv' /\ DiskTypes'
<1> DEFINE o == d.offset + d.wbuf.size
           z == d.size - d.wbuf.size
<1>1. /\ mpc = "rawwrite" /\ mpc' = "raw" /\ image' = image /\ todo' = todo /\ wcur' = wcur
      /\ DoWriteRequest(d.wbuf)
      /\ d' = [d EXCEPT !.offset = o, !.size = z, !.wbuf = NULL]
  BY DEF RawWrite, fixed, writer
<1>2. d \in Locals /\ d.size \in Nat /\ d.offset \in Nat /\ d.wbuf \in WriteBuf
  BY LocalTypes DEF LocalInv, CallerTypes
<1>3. d.wbuf.buf \in BufId /\ d.wbuf.size \in 1 .. d.size /\ d.tail = NULL
  BY <1>1 DEF LocalInv, InHand
<1>4. o \in Nat /\ z \in Nat
  BY <1>2, <1>3
<1> HIDE DEF o, z
<1>5. d' \in Locals /\ d'.wbuf = NULL /\ d'.tail = NULL
  BY <1>1, <1>2, <1>3, <1>4, NullIs DEF Locals
<1>6. CallerTypes'
  BY <1>1, <1>5 DEF LocalInv, CallerTypes, Locals
<1>7. RegionFrame' /\ Accounted' /\ InHand'
  BY <1>1, <1>5 DEF RegionFrame, Accounted, InHand, Unzipping, Filling
<1>8. BufferTypes /\ WriteTypes /\ BuffersExact /\ MemExact /\ writequeue \in Seq(WriteBuf)
  BY ExactIs DEF SharedInv, WriteTypes
<1>9. Disposed(d.wbuf)
  BY <1>1, <1>2, <1>8, HeldInUse, DoWriteDoes
<1>10. ASSUME NEW b \in BufId
       PROVE  Holds(d.wbuf, d.tail, b) = Holds(d'.wbuf, d'.tail, b) + One(d.wbuf.buf = b)
  BY <1>3, <1>5, NullIs, BufIds DEF Holds, One
<1>11. SharedInv'
  BY <1>1, <1>8, <1>9, <1>10, Settled DEF SharedInv
<1>12. DiskTypes'
  BY <1>1, <1>2, DoWriteMax
<1> QED BY <1>6, <1>7, <1>11, <1>12 DEF LocalInv

-----------------------------------------------------------------------------
(* The steps of DiskWriter().                                              *)

(* The reference of a write that is taken off the queue goes with it.      *)
LEMMA WriterTakeStep ==
    ASSUME SharedInv, InWriter, WriterTake
    PROVE  SharedInv' /\ InWriter'
<1>1. /\ writequeue # <<>> /\ wcur' = Head(writequeue) /\ writequeue' = Tail(writequeue)
      /\ bufs' = bufs /\ curmem' = curmem /\ d' = d /\ wpc = "take" /\ wpc' = "write"
  BY DEF WriterTake
<1>2. BufferTypes /\ WriteTypes /\ BuffersExact /\ MemExact /\ wcur = NULL
  BY <1>1, ExactIs DEF SharedInv, InWriter
<1>3. writequeue \in Seq(WriteBuf)
  BY <1>2 DEF WriteTypes
<1>4. wcur' \in WriteBuf /\ writequeue' \in Seq(WriteBuf)
  BY <1>1, <1>3, HeadTailProperties
<1>5. BufferTypes' /\ MemExact'
  BY <1>1, <1>2 DEF BufferTypes, MemExact, BytesOf
<1>6. ASSUME NEW b \in BufId PROVE bufs'[b].refs = Refs(b)'
  <2> DEFINE q == Cardinality(QueueRefs(writequeue, b))
             r == Cardinality(QueueRefs(writequeue', b))
             h == One(d.wbuf.buf = b)
             t == One(d.tail.buf = b)
             k == One(wcur'.buf = b)
  <2>1. bufs[b].refs = q + One(wcur.buf = b) + h + t
    BY <1>2, ExactIs
  <2>2. Refs(b)' = r + k + One(d'.wbuf.buf = b) + One(d'.tail.buf = b)
    BY Zenon DEF Refs, QueueRefs, One
  <2>3. One(d'.wbuf.buf = b) = h /\ One(d'.tail.buf = b) = t
    BY <1>1
  <2>4. One(wcur.buf = b) = 0
    BY <1>2, NullIs, BufIds DEF One
  <2>5. q = r + k
    BY <1>1, <1>3, QueueTail
  <2>6. q \in Nat /\ r \in Nat /\ h \in Nat /\ t \in Nat /\ k \in Nat
    BY <1>3, <1>4, QueueRefsFinite DEF One
  <2> HIDE DEF q, r, h, t, k
  <2> QED BY <1>1, <2>1, <2>2, <2>3, <2>4, <2>5, <2>6
<1>7. BuffersExact'
  BY <1>5, <1>6, ExactPrime
<1> QED BY <1>1, <1>4, <1>5, <1>7 DEF SharedInv, WriteTypes, InWriter

(* free_writebuf() drops the reference of the write that has been done.    *)
LEMMA WriterFreeStep ==
    ASSUME SharedInv, WriterFree
    PROVE  SharedInv' /\ InWriter'
<1>1. /\ FreeWritebuf(wcur) /\ wcur' = NULL /\ writequeue' = writequeue /\ d' = d
  BY DEF WriterFree
<1>2. BufferTypes /\ WriteTypes /\ BuffersExact /\ MemExact
  BY ExactIs DEF SharedInv
<1>3. writequeue \in Seq(WriteBuf) /\ wcur \in WriteBuf
  BY <1>2 DEF WriteTypes
<1>4. wcur.buf # 0 => bufs[wcur.buf].refs > 0
  BY <1>2, <1>3, HeldInUse
<1>5. /\ BufferTypes' /\ MemExact'
      /\ \A b \in BufId : bufs[b].refs = bufs'[b].refs + One(wcur.buf = b)
  BY <1>1, <1>2, <1>3, <1>4, FreeDoes
<1>6. ASSUME NEW b \in BufId PROVE bufs'[b].refs = Refs(b)'
  <2> DEFINE q == Cardinality(QueueRefs(writequeue, b))
             h == One(d.wbuf.buf = b)
             t == One(d.tail.buf = b)
             k == One(wcur.buf = b)
             x == bufs'[b].refs
  <2>1. bufs[b].refs = q + k + h + t
    BY <1>2, ExactIs
  <2>2. Refs(b)' = Cardinality(QueueRefs(writequeue', b)) + One(wcur'.buf = b)
                     + One(d'.wbuf.buf = b) + One(d'.tail.buf = b)
    BY Zenon DEF Refs, QueueRefs, One
  <2>3. /\ Cardinality(QueueRefs(writequeue', b)) = q
        /\ One(d'.wbuf.buf = b) = h /\ One(d'.tail.buf = b) = t
    BY <1>1
  <2>4. One(wcur'.buf = b) = 0
    BY <1>1, NullIs, BufIds DEF One
  <2>5. q \in Nat /\ h \in Nat /\ t \in Nat /\ k \in Nat
    BY <1>3, QueueRefsFinite DEF One
  <2>6. x \in Nat
    BY <1>5, Counted DEF BufferTypes
  <2>7. bufs[b].refs = x + k
    BY <1>5
  <2> HIDE DEF q, h, t, k, x
  <2>8. x = q + h + t
    BY <2>1, <2>5, <2>6, <2>7
  <2>9. Refs(b)' = q + h + t
    BY <2>2, <2>3, <2>4, <2>5
  <2> QED BY <2>8, <2>9 DEF x
<1>7. BuffersExact'
  BY <1>5, <1>6, ExactPrime
<1> QED BY <1>1, <1>3, <1>5, <1>7, NullIs DEF SharedInv, WriteTypes, InWriter

(* A step that keeps the buffers and the writes.                           *)
LEMMA SharedKept ==
    ASSUME SharedInv, bufs' = bufs, curmem' = curmem, writequeue' = writequeue,
           wcur' = wcur, d' = d
    PROVE  SharedInv'
<1>1. BufferTypes /\ MemExact /\ writequeue \in Seq(WriteBuf)
  BY ExactIs DEF SharedInv, WriteTypes
<1> QED BY <1>1, NothingDisposed, QuietShared

(* DiskWriter() leaves the caller's thread alone.                          *)
LEMMA DiskWriterStep ==
    ASSUME FixedTypes, LocalInv, SharedInv, DiskTypes, InWriter, DiskWriter
    PROVE  LocalInv' /\ SharedInv' /\ DiskTypes' /\ InWriter'
<1>1. d' = d /\ image' = image /\ todo' = todo /\ mpc' = mpc
  BY DEF DiskWriter, WriterTake, WriterWrite, WriterFree, WriterClear, fixed
<1>2. LocalInv'
  BY <1>1, QuietLocal
<1>3. CASE WriterTake
  BY <1>2, <1>3, WriterTakeStep DEF WriterTake, DiskTypes
<1>4. CASE WriterWrite
  <2>1. DiskTypes'
    BY <1>4, WriteMax DEF WriterWrite, SharedInv, WriteTypes
  <2>2. SharedInv' /\ InWriter'
    BY <1>1, <1>4, SharedKept DEF WriterWrite, InWriter
  <2> QED BY <1>2, <2>1, <2>2
<1>5. CASE WriterFree
  BY <1>2, <1>5, WriterFreeStep DEF WriterFree, DiskTypes
<1>6. CASE WriterClear
  <2>1. SharedInv'
    BY <1>1, <1>6, SharedKept DEF WriterClear, shared
  <2>2. InWriter' /\ DiskTypes'
    BY <1>6 DEF WriterClear, InWriter, DiskTypes, shared
  <2> QED BY <1>2, <2>1, <2>2
<1> QED BY <1>3, <1>4, <1>5, <1>6 DEF DiskWriter

(* exit(1) ends both threads where they are.                               *)
LEMMA ExitStep ==
    ASSUME FixedTypes, LocalInv, SharedInv, DiskTypes, Exit
    PROVE  LocalInv' /\ SharedInv' /\ DiskTypes' /\ InWriter'
<1>1. /\ d' = d /\ image' = image /\ todo' = todo /\ mpc' = "exit" /\ wpc' = "exit"
      /\ UNCHANGED shared /\ wcur' = wcur
  BY DEF Exit, fixed
<1>2. LocalInv'
  BY <1>1, QuietLocal DEF Unzipping, Filling
<1>3. SharedInv' /\ DiskTypes'
  BY <1>1, SharedKept DEF shared, DiskTypes
<1> QED BY <1>1, <1>2, <1>3 DEF InWriter

-----------------------------------------------------------------------------
(* The theorems.                                                           *)

(* Nothing is in use and nothing is queued before the first chunk.         *)
LEMMA InitIInv == Init => IInv
<1> SUFFICES ASSUME Init PROVE IInv
  OBVIOUS
<1>1. /\ opt \in Options /\ image \in Images /\ maxwritten = 0
      /\ bufs = [b \in BufId |-> [refs |-> 0, size |-> 0, bytes |-> <<>>]]
      /\ curmem = 0 /\ writequeue = <<>> /\ wcur = NULL /\ mpc = "idle"
      /\ todo = DOMAIN image
      /\ d = [chunk |-> 0, region |-> 0, pos |-> 0, resid |-> <<>>,
              offset |-> 0, size |-> 0, count |-> 0, wbuf |-> NULL, tail |-> NULL]
  BY DEF Init
<1>2. OUTSIZE \in Nat /\ MaxWriteBufMem \in Nat
  BY BufIds
<1>3. BufferTypes
  <2>1. [refs |-> 0, size |-> 0, bytes |-> <<>>] \in Buffer
    BY <1>2 DEF Buffer
  <2> QED BY <1>1, <2>1 DEF BufferTypes
<1>4. FixedTypes /\ WriteTypes /\ DiskTypes
  BY <1>1, NullIs DEF FixedTypes, WriteTypes, DiskTypes
<1>5. CallerTypes
  BY <1>1, NullIs DEF CallerTypes, Locals
<1>6. RegionFrame /\ Accounted
  BY <1>1 DEF RegionFrame, Accounted, Unzipping, Filling
<1>7. InHand /\ InWriter
  <2>1. d.wbuf = NULL /\ d.tail = NULL
    BY <1>1
  <2> QED BY <1>1, <2>1 DEF InHand, InWriter
<1>8. MemExact
  <2>1. BytesOf(bufs) = {}
    BY <1>1 DEF BytesOf
  <2>2. Cardinality(BytesOf(bufs)) = 0
    BY <2>1, FS_EmptySet
  <2>3. curmem <= MaxWriteBufMem
    BY <1>1, <1>2
  <2> QED BY <1>1, <2>2, <2>3 DEF MemExact
<1>9. ASSUME NEW b \in BufId PROVE bufs[b].refs = Refs(b)
  <2>1. One(wcur.buf = b) = 0 /\ One(d.wbuf.buf = b) = 0 /\ One(d.tail.buf = b) = 0
    BY <1>1, NullIs, BufIds DEF One
  <2>2. QueueRefs(writequeue, b) = {}
    BY <1>1 DEF QueueRefs
  <2>3. Cardinality(QueueRefs(writequeue, b)) = 0
    BY <2>2, FS_EmptySet
  <2>4. Refs(b) = 0
    BY <2>1, <2>3, ExactIs
  <2> QED BY <1>1, <2>4
<1> QED BY <1>3, <1>4, <1>5, <1>6, <1>7, <1>8, <1>9, ExactIs DEF IInv

(* Every step of the caller's thread.                                      *)
LEMMA CallerStep ==
    ASSUME FixedTypes, LocalInv, SharedInv, DiskTypes, InWriter, Caller
    PROVE  LocalInv' /\ SharedInv' /\ DiskTypes' /\ InWriter'
<1>1. CASE \E c \in todo : UnzipChunk(c) \/ WriteChunk(c)
  <2>1. PICK c \in todo : UnzipChunk(c) \/ WriteChunk(c)
    BY <1>1
  <2>2. InWriter'
    BY <2>1 DEF UnzipChunk, WriteChunk, InWriter, writer
  <2>3. CASE UnzipChunk(c)
    BY <2>2, <2>3, UnzipChunkStep
  <2>4. CASE WriteChunk(c)
    <3>1. DiskTypes'
      BY <2>4 DEF WriteChunk, shared, DiskTypes
    <3> QED BY <2>2, <2>4, <3>1, WriteChunkStep
  <2> QED BY <2>1, <2>3, <2>4
<1>2. CASE Inflate
  <2>1. InWriter'
    BY <1>2 DEF Inflate, InWriter, writer
  <2> QED BY <1>2, <2>1, InflateStep DEF DiskTypes
<1>3. CASE WriteRegion \/ WriteHead
  <2>1. InWriter'
    BY <1>3 DEF WriteRegion, WriteHead, Advance, InWriter, writer
  <2> QED BY <1>3, <2>1, WriteRegionStep, WriteHeadStep
<1>4. CASE SplitWritebuf \/ NextRegion
  <2>1. InWriter'
    BY <1>4 DEF SplitWritebuf, NextRegion, InWriter, writer
  <2> QED BY <1>4, <2>1, SplitStep, NextRegionStep
<1>5. CASE MoreInput \/ ChunkDone
  <2>1. InWriter'
    BY <1>5 DEF MoreInput, ChunkDone, InWriter, writer
  <2> QED BY <1>5, <2>1, MoreInputStep, ChunkDoneStep
<1>6. CASE RawAlloc \/ RawWrite
  <2>1. InWriter'
    BY <1>6 DEF RawAlloc, RawWrite, InWriter, writer
  <2> QED BY <1>6, <2>1, RawAllocStep, RawWriteStep
<1>7. CASE AllocWait \/ AllocWoken \/ RawDone \/ Flush \/ ThreadWait \/ Quit
  <2>1. InWriter'
    BY <1>7 DEF AllocWait, AllocWoken, RawDone, Flush, ThreadWait, Quit, InWriter, writer
  <2> QED BY <1>7, <2>1, WaitingSteps
<1>8. CASE ZeroRemainder
  <2>1. InWriter'
    BY <1>8 DEF ZeroRemainder, InWriter, writer
  <2> QED BY <1>8, <2>1, ZeroRemainderStep
<1> QED BY <1>1, <1>2, <1>3, <1>4, <1>5, <1>6, <1>7, <1>8 DEF Caller

(* Every step of the two threads.                                          *)
LEMMA NextIInv == IInv /\ [Next]_vars => IInv'
<1> SUFFICES ASSUME IInv, [Next]_vars PROVE IInv'
  OBVIOUS
<1>1. FixedTypes /\ LocalInv /\ SharedInv /\ DiskTypes /\ InWriter
  BY DEF IInv, LocalInv, SharedInv
<1>2. CASE vars' = vars
  <2>1. /\ d' = d /\ image' = image /\ todo' = todo /\ mpc' = mpc /\ wpc' = wpc
        /\ wcur' = wcur /\ opt' = opt /\ UNCHANGED shared
    BY <1>2 DEF vars, fixed, writer
  <2>2. LocalInv'
    BY <1>1, <2>1, QuietLocal
  <2>3. SharedInv'
    BY <1>1, <2>1, SharedKept DEF shared
  <2>4. DiskTypes' /\ InWriter' /\ FixedTypes'
    BY <1>1, <2>1 DEF shared, DiskTypes, InWriter, FixedTypes
  <2> QED BY <2>2, <2>3, <2>4 DEF IInv, LocalInv, SharedInv
<1>3. CASE Next
  <2>1. LocalInv' /\ SharedInv' /\ DiskTypes' /\ InWriter'
    BY <1>1, <1>3, CallerStep, DiskWriterStep, ExitStep
       DEF Next, WriteFails, ChunkRefused
  <2>2. UNCHANGED fixed
    BY <1>3 DEF Next, Caller, DiskWriter, UnzipChunk, WriteChunk, Inflate, AllocWait,
         AllocWoken, WriteRegion, SplitWritebuf, WriteHead, Advance, NextRegion, MoreInput,
         ChunkDone, RawAlloc, RawWrite, RawDone, Flush, ZeroRemainder, ThreadWait, Quit,
         WriterTake, WriterWrite, WriterFree, WriterClear, WriteFails, ChunkRefused, Exit
  <2>3. FixedTypes'
    BY <1>1, <2>2 DEF fixed, FixedTypes
  <2> QED BY <2>1, <2>3 DEF IInv, LocalInv, SharedInv
<1> QED BY <1>2, <1>3

(* The inductive invariant holds of every image and every schedule of the  *)
(* two threads.                                                            *)
THEOREM SpecIInv == Spec => []IInv
<1>1. Init => IInv
  BY InitIInv
<1>2. IInv /\ [Next]_vars => IInv'
  BY NextIInv
<1> QED BY <1>1, <1>2, PTL DEF Spec

(* alloc_writebuf(), split_writebuf() and free_writebuf(): a buffer is     *)
(* freed exactly when its last write is done, whichever thread drops it    *)
(* and however often it was split, and the memory in use is counted        *)
(* exactly and never above maxwritebufmem.                                 *)
THEOREM BuffersKept == Spec => []BuffersExact
<1>1. IInv => BuffersExact
  BY DEF IInv
<1> QED BY <1>1, SpecIInv, PTL

(* When the input is used up, so are the last region and the leftover.     *)
LEMMA InputEnds ==
    ASSUME FixedTypes, LocalInv, BufferDone, d.pos = Len(Stream(Chunk))
    PROVE  d.region = Len(Chunk.regions) /\ d.size = 0 /\ d.resid = <<>>
<1> DEFINE C == Chunk
           N == Cardinality(DataOf(C))
<1>1. mpc \in Unzipping
  BY DEF BufferDone, Unzipping, Filling
<1>2. /\ IsChunk(C) /\ d.region \in 1 .. Len(C.regions)
      /\ Lo(C, d.region) <= d.offset /\ d.offset + d.size = Hi(C, d.region)
      /\ d.size % SECSIZE = 0
  BY <1>1, Middle DEF LocalInv
<1>3. N = Len(Stream(C)) /\ N \in Nat
  BY <1>2, StreamIs, DataIs
<1>4. /\ d.resid \in Seq(Int) /\ Len(d.resid) \in Nat /\ d.size \in Nat /\ d.offset \in Nat
      /\ d.pos \in Nat /\ SECSIZE \in Nat
  BY LocalTypes, BufIds DEF LocalInv
<1>5. mpc # "region"
  <2> SUFFICES ASSUME mpc = "region" PROVE FALSE
    OBVIOUS
  <2>1. d.count = 0 /\ d.size > 0
    BY <1>1 DEF BufferDone, LocalInv, RegionFrame, Filling
  <2>2. Len(d.resid) < SECSIZE
        /\ Cardinality(Left(C, d.offset)) = d.count + Len(d.resid) + (N - d.pos)
    BY <1>1 DEF LocalInv, Accounted
  <2>3. d.size >= SECSIZE
    BY <1>2, <1>4, <2>1, WholeSectorSums
  <2>4. d.offset + d.size <= Hi(C, d.region) /\ Hi(C, d.region) \in Nat
    BY <1>2, <1>4
  <2>5. /\ Cardinality(Left(C, d.offset)) \in Nat
        /\ Cardinality(Left(C, d.offset + d.size))
             = Cardinality(Left(C, d.offset)) - d.size
    BY <1>2, <1>4, <2>4, LeftStep
  <2>6. Cardinality(Left(C, d.offset + d.size)) \in Nat
    <3>1. Left(C, d.offset + d.size) \in SUBSET DataOf(C)
      BY DEF Left
    <3> QED BY <1>2, <3>1, DataIs, FS_Subset, FS_CardinalityType
  <2>7. d.pos = N
    BY <1>3
  <2> DEFINE x == Cardinality(Left(C, d.offset))
             y == Cardinality(Left(C, d.offset + d.size))
  <2>8. x \in Nat /\ y \in Nat /\ y = x - d.size /\ x = d.count + Len(d.resid) + (N - d.pos)
    BY <2>2, <2>5, <2>6
  <2> HIDE DEF C, N, x, y
  <2> QED BY <1>3, <1>4, <2>1, <2>2, <2>3, <2>7, <2>8
<1>6. mpc = "break"
  BY <1>5 DEF BufferDone
<1>7. d.region = Len(Chunk.regions) /\ d.size = 0
  BY <1>1, <1>6 DEF LocalInv, RegionFrame
<1>8. d.resid = <<>>
  BY <1>4, <1>6, BreakEnds, EmptySeq
<1> QED BY <1>7, <1>8

(* The assertions follow from the invariant.                               *)
LEMMA AssertionsFollow == IInv => AssertionsHold
<1> SUFFICES ASSUME IInv PROVE AssertionsHold
  OBVIOUS
<1>1. FixedTypes /\ LocalInv
  BY DEF IInv, LocalInv
<1>2. /\ d.size \in Nat /\ d.count \in Nat /\ d.offset \in Nat
  BY <1>1, LocalTypes DEF LocalInv
<1>3. mpc = "head" => d.tail.size > 0 /\ d.wbuf.size > 0
  <2> SUFFICES ASSUME mpc = "head" PROVE d.tail.size > 0 /\ d.wbuf.size > 0
    OBVIOUS
  <2>1. d.size < d.count /\ d.wbuf.size = d.size /\ d.tail.size = d.count - d.size
    BY <1>1 DEF LocalInv, InHand
  <2>2. d.size > 0
    BY <1>1 DEF LocalInv, RegionFrame, Unzipping, Filling
  <2> QED BY <1>2, <2>1, <2>2
<1>4. mpc \in {"region", "head"} /\ d.count > 0 =>
        d.wbuf # NULL /\ d.offset % SECSIZE = 0
  <2> SUFFICES ASSUME mpc \in {"region", "head"}, d.count > 0
               PROVE  d.wbuf # NULL /\ d.offset % SECSIZE = 0
    OBVIOUS
  <2>1. d.wbuf.buf \in BufId
    BY <1>1, <1>2 DEF LocalInv, InHand
  <2>2. d.wbuf # NULL
    BY <2>1, NullIs, BufIds
  <2>3. d.offset % SECSIZE = 0
    BY <1>1 DEF LocalInv, RegionFrame, Unzipping, Filling
  <2> QED BY <2>2, <2>3
<1>5. BufferDone => d.wbuf = NULL /\ d.count = 0
  BY <1>1 DEF BufferDone, LocalInv, InHand, Accounted, Unzipping, Filling
<1>6. mpc = "gap" => sectobytes(Region(d.region + 1).start) > d.offset
  <2> SUFFICES ASSUME mpc = "gap" PROVE Lo(Chunk, d.region + 1) > d.offset
    BY DEF Lo, Region
  <2>1. mpc \in Unzipping
    BY DEF Unzipping
  <2>2. /\ IsChunk(Chunk) /\ d.region \in 1 .. Len(Chunk.regions)
        /\ Len(Chunk.regions) \in Nat /\ d.offset + d.size = Hi(Chunk, d.region)
    BY <1>1, <2>1, Middle DEF LocalInv
  <2>3. d.size = 0 /\ d.region < Len(Chunk.regions)
    BY <1>1, <2>1 DEF LocalInv, RegionFrame
  <2>4. d.region + 1 \in 1 .. Len(Chunk.regions)
    BY <2>2, <2>3
  <2>5. Hi(Chunk, d.region) < Lo(Chunk, d.region + 1) /\ Lo(Chunk, d.region + 1) \in Nat
    BY <2>2, <2>3, <2>4, RegionBytes
  <2>6. d.offset = Hi(Chunk, d.region)
    BY <1>2, <2>2, <2>3
  <2> QED BY <1>2, <2>5, <2>6
<1>7. BufferDone /\ d.pos = Len(Stream(Chunk)) =>
        d.region = Len(Chunk.regions) /\ d.size = 0 /\ d.resid = <<>>
  BY <1>1, InputEnds
<1> QED BY <1>3, <1>4, <1>5, <1>6, <1>7 DEF AssertionsHold

(* The assertions of split_writebuf(), dowrite_request() and               *)
(* inflate_subblock() hold for any chunk, however inflate() cuts its data  *)
(* into buffers: no write is empty or unaligned, no buffer is left behind, *)
(* and the regions, the input and the leftover end together.               *)
THEOREM AssertionsKept == Spec => []AssertionsHold
<1>1. IInv => AssertionsHold
  BY AssertionsFollow
<1> QED BY <1>1, SpecIInv, PTL

-----------------------------------------------------------------------------
(* What the disk holds: every write puts what the image wants where it     *)
(* wants it, and every byte the image wants is on the disk, in a write     *)
(* that is queued or being carried out, or still to come.                  *)
(* The inductive invariant, beside IInv.                                   *)

Base   == sectobytes(opt.min)
Raw    == {"raw", "rawwait", "rawwrite"}
Busy   == Unzipping \cup Raw
Ending == {"remainder", "drain", "flushed", "done"}

(* The byte that write w, with the buffers f, puts at a.                   *)
Byte(f, w, a) ==
    IF w.buf = 0 THEN Zero ELSE f[w.buf].bytes[w.data + (a - w.offset) + 1]

(* A write that puts at its place what the image wants there.              *)
Good(f, w) == \A a \in Touched(w) : Byte(f, w, a) = Wanted(a)

DiskGood ==
    /\ DOMAIN disk = 0 .. DiskBytes - 1
    /\ \A a \in DOMAIN disk : disk[a] \in {Old, Wanted(a)}

WritesGood ==
    /\ \A i \in DOMAIN writequeue : Good(bufs, writequeue[i])
    /\ Good(bufs, wcur)

(* The number of bytes of chunk c's data before byte o of the disk.        *)
Before(c, o) == Cardinality(DataOf(c)) - Cardinality(Left(c, o))

(* The leftover of a sector is the data before the input that is next, and *)
(* the buffer in hand holds the data from d.offset on.                     *)
HandGood ==
    /\ mpc \in Unzipping =>
         \A k \in 1 .. Len(d.resid) :
            d.resid[k] = Stream(Chunk)[d.pos - Len(d.resid) + k]
    /\ mpc \in {"region", "gap", "head"} /\ d.count > 0 =>
         /\ d.wbuf.offset = d.offset
         /\ \A k \in 1 .. d.count :
              bufs[d.wbuf.buf].bytes[d.wbuf.data + k]
                = Stream(Chunk)[Before(Chunk, d.offset) + k]
    /\ mpc = "head" => d.tail.offset = d.offset + d.size
                       /\ d.tail.data = d.wbuf.data + d.size
    /\ mpc = "rawwrite" =>
         /\ d.wbuf.offset = d.offset
         /\ \A k \in 1 .. d.wbuf.size :
              bufs[d.wbuf.buf].bytes[d.wbuf.data + k] = d.offset + k - 1

(* Where the two threads can be, and with what.                            *)
Control ==
    /\ mpc \in Busy \cup Ending \cup {"idle", "exit"}
    /\ mpc \in Busy => d.chunk \in todo /\ (opt.raw <=> mpc \in Raw)
    /\ mpc \in Raw => sectobytes(Chunk.first) <= d.offset
                      /\ d.offset + d.size = sectobytes(Chunk.last)
    /\ mpc \in Ending => todo = {}
    /\ mpc = "remainder" => opt.fill /\ opt.max = 0
    /\ wpc = "write" => writeinprogress
    /\ mpc \in {"flushed", "done"} => writequeue = <<>> /\ wpc # "write"

(* Byte a is written, or in a write that is on its way.                    *)
Done(a)    == maxwritten > a /\ (a \in DOMAIN disk => disk[a] = Wanted(a))
Queued(a)  == \/ \E i \in DOMAIN writequeue : a \in Touched(writequeue[i])
              \/ wpc = "write" /\ a \in Touched(wcur)
Handled(a) == Done(a) \/ Queued(a)

(* Byte a belongs to a chunk of t, in chunk k after byte o, or to what is  *)
(* zeroed at the end.                                                      *)
Coming(m, t, k, o, a) ==
    LET i == a - Base
    IN  \/ \E c \in t : i \in Span(image[c]) /\ (m \in Busy /\ c = k => i >= o)
        \/ m \notin {"drain", "flushed", "done"} /\ opt.max = 0 /\ i > Max(Covered)

(* It is still to come: its chunk is not done, or it is after the place    *)
(* that has been reached in it.                                            *)
ToCome(a) == Coming(mpc, todo, d.chunk, d.offset, a)

Due(a) == Wanted(a) # Old /\ (a < DiskBytes \/ a - Base \in Covered)

AllCovered == mpc # "exit" => \A a \in Nat : Due(a) => Handled(a) \/ ToCome(a)

(* Until the remainder of the disk is zeroed, nothing is written after the *)
(* last byte of the image.                                                 *)
Short(w) == w.offset + w.size <= Max(Covered) + 1
Bound ==
    opt.max = 0 => /\ maxwritten <= Max(Covered) + 1
                   /\ \A i \in DOMAIN writequeue : Short(writequeue[i])
                   /\ wpc = "write" => Short(wcur)
Bounded == mpc \notin {"drain", "flushed", "done", "exit"} => Bound

DiskInv == DiskGood /\ WritesGood /\ HandGood /\ Control /\ AllCovered /\ Bounded

DInv == IInv /\ DiskInv

-----------------------------------------------------------------------------
(* What the image wants.                                                   *)

(* The command line and the image never change, so what is wanted does not *)
(* either.                                                                 *)
LEMMA WantedKept ==
    ASSUME opt' = opt, image' = image
    PROVE  /\ Base' = Base /\ Covered' = Covered /\ Copied' = Copied
           /\ \A c : Span(c)' = Span(c)
           /\ \A a : Inside(a)' = Inside(a)
           /\ \A a : Wanted(a)' = Wanted(a)
<1>1. Base' = Base /\ Copied' = Copied
  BY Zenon DEF Base, Copied
<1>2. \A c : Span(c)' = Span(c)
  BY Zenon DEF Span
<1>3. Covered' = Covered
  BY Zenon DEF Covered, Span
<1>4. \A a : Inside(a)' = Inside(a)
  BY Zenon DEF Inside
<1>5. \A a : Wanted(a)' = Wanted(a)
  BY <1>1, <1>3, <1>4, Zenon DEF Wanted, Max
<1> QED BY <1>1, <1>2, <1>3, <1>4, <1>5

(* A chunk lies between its first and its last sector, and its data        *)
(* between its first and its last region.                                  *)
LEMMA ChunkBytes ==
    ASSUME NEW c, IsChunk(c)
    PROVE  /\ sectobytes(c.first) \in Nat /\ sectobytes(c.last) \in Nat
           /\ 1 \in 1 .. Len(c.regions) /\ Len(c.regions) \in 1 .. Len(c.regions)
           /\ Lo(c, 1) \in Nat /\ Hi(c, Len(c.regions)) \in Nat
           /\ sectobytes(c.first) <= Lo(c, 1)
           /\ Lo(c, 1) < Hi(c, Len(c.regions))
           /\ Hi(c, Len(c.regions)) <= sectobytes(c.last)
           /\ DataOf(c) \subseteq Lo(c, 1) .. Hi(c, Len(c.regions)) - 1
<1> DEFINE n == Len(c.regions)
           f == c.first
           l == c.last
           s == c.regions[1].start
           e == c.regions[n].start + c.regions[n].size
<1>1. n \in Nat \ {0}
  BY EmptySeq, LenProperties DEF IsChunk
<1>2. 1 \in 1 .. n /\ n \in 1 .. n
  BY <1>1
<1>3. /\ Lo(c, 1) \in Nat /\ Hi(c, 1) \in Nat /\ Lo(c, 1) < Hi(c, 1)
      /\ Lo(c, n) \in Nat /\ Hi(c, n) \in Nat /\ Lo(c, n) < Hi(c, n)
  BY <1>2, RegionBytes
<1>4. Lo(c, 1) < Hi(c, n)
  <2>1. CASE n = 1
    BY <1>3, <2>1
  <2>2. CASE n # 1
    <3> HIDE DEF n
    <3>1. 1 < n
      BY <1>1, <2>2
    <3>2. Hi(c, 1) < Lo(c, n)
      BY <1>2, <3>1, RegionsInOrder DEF n
    <3> QED BY <1>3, <3>2
  <2> QED BY <2>1, <2>2
<1>5. /\ f \in Nat /\ l \in Nat /\ f <= s /\ e <= l
      /\ s \in Nat /\ e \in Nat /\ SECSIZE \in Nat \ {0}
  <2>1. c.regions[1] \in [start : Nat, size : Nat \ {0}]
        /\ c.regions[n] \in [start : Nat, size : Nat \ {0}]
    BY <1>2, ElementOfSeq DEF IsChunk
  <2> QED BY <2>1, BufIds DEF IsChunk
<1>6. f * SECSIZE \in Nat /\ l * SECSIZE \in Nat
      /\ f * SECSIZE <= s * SECSIZE /\ e * SECSIZE <= l * SECSIZE
  <2> HIDE DEF f, l, s, e
  <2> QED BY <1>5
<1>7. DataOf(c) \subseteq Lo(c, 1) .. Hi(c, n) - 1
  <2> SUFFICES ASSUME NEW a \in DataOf(c) PROVE a \in Lo(c, 1) .. Hi(c, n) - 1
    OBVIOUS
  <2>1. PICK i \in 1 .. n : a \in Lo(c, i) .. Hi(c, i) - 1
    BY DataIs
  <2>2. Lo(c, i) \in Nat /\ Hi(c, i) \in Nat /\ Lo(c, i) < Hi(c, i)
    BY RegionBytes
  <2>3. Lo(c, 1) <= Lo(c, i)
    <3>1. CASE i = 1
      BY <1>3, <3>1
    <3>2. CASE i # 1
      <4>1. Hi(c, 1) < Lo(c, i)
        BY <1>1, <1>2, <3>2, RegionsInOrder
      <4> QED BY <1>3, <2>2, <4>1
    <3> QED BY <3>1, <3>2
  <2>4. Hi(c, i) <= Hi(c, n)
    <3>1. CASE i = n
      BY <1>3, <3>1
    <3>2. CASE i # n
      <4>1. Hi(c, i) < Lo(c, n)
        BY <1>1, <1>2, <3>2, RegionsInOrder
      <4> QED BY <1>3, <2>2, <4>1
    <3> QED BY <3>1, <3>2
  <2> DEFINE p == Lo(c, 1)
             q == Hi(c, n)
             x == Lo(c, i)
             y == Hi(c, i)
  <2>5. /\ p \in Nat /\ q \in Nat /\ x \in Nat /\ y \in Nat
        /\ p <= x /\ y <= q /\ a \in x .. y - 1
    BY <1>3, <2>1, <2>2, <2>3, <2>4
  <2> HIDE DEF p, q, x, y
  <2>6. a \in p .. q - 1
    BY <2>5
  <2> QED BY <2>6 DEF p, q
<1> QED BY <1>2, <1>3, <1>4, <1>6, <1>7 DEF sectobytes, Lo, Hi

(* Where the bytes a chunk covers begin and end.                           *)
From(c) == IF opt.raw \/ ~opt.v1 THEN sectobytes(c.first) ELSE Lo(c, 1)
To(c)   == IF opt.raw \/ ~opt.v1 THEN sectobytes(c.last) ELSE Hi(c, Len(c.regions))

(* The bytes a chunk covers: all of it, or from its first to its last      *)
(* region.                                                                 *)
LEMMA SpanIs ==
    ASSUME NEW c, IsChunk(c)
    PROVE  /\ Span(c) = From(c) .. To(c) - 1
           /\ From(c) \in Nat /\ To(c) \in Nat
           /\ From(c) <= Lo(c, 1) /\ Hi(c, Len(c.regions)) <= To(c)
           /\ DataOf(c) \subseteq Span(c) /\ Span(c) \subseteq Extent(c)
           /\ Span(c) # {}
<1> DEFINE p == Lo(c, 1)
           q == Hi(c, Len(c.regions))
           f == sectobytes(c.first)
           l == sectobytes(c.last)
           x == From(c)
           y == To(c)
<1>1. /\ f \in Nat /\ l \in Nat /\ p \in Nat /\ q \in Nat
      /\ f <= p /\ p < q /\ q <= l /\ DataOf(c) \subseteq p .. q - 1
  BY ChunkBytes
<1>2. Span(c) = x .. y - 1 /\ Extent(c) = f .. l - 1
  BY DEF Span, Extent, From, To, Lo, Hi
<1>3. (x = f /\ y = l) \/ (x = p /\ y = q)
  BY DEF From, To
<1> HIDE DEF p, q, f, l, x, y
<1>4. /\ x \in Nat /\ y \in Nat /\ x <= p /\ q <= y
      /\ p .. q - 1 \subseteq x .. y - 1 /\ x .. y - 1 \subseteq f .. l - 1
      /\ p \in x .. y - 1
  BY <1>1, <1>3
<1> QED BY <1>1, <1>2, <1>4 DEF p, q, x, y

(* No byte belongs to two chunks.                                          *)
LEMMA ChunksApart ==
    ASSUME FixedTypes, NEW c \in DOMAIN image, NEW e \in DOMAIN image,
           NEW i \in Span(image[c]), i \in Span(image[e])
    PROVE  c = e
<1> SUFFICES ASSUME c # e PROVE FALSE
  OBVIOUS
<1> DEFINE f == image[c].first
           l == image[c].last
           g == image[e].first
           m == image[e].last
<1>1. IsChunk(image[c]) /\ IsChunk(image[e])
  BY ChunksAre
<1>2. /\ f \in Nat /\ l \in Nat /\ g \in Nat /\ m \in Nat /\ SECSIZE \in Nat
  BY <1>1, BufIds DEF IsChunk
<1>3. l <= g \/ m <= f
  BY UnzipAssumption DEF FixedTypes, IsImage
<1>4. i \in Extent(image[c]) /\ i \in Extent(image[e])
  BY <1>1, SpanIs
<1>5. i \in f * SECSIZE .. l * SECSIZE - 1 /\ i \in g * SECSIZE .. m * SECSIZE - 1
  BY <1>4 DEF Extent, sectobytes
<1> HIDE DEF f, l, g, m
<1>6. /\ f * SECSIZE \in Nat /\ l * SECSIZE \in Nat
      /\ g * SECSIZE \in Nat /\ m * SECSIZE \in Nat
      /\ l * SECSIZE <= g * SECSIZE \/ m * SECSIZE <= f * SECSIZE
  <2>1. CASE l <= g
    BY <1>2, <2>1
  <2>2. CASE m <= f
    BY <1>2, <2>2
  <2> QED BY <1>3, <2>1, <2>2
<1> QED BY <1>5, <1>6

(* The bytes that are covered, of which there is a last one.               *)
LEMMA CoveredIs ==
    ASSUME FixedTypes
    PROVE  /\ \A i : i \in Covered <=> \E c \in DOMAIN image : i \in Span(image[c])
           /\ Covered \subseteq Nat /\ Copied \subseteq Covered
           /\ Max(Covered) \in Covered /\ \A i \in Covered : i <= Max(Covered)
<1>1. \A i : i \in Covered <=> \E c \in DOMAIN image : i \in Span(image[c])
  BY DEF Covered
<1>2. PICK e \in DOMAIN image : \A c \in DOMAIN image : image[c].last <= image[e].last
  BY UnzipAssumption DEF FixedTypes, IsImage
<1> DEFINE n == sectobytes(image[e].last)
<1>3. n \in Nat /\ Span(image[e]) # {}
  BY ChunksAre, ChunkBytes, SpanIs
<1>4. ASSUME NEW c \in DOMAIN image PROVE Span(image[c]) \subseteq 0 .. n
  <2> DEFINE f == image[c].first
             l == image[c].last
             m == image[e].last
  <2>1. IsChunk(image[c]) /\ IsChunk(image[e])
    BY ChunksAre
  <2>2. f \in Nat /\ l \in Nat /\ m \in Nat /\ SECSIZE \in Nat /\ l <= m
    BY <1>2, <2>1, BufIds DEF IsChunk
  <2>3. Span(image[c]) \subseteq f * SECSIZE .. l * SECSIZE - 1
    BY <2>1, SpanIs DEF Extent, sectobytes
  <2>4. n = m * SECSIZE
    BY DEF sectobytes
  <2> HIDE DEF f, l, m, n
  <2>5. f * SECSIZE \in Nat /\ l * SECSIZE \in Nat /\ m * SECSIZE \in Nat
        /\ l * SECSIZE <= m * SECSIZE
    BY <2>2
  <2> QED BY <2>3, <2>4, <2>5
<1>5. Covered \in SUBSET (0 .. n) /\ Covered # {}
  BY <1>1, <1>3, <1>4
<1> HIDE DEF n
<1>6. Max(Covered) \in Covered /\ \A i \in Covered : i <= Max(Covered)
  BY <1>3, <1>5, MaxOfNats
<1>7. Covered \subseteq Nat
  BY <1>3, <1>5
<1>8. Copied \subseteq Covered
  <2> SUFFICES ASSUME NEW i \in Copied PROVE i \in Covered
    OBVIOUS
  <2>1. PICK c \in DOMAIN image :
           i \in (IF opt.raw THEN Extent(image[c]) ELSE DataOf(image[c]))
    BY DEF Copied
  <2>2. CASE opt.raw
    BY <1>1, <2>1, <2>2 DEF Span
  <2>3. CASE ~opt.raw
    BY <1>1, <2>1, <2>3, ChunksAre, SpanIs
  <2> QED BY <2>2, <2>3
<1> QED BY <1>1, <1>6, <1>7, <1>8

(* Where the partition begins.                                             *)
LEMMA BaseIs ==
    ASSUME FixedTypes
    PROVE  /\ Base \in Nat /\ (opt.max = 0 => Base = 0)
           /\ opt.max \in Nat /\ sectobytes(opt.max) \in Nat
           /\ DiskBytes \in Nat
           /\ opt.fill \in BOOLEAN /\ opt.raw \in BOOLEAN /\ opt.threads \in BOOLEAN
<1>1. /\ opt.min \in Nat /\ opt.max \in Nat /\ (opt.max = 0 => opt.min = 0)
      /\ SECSIZE \in Nat /\ DiskSectors \in Nat
      /\ opt.fill \in BOOLEAN /\ opt.raw \in BOOLEAN /\ opt.threads \in BOOLEAN
  BY UnzipAssumption DEF FixedTypes
<1> DEFINE x == opt.min
           y == opt.max
<1> HIDE DEF x, y
<1>2. x \in Nat /\ y \in Nat
  BY <1>1 DEF x, y
<1>3. x * SECSIZE \in Nat /\ y * SECSIZE \in Nat /\ DiskSectors * SECSIZE \in Nat
      /\ (x = 0 => x * SECSIZE = 0)
  BY <1>1, <1>2
<1> QED BY <1>1, <1>3 DEF Base, sectobytes, DiskBytes, x, y

(* What is wanted at a byte of the disk.                                   *)
LEMMA WantedIs ==
    ASSUME FixedTypes, NEW a \in Int
    PROVE  /\ Inside(a) /\ a - Base \in Copied => Wanted(a) = a - Base
           /\ Inside(a) /\ a - Base \in Covered \ Copied /\ opt.fill => Wanted(a) = Zero
           /\ opt.max = 0 /\ a - Base > Max(Covered) /\ opt.fill => Wanted(a) = Zero
           /\ Wanted(a) # Old =>
                /\ Inside(a)
                /\ \/ a - Base \in Copied
                   \/ opt.fill /\ a - Base \in Covered
                   \/ opt.fill /\ opt.max = 0 /\ a - Base > Max(Covered)
           /\ Inside(a) /\ a - Base \in Copied => Wanted(a) # Old
           /\ Zero # Old
<1> DEFINE i == a - Base
           M == Max(Covered)
<1>1. Base \in Nat /\ i \in Int
  BY BaseIs
<1>2. M \in Nat /\ Copied \subseteq Nat /\ (i > M => i \notin Covered) /\ Copied \subseteq Covered
  <2>1. /\ Covered \subseteq Nat /\ Copied \subseteq Covered
        /\ M \in Covered /\ \A j \in Covered : j <= M
    BY CoveredIs
  <2> HIDE DEF M, i
  <2> QED BY <1>1, <2>1
<1>3. Wanted(a) = IF Inside(a) /\ i \in Copied THEN i
                  ELSE IF opt.fill /\ ((Inside(a) /\ i \in Covered) \/ (opt.max = 0 /\ i > M))
                       THEN Zero ELSE Old
  BY DEF Wanted, Base
<1>4. opt.max = 0 => Inside(a)
  BY DEF Inside
<1>5. Old = -1 /\ Zero = -2 /\ Zero # Old
  BY DEF Old, Zero
<1> HIDE DEF i, M
<1>6. i \in Copied => i # Old
  BY <1>2, <1>5
<1> QED BY <1>2, <1>3, <1>4, <1>5, <1>6 DEF i, M

(* The gaps of a chunk are covered and hold no data of any chunk.          *)
LEMMA GapIs ==
    ASSUME FixedTypes, ~opt.raw, NEW c \in DOMAIN image,
           NEW i \in Span(image[c]), i \notin DataOf(image[c])
    PROVE  i \in Covered /\ i \notin Copied
<1>1. i \in Covered
  BY CoveredIs
<1>2. ASSUME i \in Copied PROVE FALSE
  <2>1. PICK e \in DOMAIN image : i \in DataOf(image[e])
    BY <1>2 DEF Copied
  <2>2. i \in Span(image[e])
    BY <2>1, ChunksAre, SpanIs
  <2>3. e = c
    BY <2>2, ChunksApart
  <2> QED BY <2>1, <2>3
<1> QED BY <1>1, <1>2

-----------------------------------------------------------------------------
(* Writes.                                                                 *)

(* No step changes the bytes of a buffer that is in use.                   *)
SameBytes == \A b \in BufId : bufs[b].refs > 0 => bufs'[b].bytes = bufs[b].bytes

(* A write in the queue refers to its buffer.                              *)
LEMMA QueuedInUse ==
    ASSUME BufferTypes, WriteTypes, BuffersExact,
           NEW i \in DOMAIN writequeue, writequeue[i].buf # 0
    PROVE  writequeue[i].buf \in BufId /\ bufs[writequeue[i].buf].refs > 0
<1> DEFINE b == writequeue[i].buf
           q == Cardinality(QueueRefs(writequeue, b))
           s == One(wcur.buf = b)
           t == One(d.wbuf.buf = b)
           u == One(d.tail.buf = b)
<1>1. writequeue \in Seq(WriteBuf)
  BY DEF WriteTypes
<1>2. b \in BufId
  <2>1. DOMAIN writequeue = 1 .. Len(writequeue)
    BY <1>1, LenProperties
  <2>2. writequeue[i] \in WriteBuf
    BY <1>1, <2>1, ElementOfSeq
  <2> QED BY <2>2 DEF WriteBuf
<1>3. bufs[b].refs = q + s + t + u
  BY <1>2, ExactIs
<1>4. s \in Nat /\ t \in Nat /\ u \in Nat
  BY DEF One
<1>5. q \in Nat /\ q # 0
  <2>1. IsFiniteSet(QueueRefs(writequeue, b)) /\ q \in Nat
    BY <1>1, QueueRefsFinite
  <2>2. i \in QueueRefs(writequeue, b)
    BY DEF QueueRefs
  <2> QED BY <2>1, <2>2, FS_EmptySet
<1> HIDE DEF q, s, t, u
<1> QED BY <1>2, <1>3, <1>4, <1>5

(* A write stays good while its buffer is in use.                          *)
LEMMA GoodKept ==
    ASSUME SameBytes, NEW w, Good(bufs, w),
           w.buf # 0 => w.buf \in BufId /\ bufs[w.buf].refs > 0
    PROVE  Good(bufs', w)
<1>1. \A a : Byte(bufs', w, a) = Byte(bufs, w, a)
  BY DEF Byte, SameBytes
<1> QED BY <1>1 DEF Good

(* The writes are good after a step.                                       *)
LEMMA WritesGoodPrime ==
    ASSUME opt' = opt, image' = image, Good(bufs', wcur'),
           \A i \in DOMAIN writequeue' : Good(bufs', writequeue'[i])
    PROVE  WritesGood'
<1>1. \A a : Wanted(a)' = Wanted(a)
  BY WantedKept
<1> QED BY <1>1 DEF WritesGood, Good, Touched, Byte

(* A good write leaves the disk good and its bytes done.                   *)
LEMMA WriteGood ==
    ASSUME DiskGood, DiskTypes, NEW w \in WriteBuf, Good(bufs, w), Write(w),
           opt' = opt, image' = image
    PROVE  /\ DiskGood'
           /\ \A a \in Nat : Done(a) \/ a \in Touched(w) => Done(a)'
<1> DEFINE x == maxwritten
           y == w.offset + w.size
           z == maxwritten'
<1>1. \A a : Wanted(a)' = Wanted(a)
  BY WantedKept
<1>2. disk' = [a \in DOMAIN disk |-> IF a \in Touched(w) THEN Wanted(a) ELSE disk[a]]
  <2>1. \A a \in Touched(w) : ByteOf(w, a) = Wanted(a)
    BY DEF Good, Byte, ByteOf
  <2> QED BY <2>1 DEF Write
<1>3. x \in Int /\ w.offset \in Int /\ w.size \in Int /\ y \in Int
  BY DEF DiskTypes, WriteBuf
<1>4. z \in Int /\ z >= x /\ z >= y
  <2>1. z = Max({x, y})
    BY DEF Write
  <2> HIDE DEF x, y, z
  <2>2. \E m \in {x, y} : \A s \in {x, y} : m >= s
    BY <1>3
  <2>3. Max({x, y}) \in {x, y} /\ \A s \in {x, y} : Max({x, y}) >= s
    BY <2>2 DEF Max
  <2> QED BY <1>3, <2>1, <2>3
<1>5. DOMAIN disk' = DOMAIN disk
  BY <1>2
<1>6. \A a \in DOMAIN disk : disk'[a] = IF a \in Touched(w) THEN Wanted(a) ELSE disk[a]
  BY <1>2
<1>7. DiskGood'
  <2>1. DiskBytes' = DiskBytes
    BY DEF DiskBytes
  <2>2. DOMAIN disk' = 0 .. DiskBytes - 1
    BY <1>5 DEF DiskGood
  <2>3. \A a \in DOMAIN disk' : disk'[a] \in {Old, Wanted(a)}
    BY <1>5, <1>6 DEF DiskGood
  <2> QED BY <1>1, <2>2, <2>3 DEF DiskGood, DiskBytes, sectobytes, Old
<1>8. ASSUME NEW a \in Nat, Done(a) \/ a \in Touched(w) PROVE Done(a)'
  <2>1. CASE a \in Touched(w)
    <3>1. a < y
      BY <1>3, <2>1 DEF Touched
    <3>2. maxwritten' > a
      <4> HIDE DEF y
      <4> QED BY <1>3, <1>4, <3>1
    <3> QED BY <1>1, <1>5, <1>6, <2>1, <3>2 DEF Done
  <2>2. CASE a \notin Touched(w) /\ Done(a)
    <3>1. maxwritten' > a
      <4> HIDE DEF y
      <4>1. x > a
        BY <2>2 DEF Done
      <4> QED BY <1>3, <1>4, <4>1
    <3> QED BY <1>1, <1>5, <1>6, <2>2, <3>1 DEF Done
  <2> QED BY <1>8, <2>1, <2>2
<1> QED BY <1>7, <1>8

(* dowrite_request() moves a write to its place in the partition and cuts  *)
(* off exactly what is outside.                                            *)
LEMMA AdjustDoes ==
    ASSUME FixedTypes, NEW w \in WriteBuf, NEW f
    PROVE  /\ Adjust(w) = NULL =>
                \A a \in Int : a - Base \in Touched(w) => ~Inside(a)
           /\ Adjust(w) # NULL =>
                /\ Adjust(w).size > 0
                /\ \A a \in Int : a \in Touched(Adjust(w)) <=>
                                    a - Base \in Touched(w) /\ Inside(a)
                /\ \A a \in Int : Byte(f, Adjust(w), a) = Byte(f, w, a - Base)
<1> DEFINE m == sectobytes(opt.max)
           off == w.offset + Base
           end == IF opt.max > 0 THEN Min({off + w.size, m}) ELSE off + w.size
           v == [w EXCEPT !.offset = off, !.size = end - off]
<1>1. /\ Base \in Nat /\ m \in Nat /\ opt.max \in Nat
      /\ w.offset \in Int /\ w.size \in Int /\ w.data \in Int
  BY BaseIs DEF WriteBuf
<1>2. Adjust(w) = IF off >= end THEN NULL ELSE v
  BY DEF Adjust, Base
<1>3. off \in Int /\ end \in Int
      /\ end = IF opt.max > 0 /\ ~(off + w.size <= m) THEN m ELSE off + w.size
  <2>1. off + w.size \in Int /\ off \in Int
    BY <1>1
  <2> HIDE DEF off, m
  <2>2. Min({off + w.size, m}) = IF off + w.size <= m THEN off + w.size ELSE m
    BY <1>1, <2>1, MinOfTwo
  <2> QED BY <1>1, <2>1, <2>2
<1>4. v.offset = off /\ v.size = end - off /\ v.buf = w.buf /\ v.data = w.data
  BY DEF WriteBuf
<1>5. \A a \in Int : a - Base \in Touched(w) /\ Inside(a) <=> a \in off .. end - 1
  <2> SUFFICES ASSUME NEW a \in Int
               PROVE  a - Base \in Touched(w) /\ Inside(a) <=> a \in off .. end - 1
    OBVIOUS
  <2>1. a - Base \in Touched(w) <=> a \in off .. off + w.size - 1
    BY <1>1 DEF Touched
  <2>2. Inside(a) <=> (opt.max > 0 => a < m)
    BY DEF Inside
  <2>3. off + w.size \in Int
    BY <1>1
  <2> HIDE DEF off, end, m
  <2> QED BY <1>1, <1>3, <2>1, <2>2, <2>3
<1>6. CASE off >= end
  <2>1. Adjust(w) = NULL
    BY <1>2, <1>6
  <2>2. \A a \in Int : a \notin off .. end - 1
    <3> HIDE DEF off, end
    <3> QED BY <1>3, <1>6
  <2> QED BY <1>5, <2>1, <2>2
<1>7. CASE ~(off >= end)
  <2>1. Adjust(w) = v
    BY <1>2, <1>7
  <2>2. v # NULL /\ v.size > 0
    <3>1. v.size > 0
      <4> HIDE DEF off, end, v
      <4> QED BY <1>3, <1>4, <1>7
    <3>2. v = NULL => v.size = 0
      BY NullIs
    <3> HIDE DEF v
    <3> QED BY <3>1, <3>2
  <2> HIDE DEF v
  <2>3. Touched(v) = off .. end - 1
    <3> HIDE DEF off, end
    <3>1. v.offset = off /\ v.offset + v.size - 1 = end - 1
      BY <1>3, <1>4
    <3> QED BY <3>1 DEF Touched
  <2>4. ASSUME NEW a \in Int PROVE Byte(f, v, a) = Byte(f, w, a - Base)
    <3>1. w.data + (a - off) + 1 = w.data + ((a - Base) - w.offset) + 1
      BY <1>1
    <3> QED BY <1>4, <3>1 DEF Byte
  <2> QED BY <1>5, <2>1, <2>2, <2>3, <2>4
<1> QED BY <1>6, <1>7

(* What a request to write promises: the bytes of S are on the disk or on  *)
(* their way, and nothing that was is lost.                                *)
RequestGood(w) ==
    \A i \in Touched(w) : Inside(i + Base) => Byte(bufs, w, i) = Wanted(i + Base)

Served(S) ==
    /\ DiskGood' /\ WritesGood' /\ SameBytes
    /\ \A a \in Nat : Handled(a) => Handled(a)'
    /\ \A a \in Nat : a - Base \in S /\ Inside(a) => Handled(a)'
    /\ Bound /\ S \subseteq Covered => Bound'

(* A request to copy the image's data to its place.                        *)
LEMMA CopyGood ==
    ASSUME FixedTypes, NEW w,
           \A i \in Touched(w) : Byte(bufs, w, i) = i /\ i \in Copied
    PROVE  RequestGood(w) /\ Touched(w) \subseteq Covered
<1>1. Copied \subseteq Covered /\ Covered \subseteq Nat /\ Base \in Nat
  BY CoveredIs, BaseIs
<1>2. ASSUME NEW i \in Touched(w), Inside(i + Base) PROVE Wanted(i + Base) = i
  <2>1. i \in Nat /\ Base \in Nat
    BY <1>1
  <2>2. i + Base \in Int /\ (i + Base) - Base = i
    BY <2>1
  <2> QED BY <1>2, <2>2, WantedIs
<1> QED BY <1>1, <1>2 DEF RequestGood

(* free_writebuf() does not touch the bytes.                               *)
LEMMA FreeSame ==
    ASSUME BufferTypes, NEW w, w.buf # 0 => w.buf \in BufId, FreeWritebuf(w)
    PROVE  SameBytes
<1>1. bufs \in [BufId -> Buffer]
  BY DEF BufferTypes
<1>2. CASE w.buf = 0
  BY <1>2 DEF FreeWritebuf, SameBytes
<1>3. CASE w.buf # 0
  <2> DEFINE b == w.buf
             e == [bufs[b] EXCEPT !.refs = @ - 1]
  <2>1. bufs' = [bufs EXCEPT ![b] = e] /\ b \in BufId
    BY <1>3 DEF FreeWritebuf
  <2>2. e.bytes = bufs[b].bytes
    BY <1>1, <2>1 DEF Buffer
  <2> HIDE DEF e
  <2> QED BY <1>1, <2>1, <2>2 DEF SameBytes
<1> QED BY <1>2, <1>3

(* A step that keeps the queue and the disk, or writes to it, serves.      *)
LEMMA QueueKeptServes ==
    ASSUME BufferTypes, WriteTypes, BuffersExact, WritesGood,
           opt' = opt, image' = image, wcur' = wcur,
           wpc' = "write" <=> wpc = "write",
           writequeue' = writequeue, SameBytes, DiskGood',
           NEW S, \A a \in Nat : Done(a) => Done(a)',
           \A a \in Nat : a - Base \in S /\ Inside(a) => Done(a)',
           Bound /\ S \subseteq Covered => Bound'
    PROVE  Served(S)
<1>1. Good(bufs', wcur')
  <2>1. wcur \in WriteBuf /\ Good(bufs, wcur)
    BY DEF WriteTypes, WritesGood
  <2>2. wcur.buf # 0 => wcur.buf \in BufId /\ bufs[wcur.buf].refs > 0
    BY <2>1, HeldInUse
  <2> QED BY <2>1, <2>2, GoodKept
<1>2. ASSUME NEW i \in DOMAIN writequeue' PROVE Good(bufs', writequeue'[i])
  <2>1. i \in DOMAIN writequeue /\ Good(bufs, writequeue[i])
    BY <1>2 DEF WritesGood
  <2>2. writequeue[i].buf # 0 =>
          writequeue[i].buf \in BufId /\ bufs[writequeue[i].buf].refs > 0
    BY <2>1, QueuedInUse
  <2> QED BY <2>1, <2>2, GoodKept
<1>3. WritesGood'
  BY <1>1, <1>2, WritesGoodPrime
<1>4. \A a : Queued(a)' = Queued(a)
  BY DEF Queued, Touched
<1>5. \A a \in Nat : Handled(a) => Handled(a)'
  BY <1>4 DEF Handled
<1>6. \A a \in Nat : a - Base \in S /\ Inside(a) => Handled(a)'
  BY DEF Handled
<1> QED BY <1>3, <1>5, <1>6 DEF Served

(* A step that does not write after the image.                             *)
LEMMA BoundPrime ==
    ASSUME opt' = opt, image' = image,
           opt.max = 0 => /\ maxwritten' <= Max(Covered) + 1
                          /\ \A i \in DOMAIN writequeue' : Short(writequeue'[i])
                          /\ wpc' = "write" => Short(wcur')
    PROVE  Bound'
<1>1. Max(Covered)' = Max(Covered)
  BY WantedKept DEF Max
<1> QED BY <1>1 DEF Bound, Short

(* A write of bytes of the image is short.                                 *)
LEMMA ShortIs ==
    ASSUME FixedTypes, opt.max = 0, NEW v \in WriteBuf, v.size > 0,
           \A a \in Touched(v) : a - Base \in Covered
    PROVE  Short(v)
<1> DEFINE e == v.offset + v.size - 1
           M == Max(Covered)
<1>1. v.offset \in Int /\ v.size \in Int
  BY DEF WriteBuf
<1>2. e \in Touched(v) /\ e \in Int
  BY <1>1 DEF Touched
<1>3. Base = 0
  BY BaseIs
<1>4. e \in Covered
  <2>1. e - 0 = e
    BY <1>2
  <2> QED BY <1>2, <1>3, <2>1
<1>5. e <= M /\ M \in Int
  BY <1>4, CoveredIs
<1>6. e + 1 = v.offset + v.size
  BY <1>1
<1> HIDE DEF e, M
<1>7. e + 1 <= M + 1
  BY <1>2, <1>5
<1> QED BY <1>6, <1>7 DEF Short, M

(* Such a write does not leave the image.                                  *)
LEMMA WriteShort ==
    ASSUME DiskTypes, NEW v \in WriteBuf, Write(v), Short(v),
           maxwritten <= Max(Covered) + 1
    PROVE  maxwritten' <= Max(Covered) + 1
<1> DEFINE x == maxwritten
           y == v.offset + v.size
           l == Max(Covered) + 1
<1>1. x \in Int /\ y \in Int
  BY DEF DiskTypes, WriteBuf
<1>2. maxwritten' = Max({x, y}) /\ x <= l /\ y <= l
  BY DEF Write, Short
<1> HIDE DEF x, y, l
<1>3. \E m \in {x, y} : \A s \in {x, y} : m >= s
  BY <1>1
<1>4. Max({x, y}) \in {x, y}
  BY <1>3 DEF Max
<1> QED BY <1>2, <1>4 DEF l

(* dowrite_request() serves the bytes of a good request.                   *)
LEMMA DoWriteGood ==
    ASSUME FixedTypes, BufferTypes, WriteTypes, BuffersExact, DiskTypes,
           DiskGood, WritesGood, opt' = opt, image' = image, wcur' = wcur, wpc' = wpc,
           NEW w \in WriteBuf, w.buf # 0 => w.buf \in BufId /\ bufs[w.buf].refs > 0,
           RequestGood(w), DoWriteRequest(w)
    PROVE  Served(Touched(w))
<1> DEFINE v == Adjust(w)
<1>1. v \in WriteBuf /\ (v # NULL => v.buf = w.buf)
  BY AdjustIs
<1>2. Base \in Nat
  BY BaseIs
<1>3. v # NULL => \A a \in Int : a \in Touched(v) <=> a - Base \in Touched(w) /\ Inside(a)
  BY AdjustDoes
<1>4. v = NULL => \A a \in Int : a - Base \in Touched(w) => ~Inside(a)
  BY AdjustDoes
<1>5. v # NULL => Good(bufs, v)
  <2> SUFFICES ASSUME v # NULL, NEW a \in Touched(v) PROVE Byte(bufs, v, a) = Wanted(a)
    BY DEF Good
  <2>1. a \in Int
    BY <1>1 DEF Touched, WriteBuf
  <2>2. a - Base \in Touched(w) /\ Inside(a)
    BY <1>3, <2>1
  <2>3. Byte(bufs, v, a) = Byte(bufs, w, a - Base)
    BY <2>1, AdjustDoes
  <2>4. (a - Base) + Base = a
    BY <1>2, <2>1
  <2> QED BY <2>2, <2>3, <2>4 DEF RequestGood
<1>6. ASSUME v # NULL, opt.max = 0, Touched(w) \subseteq Covered PROVE Short(v)
  <2>1. v.size > 0
    BY <1>6, AdjustDoes
  <2>2. \A a \in Touched(v) : a \in Int
    BY <1>1 DEF Touched, WriteBuf
  <2> QED BY <1>1, <1>3, <1>6, <2>1, <2>2, ShortIs
<1> HIDE DEF v
<1>7. CASE v = NULL /\ FreeWritebuf(w) /\ UNCHANGED <<disk, maxwritten, writequeue>>
  <2>1. SameBytes
    BY <1>7, FreeSame
  <2>2. \A a : Wanted(a)' = Wanted(a)
    BY WantedKept
  <2>3. DiskGood' /\ \A a \in Nat : Done(a) => Done(a)'
    BY <1>7, <2>2 DEF DiskGood, Done, DiskBytes, sectobytes, Old
  <2>4. \A a \in Nat : a - Base \in Touched(w) /\ Inside(a) => Done(a)'
    BY <1>4, <1>7
  <2>5. Bound => Bound'
    BY <1>7, BoundPrime DEF Bound
  <2> QED BY <1>7, <2>1, <2>3, <2>4, <2>5, QueueKeptServes
<1>8. CASE v # NULL /\ Write(v) /\ FreeWritebuf(w) /\ UNCHANGED writequeue
  <2>1. SameBytes
    BY <1>8, FreeSame
  <2>2. DiskGood' /\ \A a \in Nat : Done(a) \/ a \in Touched(v) => Done(a)'
    BY <1>1, <1>5, <1>8, WriteGood
  <2>3. \A a \in Nat : a - Base \in Touched(w) /\ Inside(a) => Done(a)'
    BY <1>3, <1>8, <2>2
  <2>4. ASSUME Bound, Touched(w) \subseteq Covered PROVE Bound'
    <3>1. opt.max = 0 => maxwritten <= Max(Covered) + 1
      BY <2>4 DEF Bound
    <3>2. opt.max = 0 => maxwritten' <= Max(Covered) + 1
      BY <1>1, <1>8, <1>6, <2>4, <3>1, WriteShort
    <3> QED BY <1>8, <2>4, <3>2, BoundPrime DEF Bound
  <2> QED BY <1>8, <2>1, <2>2, <2>3, <2>4, QueueKeptServes
<1>9. CASE /\ v # NULL /\ writequeue' = Append(writequeue, v)
           /\ UNCHANGED <<disk, maxwritten, bufs, curmem, wanted>>
  <2> DEFINE n == Len(writequeue)
  <2>1. writequeue \in Seq(WriteBuf) /\ n \in Nat /\ DOMAIN writequeue = 1 .. n
    BY LenProperties DEF WriteTypes
  <2>2. /\ DOMAIN writequeue' = 1 .. n + 1 /\ writequeue'[n + 1] = v
        /\ \A i \in 1 .. n : writequeue'[i] = writequeue[i]
    BY <1>1, <1>9, <2>1, AppendProperties, LenProperties
  <2> HIDE DEF n
  <2>3. WritesGood'
    <3>1. Good(bufs', wcur')
      BY <1>9 DEF WritesGood
    <3>2. ASSUME NEW i \in DOMAIN writequeue' PROVE Good(bufs', writequeue'[i])
      <4>1. CASE i = n + 1
        BY <1>5, <1>9, <2>2, <4>1
      <4>2. CASE i # n + 1
        <5>1. i \in DOMAIN writequeue /\ writequeue'[i] = writequeue[i]
          BY <2>1, <2>2, <4>2
        <5> QED BY <1>9, <5>1 DEF WritesGood
      <4> QED BY <4>1, <4>2
    <3> QED BY <3>1, <3>2, WritesGoodPrime
  <2>4. \A a : Wanted(a)' = Wanted(a)
    BY WantedKept
  <2>5. DiskGood' /\ \A a \in Nat : Done(a) => Done(a)'
    BY <1>9, <2>4 DEF DiskGood, Done, DiskBytes, sectobytes, Old
  <2>6. SameBytes
    BY <1>9 DEF SameBytes
  <2>7. \A i \in DOMAIN writequeue : i \in DOMAIN writequeue' /\ writequeue'[i] = writequeue[i]
    BY <2>1, <2>2
  <2>8. ASSUME NEW a \in Nat, Queued(a) \/ a \in Touched(v) PROVE Queued(a)'
    <3>1. CASE \E i \in DOMAIN writequeue : a \in Touched(writequeue[i])
      <4>1. \E i \in DOMAIN writequeue' : a \in Touched(writequeue'[i])
        BY <2>7, <3>1
      <4> QED BY <4>1 DEF Queued, Touched
    <3>2. CASE wpc = "write" /\ a \in Touched(wcur)
      BY <3>2 DEF Queued, Touched
    <3>3. CASE a \in Touched(v)
      <4>1. n + 1 \in DOMAIN writequeue' /\ a \in Touched(writequeue'[n + 1])
        BY <2>1, <2>2, <3>3
      <4> QED BY <4>1 DEF Queued, Touched
    <3> QED BY <2>8, <3>1, <3>2, <3>3 DEF Queued
  <2>9. \A a \in Nat : Handled(a) => Handled(a)'
    BY <2>5, <2>8 DEF Handled
  <2>10. \A a \in Nat : a - Base \in Touched(w) /\ Inside(a) => Handled(a)'
    BY <1>3, <1>9, <2>8 DEF Handled
  <2>11. ASSUME Bound, Touched(w) \subseteq Covered PROVE Bound'
    <3>1. ASSUME opt.max = 0, NEW i \in DOMAIN writequeue' PROVE Short(writequeue'[i])
      <4>1. CASE i = n + 1
        BY <1>9, <1>6, <2>2, <2>11, <3>1, <4>1
      <4>2. CASE i # n + 1
        <5>1. i \in DOMAIN writequeue /\ writequeue'[i] = writequeue[i]
          BY <2>1, <2>2, <4>2
        <5> QED BY <2>11, <3>1, <5>1 DEF Bound
      <4> QED BY <4>1, <4>2
    <3> QED BY <1>9, <2>11, <3>1, BoundPrime DEF Bound
  <2> QED BY <2>3, <2>5, <2>6, <2>9, <2>10, <2>11 DEF Served
<1> QED BY <1>7, <1>8, <1>9 DEF DoWriteRequest, v

(* A step that leaves buffers, writes and disk alone serves nothing new.   *)
LEMMA QuietServes ==
    ASSUME BufferTypes, WriteTypes, BuffersExact, DiskGood, WritesGood,
           opt' = opt, image' = image, wcur' = wcur,
           wpc' = "write" <=> wpc = "write",
           writequeue' = writequeue, disk' = disk, maxwritten' = maxwritten, SameBytes
    PROVE  Served({})
<1>1. \A a : Wanted(a)' = Wanted(a)
  BY WantedKept
<1>2. DiskGood' /\ \A a \in Nat : Done(a) => Done(a)'
  BY <1>1 DEF DiskGood, Done, DiskBytes, sectobytes, Old
<1>3. Bound => Bound'
  BY BoundPrime DEF Bound
<1> QED BY <1>2, <1>3, QueueKeptServes

(* Zeros are served where zeros are wanted.                                *)
LEMMA ZeroFillGood ==
    ASSUME FixedTypes, BufferTypes, WriteTypes, BuffersExact, DiskTypes,
           DiskGood, WritesGood, opt' = opt, image' = image, wcur' = wcur, wpc' = wpc,
           NEW from \in Int, NEW to \in Int, ZeroFill(from, to),
           opt.fill => \A i \in from .. to - 1 : Inside(i + Base) => Wanted(i + Base) = Zero
    PROVE  Served(IF opt.fill THEN from .. to - 1 ELSE {})
<1> DEFINE w == [offset |-> from, size |-> to - from, buf |-> 0, data |-> 0]
           S == IF opt.fill THEN from .. to - 1 ELSE {}
<1>1. CASE opt.fill /\ from < to
  <2>1. w \in WriteBuf /\ w.buf = 0 /\ w.offset = from /\ w.size = to - from
    BY DEF WriteBuf
  <2>2. DoWriteRequest(w)
    BY <1>1 DEF ZeroFill
  <2> HIDE DEF w
  <2>3. Touched(w) = from .. to - 1
    <3>1. w.offset + w.size - 1 = to - 1
      BY <2>1
    <3> QED BY <2>1, <3>1 DEF Touched
  <2>4. RequestGood(w)
    BY <1>1, <2>1, <2>3 DEF RequestGood, Byte
  <2>5. Served(Touched(w))
    BY <2>1, <2>2, <2>4, DoWriteGood
  <2> QED BY <1>1, <2>3, <2>5
<1>2. CASE ~(opt.fill /\ from < to)
  <2>1. UNCHANGED shared
    BY <1>2 DEF ZeroFill
  <2>2. S = {}
    BY <1>2
  <2>3. SameBytes
    BY <2>1 DEF shared, SameBytes
  <2>4. Served({})
    BY <2>1, <2>3, QuietServes DEF shared
  <2> QED BY <2>2, <2>4
<1> QED BY <1>1, <1>2

-----------------------------------------------------------------------------
(* Parts of the steps.                                                     *)

(* The parts of the invariant IInv.                                        *)
LEMMA Parts ==
    ASSUME IInv
    PROVE  /\ FixedTypes /\ BufferTypes /\ WriteTypes /\ BuffersExact /\ DiskTypes
           /\ LocalInv /\ CallerTypes /\ RegionFrame /\ Accounted /\ InHand
  BY DEF IInv, LocalInv

(* The data inside a region is the addresses of the region.                *)
LEMMA StreamAt ==
    ASSUME NEW c, IsChunk(c), NEW i \in 1 .. Len(c.regions),
           NEW o \in Nat, NEW k \in Nat \ {0}, Lo(c, i) <= o, o + k <= Hi(c, i)
    PROVE  /\ Stream(c)[Before(c, o) + k] = o + k - 1
           /\ o + k - 1 \in DataOf(c)
<1> DEFINE a == o + k - 1
           N == Cardinality(DataOf(c))
           x == Cardinality(Left(c, o))
           y == Cardinality(Left(c, a))
<1>1. Lo(c, i) \in Nat /\ Hi(c, i) \in Nat
  BY RegionBytes
<1>2. a \in Lo(c, i) .. Hi(c, i) - 1 /\ a \in Nat
  <2> DEFINE p == Lo(c, i)
             q == Hi(c, i)
  <2>1. p \in Nat /\ q \in Nat /\ p <= o /\ o + k <= q
    BY <1>1
  <2> HIDE DEF p, q
  <2>2. a \in p .. q - 1 /\ a \in Nat
    BY <2>1
  <2> QED BY <2>2 DEF p, q
<1>3. a \in DataOf(c)
  BY <1>2, DataIs
<1>4. y = x - (k - 1) /\ x \in Nat /\ N \in Nat
  <2>1. k - 1 \in Nat /\ o + (k - 1) = a
    OBVIOUS
  <2>2. o + (k - 1) <= Hi(c, i)
    BY <1>1
  <2> QED BY <2>1, <2>2, LeftStep, DataIs
<1>5. Rank(c, a) = N - y
  <2>1. DataOf(c) \subseteq Nat /\ IsFiniteSet(DataOf(c))
    BY DataIs
  <2>2. {b \in DataOf(c) : b < a} = DataOf(c) \ Left(c, a)
    BY <1>2, <2>1 DEF Left
  <2>3. DataOf(c) \cap Left(c, a) = Left(c, a)
    BY DEF Left
  <2> QED BY <2>1, <2>2, <2>3, FS_Difference DEF Rank
<1>6. Stream(c)[Rank(c, a) + 1] = a
  BY <1>3, StreamIs
<1>7. (N - x) + k = (N - y) + 1
  <2> HIDE DEF N, x, y
  <2> QED BY <1>4
<1> QED BY <1>3, <1>5, <1>6, <1>7 DEF Before

(* Some data is before the place reached, the rest is left.                *)
LEMMA BeforeStep ==
    ASSUME NEW c, IsChunk(c), NEW i \in 1 .. Len(c.regions),
           NEW o \in Nat, NEW k \in Nat, Lo(c, i) <= o, o + k <= Hi(c, i)
    PROVE  Before(c, o) \in Int /\ Before(c, o + k) = Before(c, o) + k
<1> DEFINE N == Cardinality(DataOf(c))
           x == Cardinality(Left(c, o))
           y == Cardinality(Left(c, o + k))
<1>1. N \in Nat /\ x \in Nat /\ y = x - k
  BY DataIs, LeftStep
<1> HIDE DEF N, x, y
<1>2. N - x \in Int /\ N - y = (N - x) + k
  BY <1>1
<1> QED BY <1>2 DEF Before, N, x, y

(* What is due after a step was due before it.                             *)
LEMMA DueKept ==
    ASSUME FixedTypes, opt' = opt, image' = image
    PROVE  \A a \in Nat : /\ Due(a)' = Due(a)
                          /\ Due(a) => Inside(a)
                          /\ ToCome(a)' = Coming(mpc', todo', d'.chunk, d'.offset, a)
<1>1. /\ Base' = Base /\ Covered' = Covered /\ \A c : Span(c)' = Span(c)
      /\ \A a : Wanted(a)' = Wanted(a)
  BY WantedKept
<1>2. Max(Covered)' = Max(Covered)
  BY <1>1 DEF Max
<1>3. ASSUME NEW a \in Nat PROVE Due(a) => Inside(a)
  BY WantedIs DEF Due
<1>4. ASSUME NEW a \in Nat PROVE Due(a)' = Due(a)
  BY <1>1 DEF Due, DiskBytes, sectobytes, Old
<1>5. ASSUME NEW a \in Nat
      PROVE  ToCome(a)' = Coming(mpc', todo', d'.chunk, d'.offset, a)
  <2>1. \A c : Span(image[c])' = Span(image[c])
    BY DEF Span, Extent
  <2> QED BY <1>1, <1>2, <2>1 DEF ToCome, Coming, Busy, Unzipping, Filling, Raw
<1> QED BY <1>3, <1>4, <1>5

(* Whatever was to come is still to come or has been served.               *)
LEMMA Covers ==
    ASSUME FixedTypes, opt' = opt, image' = image, AllCovered, mpc # "exit",
           NEW S, Served(S),
           \A a \in Nat : Due(a) /\ ToCome(a) /\ a - Base \notin S =>
                            Coming(mpc', todo', d'.chunk, d'.offset, a)
    PROVE  AllCovered'
<1>1. ASSUME NEW a \in Nat, Due(a) PROVE Handled(a)' \/ ToCome(a)'
  <2>1. Inside(a)
    BY <1>1, DueKept
  <2>2. Handled(a) \/ ToCome(a)
    BY <1>1 DEF AllCovered
  <2>3. CASE Handled(a)
    BY <2>3 DEF Served
  <2>4. CASE ToCome(a) /\ a - Base \in S
    BY <2>1, <2>4 DEF Served
  <2>5. CASE ToCome(a) /\ a - Base \notin S
    BY <1>1, <2>5, DueKept
  <2> QED BY <2>2, <2>3, <2>4, <2>5
<1>2. \A a \in Nat : Due(a)' = Due(a)
  BY DueKept
<1> QED BY <1>1, <1>2 DEF AllCovered

(* A step that keeps the locals keeps what the buffer in hand holds.       *)
LEMMA HandKept ==
    ASSUME IInv, HandGood, SameBytes, d' = d, image' = image,
           \/ mpc' = mpc \/ mpc' \notin Unzipping \cup {"rawwrite"}
           \/ mpc \in Unzipping /\ mpc' \in {"inflate", "inflatewait"}
    PROVE  HandGood'
<1>1. Chunk' = Chunk
  BY DEF Chunk
<1>2. d.wbuf.buf \in BufId => bufs'[d.wbuf.buf].bytes = bufs[d.wbuf.buf].bytes
  <2> SUFFICES ASSUME d.wbuf.buf \in BufId
               PROVE  bufs'[d.wbuf.buf].bytes = bufs[d.wbuf.buf].bytes
    OBVIOUS
  <2>1. d.wbuf \in WriteBuf /\ d.wbuf.buf # 0
    BY Parts, LocalTypes, BufIds
  <2>2. bufs[d.wbuf.buf].refs > 0
    BY <2>1, Parts, HeldInUse
  <2> QED BY <2>2 DEF SameBytes
<1>3. d.count \in Nat
  BY Parts, LocalTypes
<1>4. /\ mpc \in {"region", "gap", "head"} /\ d.count > 0 => d.wbuf.buf \in BufId
      /\ mpc = "rawwrite" => d.wbuf.buf \in BufId
  BY <1>3, Parts DEF InHand
<1> QED BY <1>1, <1>2, <1>4 DEF HandGood, Unzipping, Filling

(* The zeros of a gap are served if they are asked for, and not due if     *)
(* they are not.                                                           *)
LEMMA GapFill ==
    ASSUME IInv, DiskGood, WritesGood, ~opt.raw,
           opt' = opt, image' = image, wcur' = wcur, wpc' = wpc,
           NEW c \in DOMAIN image, NEW from \in Int, NEW to \in Int,
           \A i \in from .. to - 1 : i \in Span(image[c]) /\ i \notin DataOf(image[c]),
           ZeroFill(from, to)
    PROVE  \E S : /\ Served(S) /\ S \subseteq Covered
                  /\ \A a \in Nat : Due(a) /\ a - Base \notin S => a - Base \notin from .. to - 1
<1> DEFINE S == IF opt.fill THEN from .. to - 1 ELSE {}
<1>1. FixedTypes /\ BufferTypes /\ WriteTypes /\ BuffersExact /\ DiskTypes
  BY Parts
<1>2. Base \in Nat
  BY <1>1, BaseIs
<1>3. \A i \in from .. to - 1 : i \in Covered /\ i \notin Copied
  BY <1>1, GapIs
<1>4. ASSUME opt.fill, NEW i \in from .. to - 1, Inside(i + Base)
      PROVE  Wanted(i + Base) = Zero
  <2>1. i + Base \in Int /\ (i + Base) - Base = i
    BY <1>2
  <2> QED BY <1>1, <1>3, <1>4, <2>1, WantedIs
<1>5. Served(S)
  BY <1>1, <1>4, ZeroFillGood
<1>6. ASSUME NEW a \in Nat, Due(a), a - Base \notin S, a - Base \in from .. to - 1
      PROVE  FALSE
  <2>1. ~opt.fill
    BY <1>6
  <2>2. a - Base \in Copied
    BY <1>1, <1>6, <2>1, WantedIs DEF Due
  <2> QED BY <1>3, <1>6, <2>2
<1>7. S \subseteq Covered
  BY <1>3
<1> HIDE DEF S
<1> QED BY <1>5, <1>6, <1>7

(* The writes stay within the image.                                       *)
LEMMA BoundKept ==
    ASSUME Bounded, mpc \in Busy \cup {"idle"}, NEW S, Served(S), S \subseteq Covered
    PROVE  Bounded'
<1>1. Bound
  BY DEF Bounded, Busy, Unzipping, Filling, Raw
<1> QED BY <1>1 DEF Bounded, Served

(* A step of the caller's thread that writes nothing.                      *)
LEMMA NothingServed ==
    ASSUME IInv, DiskGood, WritesGood, UNCHANGED fixed, UNCHANGED writer,
           writequeue' = writequeue, disk' = disk, maxwritten' = maxwritten, SameBytes
    PROVE  Served({})
<1>1. opt' = opt /\ image' = image /\ wcur' = wcur /\ wpc' = wpc
  BY DEF fixed, writer
<1> QED BY <1>1, Parts, QuietServes

(* The first gap of a chunk is served when the chunk is begun.             *)
LEMMA UnzipChunkGood ==
    ASSUME DInv, NEW c \in todo, UnzipChunk(c)
    PROVE  DiskInv'
<1> DEFINE C == image[c]
           f == sectobytes(C.first)
           p == Lo(C, 1)
<1>1. /\ mpc = "idle" /\ ~opt.raw /\ mpc' = "inflate" /\ todo' = todo
      /\ opt' = opt /\ image' = image /\ wcur' = wcur /\ wpc' = wpc
      /\ writeinprogress' = writeinprogress
  BY DEF UnzipChunk, fixed, writer
<1>2. IInv /\ DiskGood /\ WritesGood /\ Control /\ AllCovered /\ Bounded
  BY DEF DInv, DiskInv
<1>3. FixedTypes /\ c \in DOMAIN image /\ IsChunk(C)
  BY <1>2, Parts, ChunksAre DEF CallerTypes
<1>4. /\ f \in Int /\ p \in Int /\ From(C) <= p /\ From(C) \in Nat
      /\ Span(C) = From(C) .. To(C) - 1 /\ p \in Nat
  BY <1>3, ChunkBytes, SpanIs
<1>5. d'.chunk = c /\ d'.offset = p /\ d'.resid = <<>> /\ d'.count = 0
  BY DEF UnzipChunk, Lo
<1>6. \E S : /\ Served(S) /\ S \subseteq Covered
             /\ \A a \in Nat : Due(a) /\ a - Base \notin S => a - Base \notin From(C) .. p - 1
  <2>1. CASE opt.v1
    <3>1. UNCHANGED shared
      BY <2>1 DEF UnzipChunk
    <3>2. SameBytes
      BY <3>1 DEF shared, SameBytes
    <3>3. Served({})
      BY <1>2, <3>1, <3>2, NothingServed DEF UnzipChunk, shared
    <3>4. From(C) = p
      BY <1>1, <2>1 DEF From
    <3>5. From(C) .. p - 1 = {}
      BY <1>4, <3>4
    <3> QED BY <3>3, <3>5
  <2>2. CASE ~opt.v1
    <3>1. ZeroFill(f, p)
      BY <2>2 DEF UnzipChunk, Lo
    <3>2. From(C) = f
      BY <2>2 DEF From
    <3>3. ASSUME NEW i \in f .. p - 1 PROVE i \in Span(C) /\ i \notin DataOf(C)
      <4> DEFINE q == Hi(C, Len(C.regions))
                 t == To(C)
      <4>1. p < q /\ q <= t /\ q \in Nat /\ t \in Nat /\ DataOf(C) \subseteq p .. q - 1
        BY <1>3, ChunkBytes, SpanIs
      <4>2. Span(C) = f .. t - 1
        BY <1>4, <3>2
      <4>3. f \in Int /\ p \in Int /\ q \in Int /\ t \in Int /\ p < q /\ q <= t
        BY <1>4, <4>1
      <4> HIDE DEF C, f, p, q, t
      <4>4. i \in f .. t - 1 /\ i \notin p .. q - 1
        BY <4>3
      <4> QED BY <4>1, <4>2, <4>4
    <3> HIDE DEF f, p
    <3> QED BY <1>1, <1>2, <1>3, <1>4, <3>1, <3>2, <3>3, GapFill
  <2> QED BY <2>1, <2>2
<1>7. PICK S : /\ Served(S) /\ S \subseteq Covered
               /\ \A a \in Nat : Due(a) /\ a - Base \notin S =>
                                   a - Base \notin From(C) .. p - 1
  BY <1>6
<1>8. AllCovered'
  <2>1. ASSUME NEW a \in Nat, Due(a), ToCome(a), a - Base \notin S
        PROVE  Coming(mpc', todo', d'.chunk, d'.offset, a)
    <3> DEFINE i == a - Base
    <3>1. i \notin From(C) .. p - 1 /\ i \in Int
      BY <1>3, <1>7, <2>1, BaseIs
    <3>2. CASE \E e \in todo : i \in Span(image[e]) /\ (mpc \in Busy /\ e = d.chunk => i >= d.offset)
      <4>1. PICK e \in todo : i \in Span(image[e])
        BY <3>2
      <4>2. e = c => i >= p
        <5> SUFFICES ASSUME e = c PROVE i >= p
          OBVIOUS
        <5>1. i \in From(C) .. To(C) - 1
          BY <1>4, <4>1
        <5> HIDE DEF i, p
        <5> QED BY <1>4, <3>1, <5>1
      <4> QED BY <1>1, <1>5, <4>1, <4>2 DEF Coming
    <3>3. CASE opt.max = 0 /\ i > Max(Covered)
      BY <1>1, <3>3 DEF Coming
    <3> QED BY <2>1, <3>2, <3>3 DEF ToCome, Coming
  <2> QED BY <1>1, <1>2, <1>3, <1>7, <2>1, Covers
<1>9. Control'
  BY <1>1, <1>2, <1>5 DEF Control, Busy, Ending, Raw, Unzipping, Filling
<1>10. HandGood'
  BY <1>1, <1>5 DEF HandGood, Unzipping, Filling
<1>11. Bounded'
  BY <1>1, <1>2, <1>7, BoundKept
<1> QED BY <1>7, <1>8, <1>9, <1>10, <1>11 DEF DiskInv, Served

(* A chunk that is taken as it is.                                         *)
LEMMA WriteChunkGood ==
    ASSUME DInv, NEW c \in todo, WriteChunk(c)
    PROVE  DiskInv'
<1> DEFINE C == image[c]
           f == sectobytes(C.first)
           z == sectobytes(C.last - C.first)
<1>1. /\ mpc = "idle" /\ opt.raw /\ mpc' = "raw" /\ todo' = todo
      /\ opt' = opt /\ image' = image /\ UNCHANGED shared
      /\ UNCHANGED fixed /\ UNCHANGED writer
  BY DEF WriteChunk, fixed
<1>2. IInv /\ DiskGood /\ WritesGood /\ Control /\ AllCovered /\ Bounded
  BY DEF DInv, DiskInv
<1>3. FixedTypes /\ c \in DOMAIN image /\ IsChunk(C) /\ d \in Locals
  BY <1>2, Parts, ChunksAre DEF CallerTypes
<1>4. d'.chunk = c /\ d'.offset = f /\ d'.size = z
  BY <1>3 DEF WriteChunk, Locals
<1>5. Span(C) = f .. sectobytes(C.last) - 1
  BY <1>1 DEF Span, Extent
<1>6. f \in Nat /\ f + z = sectobytes(C.last)
  <2> DEFINE x == C.first
             y == C.last
  <2>1. x \in Nat /\ y \in Nat /\ x <= y /\ SECSIZE \in Nat
    BY <1>3, BufIds DEF IsChunk
  <2> HIDE DEF x, y
  <2>2. x * SECSIZE \in Nat /\ x * SECSIZE + (y - x) * SECSIZE = y * SECSIZE
    BY <2>1
  <2> QED BY <2>2 DEF sectobytes, x, y
<1>7. SameBytes
  BY <1>1 DEF shared, SameBytes
<1>8. Served({})
  BY <1>1, <1>2, <1>7, NothingServed DEF shared
<1> HIDE DEF f, z
<1>9. AllCovered'
  <2>1. ASSUME NEW a \in Nat, ToCome(a) PROVE Coming(mpc', todo', d'.chunk, d'.offset, a)
    <3> DEFINE i == a - Base
    <3>1. CASE \E e \in todo : i \in Span(image[e])
      <4>1. PICK e \in todo : i \in Span(image[e])
        BY <3>1
      <4>2. e = c => i >= f
        BY <1>3, <1>5, <1>6, <4>1, BaseIs
      <4> QED BY <1>1, <1>4, <4>1, <4>2 DEF Coming
    <3>2. CASE opt.max = 0 /\ i > Max(Covered)
      BY <1>1, <3>2 DEF Coming
    <3> QED BY <2>1, <3>1, <3>2 DEF ToCome, Coming
  <2> QED BY <1>1, <1>2, <1>3, <1>8, <2>1, Covers
<1>10. Control'
  <2>1. Chunk' = C
    BY <1>1, <1>4 DEF Chunk
  <2>2. sectobytes(C.first) <= d'.offset /\ d'.offset + d'.size = sectobytes(C.last)
    BY <1>4, <1>6 DEF f
  <2> QED BY <1>1, <1>2, <1>4, <2>1, <2>2
          DEF Control, Busy, Ending, Raw, Unzipping, Filling, writer, sectobytes
<1>11. HandGood'
  BY <1>1 DEF HandGood, Unzipping, Filling
<1>12. Bounded'
  BY <1>1, <1>2, <1>8, BoundKept
<1> QED BY <1>8, <1>9, <1>10, <1>11, <1>12 DEF DiskInv, Served

(* A step inside a chunk: what it passes has been served or is not due.    *)
LEMMA MovesOn ==
    ASSUME IInv, AllCovered, UNCHANGED fixed,
           mpc \in Busy, mpc' \in Busy, todo' = todo,
           d'.chunk = d.chunk, d'.offset \in Int, NEW S, Served(S),
           \A a \in Nat : Due(a) /\ a - Base \notin S =>
                            a - Base \notin d.offset .. d'.offset - 1
    PROVE  AllCovered'
<1>1. FixedTypes /\ opt' = opt /\ image' = image /\ mpc # "exit" /\ CallerTypes
  BY Parts DEF fixed, Busy, Unzipping, Filling, Raw
<1>2. mpc' \notin {"drain", "flushed", "done"}
  BY DEF Busy, Unzipping, Filling, Raw
<1>3. ASSUME NEW a \in Nat, Due(a), ToCome(a), a - Base \notin S
      PROVE  Coming(mpc', todo', d'.chunk, d'.offset, a)
  <2> DEFINE i == a - Base
             o == d.offset
             p == d'.offset
  <2>1. i \in Int /\ o \in Int /\ p \in Int /\ i \notin o .. p - 1
    BY <1>1, <1>3, BaseIs, LocalTypes
  <2>2. i >= o => i >= p
    <3> HIDE DEF i, o, p
    <3> QED BY <2>1
  <2> HIDE DEF o, p
  <2>3. CASE \E c \in todo : i \in Span(image[c]) /\ (c = d.chunk => i >= o)
    BY <2>2, <2>3 DEF Coming, p
  <2>4. CASE opt.max = 0 /\ i > Max(Covered)
    BY <1>2, <2>4 DEF Coming
  <2> QED BY <1>3, <2>3, <2>4 DEF ToCome, Coming, o
<1> QED BY <1>1, <1>3, Covers

(* A step inside a chunk that gets no further on the disk.                 *)
LEMMA StaysCovered ==
    ASSUME IInv, AllCovered, Served({}), UNCHANGED fixed,
           mpc \in Busy, mpc' \in Busy, todo' = todo,
           d'.chunk = d.chunk, d'.offset = d.offset
    PROVE  AllCovered'
<1>1. d.offset \in Nat
  BY Parts, LocalTypes
<1>2. d'.offset \in Int /\ d.offset .. d'.offset - 1 = {}
  BY <1>1
<1> QED BY <1>2, MovesOn

(* The last step of a chunk.                                               *)
LEMMA ChunkEnds ==
    ASSUME IInv, AllCovered, UNCHANGED fixed, Control,
           mpc \in Busy, mpc' = "idle", todo' = todo \ {d.chunk}, NEW S, Served(S),
           \A a \in Nat : Due(a) /\ a - Base \notin S =>
                            a - Base \notin d.offset .. To(Chunk) - 1
    PROVE  AllCovered'
<1> DEFINE C == Chunk
<1>1. FixedTypes /\ opt' = opt /\ image' = image /\ mpc # "exit" /\ CallerTypes
  BY Parts DEF fixed, Busy, Unzipping, Filling, Raw
<1>2. d.chunk \in DOMAIN image /\ IsChunk(C)
  BY <1>1, ChunksAre DEF Control, CallerTypes, Chunk
<1>3. Span(C) = From(C) .. To(C) - 1 /\ To(C) \in Nat /\ From(C) \in Nat
  BY <1>2, SpanIs
<1>4. ASSUME NEW a \in Nat, Due(a), ToCome(a), a - Base \notin S
      PROVE  Coming(mpc', todo', d'.chunk, d'.offset, a)
  <2> DEFINE i == a - Base
             o == d.offset
             t == To(C)
             f == From(C)
  <2>1. i \in Int /\ o \in Int /\ t \in Int /\ f \in Int /\ i \notin o .. t - 1
    <3>1. Base \in Nat /\ o \in Nat
      BY <1>1, BaseIs, LocalTypes
    <3>2. i \notin o .. t - 1
      BY <1>4
    <3>3. i \in Int
      BY <3>1
    <3> QED BY <1>3, <3>1, <3>2, <3>3
  <2>2. i >= o => i \notin Span(C)
    <3>1. Span(C) = f .. t - 1
      BY <1>3
    <3> HIDE DEF i, o, f, t
    <3> QED BY <2>1, <3>1
  <2> HIDE DEF o
  <2>3. CASE \E c \in todo : i \in Span(image[c]) /\ (c = d.chunk => i >= o)
    <3>1. PICK c \in todo : i \in Span(image[c]) /\ (c = d.chunk => i >= o)
      BY <2>3
    <3>2. c # d.chunk
      BY <2>2, <3>1 DEF Chunk
    <3>3. mpc' \notin Busy
      BY DEF Busy, Unzipping, Filling, Raw
    <3> QED BY <3>1, <3>2, <3>3 DEF Coming
  <2>4. CASE opt.max = 0 /\ i > Max(Covered)
    BY <2>4 DEF Coming
  <2> QED BY <1>4, <2>3, <2>4 DEF ToCome, Coming, o
<1> QED BY <1>1, <1>4, Covers

(* Queueing cc bytes of the region puts the image's data where it belongs. *)
LEMMA AdvanceGood ==
    ASSUME DInv, mpc \in {"region", "head"},
           NEW cc \in Nat \ {0}, cc <= d.size, cc <= d.count, d.wbuf.size = cc,
           d.wbuf.buf \in BufId, DoWriteRequest(d.wbuf), NEW w, Advance(cc, w),
           d.count > cc => /\ w.buf = d.wbuf.buf /\ w.offset = d.offset + cc
                           /\ w.data = d.wbuf.data + cc
    PROVE  DiskInv'
<1> DEFINE C == Chunk
           o == d.offset
           r == d.region
           b == d.wbuf.buf
           data == d.wbuf.data
           B == Before(C, o)
<1>1. IInv /\ DiskGood /\ WritesGood /\ HandGood /\ Control /\ AllCovered /\ Bounded
  BY DEF DInv, DiskInv
<1>2. /\ FixedTypes /\ BufferTypes /\ WriteTypes /\ BuffersExact /\ DiskTypes
      /\ CallerTypes /\ RegionFrame
  BY <1>1, Parts
<1>3. mpc \in Unzipping /\ mpc \in Busy /\ mpc \notin Raw
  BY DEF Busy, Unzipping, Filling, Raw
<1>4. /\ IsChunk(C) /\ d.chunk \in DOMAIN image /\ r \in 1 .. Len(C.regions)
      /\ Lo(C, r) <= o /\ o + d.size = Hi(C, r) /\ Hi(C, r) \in Nat
  BY <1>2, <1>3, Middle
<1>5. /\ o \in Nat /\ d.size \in Nat /\ d.count \in Nat /\ d.wbuf \in WriteBuf
      /\ data \in Int /\ b # 0 /\ d \in Locals
  BY <1>2, LocalTypes, BufIds DEF WriteBuf, CallerTypes
<1>6. bufs[b].refs > 0
  BY <1>2, <1>5, HeldInUse
<1>7. d.wbuf.offset = o /\ \A k \in 1 .. d.count : bufs[b].bytes[data + k] = Stream(C)[B + k]
  <2>1. d.count > 0
    BY <1>5
  <2> QED BY <1>1, <2>1 DEF HandGood
<1>8. ~opt.raw /\ d.chunk \in todo
  BY <1>1, <1>3 DEF Control
<1>9. Touched(d.wbuf) = o .. o + cc - 1
  BY <1>7 DEF Touched
<1>10. RequestGood(d.wbuf) /\ Touched(d.wbuf) \subseteq Covered
  <2> SUFFICES ASSUME NEW i \in Touched(d.wbuf)
               PROVE  Byte(bufs, d.wbuf, i) = i /\ i \in Copied
    BY <1>2, CopyGood
  <2> DEFINE k == i - o + 1
  <2>1. i \in o .. o + cc - 1
    BY <1>9
  <2>2. /\ k \in Nat \ {0} /\ k \in 1 .. d.count /\ o + k <= o + d.size
        /\ o + k - 1 = i /\ data + (i - o) + 1 = data + k /\ i \in Int
    BY <1>5, <2>1
  <2>3. Byte(bufs, d.wbuf, i) = bufs[b].bytes[data + k]
    BY <1>5, <1>7, <2>2 DEF Byte
  <2> HIDE DEF k
  <2>4. Stream(C)[B + k] = i /\ i \in DataOf(C)
    <3>1. o + k <= Hi(C, r)
      BY <1>4, <2>2
    <3>2. Stream(C)[B + k] = o + k - 1 /\ o + k - 1 \in DataOf(C)
      BY <1>4, <1>5, <2>2, <3>1, StreamAt
    <3> QED BY <2>2, <3>2
  <2>5. i \in Copied
    BY <1>4, <1>8, <2>4 DEF Copied, Chunk
  <2> QED BY <1>7, <2>2, <2>3, <2>4, <2>5
<1>11. /\ opt' = opt /\ image' = image /\ wcur' = wcur /\ wpc' = wpc /\ todo' = todo
       /\ writeinprogress' = writeinprogress /\ UNCHANGED fixed
       /\ mpc' \in {"region", "gap", "break"}
  BY DEF Advance, fixed, writer
<1>12. Served(o .. o + cc - 1)
  BY <1>1, <1>2, <1>5, <1>6, <1>9, <1>10, <1>11, DoWriteGood
<1>13. /\ d'.chunk = d.chunk /\ d'.resid = d.resid /\ d'.pos = d.pos
       /\ d'.offset = o + cc /\ d'.wbuf = w /\ d'.count = d.count - cc
  BY <1>5 DEF Advance, Locals
<1>14. mpc' \in Busy /\ mpc' \notin Raw /\ mpc' \in Unzipping /\ Chunk' = C
  BY <1>11, <1>13 DEF Busy, Unzipping, Filling, Raw, Chunk
<1>15. AllCovered'
  <2> DEFINE S == o .. o + cc - 1
  <2>1. d'.offset \in Int
    BY <1>5, <1>13
  <2>2. Served(S)
    BY <1>12
  <2>3. d.offset .. d'.offset - 1 = S
    BY <1>5, <1>13
  <2> HIDE DEF S
  <2> QED BY <1>1, <1>3, <1>11, <1>13, <1>14, <2>1, <2>2, <2>3, MovesOn
<1>16. Control'
  BY <1>1, <1>8, <1>11, <1>13, <1>14 DEF Control, Busy, Unzipping, Filling, Raw, Ending
<1>17. HandGood'
  <2>1. ASSUME d'.count > 0, NEW k \in 1 .. d'.count
        PROVE  bufs'[d'.wbuf.buf].bytes[d'.wbuf.data + k]
                 = Stream(C)[Before(C, o + cc) + k]
    <3>1. d.count > cc /\ cc + k \in 1 .. d.count /\ k \in Nat
      BY <1>5, <1>13, <2>1
    <3>2. bufs'[b].bytes = bufs[b].bytes
      BY <1>6, <1>12 DEF Served, SameBytes
    <3>3. B \in Int /\ Before(C, o + cc) = B + cc
      <4>1. o + cc <= Hi(C, r)
        BY <1>4, <1>5
      <4> QED BY <1>4, <1>5, <4>1, BeforeStep
    <3> HIDE DEF B, C
    <3>4. (B + cc) + k = B + (cc + k) /\ (data + cc) + k = data + (cc + k)
      BY <1>5, <3>1, <3>3
    <3>5. bufs[b].bytes[data + (cc + k)] = Stream(C)[B + (cc + k)]
      BY <1>7, <3>1
    <3> QED BY <1>13, <3>1, <3>2, <3>3, <3>4, <3>5
  <2>2. d'.count > 0 => d'.wbuf.offset = d'.offset
    BY <1>5, <1>13
  <2>3. \A k \in 1 .. Len(d'.resid) :
            d'.resid[k] = Stream(C)[d'.pos - Len(d'.resid) + k]
    BY <1>1, <1>3, <1>13 DEF HandGood
  <2> HIDE DEF C
  <2> QED BY <1>11, <1>13, <1>14, <2>1, <2>2, <2>3 DEF HandGood, Before, Left
<1>18. Bounded'
  <2>1. o .. o + cc - 1 \subseteq Covered
    BY <1>9, <1>10
  <2> QED BY <1>1, <1>3, <1>12, <2>1, BoundKept
<1> QED BY <1>12, <1>15, <1>16, <1>17, <1>18 DEF DiskInv, Served

(* The data in hand goes to its region.                                    *)
LEMMA WriteRegionGood ==
    ASSUME DInv, WriteRegion \/ WriteHead
    PROVE  DiskInv'
<1>1. IInv /\ HandGood
  BY DEF DInv, DiskInv
<1>2. CallerTypes /\ InHand /\ RegionFrame
  BY <1>1, Parts
<1>3. d.count \in Nat /\ d.size \in Nat
  BY <1>2, LocalTypes
<1>4. CASE WriteRegion
  <2>1. /\ mpc = "region" /\ d.count > 0 /\ d.count <= d.size
        /\ DoWriteRequest(d.wbuf) /\ Advance(d.count, NULL)
    BY <1>4 DEF WriteRegion, FitsRegion
  <2>2. d.wbuf.buf \in BufId /\ d.wbuf.size = d.count /\ d.count \in Nat \ {0}
    BY <1>2, <1>3, <2>1 DEF InHand
  <2>3. d.count <= d.count /\ ~(d.count > d.count)
    BY <1>3
  <2> QED BY <2>1, <2>2, <2>3, AdvanceGood
<1>5. CASE WriteHead
  <2>1. mpc = "head" /\ DoWriteRequest(d.wbuf) /\ Advance(d.size, d.tail)
    BY <1>5 DEF WriteHead
  <2>2. d.size < d.count /\ d.wbuf.buf \in BufId /\ d.wbuf.size = d.size
        /\ d.tail.buf = d.wbuf.buf
    BY <1>2, <2>1 DEF InHand
  <2>3. d.size > 0
    BY <1>2, <2>1 DEF RegionFrame, Unzipping, Filling
  <2>4. d.size \in Nat \ {0} /\ d.size <= d.size /\ d.size <= d.count
    BY <1>3, <2>2, <2>3
  <2>5. d.tail.offset = d.offset + d.size /\ d.tail.data = d.wbuf.data + d.size
    BY <1>1, <2>1 DEF HandGood
  <2> QED BY <2>1, <2>2, <2>4, <2>5, AdvanceGood
<1> QED BY <1>4, <1>5

(* alloc_writebuf() takes a buffer that no write refers to.                *)
LEMMA AllocSame ==
    ASSUME BufferTypes, NEW n, NEW bytes, NEW b \in BufId, AllocBuf(n, bytes, b)
    PROVE  /\ SameBytes /\ bufs'[b].bytes = bytes
           /\ disk' = disk /\ maxwritten' = maxwritten /\ writequeue' = writequeue
<1> DEFINE e == [refs |-> 1, size |-> n, bytes |-> bytes]
<1>1. bufs' = [bufs EXCEPT ![b] = e] /\ bufs[b].refs = 0
      /\ disk' = disk /\ maxwritten' = maxwritten /\ writequeue' = writequeue
  BY DEF AllocBuf
<1>2. e.bytes = bytes
  OBVIOUS
<1> HIDE DEF e
<1>3. bufs'[b] = e /\ \A c \in BufId : c # b => bufs'[c] = bufs[c]
  BY <1>1 DEF BufferTypes
<1>4. SameBytes
  BY <1>1, <1>3 DEF SameBytes
<1> QED BY <1>1, <1>2, <1>3, <1>4

(* The bytes of a new buffer, and those it leaves over, follow those that  *)
(* have been queued.                                                       *)
LEMMA InflatedData ==
    ASSUME FixedTypes, LocalInv, HandGood, mpc = "inflate", NEW n \in Produced
    PROVE  LET bytes  == d.resid \o SubSeq(Stream(Chunk), d.pos + 1, d.pos + n)
               ibleft == Len(bytes) % SECSIZE
               count  == Len(bytes) - ibleft
               rest   == SubSeq(bytes, count + 1, Len(bytes))
           IN  /\ \A k \in 1 .. count :
                    bytes[k] = Stream(Chunk)[Before(Chunk, d.offset) + k]
               /\ \A k \in 1 .. Len(rest) :
                    rest[k] = Stream(Chunk)[(d.pos + n) - Len(rest) + k]
<1> DEFINE S      == Stream(Chunk)
           N      == Cardinality(DataOf(Chunk))
           more   == SubSeq(S, d.pos + 1, d.pos + n)
           bytes  == d.resid \o more
           L      == Len(bytes)
           count  == L - (L % SECSIZE)
           rest   == SubSeq(bytes, count + 1, L)
           R      == Len(d.resid)
           p      == d.pos
           x      == Cardinality(Left(Chunk, d.offset))
<1>1. /\ n \in Nat /\ p + n <= N /\ bytes \in Seq(Int) /\ count \in Nat \ {0}
      /\ Len(rest) \in Nat /\ count + Len(rest) = R + n
  <2>1. /\ n \in Nat /\ d.pos + n <= Cardinality(DataOf(Chunk))
        /\ bytes \in Seq(Int) /\ count \in Nat \ {0}
        /\ Len(rest) \in 0 .. SECSIZE - 1
        /\ count + Len(rest) = Len(d.resid) + n
    BY InflatedBytes
  <2> HIDE DEF bytes, count, rest, N, R, p
  <2>2. Len(rest) \in Nat
    BY <2>1, BufIds
  <2> QED BY <2>1, <2>2 DEF N, R, p
<1>2. mpc \in Unzipping
  BY DEF Unzipping, Filling
<1>3. IsChunk(Chunk)
  BY <1>2, Middle DEF LocalInv
<1>4. S \in Seq(Int) /\ Len(S) = N /\ N \in Nat
  BY <1>3, StreamIs, DataIs
<1>5. p \in Nat /\ R \in Nat /\ d.resid \in Seq(Int)
  BY LocalTypes DEF LocalInv
<1>6. Before(Chunk, d.offset) = p - R
  <2>1. x = 0 + R + (N - p)
    BY <1>2 DEF LocalInv, Accounted
  <2>2. Before(Chunk, d.offset) = N - x
    BY DEF Before
  <2> HIDE DEF N, x, R, p
  <2> QED BY <1>4, <1>5, <2>1, <2>2
<1>7. \A k \in 1 .. R : d.resid[k] = S[p - R + k]
  BY <1>2 DEF HandGood
<1> HIDE DEF S, N
<1>8. /\ more \in Seq(Int) /\ Len(more) = n
      /\ \A k \in 1 .. n : more[k] = S[p + k]
  <2>1. \A i \in p + 1 .. p + n : S[i] \in Int
    <3>1. n \in Nat /\ p \in Nat /\ p + n <= Len(S) /\ Len(S) \in Nat
      BY <1>1, <1>4, <1>5
    <3> HIDE DEF p
    <3>2. p + 1 .. p + n \subseteq 1 .. Len(S)
      BY <3>1
    <3> QED BY <1>4, <3>2, ElementOfSeq
  <2>2. p + 1 \in Int /\ p + n \in Int /\ (p + n) - (p + 1) + 1 = n
        /\ (n = 0 => ~(p + 1 <= p + n)) /\ (n # 0 => p + 1 <= p + n)
    <3>1. n \in Nat /\ p \in Nat
      BY <1>1, <1>5
    <3> HIDE DEF p
    <3> QED BY <3>1
  <2>3. /\ more \in Seq(Int)
        /\ Len(more) = IF p + 1 <= p + n THEN (p + n) - (p + 1) + 1 ELSE 0
        /\ \A i \in 1 .. (p + n) - (p + 1) + 1 : more[i] = S[p + 1 + i - 1]
    BY <2>1, <2>2, SubSeqProperties
  <2>4. ASSUME NEW k \in 1 .. n PROVE more[k] = S[p + k]
    <3>1. p + 1 + k - 1 = p + k
      BY <1>1, <1>5
    <3> QED BY <2>2, <2>3, <3>1
  <2> QED BY <2>2, <2>3, <2>4
<1> HIDE DEF more
<1>9. L = R + n /\ \A k \in 1 .. R + n : bytes[k] = IF k <= R THEN d.resid[k] ELSE more[k - R]
  <2>1. /\ Len(bytes) = R + Len(more)
        /\ \A k \in 1 .. R + Len(more) :
              bytes[k] = IF k <= R THEN d.resid[k] ELSE more[k - R]
    BY <1>5, <1>8, ConcatProperties
  <2>2. Len(more) = n
    BY <1>8
  <2> QED BY <2>1, <2>2, Zenon
<1>10. ASSUME NEW k \in 1 .. R + n PROVE bytes[k] = S[(p - R) + k]
  <2>1. CASE k <= R
    <3>1. k \in 1 .. R
      BY <1>1, <1>5, <2>1
    <3> QED BY <1>7, <1>9, <2>1, <3>1
  <2>2. CASE ~(k <= R)
    <3> HIDE DEF R, p
    <3>1. k - R \in 1 .. n /\ p + (k - R) = (p - R) + k
      BY <1>1, <1>5, <2>2
    <3>2. bytes[k] = more[k - R]
      BY <1>9, <2>2 DEF R, p
    <3> QED BY <1>8, <3>1, <3>2 DEF p
  <2> QED BY <2>1, <2>2
<1> HIDE DEF bytes, R, p
<1>11. L \in Int /\ count <= L /\ L - count = Len(rest) /\ count + 1 \in Int
  <2> HIDE DEF L, count, rest
  <2> QED BY <1>1, <1>5, <1>9
<1>12. ASSUME NEW k \in 1 .. Len(rest) PROVE rest[k] = S[(p + n) - Len(rest) + k]
  <2> DEFINE e == Len(rest)
  <2>1. \A i \in count + 1 .. L : bytes[i] \in Int
    <3>1. count + 1 .. L \subseteq 1 .. L
      <4> HIDE DEF L, count
      <4> QED BY <1>1, <1>11
    <3> QED BY <1>1, <3>1, ElementOfSeq
  <2>2. \A i \in 1 .. L - (count + 1) + 1 : rest[i] = bytes[count + 1 + i - 1]
    BY <1>11, <2>1, SubSeqProperties
  <2>3. e \in Nat /\ k \in 1 .. e /\ count + e = R + n /\ L = R + n /\ count \in Nat
    BY <1>1, <1>9
  <2> HIDE DEF e, L, count, rest
  <2>4. /\ k \in 1 .. L - (count + 1) + 1 /\ count + 1 + k - 1 = count + k
        /\ count + k \in 1 .. R + n /\ (p - R) + (count + k) = (p + n) - e + k
    BY <1>1, <1>5, <2>3
  <2>5. rest[k] = bytes[count + k]
    BY <2>2, <2>4
  <2>6. bytes[count + k] = S[(p - R) + (count + k)]
    BY <1>10, <2>4
  <2> QED BY <2>4, <2>5, <2>6 DEF e
<1>13. \A k \in 1 .. count : bytes[k] = S[(p - R) + k]
  <2>1. 1 .. count \subseteq 1 .. R + n
    <3> HIDE DEF L, count, rest
    <3> QED BY <1>1, <1>5
  <2> QED BY <1>10, <2>1
<1> HIDE DEF L, count, rest
<1> QED BY <1>6, <1>12, <1>13 DEF S, more, bytes, L, count, rest, p, R

(* The buffer that has been filled holds the data from d.offset on.        *)
LEMMA InflateGood ==
    ASSUME DInv, Inflate
    PROVE  DiskInv'
<1>1. PICK n \in Produced, b \in BufId :
          LET bytes  == d.resid \o SubSeq(Stream(Chunk), d.pos + 1, d.pos + n)
              ibleft == Len(bytes) % SECSIZE
              count  == Len(bytes) - ibleft
          IN  /\ AllocBuf(OUTSIZE, bytes, b)
              /\ d' = [d EXCEPT !.pos = @ + n, !.count = count,
                                !.resid = SubSeq(bytes, count + 1, Len(bytes)),
                                !.wbuf = [offset |-> d.offset, size |-> count,
                                          buf |-> b, data |-> 0]]
  BY DEF Inflate
<1> DEFINE bytes  == d.resid \o SubSeq(Stream(Chunk), d.pos + 1, d.pos + n)
           count  == Len(bytes) - (Len(bytes) % SECSIZE)
           rest   == SubSeq(bytes, count + 1, Len(bytes))
           w      == [offset |-> d.offset, size |-> count, buf |-> b, data |-> 0]
           B      == Before(Chunk, d.offset)
<1>2. /\ mpc = "inflate" /\ mpc' = "region" /\ todo' = todo /\ UNCHANGED fixed
      /\ UNCHANGED writer /\ image' = image /\ opt' = opt
  BY DEF Inflate, fixed
<1>3. AllocBuf(OUTSIZE, bytes, b)
  BY <1>1
<1>4. d' = [d EXCEPT !.pos = @ + n, !.count = count, !.resid = rest, !.wbuf = w]
  BY <1>1
<1>5. IInv /\ DiskGood /\ WritesGood /\ HandGood /\ Control /\ AllCovered /\ Bounded
  BY DEF DInv, DiskInv
<1>6. FixedTypes /\ LocalInv /\ BufferTypes /\ d \in Locals
  BY <1>5, Parts DEF CallerTypes
<1>7. /\ \A k \in 1 .. count : bytes[k] = Stream(Chunk)[B + k]
      /\ \A k \in 1 .. Len(rest) : rest[k] = Stream(Chunk)[(d.pos + n) - Len(rest) + k]
  BY <1>2, <1>5, <1>6, InflatedData
<1>8. SameBytes /\ bufs'[b].bytes = bytes /\ Served({})
  <2>1. /\ SameBytes /\ bufs'[b].bytes = bytes /\ disk' = disk
        /\ maxwritten' = maxwritten /\ writequeue' = writequeue
    BY <1>3, <1>6, AllocSame
  <2> QED BY <1>2, <1>5, <2>1, NothingServed
<1>9. count \in Nat
  BY <1>2, <1>6, InflatedBytes
<1> HIDE DEF bytes, count, rest, B
<1>10. w.offset = d.offset /\ w.buf = b /\ w.data = 0
  OBVIOUS
<1> HIDE DEF w
<1>11. /\ d'.pos = d.pos + n /\ d'.count = count /\ d'.resid = rest /\ d'.wbuf = w
       /\ d'.chunk = d.chunk /\ d'.offset = d.offset
  BY <1>4, <1>6 DEF Locals
<1>12. Chunk' = Chunk
  BY <1>2, <1>11 DEF Chunk
<1>13. HandGood'
  <2>1. \A k \in 1 .. count :
           bufs'[d'.wbuf.buf].bytes[d'.wbuf.data + k] = Stream(Chunk)[B + k]
    <3>1. \A k \in 1 .. count : 0 + k = k
      BY <1>9
    <3> QED BY <1>7, <1>8, <1>10, <1>11, <3>1
  <2>2. \A k \in 1 .. Len(d'.resid) :
           d'.resid[k] = Stream(Chunk)[d'.pos - Len(d'.resid) + k]
    BY <1>7, <1>11
  <2> QED BY <1>2, <1>10, <1>11, <1>12, <2>1, <2>2 DEF HandGood, B, Before, Left
<1>14. AllCovered'
  <2>1. mpc \in Busy /\ mpc' \in Busy
    BY <1>2 DEF Busy, Unzipping, Filling
  <2> QED BY <1>2, <1>5, <1>8, <1>11, <2>1, StaysCovered
<1>15. Control'
  BY <1>2, <1>5, <1>11 DEF Control, Busy, Unzipping, Filling, Raw, Ending, writer
<1>16. Bounded'
  <2>1. mpc \in Busy
    BY <1>2 DEF Busy, Unzipping, Filling
  <2> QED BY <1>5, <1>8, <2>1, BoundKept
<1> QED BY <1>8, <1>13, <1>14, <1>15, <1>16 DEF DiskInv, Served

(* split_writebuf() gives the tail its place after the head.               *)
LEMMA SplitGood ==
    ASSUME DInv, SplitWritebuf
    PROVE  DiskInv'
<1> DEFINE b == d.wbuf.buf
           e == [bufs[b] EXCEPT !.refs = @ + 1]
           w == [d.wbuf EXCEPT !.size = d.size]
           t == [offset |-> d.wbuf.offset + d.size, size |-> d.wbuf.size - d.size,
                 buf |-> d.wbuf.buf, data |-> d.wbuf.data + d.size]
<1>1. /\ mpc = "region" /\ d.count > 0 /\ mpc' = "head" /\ UNCHANGED fixed
      /\ UNCHANGED writer /\ todo' = todo /\ image' = image /\ opt' = opt
      /\ disk' = disk /\ maxwritten' = maxwritten /\ writequeue' = writequeue
  BY DEF SplitWritebuf, fixed
<1>2. IInv /\ DiskGood /\ WritesGood /\ HandGood /\ Control /\ AllCovered /\ Bounded
  BY DEF DInv, DiskInv
<1>3. BufferTypes /\ InHand /\ d \in Locals /\ d.wbuf \in WriteBuf
  BY <1>2, Parts, LocalTypes DEF CallerTypes
<1>4. b \in BufId
  BY <1>1, <1>3 DEF InHand
<1>5. SameBytes /\ bufs'[b].bytes = bufs[b].bytes
  <2>1. bufs' = [bufs EXCEPT ![b] = e]
    BY DEF SplitWritebuf
  <2>2. e.bytes = bufs[b].bytes
    BY <1>3, <1>4 DEF BufferTypes, Buffer
  <2> HIDE DEF e
  <2> QED BY <1>3, <1>4, <2>1, <2>2 DEF BufferTypes, SameBytes
<1>6. Served({})
  BY <1>1, <1>2, <1>5, NothingServed
<1>7. d' = [d EXCEPT !.wbuf = w, !.tail = t]
  BY DEF SplitWritebuf
<1>8. /\ w.offset = d.wbuf.offset /\ w.buf = b /\ w.data = d.wbuf.data
      /\ t.offset = d.wbuf.offset + d.size /\ t.data = d.wbuf.data + d.size
  BY <1>3 DEF WriteBuf
<1> HIDE DEF w, t
<1>9. /\ d'.wbuf = w /\ d'.tail = t /\ d'.chunk = d.chunk /\ d'.offset = d.offset
      /\ d'.size = d.size /\ d'.count = d.count /\ d'.resid = d.resid /\ d'.pos = d.pos
  BY <1>3, <1>7 DEF Locals
<1>10. Chunk' = Chunk
  BY <1>1, <1>9 DEF Chunk
<1>11. HandGood'
  <2>1. /\ d.wbuf.offset = d.offset
        /\ \A k \in 1 .. d.count : bufs[b].bytes[d.wbuf.data + k]
                                     = Stream(Chunk)[Before(Chunk, d.offset) + k]
    BY <1>1, <1>2 DEF HandGood
  <2>2. \A k \in 1 .. Len(d.resid) : d.resid[k] = Stream(Chunk)[d.pos - Len(d.resid) + k]
    BY <1>1, <1>2 DEF HandGood, Unzipping, Filling
  <2>3. \A k \in 1 .. d'.count :
           bufs'[d'.wbuf.buf].bytes[d'.wbuf.data + k]
             = Stream(Chunk)[Before(Chunk, d'.offset) + k]
    BY <1>5, <1>8, <1>9, <2>1
  <2>4. d'.wbuf.offset = d'.offset /\ d'.tail.offset = d'.offset + d'.size
        /\ d'.tail.data = d'.wbuf.data + d'.size
    BY <1>8, <1>9, <2>1
  <2> QED BY <1>1, <1>9, <1>10, <2>2, <2>3, <2>4 DEF HandGood, Before, Left
<1>12. AllCovered'
  <2>1. mpc \in Busy /\ mpc' \in Busy
    BY <1>1 DEF Busy, Unzipping, Filling
  <2> QED BY <1>1, <1>2, <1>6, <1>9, <2>1, StaysCovered
<1>13. Control'
  BY <1>1, <1>2, <1>9 DEF Control, Busy, Unzipping, Filling, Raw, Ending, writer
<1>14. Bounded'
  <2>1. mpc \in Busy
    BY <1>1 DEF Busy, Unzipping, Filling
  <2> QED BY <1>2, <1>6, <2>1, BoundKept
<1> QED BY <1>6, <1>11, <1>12, <1>13, <1>14 DEF DiskInv, Served

(* Between two regions there is no data, and the chunk covers the gap.     *)
LEMMA BetweenRegions ==
    ASSUME NEW c, IsChunk(c), NEW i \in 1 .. Len(c.regions), i < Len(c.regions),
           NEW a \in Hi(c, i) .. Lo(c, i + 1) - 1
    PROVE  a \in Span(c) /\ a \notin DataOf(c)
<1> DEFINE x == Hi(c, i)
           y == Lo(c, i + 1)
           f == From(c)
           t == To(c)
<1>1. i + 1 \in 1 .. Len(c.regions)
  BY RegionBytes
<1>2. /\ Lo(c, i) \in Nat /\ x \in Nat /\ Lo(c, i) < x
      /\ y \in Nat /\ Hi(c, i + 1) \in Nat /\ y < Hi(c, i + 1)
  BY <1>1, RegionBytes
<1>3. x - 1 \in Lo(c, i) .. x - 1 /\ y \in y .. Hi(c, i + 1) - 1
  BY <1>2
<1>4. x - 1 \in DataOf(c) /\ y \in DataOf(c)
  BY <1>1, <1>3, DataIs
<1>5. Span(c) = f .. t - 1 /\ f \in Nat /\ t \in Nat /\ DataOf(c) \subseteq Span(c)
  BY SpanIs
<1>6. x - 1 \in f .. t - 1 /\ y \in f .. t - 1
  BY <1>4, <1>5
<1>7. a \notin DataOf(c)
  <2> SUFFICES ASSUME a \in DataOf(c) PROVE FALSE
    OBVIOUS
  <2>1. a >= x /\ a < y /\ a \in Int
    BY <1>2
  <2>2. a \in Left(c, x)
    BY <2>1 DEF Left
  <2>3. a \in Left(c, y)
    BY <2>2, LeftGap
  <2>4. a >= y
    BY <2>3 DEF Left
  <2> HIDE DEF y
  <2> QED BY <1>2, <2>1, <2>4
<1>8. a \in f .. t - 1
  <2>1. a \in x .. y - 1
    OBVIOUS
  <2> HIDE DEF x, y, f, t
  <2> QED BY <1>2, <1>5, <1>6, <2>1
<1> QED BY <1>5, <1>7, <1>8

(* On to the next region, with the gap zeroed and the data in hand moved.  *)
LEMMA NextRegionGood ==
    ASSUME DInv, NextRegion
    PROVE  DiskInv'
<1> DEFINE C == Chunk
           i == d.region
           x == d.offset
           o == Lo(C, i + 1)
           z == sectobytes(C.regions[i + 1].size)
           b == d.wbuf.buf
           w == IF d.wbuf = NULL THEN NULL ELSE [d.wbuf EXCEPT !.offset = o]
<1>1. /\ mpc = "gap" /\ mpc' = "region" /\ image' = image /\ opt' = opt /\ todo' = todo
      /\ UNCHANGED fixed /\ UNCHANGED writer /\ wcur' = wcur /\ wpc' = wpc
      /\ mpc \in Unzipping /\ mpc \in Busy /\ mpc' \in Busy /\ mpc \notin Raw
  BY DEF NextRegion, fixed, writer, Unzipping, Filling, Busy, Raw
<1>2. IInv /\ DiskGood /\ WritesGood /\ HandGood /\ Control /\ AllCovered /\ Bounded
  BY DEF DInv, DiskInv
<1>3. /\ FixedTypes /\ BufferTypes /\ WriteTypes /\ BuffersExact
      /\ CallerTypes /\ RegionFrame /\ InHand
  BY <1>2, Parts
<1>4. /\ IsChunk(C) /\ d.chunk \in DOMAIN image /\ i \in 1 .. Len(C.regions)
      /\ x + d.size = Hi(C, i) /\ d.size = 0 /\ i < Len(C.regions)
      /\ Len(C.regions) \in Nat
  BY <1>1, <1>3, Middle DEF RegionFrame
<1>5. /\ x \in Nat /\ d \in Locals /\ d.wbuf \in WriteBuf /\ d.count \in Nat
  BY <1>3, LocalTypes DEF CallerTypes
<1>6. i + 1 \in 1 .. Len(C.regions)
  BY <1>4
<1>7. o \in Nat
  BY <1>4, <1>6, RegionBytes
<1>8. x = Hi(C, i)
  BY <1>4, <1>5
<1>9. ~opt.raw /\ d.chunk \in todo
  BY <1>1, <1>2 DEF Control
<1>10. d' = [d EXCEPT !.region = i + 1, !.offset = o, !.size = z, !.wbuf = w]
  BY DEF NextRegion, Lo, Region
<1>11. ZeroFill(x, o)
  BY DEF NextRegion, Lo, Region
<1>12. \A a \in x .. o - 1 : a \in Span(image[d.chunk]) /\ a \notin DataOf(image[d.chunk])
  BY <1>4, <1>8, BetweenRegions DEF Chunk
<1>13. PICK S : /\ Served(S) /\ S \subseteq Covered
                /\ \A a \in Nat : Due(a) /\ a - Base \notin S => a - Base \notin x .. o - 1
  <2>1. x \in Int /\ o \in Int
    BY <1>5, <1>7
  <2> HIDE DEF x, o
  <2> QED BY <1>1, <1>2, <1>4, <1>9, <1>11, <1>12, <2>1, GapFill
<1>14. d.count > 0 => /\ b \in BufId /\ bufs[b].refs > 0
                      /\ w.offset = o /\ w.buf = b /\ w.data = d.wbuf.data
  <2> SUFFICES ASSUME d.count > 0
               PROVE  /\ b \in BufId /\ bufs[b].refs > 0
                      /\ w.offset = o /\ w.buf = b /\ w.data = d.wbuf.data
    OBVIOUS
  <2>1. b \in BufId /\ b # 0
    BY <1>1, <1>3, <1>5, BufIds DEF InHand
  <2>2. bufs[b].refs > 0
    BY <1>3, <1>5, <2>1, HeldInUse
  <2>3. w = [d.wbuf EXCEPT !.offset = o]
    BY <2>1, NullIs
  <2> HIDE DEF w, o
  <2> QED BY <1>5, <2>1, <2>2, <2>3 DEF WriteBuf
<1>15. Left(C, x) = Left(C, o)
  BY <1>4, <1>8, LeftGap
<1> HIDE DEF o, z, w
<1>16. /\ d'.offset = o /\ d'.wbuf = w /\ d'.chunk = d.chunk /\ d'.pos = d.pos
       /\ d'.resid = d.resid /\ d'.count = d.count
  BY <1>5, <1>10 DEF Locals
<1>17. Chunk' = Chunk
  BY <1>1, <1>16 DEF Chunk
<1>18. AllCovered'
  <2>1. d'.offset \in Int
    BY <1>7, <1>16
  <2> QED BY <1>1, <1>2, <1>13, <1>16, <2>1, MovesOn
<1>19. HandGood'
  <2>1. ASSUME d.count > 0
        PROVE  \A k \in 1 .. d'.count :
                 bufs'[d'.wbuf.buf].bytes[d'.wbuf.data + k]
                   = Stream(C)[Before(C, d'.offset) + k]
    <3>1. \A k \in 1 .. d.count : bufs[b].bytes[d.wbuf.data + k] = Stream(C)[Before(C, x) + k]
      BY <1>1, <1>2, <2>1 DEF HandGood
    <3>2. bufs'[b].bytes = bufs[b].bytes
      BY <1>13, <1>14, <2>1 DEF Served, SameBytes
    <3>3. Before(C, x) = Before(C, o)
      BY <1>15 DEF Before
    <3> QED BY <1>14, <1>16, <2>1, <3>1, <3>2, <3>3
  <2>2. \A k \in 1 .. Len(d.resid) : d.resid[k] = Stream(C)[d.pos - Len(d.resid) + k]
    BY <1>1, <1>2 DEF HandGood
  <2>3. d.count > 0 => d'.wbuf.offset = d'.offset
    BY <1>14, <1>16
  <2> QED BY <1>1, <1>16, <1>17, <2>1, <2>2, <2>3 DEF HandGood, Before, Left
<1>20. Control'
  BY <1>1, <1>2, <1>9, <1>16 DEF Control, Busy, Unzipping, Filling, Raw, Ending, writer
<1>21. Bounded'
  BY <1>1, <1>2, <1>13, BoundKept
<1> QED BY <1>13, <1>18, <1>19, <1>20, <1>21 DEF DiskInv, Served

(* Waiting for memory and asking for more input.                           *)
LEMMA WaitingGood ==
    ASSUME DInv, AllocWait \/ AllocWoken \/ MoreInput
    PROVE  DiskInv'
<1>1. /\ UNCHANGED fixed /\ UNCHANGED writer /\ todo' = todo /\ d' = d
      /\ opt' = opt /\ image' = image /\ bufs' = bufs
      /\ disk' = disk /\ maxwritten' = maxwritten /\ writequeue' = writequeue
  BY DEF AllocWait, AllocWoken, MoreInput, fixed, shared
<1>2. \/ mpc \in {"raw", "rawwait"} /\ mpc' \in {"raw", "rawwait"}
      \/ mpc \in Unzipping /\ mpc' \in {"inflate", "inflatewait"}
  BY DEF AllocWait, AllocWoken, MoreInput, BufferDone, Unzipping, Filling
<1>3. IInv /\ DiskGood /\ WritesGood /\ HandGood /\ Control /\ AllCovered /\ Bounded
  BY DEF DInv, DiskInv
<1>4. SameBytes
  BY <1>1 DEF SameBytes
<1>5. Served({})
  BY <1>1, <1>3, <1>4, NothingServed
<1>6. HandGood'
  <2>1. mpc' \in {"raw", "rawwait"} => mpc' \notin Unzipping \cup {"rawwrite"}
    BY DEF Unzipping, Filling
  <2> QED BY <1>1, <1>2, <1>3, <1>4, <2>1, HandKept
<1>7. AllCovered'
  <2>1. mpc \in Busy /\ mpc' \in Busy
    BY <1>2 DEF Busy, Unzipping, Filling, Raw
  <2> QED BY <1>1, <1>3, <1>5, <2>1, StaysCovered
<1>8. Control'
  <2>1. Chunk' = Chunk
    BY <1>1 DEF Chunk
  <2> QED BY <1>1, <1>2, <1>3, <2>1
          DEF Control, Busy, Unzipping, Filling, Raw, Ending, writer, sectobytes
<1>9. Bounded'
  <2>1. mpc \in Busy
    BY <1>2 DEF Busy, Unzipping, Filling, Raw
  <2> QED BY <1>3, <1>5, <2>1, BoundKept
<1> QED BY <1>5, <1>6, <1>7, <1>8, <1>9 DEF DiskInv, Served

(* The last gap of a chunk is served when the chunk is done.               *)
LEMMA ChunkDoneGood ==
    ASSUME DInv, ChunkDone
    PROVE  DiskInv'
<1> DEFINE C == Chunk
           n == Len(C.regions)
           x == Hi(C, n)
           y == sectobytes(C.last)
<1>1. /\ BufferDone /\ d.pos = Len(Stream(Chunk)) /\ todo' = todo \ {d.chunk}
      /\ mpc' = "idle" /\ UNCHANGED fixed /\ UNCHANGED writer /\ d' = d
      /\ opt' = opt /\ image' = image /\ wcur' = wcur /\ wpc' = wpc
  BY DEF ChunkDone, fixed, writer
<1>2. IInv /\ DiskGood /\ WritesGood /\ HandGood /\ Control /\ AllCovered /\ Bounded
  BY DEF DInv, DiskInv
<1>3. FixedTypes /\ LocalInv /\ CallerTypes /\ RegionFrame
  BY <1>2, Parts
<1>4. mpc \in Unzipping /\ mpc \in Busy /\ mpc \notin Raw
  BY <1>1 DEF BufferDone, Unzipping, Filling, Busy, Raw
<1>5. IsChunk(C) /\ d.chunk \in DOMAIN image /\ d.offset + d.size = Hi(C, d.region)
  BY <1>3, <1>4, Middle
<1>6. ~opt.raw
  BY <1>2, <1>4 DEF Control
<1>7. d.offset = x /\ x \in Nat /\ y \in Nat
  <2>1. d.region = n /\ d.size = 0
    BY <1>1, <1>3, InputEnds
  <2>2. d.offset \in Nat
    BY <1>3, LocalTypes
  <2> QED BY <1>5, <2>1, <2>2, ChunkBytes
<1>8. \E S : /\ Served(S) /\ S \subseteq Covered
             /\ \A a \in Nat : Due(a) /\ a - Base \notin S => a - Base \notin x .. To(C) - 1
  <2>1. CASE opt.v1
    <3>1. UNCHANGED shared
      BY <2>1 DEF ChunkDone
    <3>2. SameBytes
      BY <3>1 DEF shared, SameBytes
    <3>3. Served({})
      BY <1>1, <1>2, <3>1, <3>2, NothingServed DEF shared
    <3>4. To(C) = x
      BY <1>6, <2>1 DEF To
    <3>5. x .. To(C) - 1 = {}
      BY <1>7, <3>4
    <3> QED BY <3>3, <3>5
  <2>2. CASE ~opt.v1
    <3>1. ZeroFill(x, y)
      BY <2>2 DEF ChunkDone, Hi, Region
    <3>2. To(C) = y
      BY <2>2 DEF To
    <3>3. ASSUME NEW i \in x .. y - 1 PROVE i \in Span(C) /\ i \notin DataOf(C)
      <4> DEFINE f == From(C)
                 p == Lo(C, 1)
      <4>1. /\ p < x /\ f <= p /\ f \in Nat /\ p \in Nat /\ DataOf(C) \subseteq p .. x - 1
            /\ Span(C) = f .. To(C) - 1
        BY <1>5, ChunkBytes, SpanIs
      <4>2. Span(C) = f .. y - 1
        BY <3>2, <4>1
      <4>3. /\ f \in Int /\ p \in Int /\ x \in Int /\ y \in Int /\ f <= p /\ p < x
        BY <1>7, <4>1
      <4> HIDE DEF C, f, p, x, y
      <4>4. i \in f .. y - 1 /\ i \notin p .. x - 1
        BY <4>3
      <4> QED BY <4>1, <4>2, <4>4
    <3>4. \A i \in x .. y - 1 : i \in Span(image[d.chunk]) /\ i \notin DataOf(image[d.chunk])
      BY <3>3 DEF Chunk
    <3>5. x \in Int /\ y \in Int
      BY <1>7
    <3> HIDE DEF x, y
    <3> QED BY <1>1, <1>2, <1>5, <1>6, <3>1, <3>2, <3>4, <3>5, GapFill
  <2> QED BY <2>1, <2>2
<1>9. PICK S : /\ Served(S) /\ S \subseteq Covered
               /\ \A a \in Nat : Due(a) /\ a - Base \notin S => a - Base \notin x .. To(C) - 1
  BY <1>8
<1>10. AllCovered'
  BY <1>1, <1>2, <1>4, <1>7, <1>9, ChunkEnds
<1>11. HandGood'
  <2>1. mpc' \notin Unzipping \cup {"rawwrite"}
    BY <1>1 DEF Unzipping, Filling
  <2> QED BY <1>1, <1>2, <1>9, <2>1, HandKept DEF Served
<1>12. Control'
  BY <1>1, <1>2 DEF Control, Busy, Unzipping, Filling, Raw, Ending, writer
<1>13. Bounded'
  BY <1>2, <1>4, <1>9, BoundKept
<1> QED BY <1>9, <1>10, <1>11, <1>12, <1>13 DEF DiskInv, Served

(* What is written as it is: a buffer of it is taken.                      *)
LEMMA RawAllocGood ==
    ASSUME DInv, RawAlloc
    PROVE  DiskInv'
<1> DEFINE n == Min({OUTSIZE, d.size})
           bytes == [i \in 1 .. n |-> d.offset + i - 1]
<1>1. /\ mpc = "raw" /\ mpc' = "rawwrite" /\ UNCHANGED fixed /\ UNCHANGED writer
      /\ todo' = todo /\ image' = image /\ opt' = opt
  BY DEF RawAlloc, fixed
<1>2. PICK b \in BufId :
         /\ AllocBuf(n, bytes, b)
         /\ d' = [d EXCEPT !.wbuf = [offset |-> d.offset, size |-> n, buf |-> b, data |-> 0]]
  BY DEF RawAlloc
<1> DEFINE w == [offset |-> d.offset, size |-> n, buf |-> b, data |-> 0]
<1>3. IInv /\ DiskGood /\ WritesGood /\ HandGood /\ Control /\ AllCovered /\ Bounded
  BY DEF DInv, DiskInv
<1>4. BufferTypes /\ d \in Locals /\ d.size \in Nat /\ OUTSIZE \in Nat
  BY <1>3, Parts, LocalTypes, BufIds DEF CallerTypes
<1>5. n \in Nat
  BY <1>4, MinOfTwo
<1> HIDE DEF n
<1>6. \A k \in 1 .. n : bytes[0 + k] = d.offset + k - 1
  BY <1>5
<1> HIDE DEF bytes
<1>7. w.offset = d.offset /\ w.size = n /\ w.buf = b /\ w.data = 0
  OBVIOUS
<1>8. d' = [d EXCEPT !.wbuf = w]
  BY <1>2
<1> HIDE DEF w
<1>9. /\ d'.wbuf = w /\ d'.chunk = d.chunk /\ d'.offset = d.offset /\ d'.size = d.size
  BY <1>4, <1>8 DEF Locals
<1>10. SameBytes /\ bufs'[b].bytes = bytes /\ Served({})
  <2>1. /\ SameBytes /\ bufs'[b].bytes = bytes /\ disk' = disk
        /\ maxwritten' = maxwritten /\ writequeue' = writequeue
    BY <1>2, <1>4, AllocSame
  <2> QED BY <1>1, <1>3, <2>1, NothingServed
<1>11. HandGood'
  <2>1. \A k \in 1 .. d'.wbuf.size :
           bufs'[d'.wbuf.buf].bytes[d'.wbuf.data + k] = d'.offset + k - 1
    BY <1>6, <1>7, <1>9, <1>10
  <2> QED BY <1>1, <1>7, <1>9, <2>1 DEF HandGood, Unzipping, Filling
<1>12. AllCovered'
  <2>1. mpc \in Busy /\ mpc' \in Busy
    BY <1>1 DEF Busy, Raw
  <2> QED BY <1>1, <1>3, <1>9, <1>10, <2>1, StaysCovered
<1>13. Control'
  <2>1. Chunk' = Chunk
    BY <1>1, <1>9 DEF Chunk
  <2> QED BY <1>1, <1>3, <1>9, <2>1
          DEF Control, Busy, Unzipping, Filling, Raw, Ending, writer, sectobytes
<1>14. Bounded'
  <2>1. mpc \in Busy
    BY <1>1 DEF Busy, Raw
  <2> QED BY <1>3, <1>10, <2>1, BoundKept
<1> QED BY <1>10, <1>11, <1>12, <1>13, <1>14 DEF DiskInv, Served

(* The buffer goes to the disk as it is.                                   *)
LEMMA RawWriteGood ==
    ASSUME DInv, RawWrite
    PROVE  DiskInv'
<1> DEFINE C == Chunk
           o == d.offset
           z == d.wbuf.size
           b == d.wbuf.buf
           f == sectobytes(C.first)
           l == sectobytes(C.last)
           S == o .. o + z - 1
<1>1. /\ mpc = "rawwrite" /\ DoWriteRequest(d.wbuf) /\ mpc' = "raw"
      /\ UNCHANGED fixed /\ UNCHANGED writer /\ todo' = todo
      /\ opt' = opt /\ image' = image /\ wcur' = wcur /\ wpc' = wpc
  BY DEF RawWrite, fixed, writer
<1>2. IInv /\ DiskGood /\ WritesGood /\ HandGood /\ Control /\ AllCovered /\ Bounded
  BY DEF DInv, DiskInv
<1>3. /\ FixedTypes /\ BufferTypes /\ WriteTypes /\ BuffersExact /\ DiskTypes
      /\ CallerTypes /\ InHand
  BY <1>2, Parts
<1>4. mpc \in Busy /\ mpc \in Raw /\ mpc' \in Busy /\ mpc' \in Raw
  BY <1>1 DEF Busy, Raw
<1>5. /\ opt.raw /\ d.chunk \in todo /\ d.chunk \in DOMAIN image
      /\ f <= o /\ o + d.size = l
  BY <1>2, <1>3, <1>4, BaseIs DEF Control, CallerTypes
<1>6. /\ b \in BufId /\ z \in 1 .. d.size /\ o \in Nat /\ d.size \in Nat
      /\ d.wbuf \in WriteBuf /\ d \in Locals /\ b # 0 /\ d.wbuf.data \in Int
  BY <1>1, <1>3, LocalTypes, BufIds DEF InHand, CallerTypes, WriteBuf
<1>7. bufs[b].refs > 0
  BY <1>3, <1>6, HeldInUse
<1>8. IsChunk(C) /\ f \in Nat /\ l \in Nat
  <2>1. IsChunk(C)
    BY <1>3, <1>5, ChunksAre DEF Chunk
  <2> QED BY <2>1, ChunkBytes
<1>9. /\ d.wbuf.offset = o
      /\ \A k \in 1 .. z : bufs[b].bytes[d.wbuf.data + k] = o + k - 1
  BY <1>1, <1>2 DEF HandGood
<1>10. Touched(d.wbuf) = S
  BY <1>9 DEF Touched
<1>11. RequestGood(d.wbuf) /\ Touched(d.wbuf) \subseteq Covered
  <2> SUFFICES ASSUME NEW i \in S
               PROVE  Byte(bufs, d.wbuf, i) = i /\ i \in Copied
    BY <1>3, <1>10, CopyGood
  <2> DEFINE k == i - o + 1
             e == d.wbuf.data
  <2>1. i \in o .. o + z - 1
    OBVIOUS
  <2>2. Byte(bufs, d.wbuf, i) = bufs[b].bytes[e + (i - o) + 1]
    BY <1>6, <1>9 DEF Byte
  <2>3. /\ k \in 1 .. z /\ o + k - 1 = i /\ e + (i - o) + 1 = e + k /\ i \in f .. l - 1
    <3>1. /\ e \in Int /\ z \in 1 .. d.size /\ o \in Nat /\ d.size \in Nat
          /\ f \in Nat /\ l \in Nat /\ f <= o /\ o + d.size = l
      BY <1>5, <1>6, <1>8
    <3> HIDE DEF e, z, o, f, l, C, S
    <3> QED BY <2>1, <3>1
  <2>4. i \in Copied
    BY <1>5, <2>3 DEF Copied, Extent, Chunk
  <2> QED BY <1>9, <2>2, <2>3, <2>4
<1>12. Served(S)
  BY <1>1, <1>2, <1>3, <1>6, <1>7, <1>10, <1>11, DoWriteGood
<1>13. /\ d'.offset = o + z /\ d'.size = d.size - z /\ d'.chunk = d.chunk
  BY <1>6 DEF RawWrite, Locals
<1>14. AllCovered'
  <2>1. d'.offset \in Int /\ d.offset .. d'.offset - 1 = S
    BY <1>6, <1>13
  <2> HIDE DEF S
  <2> QED BY <1>1, <1>2, <1>4, <1>12, <1>13, <2>1, MovesOn
<1>15. HandGood'
  BY <1>1 DEF HandGood, Unzipping, Filling
<1>16. Control'
  <2>1. Chunk' = Chunk
    BY <1>1, <1>13 DEF Chunk
  <2>2. f <= d'.offset /\ d'.offset + d'.size = l
    <3> HIDE DEF f, l, o, z
    <3> QED BY <1>5, <1>6, <1>8, <1>13
  <2> QED BY <1>1, <1>2, <1>5, <1>13, <2>1, <2>2
          DEF Control, Busy, Unzipping, Filling, Raw, Ending, writer, sectobytes
<1>17. Bounded'
  <2>1. S \subseteq Covered
    BY <1>10, <1>11
  <2> QED BY <1>2, <1>4, <1>12, <2>1, BoundKept
<1> QED BY <1>12, <1>14, <1>15, <1>16, <1>17 DEF DiskInv, Served

(* The end of a chunk that is written as it is.                            *)
LEMMA RawDoneGood ==
    ASSUME DInv, RawDone
    PROVE  DiskInv'
<1>1. /\ mpc = "raw" /\ d.size = 0 /\ todo' = todo \ {d.chunk} /\ mpc' = "idle"
      /\ UNCHANGED fixed /\ UNCHANGED shared /\ UNCHANGED writer /\ d' = d
      /\ opt' = opt /\ image' = image
  BY DEF RawDone, fixed
<1>2. IInv /\ DiskGood /\ WritesGood /\ HandGood /\ Control /\ AllCovered /\ Bounded
  BY DEF DInv, DiskInv
<1>3. mpc \in Busy /\ mpc \in Raw
  BY <1>1 DEF Busy, Raw
<1>4. SameBytes
  BY <1>1 DEF shared, SameBytes
<1>5. Served({})
  BY <1>1, <1>2, <1>4, NothingServed DEF shared
<1>6. d.offset .. To(Chunk) - 1 = {}
  <2>1. opt.raw /\ d.offset + d.size = sectobytes(Chunk.last)
    BY <1>2, <1>3, Parts, BaseIs DEF Control
  <2>2. d.offset \in Nat
    BY <1>2, Parts, LocalTypes
  <2>3. To(Chunk) = d.offset
    BY <1>1, <2>1, <2>2 DEF To
  <2> QED BY <2>2, <2>3
<1>7. AllCovered'
  BY <1>1, <1>2, <1>3, <1>5, <1>6, ChunkEnds
<1>8. HandGood'
  BY <1>1 DEF HandGood, Unzipping, Filling
<1>9. Control'
  BY <1>1, <1>2 DEF Control, Busy, Unzipping, Filling, Raw, Ending, writer
<1>10. Bounded'
  BY <1>2, <1>3, <1>5, BoundKept
<1> QED BY <1>5, <1>7, <1>8, <1>9, <1>10 DEF DiskInv, Served

-----------------------------------------------------------------------------
(* The end.                                                                *)

(* zero_remainder() has nothing to do unless it is to fill a whole disk.   *)
LEMMA FlushGood ==
    ASSUME DInv, Flush
    PROVE  DiskInv'
<1>1. /\ mpc = "idle" /\ todo = {} /\ todo' = todo /\ d' = d
      /\ UNCHANGED fixed /\ UNCHANGED shared /\ UNCHANGED writer
      /\ opt' = opt /\ image' = image
      /\ mpc' = IF opt.fill /\ opt.max = 0 THEN "remainder" ELSE "drain"
  BY DEF Flush, fixed
<1>2. IInv /\ DiskGood /\ WritesGood /\ HandGood /\ Control /\ AllCovered /\ Bounded
  BY DEF DInv, DiskInv
<1>3. FixedTypes
  BY <1>2, Parts
<1>4. SameBytes
  BY <1>1 DEF shared, SameBytes
<1>5. Served({})
  BY <1>1, <1>2, <1>4, NothingServed DEF shared
<1>6. ASSUME NEW a \in Nat, Due(a), ToCome(a)
      PROVE  Coming(mpc', todo', d'.chunk, d'.offset, a)
  <2> DEFINE i == a - Base
             M == Max(Covered)
  <2>1. opt.max = 0 /\ i > M
    BY <1>1, <1>6 DEF ToCome, Coming
  <2>2. i \notin Copied
    <3>1. /\ Copied \subseteq Covered /\ Covered \subseteq Nat
          /\ M \in Covered /\ \A j \in Covered : j <= M
      BY <1>3, CoveredIs
    <3> HIDE DEF i, M
    <3>2. i \in Copied => i <= M /\ i \in Nat /\ M \in Nat
      BY <3>1
    <3> QED BY <2>1, <3>2
  <2>3. opt.fill
    BY <1>3, <1>6, <2>2, WantedIs DEF Due
  <2> QED BY <1>1, <2>1, <2>3 DEF Coming
<1>7. AllCovered'
  BY <1>1, <1>2, <1>3, <1>5, <1>6, Covers
<1>8. HandGood'
  BY <1>1 DEF HandGood, Unzipping, Filling
<1>9. Control'
  BY <1>1, <1>2 DEF Control, Busy, Unzipping, Filling, Raw, Ending, writer
<1>10. Bounded'
  BY <1>1, <1>2, <1>5, BoundKept
<1> QED BY <1>5, <1>7, <1>8, <1>9, <1>10 DEF DiskInv, Served

(* When nothing is queued or being written, what is due has been done or   *)
(* is still to come.                                                       *)
LEMMA DrainedDone ==
    ASSUME DInv, writequeue = <<>>, wpc # "write", mpc # "exit",
           NEW a \in Nat, Due(a), ~ToCome(a)
    PROVE  Done(a)
<1>1. Handled(a)
  BY DEF DInv, DiskInv, AllCovered
<1> QED BY <1>1 DEF Handled, Queued

(* The image has been written up to its last byte when the writer has      *)
(* caught up, and the rest of the disk is zeroed from there.               *)
LEMMA ZeroRemainderGood ==
    ASSUME DInv, ZeroRemainder
    PROVE  DiskInv'
<1> DEFINE M == Max(Covered)
           x == maxwritten
           S == x .. DiskBytes - 1
<1>1. /\ mpc = "remainder" /\ Drained /\ ZeroFill(x, DiskBytes) /\ mpc' = "drain"
      /\ todo' = todo /\ d' = d /\ UNCHANGED fixed /\ UNCHANGED writer
      /\ opt' = opt /\ image' = image /\ wcur' = wcur /\ wpc' = wpc
  BY DEF ZeroRemainder, fixed, writer
<1>2. IInv /\ DiskGood /\ WritesGood /\ HandGood /\ Control /\ AllCovered /\ Bounded
  BY DEF DInv, DiskInv
<1>3. FixedTypes /\ BufferTypes /\ WriteTypes /\ BuffersExact /\ DiskTypes
  BY <1>2, Parts
<1>4. opt.fill /\ opt.max = 0 /\ todo = {}
  BY <1>1, <1>2 DEF Control, Ending
<1>5. Base = 0 /\ DiskBytes \in Nat /\ x \in Int
  BY <1>3, <1>4, BaseIs DEF DiskTypes
<1>6. M \in Nat /\ M \in Covered /\ \A j \in Covered : j <= M /\ j \in Nat
  BY <1>3, CoveredIs
<1>7. M - Base = M /\ M \in Int
  BY <1>5, <1>6
<1>8. Wanted(M) # Old
  <2>1. Inside(M)
    BY <1>4 DEF Inside
  <2>2. CASE M \in Copied
    BY <1>3, <1>7, <2>1, <2>2, WantedIs
  <2>3. CASE M \notin Copied
    BY <1>3, <1>4, <1>6, <1>7, <2>1, <2>3, WantedIs
  <2> QED BY <2>2, <2>3
<1>9. ~ToCome(M)
  <2>1. ~(M > M)
    BY <1>6
  <2> QED BY <1>4, <1>7, <2>1 DEF ToCome, Coming
<1>10. Done(M)
  <2>1. writequeue = <<>> /\ wpc # "write"
    BY <1>1, <1>2 DEF Drained, Control
  <2>2. Due(M)
    BY <1>6, <1>7, <1>8 DEF Due
  <2> QED BY <1>1, <1>6, <1>9, <2>1, <2>2, DrainedDone
<1>11. x > M /\ x <= M + 1
  BY <1>1, <1>2, <1>4, <1>10 DEF Done, Bounded, Bound
<1>12. x = M + 1
  <2> HIDE DEF M, x
  <2> QED BY <1>5, <1>6, <1>11
<1>13. Served(S)
  <2>1. ASSUME NEW i \in S PROVE Wanted(i + Base) = Zero
    <3>1. i \in x .. DiskBytes - 1
      OBVIOUS
    <3>2. i \in Int /\ i > M
      <4> HIDE DEF M, x, S
      <4> QED BY <1>5, <1>6, <1>12, <3>1
    <3>3. i + Base = i /\ i - Base = i
      BY <1>5, <3>2
    <3> QED BY <1>3, <1>4, <3>2, <3>3, WantedIs
  <2>2. Served(IF opt.fill THEN x .. DiskBytes - 1 ELSE {})
    BY <1>1, <1>2, <1>3, <1>5, <2>1, ZeroFillGood
  <2> QED BY <1>4, <2>2
<1>14. AllCovered'
  <2>1. ASSUME NEW a \in Nat, Due(a), ToCome(a), a - Base \notin S PROVE FALSE
    <3>1. a - Base = a
      BY <1>5
    <3>2. a > M
      BY <1>4, <2>1, <3>1 DEF ToCome, Coming
    <3>3. a \notin Covered
      <4> HIDE DEF M
      <4> QED BY <1>6, <3>2
    <3>4. a < DiskBytes
      BY <2>1, <3>1, <3>3 DEF Due
    <3>5. a \notin x .. DiskBytes - 1
      BY <2>1, <3>1
    <3> HIDE DEF M, x, S
    <3> QED BY <1>5, <1>6, <1>12, <3>2, <3>4, <3>5
  <2> HIDE DEF S
  <2> QED BY <1>1, <1>2, <1>3, <1>13, <2>1, Covers
<1>15. HandGood'
  BY <1>1 DEF HandGood, Unzipping, Filling
<1>16. Control'
  BY <1>1, <1>2 DEF Control, Busy, Unzipping, Filling, Raw, Ending, writer
<1>17. Bounded'
  BY <1>1 DEF Bounded
<1> QED BY <1>13, <1>14, <1>15, <1>16, <1>17 DEF DiskInv, Served

(* threadwait() and threadquit(): the queue is empty and no write is being *)
(* carried out.                                                            *)
LEMMA FlushedGood ==
    ASSUME DInv, ThreadWait \/ Quit
    PROVE  DiskInv'
<1>1. /\ mpc \in {"drain", "flushed"} /\ mpc' \in {"flushed", "done"} /\ Drained
      /\ todo' = todo /\ d' = d /\ UNCHANGED fixed /\ UNCHANGED shared
      /\ opt' = opt /\ image' = image /\ wcur' = wcur
      /\ writeinprogress' = writeinprogress /\ wpc' \in {wpc, "cancelled"}
  BY DEF ThreadWait, Quit, fixed, writer
<1>2. IInv /\ DiskGood /\ WritesGood /\ HandGood /\ Control /\ AllCovered /\ Bounded
  BY DEF DInv, DiskInv
<1>3. /\ FixedTypes /\ BufferTypes /\ WriteTypes /\ BuffersExact
  BY <1>2, Parts
<1>4. wpc # "write" /\ wpc' # "write" /\ writequeue' = <<>>
  BY <1>1, <1>2 DEF Drained, Control, shared
<1>5. SameBytes
  BY <1>1 DEF shared, SameBytes
<1>6. Served({})
  BY <1>1, <1>2, <1>3, <1>4, <1>5, QuietServes DEF shared
<1>7. ASSUME NEW a \in Nat, ToCome(a) PROVE Coming(mpc', todo', d'.chunk, d'.offset, a)
  <2>1. todo = {}
    BY <1>1, <1>2 DEF Control, Ending
  <2> QED BY <1>1, <1>7, <2>1 DEF ToCome, Coming
<1>8. AllCovered'
  BY <1>1, <1>2, <1>3, <1>6, <1>7, Covers
<1>9. HandGood'
  BY <1>1 DEF HandGood, Unzipping, Filling
<1>10. Control'
  BY <1>1, <1>2, <1>4 DEF Control, Busy, Unzipping, Filling, Raw, Ending
<1>11. Bounded'
  BY <1>1 DEF Bounded
<1> QED BY <1>6, <1>8, <1>9, <1>10, <1>11 DEF DiskInv, Served

-----------------------------------------------------------------------------
(* DiskWriter().                                                           *)

(* A step that leaves the caller's thread alone.                           *)
LEMMA WriterKeeps ==
    ASSUME DInv, opt' = opt, image' = image, mpc' = mpc, todo' = todo, d' = d,
           Served({}), wpc' = "write" => writeinprogress',
           mpc \in {"flushed", "done"} => writequeue' = <<>> /\ wpc' # "write"
    PROVE  DiskInv'
<1>1. IInv /\ DiskGood /\ WritesGood /\ HandGood /\ Control /\ AllCovered /\ Bounded
  BY DEF DInv, DiskInv
<1>2. FixedTypes
  BY <1>1, Parts
<1>3. HandGood'
  BY <1>1, HandKept DEF Served
<1>4. AllCovered'
  <2>1. CASE mpc = "exit"
    BY <2>1 DEF AllCovered
  <2>2. CASE mpc # "exit"
    <3>1. \A a \in Nat : ToCome(a) => Coming(mpc', todo', d'.chunk, d'.offset, a)
      BY DEF ToCome
    <3> QED BY <1>1, <1>2, <2>2, <3>1, Covers
  <2> QED BY <2>1, <2>2
<1>5. Control'
  <2>1. Chunk' = Chunk
    BY DEF Chunk
  <2> QED BY <1>1, <2>1 DEF Control, Busy, Unzipping, Filling, Raw, Ending, sectobytes
<1>6. Bounded'
  <2>1. Bound => Bound'
    BY DEF Served
  <2> QED BY <1>1, <2>1 DEF Bounded
<1> QED BY <1>3, <1>4, <1>5, <1>6 DEF DiskInv, Served

(* A write that is taken off the queue is being carried out.               *)
LEMMA WriterTakeGood ==
    ASSUME DInv, WriterTake
    PROVE  DiskInv'
<1> DEFINE q == writequeue
           n == Len(writequeue)
           r == writequeue'
<1>1. /\ q # <<>> /\ wcur' = Head(q) /\ r = Tail(q) /\ writeinprogress' = TRUE
      /\ wpc = "take" /\ wpc' = "write" /\ opt' = opt /\ image' = image
      /\ disk' = disk /\ maxwritten' = maxwritten /\ bufs' = bufs
      /\ mpc' = mpc /\ todo' = todo /\ d' = d
  BY DEF WriterTake, fixed
<1>2. IInv /\ DiskGood /\ WritesGood /\ Control
  BY DEF DInv, DiskInv
<1>3. q \in Seq(WriteBuf)
  BY <1>2, Parts DEF WriteTypes
<1>4. /\ n \in Nat \ {0} /\ DOMAIN q = 1 .. n /\ DOMAIN r = 1 .. n - 1
      /\ wcur' = q[1] /\ \A i \in 1 .. n - 1 : r[i] = q[i + 1]
  <2>1. /\ r \in Seq(WriteBuf) /\ Len(r) = n - 1
        /\ \A i \in 1 .. Len(r) : r[i] = q[i + 1]
    BY <1>1, <1>3, HeadTailProperties
  <2>2. DOMAIN q = 1 .. n /\ DOMAIN r = 1 .. Len(r) /\ n \in Nat
    BY <1>3, <2>1, LenProperties
  <2>3. n # 0
    BY <1>1, <1>3, EmptySeq
  <2>4. Head(q) = q[1]
    BY <1>3
  <2> QED BY <1>1, <2>1, <2>2, <2>3, <2>4
<1> HIDE DEF n
<1>5. 1 \in DOMAIN q /\ \A i \in DOMAIN r : i + 1 \in DOMAIN q /\ r[i] = q[i + 1]
  BY <1>4
<1>6. WritesGood'
  <2>1. Good(bufs', wcur')
    BY <1>1, <1>2, <1>4, <1>5 DEF WritesGood
  <2>2. \A i \in DOMAIN r : Good(bufs', r[i])
    BY <1>1, <1>2, <1>5 DEF WritesGood
  <2> QED BY <1>1, <2>1, <2>2, WritesGoodPrime
<1>7. \A a : Wanted(a)' = Wanted(a)
  BY <1>1, WantedKept
<1>8. DiskGood' /\ \A a \in Nat : Done(a) => Done(a)'
  BY <1>1, <1>2, <1>7 DEF DiskGood, Done, DiskBytes, sectobytes, Old
<1>9. ASSUME NEW a \in Nat, Queued(a) PROVE Queued(a)'
  <2>1. PICK i \in DOMAIN q : a \in Touched(q[i])
    BY <1>1, <1>9 DEF Queued
  <2>2. CASE i = 1
    BY <1>1, <1>4, <2>1, <2>2 DEF Queued, Touched
  <2>3. CASE i # 1
    <3>1. i - 1 \in 1 .. n - 1 /\ (i - 1) + 1 = i
      BY <1>4, <2>3
    <3>2. i - 1 \in DOMAIN r /\ r[i - 1] = q[i]
      BY <1>4, <3>1
    <3> QED BY <2>1, <3>2 DEF Queued, Touched
  <2> QED BY <2>2, <2>3
<1>10. SameBytes
  BY <1>1 DEF SameBytes
<1>11. Bound => Bound'
  <2> SUFFICES ASSUME Bound PROVE Bound'
    OBVIOUS
  <2>1. opt.max = 0 => /\ Short(wcur') /\ maxwritten' <= Max(Covered) + 1
                       /\ \A i \in DOMAIN r : Short(r[i])
    BY <1>1, <1>4, <1>5 DEF Bound
  <2> QED BY <1>1, <2>1, BoundPrime
<1>12. Served({})
  BY <1>6, <1>8, <1>9, <1>10, <1>11 DEF Served, Handled
<1>13. mpc \notin {"flushed", "done"}
  BY <1>1, <1>2 DEF Control
<1> QED BY <1>1, <1>12, <1>13, WriterKeeps

(* The write is carried out.                                               *)
LEMMA WriterWriteGood ==
    ASSUME DInv, WriterWrite
    PROVE  DiskInv'
<1>1. /\ wpc = "write" /\ Write(wcur) /\ wpc' = "free" /\ opt' = opt /\ image' = image
      /\ bufs' = bufs /\ wcur' = wcur /\ writequeue' = writequeue
      /\ mpc' = mpc /\ todo' = todo /\ d' = d
  BY DEF WriterWrite, fixed
<1>2. IInv /\ DiskGood /\ WritesGood /\ Control
  BY DEF DInv, DiskInv
<1>3. DiskTypes /\ wcur \in WriteBuf /\ Good(bufs, wcur)
  BY <1>2, Parts DEF WriteTypes, WritesGood
<1>4. DiskGood' /\ \A a \in Nat : Done(a) \/ a \in Touched(wcur) => Done(a)'
  BY <1>1, <1>2, <1>3, WriteGood
<1>5. WritesGood'
  BY <1>1, <1>2, WritesGoodPrime DEF WritesGood
<1>6. SameBytes
  BY <1>1 DEF SameBytes
<1>7. ASSUME NEW a \in Nat, Handled(a) PROVE Handled(a)'
  <2>1. CASE Done(a) \/ a \in Touched(wcur)
    BY <1>4, <2>1 DEF Handled
  <2>2. CASE \E i \in DOMAIN writequeue : a \in Touched(writequeue[i])
    BY <1>1, <2>2 DEF Handled, Queued, Touched
  <2> QED BY <1>7, <2>1, <2>2 DEF Handled, Queued
<1>8. Bound => Bound'
  <2> SUFFICES ASSUME Bound PROVE Bound'
    OBVIOUS
  <2>1. opt.max = 0 => maxwritten' <= Max(Covered) + 1
    BY <1>1, <1>3, WriteShort DEF Bound
  <2> QED BY <1>1, <2>1, BoundPrime DEF Bound
<1>9. Served({})
  BY <1>4, <1>5, <1>6, <1>7, <1>8 DEF Served
<1>10. mpc \notin {"flushed", "done"}
  BY <1>1, <1>2 DEF Control
<1> QED BY <1>1, <1>9, <1>10, WriterKeeps

(* The writer drops its reference and says that it is done.                *)
LEMMA WriterFreeGood ==
    ASSUME DInv, WriterFree \/ WriterClear
    PROVE  DiskInv'
<1>1. /\ opt' = opt /\ image' = image /\ mpc' = mpc /\ todo' = todo /\ d' = d
      /\ disk' = disk /\ maxwritten' = maxwritten /\ writequeue' = writequeue
      /\ wpc # "write" /\ wpc' # "write"
  BY DEF WriterFree, WriterClear, fixed, shared
<1>2. IInv /\ DiskGood /\ WritesGood /\ Control
  BY DEF DInv, DiskInv
<1>3. BufferTypes /\ WriteTypes /\ BuffersExact /\ wcur \in WriteBuf
  BY <1>2, Parts DEF WriteTypes
<1>4. SameBytes /\ wcur' \in {wcur, NULL}
  <2>1. CASE WriterFree
    <3>1. wcur.buf # 0 => wcur.buf \in BufId
      BY <1>3 DEF WriteBuf
    <3> QED BY <1>3, <2>1, <3>1, FreeSame DEF WriterFree
  <2>2. CASE WriterClear
    BY <2>2 DEF WriterClear, shared, SameBytes
  <2> QED BY <2>1, <2>2
<1>5. WritesGood'
  <2>1. Good(bufs', wcur')
    <3>1. CASE wcur' = NULL
      <4>1. Touched(NULL) = {}
        BY DEF Touched, NULL
      <4> QED BY <3>1, <4>1 DEF Good
    <3>2. CASE wcur' = wcur
      <4>1. wcur.buf # 0 => wcur.buf \in BufId /\ bufs[wcur.buf].refs > 0
        BY <1>3, HeldInUse
      <4> QED BY <1>2, <1>4, <3>2, <4>1, GoodKept DEF WritesGood
    <3> QED BY <1>4, <3>1, <3>2
  <2>2. ASSUME NEW i \in DOMAIN writequeue' PROVE Good(bufs', writequeue'[i])
    <3>1. i \in DOMAIN writequeue /\ Good(bufs, writequeue[i])
      BY <1>1, <1>2 DEF WritesGood
    <3>2. writequeue[i].buf # 0 =>
            writequeue[i].buf \in BufId /\ bufs[writequeue[i].buf].refs > 0
      BY <1>3, <3>1, QueuedInUse
    <3> QED BY <1>1, <1>4, <3>1, <3>2, GoodKept
  <2> QED BY <1>1, <2>1, <2>2, WritesGoodPrime
<1>6. \A a : Wanted(a)' = Wanted(a)
  BY <1>1, WantedKept
<1>7. DiskGood' /\ \A a \in Nat : Done(a) => Done(a)'
  BY <1>1, <1>2, <1>6 DEF DiskGood, Done, DiskBytes, sectobytes, Old
<1>8. \A a \in Nat : Handled(a) => Handled(a)'
  BY <1>1, <1>7 DEF Handled, Queued, Touched
<1>9. Bound => Bound'
  BY <1>1, BoundPrime DEF Bound
<1>10. Served({})
  BY <1>4, <1>5, <1>7, <1>8, <1>9 DEF Served
<1>11. mpc \in {"flushed", "done"} => writequeue' = <<>>
  BY <1>1, <1>2 DEF Control
<1> QED BY <1>1, <1>10, <1>11, WriterKeeps

(* exit(1) ends the program; what is on the disk stays right.              *)
LEMMA ExitGood ==
    ASSUME DInv, Exit
    PROVE  DiskInv'
<1>1. /\ mpc' = "exit" /\ wpc' = "exit" /\ UNCHANGED shared /\ wcur' = wcur
      /\ opt' = opt /\ image' = image /\ d' = d
  BY DEF Exit, fixed
<1>2. DiskGood /\ WritesGood
  BY DEF DInv, DiskInv
<1>3. \A a : Wanted(a)' = Wanted(a)
  BY <1>1, WantedKept
<1>4. DiskGood'
  BY <1>1, <1>2, <1>3 DEF shared, DiskGood, DiskBytes, sectobytes, Old
<1>5. WritesGood'
  BY <1>1, <1>2, WritesGoodPrime DEF shared, WritesGood
<1>6. HandGood' /\ AllCovered' /\ Bounded'
  BY <1>1 DEF HandGood, AllCovered, Bounded, Unzipping, Filling
<1>7. Control'
  BY <1>1 DEF Control, Busy, Unzipping, Filling, Raw, Ending
<1> QED BY <1>4, <1>5, <1>6, <1>7 DEF DiskInv

-----------------------------------------------------------------------------
(* The theorems.                                                           *)

(* At first nothing is written and all of the image is to come.            *)
LEMMA InitDInv == Init => DInv
<1> SUFFICES ASSUME Init PROVE DInv
  OBVIOUS
<1>1. IInv
  BY InitIInv
<1>2. FixedTypes
  BY <1>1, Parts
<1>3. /\ disk = [a \in 0 .. DiskBytes - 1 |-> Old] /\ maxwritten = 0
      /\ writequeue = <<>> /\ wcur = NULL /\ mpc = "idle" /\ todo = DOMAIN image
      /\ wpc \in {"take", "none"}
  BY DEF Init
<1>4. DiskGood
  BY <1>3 DEF DiskGood
<1>5. WritesGood
  <2>1. Touched(NULL) = {}
    BY DEF Touched, NULL
  <2> QED BY <1>3, <2>1 DEF WritesGood, Good
<1>6. HandGood
  BY <1>3 DEF HandGood, Unzipping, Filling
<1>7. Control
  BY <1>3 DEF Control, Busy, Unzipping, Filling, Raw, Ending
<1>8. AllCovered
  <2> SUFFICES ASSUME NEW a \in Nat, Due(a) PROVE ToCome(a)
    BY DEF AllCovered
  <2>1. \/ a - Base \in Covered
        \/ opt.max = 0 /\ a - Base > Max(Covered)
    BY <1>2, WantedIs, CoveredIs DEF Due
  <2>2. CASE a - Base \in Covered
    <3>1. PICK c \in DOMAIN image : a - Base \in Span(image[c])
      BY <1>2, <2>2, CoveredIs
    <3> QED BY <1>3, <3>1 DEF ToCome, Coming, Busy, Unzipping, Filling, Raw
  <2>3. CASE opt.max = 0 /\ a - Base > Max(Covered)
    BY <1>3, <2>3 DEF ToCome, Coming
  <2> QED BY <2>1, <2>2, <2>3
<1>9. Bounded
  <2>1. Max(Covered) \in Nat
    BY <1>2, CoveredIs
  <2>2. maxwritten <= Max(Covered) + 1
    BY <1>3, <2>1
  <2> QED BY <1>3, <2>2 DEF Bounded, Bound
<1> QED BY <1>1, <1>4, <1>5, <1>6, <1>7, <1>8, <1>9 DEF DInv, DiskInv

(* Every step of the two threads.                                          *)
LEMMA NextDInv == DInv /\ [Next]_vars => DInv'
<1> SUFFICES ASSUME DInv, [Next]_vars PROVE DInv'
  OBVIOUS
<1>1. IInv'
  BY NextIInv DEF DInv
<1>2. CASE vars' = vars
  <2>1. /\ opt' = opt /\ image' = image /\ mpc' = mpc /\ todo' = todo /\ d' = d
        /\ UNCHANGED fixed /\ UNCHANGED shared /\ UNCHANGED writer
    BY <1>2 DEF vars, fixed
  <2>2. IInv /\ DiskGood /\ WritesGood /\ Control
    BY DEF DInv, DiskInv
  <2>3. SameBytes
    BY <2>1 DEF shared, SameBytes
  <2>4. Served({})
    BY <2>1, <2>2, <2>3, NothingServed DEF shared
  <2>5. /\ wpc' = "write" => writeinprogress'
        /\ mpc \in {"flushed", "done"} => writequeue' = <<>> /\ wpc' # "write"
    BY <2>1, <2>2 DEF Control, shared, writer
  <2> QED BY <1>1, <2>1, <2>4, <2>5, WriterKeeps DEF DInv
<1>3. CASE Caller
  <2>1. CASE \E c \in todo : UnzipChunk(c) \/ WriteChunk(c)
    BY <1>1, <2>1, UnzipChunkGood, WriteChunkGood DEF DInv
  <2>2. CASE Inflate \/ SplitWritebuf \/ WriteRegion \/ WriteHead
    BY <1>1, <2>2, InflateGood, SplitGood, WriteRegionGood DEF DInv
  <2>3. CASE NextRegion \/ ChunkDone \/ AllocWait \/ AllocWoken \/ MoreInput
    BY <1>1, <2>3, NextRegionGood, ChunkDoneGood, WaitingGood DEF DInv
  <2>4. CASE RawAlloc \/ RawWrite \/ RawDone
    BY <1>1, <2>4, RawAllocGood, RawWriteGood, RawDoneGood DEF DInv
  <2>5. CASE Flush \/ ZeroRemainder \/ ThreadWait \/ Quit
    BY <1>1, <2>5, FlushGood, ZeroRemainderGood, FlushedGood DEF DInv
  <2> QED BY <1>3, <2>1, <2>2, <2>3, <2>4, <2>5 DEF Caller
<1>4. CASE DiskWriter \/ WriteFails \/ ChunkRefused
  BY <1>1, <1>4, WriterTakeGood, WriterWriteGood, WriterFreeGood, ExitGood
     DEF DInv, DiskWriter, WriteFails, ChunkRefused
<1> QED BY <1>2, <1>3, <1>4 DEF Next

(* The inductive invariant: every byte the image wants is on the disk, in  *)
(* a write that is queued or being carried out, or still to come.          *)
THEOREM SpecDInv == Spec => []DInv
<1>1. Init => DInv
  BY InitDInv
<1>2. DInv /\ [Next]_vars => DInv'
  BY NextDInv
<1> QED BY <1>1, <1>2, PTL DEF Spec

(* After the flush nothing is on its way and nothing is to come.           *)
LEMMA DiskFollows == DInv => DiskExact
<1> SUFFICES ASSUME DInv PROVE DiskExact
  OBVIOUS
<1>1. IInv /\ DiskGood /\ Control
  BY DEF DInv, DiskInv
<1>2. FixedTypes /\ DiskBytes \in Nat
  BY <1>1, Parts, BaseIs
<1>3. ASSUME mpc \in {"flushed", "done"}, NEW a \in DOMAIN disk
      PROVE  disk[a] = Wanted(a)
  <2>1. disk[a] \in {Old, Wanted(a)} /\ a \in 0 .. DiskBytes - 1
    BY <1>1 DEF DiskGood
  <2>2. a \in Nat /\ a < DiskBytes
    BY <1>2, <2>1
  <2>3. CASE Wanted(a) = Old
    BY <2>1, <2>3
  <2>4. CASE Wanted(a) # Old
    <3>1. Due(a)
      BY <2>2, <2>4 DEF Due
    <3>2. todo = {} /\ writequeue = <<>> /\ wpc # "write"
      BY <1>1, <1>3 DEF Control, Ending
    <3>3. ~ToCome(a)
      BY <1>3, <3>2 DEF ToCome, Coming
    <3>4. Done(a)
      BY <1>3, <2>2, <3>1, <3>2, <3>3, DrainedDone
    <3> QED BY <1>3, <3>4 DEF Done
  <2> QED BY <2>3, <2>4
<1> QED BY <1>1, <1>3 DEF DiskExact, DiskGood

(* ImageUnzipFlush(): for any image, options and sizes, and however the    *)
(* two threads are scheduled, the disk never holds anything but its old    *)
(* content and what the image wants there, and it holds the image when the *)
(* flush has seen an empty queue and the unlocked writeinprogress clear.   *)
THEOREM DiskKept == Spec => []DiskExact
<1>1. DInv => DiskExact
  BY DiskFollows
<1> QED BY <1>1, SpecDInv, PTL
=============================================================================
