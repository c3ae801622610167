------------------------ MODULE FrisbeeServerProofs -------------------------
(* Proofs about the frisbee server, for any image, any hosts and any length  *)
(* of the queue: the work queue is exact and bounded, the main thread never  *)
(* reads past the end of the file unasked, the queue implements a set of     *)
(* owed blocks, and the table of clients is exact.                           *)
EXTENDS FrisbeeServer, FrisbeeSizesProofs, SequenceTheorems

(* The sizes of the server are those the lemmas about sizes assume.          *)
LEMMA Sizes == SizesGiven
  BY ServerSizeAssumption DEF SizesGiven

(* The blocks that a request may ask for, those of the chunk among them.     *)
LEMMA ReqSizeBounds ==
  ASSUME NEW c
  PROVE  /\ ReqSize(c) \in 1 .. MAXCHUNKSIZE
         /\ Requestable(c) \subseteq 0 .. MAXCHUNKSIZE - 1
         /\ 0 \in Requestable(c)
         /\ IsFiniteSet(Requestable(c))
         /\ Cardinality(Requestable(c)) = ReqSize(c)
<1>1. MAXCHUNKSIZE \in Nat \ {0} /\ ChunkSize(c) \in 1 .. MAXCHUNKSIZE
  BY Sizes, ChunkSizeBounds DEF SizesGiven
<1>2. ReqSize(c) \in 1 .. MAXCHUNKSIZE
  BY <1>1, ServerAssumption DEF ReqSize
<1> DEFINE n == ReqSize(c)
<1> HIDE DEF n
<1>3. n \in 1 .. MAXCHUNKSIZE /\ Requestable(c) = 0 .. n - 1
  BY <1>2 DEF n, Requestable
<1>4. IsFiniteSet(0 .. n - 1) /\ Cardinality(0 .. n - 1) = n
  <2>1. 0 \in Int /\ n - 1 \in Int /\ ~ (0 > n - 1) /\ (n - 1) - 0 + 1 = n
    BY <1>1, <1>3
  <2> QED BY <2>1, FS_Interval
<1> QED BY <1>1, <1>2, <1>3, <1>4 DEF n

(* The number of a chunk is not that of a join reply.                        *)
LEMMA NoJoinChunk == \A c \in Chunk : c \notin JoinChunk
<1>1. Chunk \subseteq Nat
  BY Sizes, ChunksFinite
<1> QED BY <1>1 DEF JoinChunk

-----------------------------------------------------------------------------
(* The inductive invariant of the queue.                                     *)

(* An entry is a join reply, or asks for some blocks of its chunk and counts *)
(* them.                                                                     *)
EntryExact(e) ==
  \/ e.chunk \in JoinChunk
  \/ /\ e.chunk \in Chunk
     /\ e.blocks \subseteq Requestable(e.chunk) /\ e.blocks # {}
     /\ e.nblocks = Cardinality(e.blocks)

EntriesExact == \A i \in 1 .. Len(WorkQ) : EntryExact(WorkQ[i])

(* Two entries for one chunk: the first has only joins in front of it, and   *)
(* its chunk is the one last taken up.                                       *)
OneAhead ==
  \A i, j \in 1 .. Len(WorkQ) :
    i < j /\ WorkQ[i].chunk = WorkQ[j].chunk /\ WorkQ[i].chunk \notin JoinChunk =>
      /\ WorkQ[i].chunk = WorkChunk
      /\ \A k \in 1 .. i - 1 : WorkQ[k].chunk \in JoinChunk

(* The range being sent lies in its chunk.                                   *)
RangeInChunk ==
  /\ spc = "send" => /\ cur.chunk \in Chunk
                     /\ cur.block < cur.last
                     /\ cur.last <= ReqSize(cur.chunk)
  /\ spc \notin {"send", "exited"} => cur = NoCur

(* A client whose JOIN is being handled has picked an id.                    *)
Handling ==
  /\ rpc = "recv" <=> rj = NoOne
  /\ rj # NoOne => host[rj].in
  /\ \A h \in Host : host[h].in => host[h].id \in Ids

QueueInv ==
  /\ QueueTypes /\ SenderTypes
  /\ EntriesExact /\ OneAhead /\ RangeInChunk

(* The entries of a typed queue.                                             *)
LEMMA QueueFacts ==
  ASSUME QueueTypes
  PROVE  /\ Len(WorkQ) \in Nat
         /\ \A i \in 1 .. Len(WorkQ) :
              /\ WorkQ[i] \in QEntry
              /\ WorkQ[i].chunk \in Chunk \cup JoinChunk
              /\ IsJoin(WorkQ[i]) <=> WorkQ[i].chunk \in JoinChunk
<1>1. Len(WorkQ) \in Nat /\ \A i \in 1 .. Len(WorkQ) : WorkQ[i] \in QEntry
  BY ElementOfSeq, LenProperties DEF QueueTypes
<1>2. Chunk \subseteq Nat
  BY NoJoinChunk, Sizes, ChunksFinite
<1>3. ASSUME NEW e \in QEntry
      PROVE  e.chunk \in Chunk \cup JoinChunk /\ (IsJoin(e) <=> e.chunk \in JoinChunk)
  <2>1. e.chunk \in Chunk \cup JoinChunk
    BY DEF QEntry
  <2>2. e.chunk \in Nat \/ e.chunk \in JoinChunk
    BY <1>2, <2>1
  <2> QED BY <2>1, <2>2 DEF IsJoin, JoinChunk
<1> QED BY <1>1, <1>3

(* The blocks of an entry.                                                   *)
LEMMA BlocksOfChunk ==
  ASSUME NEW c, NEW S \in SUBSET Requestable(c)
  PROVE  /\ IsFiniteSet(S) /\ Cardinality(S) \in 0 .. MAXCHUNKSIZE
         /\ S \in SUBSET (0 .. MAXCHUNKSIZE - 1)
         /\ Cardinality(S) = MAXCHUNKSIZE =>
              /\ S = Requestable(c)
              /\ S = 0 .. MAXCHUNKSIZE - 1 /\ ReqSize(c) = MAXCHUNKSIZE
         /\ S # {} => Cardinality(S) # 0
<1> USE Sizes
<1>1. /\ IsFiniteSet(Requestable(c))
      /\ Cardinality(Requestable(c)) = ReqSize(c)
      /\ ReqSize(c) \in 1 .. MAXCHUNKSIZE
      /\ Requestable(c) \subseteq 0 .. MAXCHUNKSIZE - 1
  BY ReqSizeBounds
<1>2. /\ IsFiniteSet(S) /\ Cardinality(S) <= ReqSize(c)
      /\ ReqSize(c) = Cardinality(S) => Requestable(c) = S
  BY <1>1, FS_Subset
<1>3. Cardinality(S) \in Nat
  BY <1>2, FS_CardinalityType
<1>4. Cardinality(S) \in 0 .. MAXCHUNKSIZE
  BY <1>1, <1>2, <1>3 DEF SizesGiven
<1>5. ASSUME Cardinality(S) = MAXCHUNKSIZE
      PROVE  ReqSize(c) = MAXCHUNKSIZE
  BY <1>1, <1>2, <1>3, <1>5 DEF SizesGiven
<1>6. ASSUME Cardinality(S) = MAXCHUNKSIZE
      PROVE  S = Requestable(c) /\ S = 0 .. MAXCHUNKSIZE - 1
  BY <1>2, <1>5, <1>6 DEF Requestable
<1>7. S # {} => Cardinality(S) # 0
  BY <1>2, FS_EmptySet
<1> QED BY <1>1, <1>2, <1>4, <1>5, <1>6, <1>7

(* Merging a request into an exact entry gives an exact entry for the blocks *)
(* of both.                                                                  *)
LEMMA MergedExact ==
  ASSUME NEW e \in QEntry, EntryExact(e), e.chunk \notin JoinChunk,
         NEW B \in SUBSET Requestable(e.chunk)
  PROVE  /\ Merged(e, B) \in QEntry /\ EntryExact(Merged(e, B))
         /\ Merged(e, B).chunk = e.chunk
         /\ Merged(e, B).blocks = e.blocks \cup B
<1> DEFINE c == e.chunk
           A == e.blocks
<1>1. /\ c \in Chunk /\ A \in SUBSET Requestable(c) /\ A # {}
      /\ e.nblocks = Cardinality(A) /\ A \cup B \in SUBSET Requestable(c)
  BY DEF EntryExact
<1>2. CASE e.nblocks = MAXCHUNKSIZE
  <2>1. A = Requestable(c)
    BY <1>1, <1>2, BlocksOfChunk
  <2>2. Merged(e, B) = e
    BY <1>2 DEF Merged
  <2> QED BY <2>1, <2>2
<1>3. CASE e.nblocks # MAXCHUNKSIZE /\ Cardinality(B) = MAXCHUNKSIZE
  <2>1. B = Requestable(c) /\ A \cup B = B /\ B # {}
    <3>1. 0 \in Requestable(c)
      BY Sizes, ReqSizeBounds
    <3>2. B = Requestable(c)
      BY <1>3, BlocksOfChunk
    <3> QED BY <1>1, <3>1, <3>2
  <2>2. Merged(e, B) = [e EXCEPT !.blocks = B, !.nblocks = MAXCHUNKSIZE]
    BY <1>3 DEF Merged
  <2>3. B \in SUBSET (0 .. MAXCHUNKSIZE - 1) /\ MAXCHUNKSIZE \in 0 .. MAXCHUNKSIZE
    <3>1. B \in SUBSET (0 .. MAXCHUNKSIZE - 1)
      BY BlocksOfChunk
    <3>2. MAXCHUNKSIZE \in 0 .. MAXCHUNKSIZE
      BY Sizes DEF SizesGiven
    <3> QED BY <3>1, <3>2
  <2> QED BY <1>1, <1>3, <2>1, <2>2, <2>3 DEF QEntry, EntryExact
<1>4. CASE e.nblocks # MAXCHUNKSIZE /\ Cardinality(B) # MAXCHUNKSIZE
  <2>1. Merged(e, B) = [e EXCEPT !.blocks = A \cup B,
                                 !.nblocks = e.nblocks + Cardinality(B \ A)]
    BY <1>4 DEF Merged
  <2>2. e.nblocks + Cardinality(B \ A) = Cardinality(A \cup B)
    <3>1. IsFiniteSet(A) /\ IsFiniteSet(B \ A)
      BY <1>1, BlocksOfChunk
    <3>2. A \cup (B \ A) = A \cup B /\ A \cap (B \ A) = {}
      OBVIOUS
    <3>3. Cardinality(A \cup B) = Cardinality(A) + Cardinality(B \ A) - 0
      BY <3>1, <3>2, FS_Union, FS_EmptySet
    <3>4. Cardinality(A) \in Nat /\ Cardinality(B \ A) \in Nat
      BY <3>1, FS_CardinalityType
    <3> HIDE DEF A
    <3> QED BY <1>1, <3>3, <3>4
  <2>3. /\ A \cup B \in SUBSET (0 .. MAXCHUNKSIZE - 1)
        /\ Cardinality(A \cup B) \in 0 .. MAXCHUNKSIZE
    BY <1>1, BlocksOfChunk
  <2> QED BY <1>1, <2>1, <2>2, <2>3 DEF QEntry, EntryExact
<1> QED BY <1>2, <1>3, <1>4

-----------------------------------------------------------------------------
(* What each operation does to the queue.                                    *)

(* WorkQueueEnqueueChunk(): the request is dropped because the whole chunk   *)
(* is being sent, or added to an entry for its chunk, or appended when the   *)
(* only such entry is the one whose blocks are being taken.                  *)
Dropped(c, B) ==
  /\ WorkQ' = WorkQ
  /\ Cardinality(B) = MAXCHUNKSIZE /\ c = WorkChunk /\ WorkCount = MAXCHUNKSIZE

MergedAt(k, c, B) ==
  /\ WorkQ[k].chunk = c
  /\ WorkQ' \in Seq(QEntry) /\ Len(WorkQ') = Len(WorkQ)
  /\ \A j \in 1 .. Len(WorkQ) : j # k => WorkQ'[j] = WorkQ[j]
  /\ WorkQ'[k].chunk = c /\ WorkQ'[k].blocks = WorkQ[k].blocks \cup B
  /\ EntryExact(WorkQ'[k])

Appended(c, B) ==
  /\ \A i \in 1 .. Len(WorkQ) : WorkQ[i].chunk = c => i = 1 /\ c = WorkChunk
  /\ WorkQ' \in Seq(QEntry) /\ Len(WorkQ') = Len(WorkQ) + 1
  /\ \A j \in 1 .. Len(WorkQ) : WorkQ'[j] = WorkQ[j]
  /\ WorkQ'[Len(WorkQ) + 1].chunk = c
  /\ WorkQ'[Len(WorkQ) + 1].blocks = B
  /\ EntryExact(WorkQ'[Len(WorkQ) + 1])

(* WorkQueueEnqueueChunk() drops the request, merges it into one entry of    *)
(* its chunk, or appends an entry for it; in each case the count of the      *)
(* entry stays exact.                                                        *)
LEMMA EnqueueChunkDoes ==
  ASSUME QueueInv, NEW c \in Chunk, NEW B \in (SUBSET Requestable(c)) \ {{}},
         WorkQueueEnqueueChunk(c, B)
  PROVE  \/ Dropped(c, B)
         \/ \E k \in 1 .. Len(WorkQ) : MergedAt(k, c, B)
         \/ Appended(c, B)
<1> DEFINE M == Mergeable(c, B)
<1>1. /\ WorkQ \in Seq(QEntry) /\ Len(WorkQ) \in Nat
      /\ \A i \in 1 .. Len(WorkQ) : WorkQ[i] \in QEntry /\ EntryExact(WorkQ[i])
  BY QueueFacts DEF QueueInv, QueueTypes, EntriesExact
<1>2. c \notin JoinChunk
  BY NoJoinChunk, Sizes, ChunksFinite
<1>3. CASE SameAsCurrent(c, B)
  BY <1>3 DEF WorkQueueEnqueueChunk, SameAsCurrent, Dropped
<1>4. CASE ~ SameAsCurrent(c, B) /\ M # {}
  <2> DEFINE k == Max(M)
             e == WorkQ[k]
  <2>1. M \in SUBSET (0 .. Len(WorkQ)) /\ \A i \in M : i \in 1 .. Len(WorkQ) /\ WorkQ[i].chunk = c
    BY <1>1 DEF Mergeable
  <2>2. k \in 1 .. Len(WorkQ) /\ e.chunk = c
    BY <1>1, <1>4, <2>1, MaxOfNats
  <2>3. WorkQ' = [WorkQ EXCEPT ![k] = Merged(e, B)]
    BY <1>4 DEF WorkQueueEnqueueChunk
  <2> HIDE DEF k
  <2>4. /\ Merged(e, B) \in QEntry /\ EntryExact(Merged(e, B))
        /\ Merged(e, B).chunk = e.chunk
        /\ Merged(e, B).blocks = e.blocks \cup B
    BY <1>1, <1>2, <2>2, MergedExact
  <2>5. /\ WorkQ' \in Seq(QEntry) /\ Len(WorkQ') = Len(WorkQ)
        /\ \A j \in 1 .. Len(WorkQ) :
              WorkQ'[j] = IF j = k THEN Merged(e, B) ELSE WorkQ[j]
    BY <1>1, <2>2, <2>3, <2>4, ExceptSeq
  <2>6. MergedAt(k, c, B)
    BY <2>2, <2>4, <2>5 DEF MergedAt
  <2> QED BY <2>2, <2>6
<1>5. CASE ~ SameAsCurrent(c, B) /\ M = {}
  <2> DEFINE e == Entry(c, Cardinality(B), B, 0)
  <2>1. WorkQ' = Append(WorkQ, e)
    BY <1>5 DEF WorkQueueEnqueueChunk
  <2>2. /\ IsFiniteSet(B) /\ Cardinality(B) \in 0 .. MAXCHUNKSIZE
        /\ B \in SUBSET (0 .. MAXCHUNKSIZE - 1)
    BY BlocksOfChunk
  <2>3. e \in QEntry /\ e.chunk = c /\ e.blocks = B /\ EntryExact(e)
    BY <2>2 DEF Entry, QEntry, EntryExact
  <2> HIDE DEF e
  <2>4. /\ WorkQ' \in Seq(QEntry) /\ Len(WorkQ') = Len(WorkQ) + 1
        /\ \A j \in 1 .. Len(WorkQ) : WorkQ'[j] = WorkQ[j]
        /\ WorkQ'[Len(WorkQ) + 1] = e
    BY <1>1, <2>1, <2>3, AppendProperties
  <2>5. \A i \in 1 .. Len(WorkQ) : WorkQ[i].chunk = c => i = 1 /\ c = WorkChunk
    BY <1>5 DEF Mergeable
  <2> QED BY <2>3, <2>4, <2>5 DEF Appended
<1> QED BY <1>3, <1>4, <1>5

(* WorkQueueEnqueueJoin(): the reply goes to the head.                       *)
LEMMA EnqueueJoinDoes ==
  ASSUME QueueInv, RecvTypes, Handling, WorkQueueEnqueueJoin
  PROVE  /\ WorkQ' \in Seq(QEntry) /\ Len(WorkQ') = Len(WorkQ) + 1
         /\ WorkQ'[1].chunk \in JoinChunk
         /\ \A i \in 2 .. Len(WorkQ') : WorkQ'[i] = WorkQ[i - 1]
<1> DEFINE e == Entry(- JoinVers(rj), 0, {}, host[rj].id)
<1>1. WorkQ \in Seq(QEntry) /\ Len(WorkQ) \in Nat
  BY QueueFacts DEF QueueInv, QueueTypes
<1>2. e \in QEntry /\ e.chunk \in JoinChunk
  <2>1. rj \in Host /\ host[rj].id \in Ids
    BY DEF WorkQueueEnqueueJoin, RecvTypes, Handling
  <2>2. - JoinVers(rj) \in JoinChunk
    BY DEF JoinVers, JoinChunk
  <2>3. 0 \in 0 .. MAXCHUNKSIZE
    BY Sizes DEF SizesGiven
  <2> HIDE DEF JoinChunk, JoinVers
  <2> QED BY <2>1, <2>2, <2>3 DEF Entry, QEntry
<1>3. WorkQ' = <<e>> \o WorkQ
  BY DEF WorkQueueEnqueueJoin
<1> HIDE DEF e
<1>4. <<e>> \in Seq(QEntry) /\ Len(<<e>>) = 1 /\ <<e>>[1] = e
  BY <1>2
<1>5. /\ WorkQ' \in Seq(QEntry) /\ Len(WorkQ') = 1 + Len(WorkQ)
      /\ \A i \in 1 .. 1 + Len(WorkQ) :
           WorkQ'[i] = IF i <= 1 THEN <<e>>[i] ELSE WorkQ[i - 1]
  BY <1>1, <1>3, <1>4, ConcatProperties
<1> QED BY <1>1, <1>2, <1>4, <1>5

(* The head of a queue that is not empty, and what is left without it.       *)
LEMMA HeadOfQueue ==
  ASSUME QueueInv, WorkQ # <<>>
  PROVE  /\ 1 \in 1 .. Len(WorkQ) /\ Head(WorkQ) = WorkQ[1]
         /\ Tail(WorkQ) \in Seq(QEntry) /\ Len(Tail(WorkQ)) = Len(WorkQ) - 1
         /\ \A i \in 1 .. Len(WorkQ) - 1 : Tail(WorkQ)[i] = WorkQ[i + 1]
<1>1. WorkQ \in Seq(QEntry) /\ Len(WorkQ) \in Nat
  BY QueueFacts DEF QueueInv, QueueTypes
<1>2. Len(WorkQ) \in Nat \ {0}
  BY <1>1, EmptySeq
<1>3. Head(WorkQ) = WorkQ[1]
  BY <1>1
<1> QED BY <1>1, <1>2, <1>3, HeadTailProperties

(* WorkQueueDequeue() of an entry for blocks: the range R = lo .. lo + n - 1 *)
(* is taken out of the entry, which leaves the queue when nothing is left.   *)
Taken(lo, n) ==
  LET e == WorkQ[1]
      R == lo .. lo + n - 1
  IN  /\ e.chunk \in Chunk /\ e \in QEntry
      /\ lo \in 0 .. MAXCHUNKSIZE - 1 /\ n \in 1 .. MAXCHUNKSIZE
      /\ lo + n <= ReqSize(e.chunk)
      /\ R \subseteq e.blocks
      /\ WorkChunk' = e.chunk /\ WorkBlock' = lo /\ WorkCount' = n
      /\ cur' = [chunk |-> e.chunk, block |-> lo, last |-> lo + n]
      /\ \/ e.blocks = R /\ WorkQ' = Tail(WorkQ)
         \/ /\ WorkQ' \in Seq(QEntry) /\ Len(WorkQ') = Len(WorkQ)
            /\ \A i \in 2 .. Len(WorkQ) : WorkQ'[i] = WorkQ[i]
            /\ WorkQ'[1].chunk = e.chunk /\ WorkQ'[1].blocks = e.blocks \ R
            /\ EntryExact(WorkQ'[1])

(* WorkQueueDequeue() takes a range off the first entry, and the entry with  *)
(* it when nothing is left.                                                  *)
LEMMA DequeueChunkDoes ==
  ASSUME QueueInv, DequeueChunk
  PROVE  \E lo, n \in Int : Taken(lo, n)
<1> DEFINE e     == WorkQ[1]
           whole == e.nblocks = MAXCHUNKSIZE
           run   == FirstRun(e.blocks)
           lo    == IF whole THEN 0 ELSE Min(run)
           n     == IF whole THEN MAXCHUNKSIZE ELSE Cardinality(run)
           R     == lo .. lo + n - 1
           rest  == [e EXCEPT !.blocks = e.blocks \ run,
                              !.nblocks = e.nblocks - n]
<1>1. /\ WorkQ \in Seq(QEntry) /\ 1 \in 1 .. Len(WorkQ) /\ Head(WorkQ) = e
      /\ Len(WorkQ) \in Nat
  BY HeadOfQueue, QueueFacts DEF DequeueChunk, QueueInv, QueueTypes
<1>2. /\ e \in QEntry /\ e.chunk \in Chunk
      /\ e.blocks \in SUBSET Requestable(e.chunk) /\ e.blocks # {}
      /\ e.nblocks = Cardinality(e.blocks)
  <2>1. e \in QEntry /\ EntryExact(e) /\ (IsJoin(e) <=> e.chunk \in JoinChunk)
    BY <1>1, QueueFacts DEF QueueInv, EntriesExact
  <2>2. ~ IsJoin(e)
    BY <1>1 DEF DequeueChunk
  <2> QED BY <2>1, <2>2 DEF EntryExact
<1>3. /\ WorkQ' = IF rest.nblocks = 0 THEN Tail(WorkQ)
                  ELSE [WorkQ EXCEPT ![1] = rest]
      /\ WorkChunk' = e.chunk /\ WorkBlock' = lo /\ WorkCount' = n
      /\ cur' = [chunk |-> e.chunk, block |-> lo, last |-> lo + n]
  BY <1>1 DEF DequeueChunk
<1>4. /\ IsFiniteSet(e.blocks) /\ Cardinality(e.blocks) \in 0 .. MAXCHUNKSIZE
      /\ e.blocks \in SUBSET (0 .. MAXCHUNKSIZE - 1)
      /\ whole => e.blocks = 0 .. MAXCHUNKSIZE - 1
                  /\ ReqSize(e.chunk) = MAXCHUNKSIZE
  <2> DEFINE c == e.chunk
             S == e.blocks
  <2>1. S \in SUBSET Requestable(c) /\ (whole <=> Cardinality(S) = MAXCHUNKSIZE)
    BY <1>2
  <2> HIDE DEF c, S, whole
  <2>2. /\ IsFiniteSet(S) /\ Cardinality(S) \in 0 .. MAXCHUNKSIZE
        /\ S \in SUBSET (0 .. MAXCHUNKSIZE - 1)
        /\ whole => S = 0 .. MAXCHUNKSIZE - 1 /\ ReqSize(c) = MAXCHUNKSIZE
    BY <2>1, BlocksOfChunk
  <2> QED BY <2>2 DEF c, S
<1>5. MAXCHUNKSIZE \in Nat \ {0} /\ ReqSize(e.chunk) \in 1 .. MAXCHUNKSIZE
  BY Sizes, ReqSizeBounds DEF SizesGiven
<1>6. CASE whole
  <2>1. lo = 0 /\ n = MAXCHUNKSIZE /\ R = 0 .. MAXCHUNKSIZE - 1
    BY <1>5, <1>6
  <2>2. rest.nblocks = 0
    BY <1>2, <1>5, <1>6, <2>1
  <2> HIDE DEF lo, n, rest
  <2>3. Taken(lo, n)
    BY <1>2, <1>3, <1>4, <1>5, <1>6, <2>1, <2>2 DEF Taken
  <2> QED BY <1>5, <2>1, <2>3
<1>7. CASE ~ whole
  <2>1. /\ run \subseteq e.blocks /\ Min(run) = Min(e.blocks)
        /\ Min(run) \in run /\ IsFiniteSet(run)
        /\ Cardinality(run) \in 1 .. MAXCHUNKSIZE
        /\ run = Min(run) .. (Min(run) + Cardinality(run) - 1)
    <3>1. MAXCHUNKSIZE - 1 \in Nat /\ MAXCHUNKSIZE - 1 + 1 = MAXCHUNKSIZE
      BY <1>5
    <3>2. run = {b \in e.blocks : Min(e.blocks) .. b \subseteq e.blocks}
      BY DEF FirstRun
    <3> DEFINE S == e.blocks
               m == MAXCHUNKSIZE - 1
    <3>3. m \in Nat /\ S \in SUBSET (0 .. m) /\ S # {}
      BY <1>2, <1>4, <3>1
    <3> HIDE DEF run, S, m
    <3>4. /\ run \subseteq S
          /\ Min(S) \in run /\ Min(run) = Min(S)
          /\ IsFiniteSet(run) /\ Cardinality(run) \in 1 .. m + 1
          /\ run = Min(S) .. (Min(S) + Cardinality(run) - 1)
      <4>1. run = {b \in S : Min(S) .. b \subseteq S}
        BY <3>2 DEF S
      <4> QED BY <3>3, <4>1, FirstRunIsInterval
    <3>5. m + 1 = MAXCHUNKSIZE
      BY <3>1 DEF m
    <3> QED BY <3>4, <3>5 DEF S
  <2> HIDE DEF run
  <2>2. lo = Min(run) /\ n = Cardinality(run) /\ R = run
    BY <1>7, <2>1
  <2>3. lo \in run /\ lo \in Nat /\ n \in Nat \ {0} /\ lo + n - 1 \in run
    <3>1. lo \in run /\ lo \in Nat /\ n \in Nat \ {0}
      BY <1>4, <1>5, <2>1, <2>2
    <3>2. lo + n - 1 \in lo .. lo + n - 1
      BY <3>1
    <3> QED BY <2>1, <2>2, <3>1, <3>2
  <2>4. /\ lo \in 0 .. MAXCHUNKSIZE - 1 /\ n \in 1 .. MAXCHUNKSIZE
        /\ lo + n <= ReqSize(e.chunk)
    <3>1. lo + n - 1 \in Requestable(e.chunk) /\ lo \in 0 .. MAXCHUNKSIZE - 1
      BY <1>2, <1>4, <2>1, <2>3
    <3>2. n \in 1 .. MAXCHUNKSIZE
      BY <2>1, <2>2
    <3>3. lo + n - 1 <= ReqSize(e.chunk) - 1
      BY <3>1, <1>5 DEF Requestable
    <3> QED BY <1>5, <2>3, <3>1, <3>2, <3>3
  <2>5. /\ rest.nblocks = Cardinality(e.blocks \ run)
        /\ rest.blocks = e.blocks \ run /\ rest.chunk = e.chunk
    <3>1. e.blocks \cap run = run
      BY <2>1
    <3>2. Cardinality(e.blocks \ run) = Cardinality(e.blocks) - Cardinality(run)
      <4> DEFINE D == e.blocks
      <4>1. IsFiniteSet(D) /\ D \cap run = run
        BY <1>4, <3>1
      <4> HIDE DEF D
      <4>2. Cardinality(D \ run) = Cardinality(D) - Cardinality(D \cap run)
        BY <4>1, FS_Difference
      <4> QED BY <4>1, <4>2 DEF D
    <3> QED BY <1>2, <2>2, <3>2 DEF QEntry
  <2>6. CASE rest.nblocks = 0
    <3>1. e.blocks \ run = {}
      <4>1. IsFiniteSet(e.blocks \ run)
        BY <1>4, FS_Difference
      <4> QED BY <4>1, <2>5, <2>6, FS_EmptySet
    <3>2. e.blocks = R
      BY <2>1, <2>2, <3>1
    <3> HIDE DEF lo, n, rest
    <3>3. Taken(lo, n)
      BY <1>2, <1>3, <2>4, <2>6, <3>2 DEF Taken
    <3> QED BY <2>3, <3>3
  <2>7. CASE rest.nblocks # 0
    <3>1. e.blocks \ run \in SUBSET Requestable(e.chunk)
      BY <1>2
    <3>2. /\ Cardinality(e.blocks \ run) \in 0 .. MAXCHUNKSIZE
          /\ e.blocks \ run \in SUBSET (0 .. MAXCHUNKSIZE - 1)
      BY <3>1, BlocksOfChunk
    <3>3. rest \in QEntry
      BY <1>2, <2>5, <3>2 DEF QEntry
    <3>4. EntryExact(rest)
      <4>1. rest.blocks # {}
        BY <2>5, <2>7, FS_EmptySet
      <4> HIDE DEF rest
      <4> QED BY <1>2, <2>5, <3>1, <4>1 DEF EntryExact
    <3> HIDE DEF rest
    <3>5. WorkQ' = [WorkQ EXCEPT ![1] = rest]
      BY <1>3, <2>7
    <3>6. /\ WorkQ' \in Seq(QEntry) /\ Len(WorkQ') = Len(WorkQ)
          /\ \A j \in 1 .. Len(WorkQ) :
                WorkQ'[j] = IF j = 1 THEN rest ELSE WorkQ[j]
      BY <1>1, <3>3, <3>5, ExceptSeq
    <3>7. WorkQ'[1] = rest /\ \A i \in 2 .. Len(WorkQ) : WorkQ'[i] = WorkQ[i]
      BY <1>1, <3>6
    <3>8. rest.blocks = e.blocks \ R /\ R \subseteq e.blocks
      BY <2>1, <2>2, <2>5
    <3> HIDE DEF lo, n, whole
    <3>9. Taken(lo, n)
      BY <1>2, <1>3, <2>4, <2>5, <3>4, <3>6, <3>7, <3>8 DEF Taken
    <3> QED BY <2>3, <3>9
  <2> QED BY <2>6, <2>7
<1> QED BY <1>6, <1>7

-----------------------------------------------------------------------------
(* The invariant of the queue is kept.                                       *)
LEMMA InitQueueInv == Init => QueueInv
<1> SUFFICES ASSUME Init PROVE QueueInv
  OBVIOUS
<1> USE DEF Init
<1>1. MAXCHUNKSIZE \in Nat \ {0} /\ 0 \in Chunk
  BY NoJoinChunk, Sizes, ChunksFinite DEF SizesGiven
<1>2. QueueTypes
  BY <1>1 DEF QueueTypes
<1>3. SenderTypes
  <2>1. 0 \in 0 .. MAXCHUNKSIZE - 1 /\ 0 \in 0 .. MAXCHUNKSIZE /\ 0 \in Nat
    BY <1>1
  <2>2. cur \in [chunk : Chunk \union {-1}, block : 0 .. MAXCHUNKSIZE - 1,
                 last : 0 .. MAXCHUNKSIZE]
    BY <2>1 DEF NoCur
  <2>3. idlelastloop \in BOOLEAN /\ killme \in BOOLEAN
    OBVIOUS
  <2>4. spc \in {"loop", "idle", "send", "lastclient", "exited"}
    BY <2>1
  <2> QED BY <2>2, <2>3, <2>4 DEF SenderTypes
<1>4. Len(WorkQ) = 0
  OBVIOUS
<1>5. EntriesExact /\ OneAhead
  BY <1>4 DEF EntriesExact, OneAhead
<1>6. RangeInChunk
  BY DEF RangeInChunk
<1> QED BY <1>2, <1>3, <1>5, <1>6 DEF QueueInv

(* A request.                                                                *)
LEMMA RequestQueueStep ==
  ASSUME QueueInv, NEW c \in Chunk, NEW B \in (SUBSET Requestable(c)) \ {{}},
         RecvRequest(c, B)
  PROVE  QueueInv'
<1>1. /\ WorkQueueEnqueueChunk(c, B)
      /\ UNCHANGED <<WorkChunk, WorkBlock, WorkCount, spc, cur, idlelastloop,
                     killme>>
  BY DEF RecvRequest, senderVars
<1>2. SenderTypes' /\ RangeInChunk'
  BY <1>1 DEF QueueInv, SenderTypes, RangeInChunk
<1>3. Len(WorkQ) \in Nat
  BY QueueFacts DEF QueueInv
<1> SUFFICES (WorkQ \in Seq(QEntry))' /\ EntriesExact' /\ OneAhead'
  BY <1>1, <1>2 DEF QueueInv, QueueTypes
<1>4. CASE Dropped(c, B)
  BY <1>1, <1>4 DEF Dropped, QueueInv, QueueTypes, EntriesExact, OneAhead
<1>5. ASSUME NEW k \in 1 .. Len(WorkQ), MergedAt(k, c, B)
      PROVE  (WorkQ \in Seq(QEntry))' /\ EntriesExact' /\ OneAhead'
  <2>1. \A i \in 1 .. Len(WorkQ) : WorkQ'[i].chunk = WorkQ[i].chunk
    BY <1>5 DEF MergedAt
  <2>2. EntriesExact'
    BY <1>5 DEF MergedAt, QueueInv, EntriesExact
  <2>3. OneAhead'
    <3>1. Len(WorkQ') = Len(WorkQ) /\ WorkChunk' = WorkChunk
      BY <1>1, <1>5 DEF MergedAt
    <3>2. ASSUME NEW i \in 1 .. Len(WorkQ), NEW j \in 1 .. Len(WorkQ), i < j,
                 WorkQ'[i].chunk = WorkQ'[j].chunk, WorkQ'[i].chunk \notin JoinChunk
          PROVE  /\ WorkQ'[i].chunk = WorkChunk
                 /\ \A l \in 1 .. i - 1 : WorkQ'[l].chunk \in JoinChunk
      <4>1. /\ WorkQ[i].chunk = WorkChunk
            /\ \A l \in 1 .. i - 1 : WorkQ[l].chunk \in JoinChunk
        BY <2>1, <3>2 DEF QueueInv, OneAhead
      <4>2. 1 .. i - 1 \subseteq 1 .. Len(WorkQ)
        BY <1>3
      <4> QED BY <2>1, <4>1, <4>2
    <3> QED BY <3>1, <3>2 DEF OneAhead
  <2> QED BY <1>5, <2>2, <2>3 DEF MergedAt
<1>6. CASE Appended(c, B)
  <2> DEFINE N == Len(WorkQ)
  <2>1. /\ Len(WorkQ') = N + 1 /\ N \in Nat
        /\ \A i \in 1 .. N : WorkQ'[i] = WorkQ[i]
        /\ WorkQ'[N + 1].chunk = c /\ EntryExact(WorkQ'[N + 1])
        /\ \A i \in 1 .. N : WorkQ[i].chunk = c => i = 1 /\ c = WorkChunk
    BY <1>3, <1>6 DEF Appended
  <2>2. EntriesExact'
    BY <2>1 DEF QueueInv, EntriesExact
  <2>3. ASSUME NEW i \in 1 .. N + 1, NEW j \in 1 .. N + 1, i < j,
               WorkQ'[i].chunk = WorkQ'[j].chunk, WorkQ'[i].chunk \notin JoinChunk
        PROVE  /\ WorkQ'[i].chunk = WorkChunk
               /\ \A l \in 1 .. i - 1 : WorkQ'[l].chunk \in JoinChunk
    <3>1. i \in 1 .. N /\ WorkQ'[i] = WorkQ[i]
      BY <2>1, <2>3
    <3>2. CASE j = N + 1
      <4>1. i = 1 /\ WorkQ[i].chunk = WorkChunk
        BY <2>1, <2>3, <3>1, <3>2
      <4> QED BY <3>1, <4>1
    <3>3. CASE j # N + 1
      <4>1. j \in 1 .. N /\ WorkQ'[j] = WorkQ[j]
        BY <2>1, <2>3, <3>3
      <4>2. /\ WorkQ[i].chunk = WorkChunk
            /\ \A l \in 1 .. i - 1 : WorkQ[l].chunk \in JoinChunk
        BY <2>3, <3>1, <4>1 DEF QueueInv, OneAhead
      <4>3. \A l \in 1 .. i - 1 : l \in 1 .. N
        BY <2>1, <3>1
      <4> QED BY <2>1, <3>1, <4>2, <4>3
    <3> QED BY <3>2, <3>3
  <2>4. OneAhead'
    BY <1>1, <2>1, <2>3 DEF OneAhead
  <2> QED BY <1>6, <2>2, <2>4 DEF Appended
<1> QED BY <1>1, <1>4, <1>5, <1>6, EnqueueChunkDoes

(* A join reply is put in front.                                             *)
LEMMA JoinQueueStep ==
  ASSUME QueueInv, RecvTypes, Handling, WorkQueueEnqueueJoin
  PROVE  QueueInv'
<1> DEFINE N == Len(WorkQ)
<1>1. UNCHANGED <<WorkChunk, WorkBlock, WorkCount, spc, cur, idlelastloop,
                  killme>>
  BY DEF WorkQueueEnqueueJoin, senderVars
<1>2. SenderTypes' /\ RangeInChunk'
  BY <1>1 DEF QueueInv, SenderTypes, RangeInChunk
<1>3. /\ N \in Nat /\ WorkQ' \in Seq(QEntry) /\ Len(WorkQ') = N + 1
      /\ WorkQ'[1].chunk \in JoinChunk
      /\ \A i \in 2 .. N + 1 : WorkQ'[i] = WorkQ[i - 1]
  BY EnqueueJoinDoes, QueueFacts DEF QueueInv
<1>4. EntriesExact'
  <2>1. ASSUME NEW i \in 1 .. N + 1 PROVE EntryExact(WorkQ'[i])
    <3>1. CASE i = 1
      BY <1>3, <3>1 DEF EntryExact
    <3>2. CASE i # 1
      <4>1. i \in 2 .. N + 1 /\ i - 1 \in 1 .. N
        BY <1>3, <3>2
      <4> QED BY <1>3, <4>1 DEF QueueInv, EntriesExact
    <3> QED BY <3>1, <3>2
  <2> QED BY <1>3, <2>1 DEF EntriesExact
<1>5. OneAhead'
  <2>1. ASSUME NEW i \in 1 .. N + 1, NEW j \in 1 .. N + 1, i < j,
               WorkQ'[i].chunk = WorkQ'[j].chunk, WorkQ'[i].chunk \notin JoinChunk
        PROVE  /\ WorkQ'[i].chunk = WorkChunk
               /\ \A l \in 1 .. i - 1 : WorkQ'[l].chunk \in JoinChunk
    <3>1. /\ i # 1 /\ i - 1 \in 1 .. N /\ j - 1 \in 1 .. N /\ i - 1 < j - 1
          /\ i \in 2 .. N + 1 /\ j \in 2 .. N + 1
      BY <1>3, <2>1
    <3>2. WorkQ'[i] = WorkQ[i - 1] /\ WorkQ'[j] = WorkQ[j - 1]
      BY <1>3, <3>1
    <3>3. /\ WorkQ[i - 1].chunk = WorkChunk
          /\ \A l \in 1 .. i - 1 - 1 : WorkQ[l].chunk \in JoinChunk
      BY <2>1, <3>1, <3>2 DEF QueueInv, OneAhead
    <3>4. ASSUME NEW l \in 1 .. i - 1 PROVE WorkQ'[l].chunk \in JoinChunk
      <4>1. CASE l = 1
        BY <1>3, <4>1
      <4>2. CASE l # 1
        <5>1. l \in 2 .. N + 1 /\ l - 1 \in 1 .. i - 1 - 1
          BY <1>3, <3>1, <4>2
        <5> QED BY <1>3, <3>3, <5>1
      <4> QED BY <4>1, <4>2
    <3> QED BY <3>2, <3>3, <3>4
  <2> QED BY <1>1, <1>3, <2>1 DEF OneAhead
<1> QED BY <1>1, <1>2, <1>3, <1>4, <1>5 DEF QueueInv, QueueTypes

(* The entries left when the head has gone.                                  *)
LEMMA TailQueue ==
  ASSUME QueueInv, WorkQ # <<>>, WorkQ' = Tail(WorkQ),
         \/ WorkQ[1].chunk \in JoinChunk /\ WorkChunk' = WorkChunk
         \/ WorkQ[1].chunk \notin JoinChunk
  PROVE  (WorkQ \in Seq(QEntry))' /\ EntriesExact' /\ OneAhead'
<1> DEFINE N == Len(WorkQ)
<1>1. /\ N \in Nat \ {0} /\ WorkQ' \in Seq(QEntry) /\ Len(WorkQ') = N - 1
      /\ \A i \in 1 .. N - 1 : WorkQ'[i] = WorkQ[i + 1]
  BY HeadOfQueue, QueueFacts DEF QueueInv
<1>2. EntriesExact'
  <2>1. ASSUME NEW i \in 1 .. N - 1 PROVE EntryExact(WorkQ'[i])
    <3>1. i + 1 \in 1 .. N
      BY <1>1
    <3> QED BY <1>1, <3>1 DEF QueueInv, EntriesExact
  <2> QED BY <1>1, <2>1 DEF EntriesExact
<1>3. OneAhead'
  <2>1. ASSUME NEW i \in 1 .. N - 1, NEW j \in 1 .. N - 1, i < j,
               WorkQ'[i].chunk = WorkQ'[j].chunk, WorkQ'[i].chunk \notin JoinChunk
        PROVE  /\ WorkQ'[i].chunk = WorkChunk'
               /\ \A l \in 1 .. i - 1 : WorkQ'[l].chunk \in JoinChunk
    <3>1. /\ i + 1 \in 1 .. N /\ j + 1 \in 1 .. N /\ i + 1 < j + 1
          /\ WorkQ'[i] = WorkQ[i + 1] /\ WorkQ'[j] = WorkQ[j + 1]
      BY <1>1, <2>1
    <3>2. /\ WorkQ[i + 1].chunk = WorkChunk
          /\ \A l \in 1 .. i + 1 - 1 : WorkQ[l].chunk \in JoinChunk
      BY <2>1, <3>1 DEF QueueInv, OneAhead
    <3>3. 1 \in 1 .. i + 1 - 1
      BY <1>1
    <3>4. WorkChunk' = WorkChunk
      BY <3>2, <3>3
    <3>5. ASSUME NEW l \in 1 .. i - 1 PROVE WorkQ'[l].chunk \in JoinChunk
      <4>1. l \in 1 .. N - 1 /\ l + 1 \in 1 .. i + 1 - 1
        BY <1>1
      <4> QED BY <1>1, <3>2, <4>1
    <3> QED BY <3>1, <3>2, <3>4, <3>5
  <2> QED BY <1>1, <2>1 DEF OneAhead
<1> QED BY <1>1, <1>2, <1>3

(* A join reply is taken off.                                                *)
LEMMA DequeueJoinQueueStep == ASSUME QueueInv, DequeueJoin PROVE QueueInv'
<1>1. /\ WorkQ # <<>> /\ WorkQ' = Tail(WorkQ) /\ IsJoin(Head(WorkQ))
      /\ idlelastloop' = FALSE
      /\ UNCHANGED <<WorkChunk, WorkBlock, WorkCount, spc, cur, killme>>
  BY DEF DequeueJoin
<1>2. WorkQ[1].chunk \in JoinChunk
  BY <1>1, HeadOfQueue, QueueFacts DEF QueueInv
<1>3. (WorkQ \in Seq(QEntry))' /\ EntriesExact' /\ OneAhead'
  BY <1>1, <1>2, TailQueue
<1>4. SenderTypes' /\ RangeInChunk'
  BY <1>1 DEF QueueInv, SenderTypes, RangeInChunk
<1> QED BY <1>1, <1>3, <1>4 DEF QueueInv, QueueTypes

(* A range of blocks is taken up.                                            *)
LEMMA DequeueChunkQueueStep == ASSUME QueueInv, DequeueChunk PROVE QueueInv'
<1>1. PICK lo \in Int, n \in Int : Taken(lo, n)
  BY DequeueChunkDoes
<1>2. /\ WorkQ # <<>> /\ idlelastloop' = FALSE /\ spc' = "send"
      /\ UNCHANGED killme
  BY DEF DequeueChunk
<1> DEFINE e == WorkQ[1]
           N == Len(WorkQ)
<1>3. /\ e.chunk \in Chunk /\ WorkChunk' = e.chunk /\ WorkBlock' = lo
      /\ WorkCount' = n /\ e.chunk \notin JoinChunk
      /\ cur' = [chunk |-> e.chunk, block |-> lo, last |-> lo + n]
      /\ lo \in 0 .. MAXCHUNKSIZE - 1 /\ n \in 1 .. MAXCHUNKSIZE
      /\ lo + n <= ReqSize(e.chunk)
  BY <1>1, NoJoinChunk, Sizes, ChunksFinite DEF Taken
<1>4. ReqSize(e.chunk) \in 1 .. MAXCHUNKSIZE /\ MAXCHUNKSIZE \in Nat \ {0}
  BY Sizes, ReqSizeBounds DEF SizesGiven
<1>5. SenderTypes' /\ RangeInChunk'
  <2>1. lo + n \in 0 .. MAXCHUNKSIZE /\ lo < lo + n
    BY <1>3, <1>4
  <2>2. SenderTypes'
    BY <1>2, <1>3, <2>1 DEF QueueInv, SenderTypes
  <2> QED BY <1>2, <1>3, <2>1, <2>2 DEF RangeInChunk
<1>6. (WorkQ \in Seq(QEntry))' /\ EntriesExact' /\ OneAhead'
  <2>1. CASE WorkQ' = Tail(WorkQ)
    BY <1>2, <1>3, <2>1, TailQueue
  <2>2. CASE WorkQ' # Tail(WorkQ)
    <3>1. /\ WorkQ' \in Seq(QEntry) /\ Len(WorkQ') = N
          /\ \A i \in 2 .. N : WorkQ'[i] = WorkQ[i]
          /\ WorkQ'[1].chunk = e.chunk /\ EntryExact(WorkQ'[1])
      BY <1>1, <2>2 DEF Taken
    <3>2. N \in Nat
      BY QueueFacts DEF QueueInv
    <3>3. ASSUME NEW i \in 1 .. N
          PROVE  EntryExact(WorkQ'[i]) /\ WorkQ'[i].chunk = WorkQ[i].chunk
      <4>1. CASE i = 1
        BY <3>1, <4>1
      <4>2. CASE i # 1
        <5>1. i \in 2 .. N
          BY <3>2, <4>2
        <5> QED BY <3>1, <5>1 DEF QueueInv, EntriesExact
      <4> QED BY <4>1, <4>2
    <3>4. EntriesExact'
      BY <3>1, <3>3 DEF EntriesExact
    <3>5. ASSUME NEW i \in 1 .. N, NEW j \in 1 .. N, i < j,
                 WorkQ'[i].chunk = WorkQ'[j].chunk, WorkQ'[i].chunk \notin JoinChunk
          PROVE  /\ WorkQ'[i].chunk = WorkChunk'
                 /\ \A l \in 1 .. i - 1 : WorkQ'[l].chunk \in JoinChunk
      <4>1. /\ WorkQ[i].chunk = WorkChunk
            /\ \A l \in 1 .. i - 1 : WorkQ[l].chunk \in JoinChunk
        BY <3>3, <3>5 DEF QueueInv, OneAhead
      <4>2. i = 1
        <5>1. 1 \notin 1 .. i - 1
          BY <1>3, <4>1
        <5> QED BY <3>2, <5>1
      <4> QED BY <1>3, <3>1, <4>2
    <3>6. OneAhead'
      BY <3>1, <3>5 DEF OneAhead
    <3> QED BY <3>1, <3>4, <3>6
  <2> QED BY <2>1, <2>2
<1>7. QueueTypes'
  BY <1>3, <1>4, <1>6 DEF QueueTypes
<1> QED BY <1>5, <1>6, <1>7 DEF QueueInv

(* The other steps of the main thread, and the faults.                       *)
LEMMA SenderQueueStep ==
  ASSUME QueueInv,
         \/ DequeueNothing \/ SendBlock \/ ReadBeyondEOF \/ ReadFailed
         \/ LastClientLeft \/ LastClientExit \/ IdleExit \/ IdleAgain \/ Kill
         \/ KilledExit \/ HangUp
  PROVE  QueueInv'
<1> USE DEF QueueInv
<1>1. CASE DequeueNothing
  <2>1. WorkQ' = WorkQ /\ WorkQ = <<>> /\ WorkChunk' = -1
    BY <1>1 DEF DequeueNothing
  <2>2. QueueTypes'
    BY <1>1 DEF DequeueNothing, QueueTypes
  <2>3. SenderTypes'
    BY <1>1 DEF DequeueNothing, SenderTypes
  <2>4. Len(WorkQ') = 0
    BY <2>1
  <2>5. EntriesExact' /\ OneAhead'
    BY <2>4 DEF EntriesExact, OneAhead
  <2>6. RangeInChunk'
    BY <1>1 DEF DequeueNothing, Looping, RangeInChunk
  <2> QED BY <2>2, <2>3, <2>5, <2>6
<1>2. ASSUME UNCHANGED queueVars
      PROVE  QueueTypes' /\ EntriesExact' /\ OneAhead'
  BY <1>2 DEF queueVars, QueueTypes, EntriesExact, OneAhead
<1>3. CASE SendBlock
  <2>1. spc = "send" /\ UNCHANGED <<queueVars, idlelastloop, killme>>
    BY <1>3 DEF SendBlock
  <2>2. CASE cur.block + 1 < cur.last
    <3>1. cur' = [cur EXCEPT !.block = cur.block + 1] /\ spc' = "send"
      BY <1>3, <2>1, <2>2 DEF SendBlock
    <3>2. /\ cur.block \in Int /\ cur.last \in Int /\ cur.block >= 0
          /\ cur.last <= MAXCHUNKSIZE /\ MAXCHUNKSIZE \in Nat
      BY Sizes DEF SenderTypes, SizesGiven
    <3>3. SenderTypes'
      <4>1. cur.block + 1 \in 0 .. MAXCHUNKSIZE - 1
        BY <2>2, <3>2
      <4> QED BY <2>1, <3>1, <4>1 DEF SenderTypes
    <3>4. cur'.chunk = cur.chunk /\ cur'.last = cur.last /\ cur'.block = cur.block + 1
      BY <3>1 DEF SenderTypes
    <3>5. RangeInChunk'
      BY <2>1, <2>2, <3>1, <3>4 DEF RangeInChunk
    <3> QED BY <1>2, <2>1, <3>3, <3>5
  <2>3. CASE ~ (cur.block + 1 < cur.last)
    <3>1. cur' = NoCur /\ spc' = "loop"
      BY <1>3, <2>1, <2>3 DEF SendBlock
    <3>2. cur' \in [chunk : Chunk \union {-1}, block : 0 .. MAXCHUNKSIZE - 1,
                    last : 0 .. MAXCHUNKSIZE]
      BY <3>1, Sizes DEF NoCur, SizesGiven
    <3>3. SenderTypes'
      BY <2>1, <3>1, <3>2 DEF SenderTypes
    <3>4. RangeInChunk'
      BY <3>1 DEF RangeInChunk
    <3> QED BY <1>2, <2>1, <3>3, <3>4
  <2> QED BY <2>2, <2>3
<1>8. CASE ReadBeyondEOF
  <2>1. UNCHANGED <<queueVars, idlelastloop, killme>>
    BY <1>8 DEF ReadBeyondEOF
  <2>2. cur' = NoCur /\ spc' = "loop"
    BY <1>8 DEF ReadBeyondEOF
  <2>3. cur' \in [chunk : Chunk \union {-1}, block : 0 .. MAXCHUNKSIZE - 1,
                  last : 0 .. MAXCHUNKSIZE]
    BY <2>2, Sizes DEF NoCur, SizesGiven
  <2>4. SenderTypes'
    BY <2>1, <2>2, <2>3 DEF SenderTypes
  <2>5. RangeInChunk'
    BY <2>2 DEF RangeInChunk
  <2> QED BY <1>2, <2>1, <2>4, <2>5
<1>4. CASE \/ ReadFailed \/ LastClientLeft \/ LastClientExit \/ IdleExit
           \/ KilledExit \/ HangUp
  <2>1. /\ UNCHANGED <<queueVars, cur, idlelastloop, killme>>
        /\ spc' = "exited" \/ (spc = "idle" /\ spc' = "lastclient")
    BY <1>4 DEF ReadFailed, LastClientLeft, LastClientExit, IdleExit, KilledExit,
                HangUp
  <2>2. SenderTypes' /\ RangeInChunk'
    BY <2>1 DEF SenderTypes, RangeInChunk
  <2> QED BY <1>2, <2>1, <2>2
<1>5. CASE IdleAgain
  <2>1. /\ UNCHANGED <<queueVars, cur, killme>> /\ spc = "idle" /\ spc' = "loop"
        /\ idlelastloop' = TRUE
    BY <1>5 DEF IdleAgain
  <2>2. SenderTypes' /\ RangeInChunk'
    BY <2>1 DEF SenderTypes, RangeInChunk
  <2> QED BY <1>2, <2>1, <2>2
<1>7. CASE Kill
  <2>1. UNCHANGED <<queueVars, cur, spc, idlelastloop>> /\ killme' = TRUE
    BY <1>7 DEF Kill
  <2>2. SenderTypes' /\ RangeInChunk'
    BY <2>1 DEF SenderTypes, RangeInChunk
  <2> QED BY <1>2, <2>1, <2>2
<1> QED BY <1>1, <1>3, <1>4, <1>5, <1>7, <1>8

(* Steps that leave the queue and the main thread alone.                     *)
LEMMA QuietQueueStep ==
  ASSUME QueueInv, UNCHANGED <<queueVars, senderVars>>
  PROVE  QueueInv'
  BY DEF QueueInv, queueVars, senderVars, QueueTypes, SenderTypes, EntriesExact,
         OneAhead, RangeInChunk

(* Every step keeps the invariant of the queue.                              *)
LEMMA NextQueueInv ==
  ASSUME QueueInv, RecvTypes, Handling, [Next]_vars
  PROVE  QueueInv'
<1>1. CASE Sender
  BY <1>1, SenderQueueStep, DequeueJoinQueueStep, DequeueChunkQueueStep DEF Sender
<1>2. CASE Receiver
  <2>1. CASE Requests
    BY <2>1, RequestQueueStep DEF Requests
  <2>2. CASE WorkQueueEnqueueJoin
    BY <2>2, JoinQueueStep
  <2>3. CASE Joins \/ ClientJoin \/ \E h \in Host : ClientLeave(h)
    <3>1. UNCHANGED <<queueVars, senderVars>>
      BY <2>3 DEF Joins, RecvJoin, ClientJoin, ClientLeave
    <3> QED BY <3>1, QuietQueueStep
  <2> QED BY <1>2, <2>1, <2>2, <2>3 DEF Receiver
<1>3. CASE Faults
  BY <1>3, SenderQueueStep DEF Faults
<1>4. CASE (\E h \in Host : LeaveLost(h)) \/ Terminated \/ UNCHANGED vars
  <2>1. UNCHANGED <<queueVars, senderVars>>
    BY <1>4 DEF LeaveLost, Terminated, vars
  <2> QED BY <2>1, QuietQueueStep
<1> QED BY <1>1, <1>2, <1>3, <1>4 DEF Next

-----------------------------------------------------------------------------
(* The table of clients.                                                     *)

(* Until two hosts have picked one id, no two slots in use have one address  *)
(* or one id, and the id of the client that is joining is nobody else's.     *)
SlotsDistinct ==
  ~ reused =>
    \A s, t \in Slot \ FreeSlots :
      clients[s].ip = clients[t].ip \/ clients[s].id = clients[t].id => s = t

JoinerDistinct ==
  ~ reused /\ rj # NoOne =>
    \A s \in Slot : clients[s].id = host[rj].id => clients[s].ip = rj

Used == MAXCLIENTS - Cardinality(FreeSlots)

Roomy == Cardinality(Host) <= MAXCLIENTS /\ ~ reused

(* The count covers the slots in use; it exceeds them only when there may be *)
(* more clients than slots, or two clients had one id.                       *)
CountCovers ==
  /\ activeclients >= Used
  /\ Roomy => activeclients = Used

(* A playing client is in the table under its current id, the one whose JOIN *)
(* is being handled aside.                                                   *)
PlayersListed ==
  Roomy =>
    \A h \in Playing : h # rj =>
      \E s \in Slot : clients[s] = [ip |-> h, id |-> host[h].id]

TableInv ==
  /\ RecvTypes /\ Handling
  /\ SlotsDistinct /\ JoinerDistinct /\ CountCovers /\ PlayersListed

(* The slots of the table can be counted.                                    *)
LEMMA SlotsFinite ==
  /\ IsFiniteSet(Slot) /\ Cardinality(Slot) = MAXCLIENTS /\ Slot \subseteq Nat
  /\ IsFiniteSet(FreeSlots) /\ Cardinality(FreeSlots) \in 0 .. MAXCLIENTS
  /\ FreeSlots \subseteq Slot
<1> DEFINE n == MAXCLIENTS
<1>1. n \in Nat
  BY ServerAssumption
<1> HIDE DEF n
<1>2. IsFiniteSet(1 .. n) /\ Cardinality(1 .. n) = n
  <2>1. CASE n = 0
    BY <2>1, FS_Interval
  <2>2. CASE n # 0
    <3>1. n \in Int /\ ~ (1 > n) /\ n - 1 + 1 = n
      BY <1>1, <2>2
    <3> QED BY <3>1, FS_Interval
  <2> QED BY <2>1, <2>2
<1>3. IsFiniteSet(Slot) /\ Cardinality(Slot) = MAXCLIENTS /\ Slot \subseteq Nat
  BY <1>1, <1>2 DEF Slot, n
<1>4. FreeSlots \in SUBSET Slot
  BY DEF FreeSlots
<1>5. IsFiniteSet(FreeSlots) /\ Cardinality(FreeSlots) <= MAXCLIENTS
  BY <1>3, <1>4, FS_Subset
<1>6. Cardinality(FreeSlots) \in Nat
  BY <1>5, FS_CardinalityType
<1> QED BY <1>1, <1>3, <1>4, <1>5, <1>6 DEF n

(* A slot is free, or holds a host and an id.                                *)
LEMMA SlotTypes ==
  ASSUME RecvTypes
  PROVE  /\ \A s \in Slot : \/ clients[s] = FreeSlot
                            \/ clients[s].ip \in Host /\ clients[s].id \in Ids
         /\ FreeSlot.ip = NoOne /\ FreeSlot.id = 0
         /\ NoOne \notin Host /\ 0 \notin Ids
         /\ \A s \in Slot : /\ clients[s].ip \in Host => s \notin FreeSlots
                            /\ clients[s].id \in Ids => s \notin FreeSlots
<1>1. \A s \in Slot : \/ clients[s] = FreeSlot
                      \/ clients[s].ip \in Host /\ clients[s].id \in Ids
  <2>1. ASSUME NEW s \in Slot
        PROVE  \/ clients[s] = FreeSlot
               \/ clients[s].ip \in Host /\ clients[s].id \in Ids
    <3>1. clients[s] \in [ip : Host, id : Ids] \union {FreeSlot}
      BY DEF RecvTypes
    <3> QED BY <3>1
  <2> QED BY <2>1
<1>2. FreeSlot.ip = NoOne /\ FreeSlot.id = 0 /\ NoOne \notin Host /\ 0 \notin Ids
  BY HostAssumption, ServerAssumption DEF FreeSlot
<1>3. \A s \in Slot : /\ clients[s].ip \in Host => s \notin FreeSlots
                      /\ clients[s].id \in Ids => s \notin FreeSlots
  BY <1>2 DEF FreeSlots
<1> QED BY <1>1, <1>2, <1>3

(* With a slot for every host, a client that has no slot finds a free one.   *)
LEMMA SlotIsFree ==
  ASSUME RecvTypes, SlotsDistinct, Roomy, NEW h \in Host, SlotsOf(h) = {}
  PROVE  FreeSlots # {}
<1> SUFFICES ASSUME FreeSlots = {} PROVE FALSE
  OBVIOUS
<1> DEFINE f == [s \in Slot |-> clients[s].ip]
           Others == Host \ {h}
<1>1. \A s \in Slot : clients[s].ip \in Host
  BY SlotTypes DEF FreeSlots
<1>2. \A s \in Slot : clients[s].ip # h
  BY DEF SlotsOf
<1>3. f \in [Slot -> Others]
  BY <1>1, <1>2
<1>4. \A s, t \in Slot : f[s] = f[t] => s = t
  BY DEF SlotsDistinct, Roomy
<1> HIDE DEF f
<1>5. f \in Injection(Slot, Others)
  BY <1>3, <1>4 DEF Injection, IsInjective
<1>6. IsFiniteSet(Others) /\ Cardinality(Others) = Cardinality(Host) - 1
  BY HostAssumption, FS_RemoveElement
<1>7. Cardinality(Slot) <= Cardinality(Others)
  BY <1>5, <1>6, FS_Injection
<1>8. Cardinality(Host) \in Nat
  BY HostAssumption, FS_CardinalityType
<1> QED BY <1>6, <1>7, <1>8, SlotsFinite, ServerAssumption DEF Roomy

(* The empty table.                                                          *)
LEMMA InitTableInv == Init => TableInv
<1> SUFFICES ASSUME Init PROVE TableInv
  OBVIOUS
<1> USE DEF Init
<1>1. RecvTypes
  <2>1. clients \in [Slot -> [ip : Host, id : Ids] \union {FreeSlot}]
    OBVIOUS
  <2>2. host \in [Host -> [id : Ids \union {0}, in : BOOLEAN]]
    OBVIOUS
  <2>3. joins \in BOOLEAN /\ reused \in BOOLEAN /\ activeclients \in Nat
    OBVIOUS
  <2> QED BY <2>1, <2>2, <2>3 DEF RecvTypes
<1>2. Handling
  BY DEF Handling
<1>3. FreeSlots = Slot
  BY DEF FreeSlots
<1>4. SlotsDistinct /\ JoinerDistinct
  BY <1>3 DEF SlotsDistinct, JoinerDistinct
<1>5. CountCovers
  BY <1>3, SlotsFinite, ServerAssumption DEF CountCovers, Used
<1>6. PlayersListed
  <2>1. Playing = {}
    BY DEF Playing
  <2> QED BY <2>1 DEF PlayersListed
<1> QED BY <1>1, <1>2, <1>4, <1>5, <1>6 DEF TableInv

(* A JOIN comes in; that its id is another host's is noted.                  *)
LEMMA RecvJoinTableStep ==
  ASSUME TableInv, NEW h \in Host, NEW id \in Ids, NEW fresh \in BOOLEAN,
         RecvJoin(h, id, fresh)
  PROVE  TableInv'
<1> USE DEF TableInv
<1> DEFINE now == [id |-> id, in |-> TRUE]
           new == \E s \in Slot : clients[s].id = id /\ clients[s].ip # h
<1>1. /\ host' = [host EXCEPT ![h] = now]
      /\ joins' = TRUE /\ rpc' = "enqueue" /\ rj' = h
      /\ UNCHANGED <<clients, activeclients>>
      /\ rpc = "recv"
  BY DEF RecvJoin, Receiving
<1>2. reused' = (reused \/ new)
  BY DEF RecvJoin
<1>3. reused' \in BOOLEAN /\ (~ reused' => ~ reused /\ ~ new)
  <2> HIDE DEF new
  <2> QED BY <1>2 DEF RecvTypes
<1>4. /\ host \in [Host -> [id : Ids \union {0}, in : BOOLEAN]]
      /\ now \in [id : Ids \union {0}, in : BOOLEAN]
      /\ now.in = TRUE /\ now.id = id
  BY DEF RecvTypes
<1> HIDE DEF now
<1>5. /\ host' \in [Host -> [id : Ids \union {0}, in : BOOLEAN]]
      /\ host'[h] = now /\ \A g \in Host : g # h => host'[g] = host[g]
  BY <1>1, <1>4
<1>6. RecvTypes'
  BY <1>1, <1>3, <1>5 DEF RecvTypes
<1>7. Handling'
  BY <1>1, <1>4, <1>5, HostAssumption DEF Handling
<1>8. FreeSlots' = FreeSlots
  BY <1>1 DEF FreeSlots
<1>9. SlotsDistinct' /\ CountCovers'
  BY <1>1, <1>3, <1>8 DEF SlotsDistinct, CountCovers, Used, Roomy
<1>10. JoinerDistinct'
  BY <1>1, <1>3, <1>4, <1>5 DEF JoinerDistinct
<1>11. PlayersListed'
  <2>1. rj = NoOne
    BY <1>1 DEF Handling
  <2>2. ASSUME NEW g \in Playing', g # h, Roomy'
        PROVE  \E s \in Slot : clients'[s] = [ip |-> g, id |-> host'[g].id]
    <3>1. g \in Host /\ host'[g] = host[g] /\ g # rj
      BY <1>5, <2>1, <2>2, HostAssumption DEF Playing
    <3>2. g \in Playing /\ Roomy
      BY <1>3, <2>2, <3>1 DEF Playing, Roomy
    <3> QED BY <1>1, <3>1, <3>2 DEF PlayersListed
  <2> QED BY <1>1, <2>2 DEF PlayersListed
<1> QED BY <1>6, <1>7, <1>9, <1>10, <1>11

(* A client takes the slot s, its own or a free one.                         *)
LEMMA TakeSlot ==
  ASSUME TableInv, rj \in Host, NEW s \in Slot,
         clients' = [clients EXCEPT ![s] = [ip |-> rj, id |-> host[rj].id]]
  PROVE  /\ clients' \in [Slot -> [ip : Host, id : Ids] \union {FreeSlot}]
         /\ \A t \in Slot : t # s => clients'[t] = clients[t]
         /\ clients'[s] = [ip |-> rj, id |-> host[rj].id]
         /\ FreeSlots' = FreeSlots \ {s}
         /\ Cardinality(FreeSlots') = IF s \in FreeSlots
                                      THEN Cardinality(FreeSlots) - 1
                                      ELSE Cardinality(FreeSlots)
<1> DEFINE me == [ip |-> rj, id |-> host[rj].id]
<1>1. me \in [ip : Host, id : Ids] /\ me # FreeSlot
  <2>1. host[rj].id \in Ids
    BY HostAssumption DEF TableInv, Handling
  <2>2. me.ip # FreeSlot.ip
    BY HostAssumption DEF FreeSlot
  <2> QED BY <2>1, <2>2
<1> HIDE DEF me
<1>2. /\ clients \in [Slot -> [ip : Host, id : Ids] \union {FreeSlot}]
      /\ clients' = [clients EXCEPT ![s] = me]
  BY DEF TableInv, RecvTypes, me
<1>3. /\ clients' \in [Slot -> [ip : Host, id : Ids] \union {FreeSlot}]
      /\ clients'[s] = me /\ \A t \in Slot : t # s => clients'[t] = clients[t]
  BY <1>1, <1>2
<1>4. FreeSlots' = FreeSlots \ {s}
  BY <1>1, <1>3 DEF FreeSlots
<1> QED BY <1>3, <1>4, SlotsFinite, FS_RemoveElement DEF me

(* ClientJoin() finds a slot with the id or the address, takes a free one,   *)
(* or counts a client that has none.                                         *)
LEMMA ClientJoinTableStep == ASSUME TableInv, ClientJoin PROVE TableInv'
<1> DEFINE me == [ip |-> rj, id |-> host[rj].id]
<1>1. /\ rpc' = "recv" /\ rj' = NoOne /\ UNCHANGED <<joins, host, reused>>
      /\ rj \in Host /\ host[rj].id \in Ids
      /\ IF SlotsOf(rj) # {}
         THEN /\ clients' = [clients EXCEPT ![Min(SlotsOf(rj))] = me]
              /\ activeclients' = activeclients
         ELSE /\ activeclients' = activeclients + 1
              /\ clients' = IF FreeSlots = {} THEN clients
                            ELSE [clients EXCEPT ![Min(FreeSlots)] = me]
  BY DEF ClientJoin, TableInv, Handling, RecvTypes, hostVars
<1>2. Handling' /\ JoinerDistinct'
  BY <1>1 DEF TableInv, Handling, JoinerDistinct
<1>3. ASSUME NEW s \in Slot, clients' = [clients EXCEPT ![s] = me],
             s \in SlotsOf(rj) \/ (SlotsOf(rj) = {} /\ s \in FreeSlots)
      PROVE  SlotsDistinct' /\ PlayersListed'
  <2>1. /\ \A t \in Slot : t # s => clients'[t] = clients[t]
        /\ clients'[s] = me /\ FreeSlots' = FreeSlots \ {s}
    BY <1>1, <1>3, TakeSlot
  <2>2. me.ip = rj /\ me.id = host[rj].id /\ rj # NoOne
    BY <1>1, HostAssumption
  <2> HIDE DEF me
  <2>3. ASSUME ~ reused, NEW t \in Slot, t # s
        PROVE  clients[t].ip # rj /\ clients[t].id # host[rj].id
    <3>1. CASE SlotsOf(rj) = {}
      BY <3>1 DEF SlotsOf
    <3>2. CASE s \in SlotsOf(rj)
      <4>1. clients[s].ip = rj
        BY <2>2, <2>3, <3>2 DEF SlotsOf, TableInv, JoinerDistinct
      <4>2. s \notin FreeSlots
        BY <1>1, <4>1, SlotTypes DEF TableInv
      <4>3. clients[t].ip # rj
        <5>1. CASE t \in FreeSlots
          BY <2>2, <5>1, SlotTypes DEF FreeSlots, TableInv
        <5>2. CASE t \notin FreeSlots
          BY <2>3, <4>1, <4>2, <5>2 DEF TableInv, SlotsDistinct
        <5> QED BY <5>1, <5>2
      <4> QED BY <2>2, <2>3, <4>3 DEF TableInv, JoinerDistinct
    <3> QED BY <1>3, <3>1, <3>2
  <2>4. SlotsDistinct'
    <3>1. ASSUME ~ reused, NEW t \in Slot \ FreeSlots', NEW u \in Slot \ FreeSlots',
                 \/ clients'[t].ip = clients'[u].ip
                 \/ clients'[t].id = clients'[u].id
          PROVE  t = u
      <4>1. CASE t = s /\ u # s
        BY <2>1, <2>2, <2>3, <3>1, <4>1
      <4>2. CASE u = s /\ t # s
        BY <2>1, <2>2, <2>3, <3>1, <4>2
      <4>3. CASE t # s /\ u # s
        BY <2>1, <3>1, <4>3 DEF TableInv, SlotsDistinct
      <4> QED BY <4>1, <4>2, <4>3
    <3> QED BY <1>1, <3>1 DEF SlotsDistinct
  <2>5. PlayersListed'
    <3>1. ASSUME NEW h \in Playing', Roomy
          PROVE  \E t \in Slot : clients'[t] = [ip |-> h, id |-> host'[h].id]
      <4>1. h \in Playing /\ host' = host
        BY <1>1 DEF Playing
      <4>2. CASE h = rj
        BY <2>1, <4>1, <4>2 DEF me
      <4>3. CASE h # rj
        <5>1. PICK t \in Slot : clients[t] = [ip |-> h, id |-> host[h].id]
          BY <3>1, <4>1, <4>3 DEF TableInv, PlayersListed
        <5>2. clients[t].ip = h /\ h \in Host
          BY <4>1, <5>1 DEF Playing
        <5>3. t # s
          <6>1. CASE s \in SlotsOf(rj)
            <7>1. clients[s].ip = rj
              BY <2>2, <3>1, <6>1 DEF SlotsOf, TableInv, JoinerDistinct, Roomy
            <7> QED BY <4>3, <5>2, <7>1
          <6>2. CASE s \in FreeSlots
            BY <5>2, <6>2, SlotTypes DEF TableInv
          <6> QED BY <1>3, <6>1, <6>2
        <5> QED BY <2>1, <4>1, <5>1, <5>3
      <4> QED BY <4>2, <4>3
    <3> QED BY <1>1, <3>1 DEF PlayersListed, Roomy
  <2> QED BY <2>4, <2>5
<1>4. /\ activeclients \in Nat /\ Cardinality(FreeSlots) \in 0 .. MAXCLIENTS
      /\ MAXCLIENTS \in Nat
  BY SlotsFinite, ServerAssumption DEF TableInv, RecvTypes
<1>5. CASE SlotsOf(rj) # {}
  <2> DEFINE s == Min(SlotsOf(rj))
  <2>1. s \in Slot /\ s \in SlotsOf(rj)
    <3>1. SlotsOf(rj) \in SUBSET Nat
      BY SlotsFinite DEF SlotsOf
    <3>2. s \in SlotsOf(rj)
      BY <1>5, <3>1, MinOfNats
    <3> HIDE DEF s
    <3> QED BY <3>2 DEF SlotsOf
  <2> HIDE DEF s
  <2>2. clients' = [clients EXCEPT ![s] = me] /\ activeclients' = activeclients
    BY <1>1, <1>5 DEF s
  <2>3. s \notin FreeSlots
    BY <1>1, <2>1, SlotTypes DEF SlotsOf, TableInv
  <2>4. /\ clients' \in [Slot -> [ip : Host, id : Ids] \union {FreeSlot}]
        /\ Cardinality(FreeSlots') = Cardinality(FreeSlots)
    BY <1>1, <2>1, <2>2, <2>3, TakeSlot
  <2>5. RecvTypes' /\ CountCovers'
    BY <1>1, <2>2, <2>4 DEF TableInv, RecvTypes, CountCovers, Used, Roomy
  <2> QED BY <1>2, <1>3, <2>1, <2>2, <2>5 DEF TableInv
<1>6. CASE SlotsOf(rj) = {} /\ FreeSlots # {}
  <2> DEFINE s == Min(FreeSlots)
  <2>1. s \in Slot /\ s \in FreeSlots
    <3>1. FreeSlots \in SUBSET Nat /\ FreeSlots \subseteq Slot
      BY SlotsFinite
    <3> QED BY <1>6, <3>1, MinOfNats
  <2> HIDE DEF s
  <2>2. clients' = [clients EXCEPT ![s] = me] /\ activeclients' = activeclients + 1
    BY <1>1, <1>6 DEF s
  <2>3. /\ clients' \in [Slot -> [ip : Host, id : Ids] \union {FreeSlot}]
        /\ Cardinality(FreeSlots') = Cardinality(FreeSlots) - 1
    BY <1>1, <2>1, <2>2, TakeSlot
  <2>4. RecvTypes'
    BY <1>1, <1>4, <2>2, <2>3 DEF TableInv, RecvTypes
  <2>5. CountCovers'
    BY <1>1, <1>4, <2>2, <2>3 DEF TableInv, CountCovers, Used, Roomy
  <2> QED BY <1>2, <1>3, <1>6, <2>1, <2>2, <2>4, <2>5 DEF TableInv
<1>7. CASE SlotsOf(rj) = {} /\ FreeSlots = {}
  <2>1. clients' = clients /\ activeclients' = activeclients + 1
    BY <1>1, <1>7
  <2>2. ~ Roomy
    BY <1>1, <1>7, SlotIsFree DEF TableInv
  <2>3. RecvTypes'
    BY <1>1, <1>4, <2>1 DEF TableInv, RecvTypes
  <2>4. FreeSlots' = FreeSlots /\ ~ Roomy'
    BY <1>1, <2>1, <2>2 DEF FreeSlots, Roomy
  <2>5. SlotsDistinct'
    BY <1>1, <2>1, <2>4 DEF TableInv, SlotsDistinct
  <2>6. CountCovers' /\ PlayersListed'
    BY <1>4, <2>1, <2>4 DEF TableInv, CountCovers, Used, PlayersListed
  <2> QED BY <1>2, <2>3, <2>5, <2>6 DEF TableInv
<1> QED BY <1>5, <1>6, <1>7

(* A client goes away, whether the server learns of it or not.               *)
LEMMA GoneIsNotListed ==
  ASSUME TableInv, NEW h \in Host, host' = [host EXCEPT ![h].in = FALSE],
         rj # h, UNCHANGED <<rpc, rj>>
  PROVE  /\ host' \in [Host -> [id : Ids \union {0}, in : BOOLEAN]]
         /\ \A g \in Playing' : g \in Playing /\ g # h /\ host'[g] = host[g]
         /\ Handling'
         /\ rj # NoOne => host'[rj] = host[rj]
<1>1. host \in [Host -> [id : Ids \union {0}, in : BOOLEAN]]
  BY DEF TableInv, RecvTypes
<1>2. host' = [host EXCEPT ![h] = [host[h] EXCEPT !.in = FALSE]]
  OBVIOUS
<1>3. [host[h] EXCEPT !.in = FALSE] \in [id : Ids \union {0}, in : BOOLEAN]
  BY <1>1
<1>4. [host[h] EXCEPT !.in = FALSE].in = FALSE
  BY <1>1
<1>5. host' \in [Host -> [id : Ids \union {0}, in : BOOLEAN]]
  BY <1>1, <1>2, <1>3
<1>6. host'[h].in = FALSE /\ \A g \in Host : g # h => host'[g] = host[g]
  BY <1>1, <1>2, <1>4
<1>7. \A g \in Playing' : g \in Playing /\ g # h /\ host'[g] = host[g]
  BY <1>6 DEF Playing
<1>8. rj # NoOne => rj \in Host /\ host'[rj] = host[rj]
  BY <1>6 DEF TableInv, RecvTypes
<1>9. Handling'
  BY <1>6, <1>8 DEF TableInv, Handling
<1> QED BY <1>5, <1>7, <1>8, <1>9

(* A client whose LEAVE is lost keeps its slot.                              *)
LEMMA LeaveLostTableStep ==
  ASSUME TableInv, NEW h \in Host, LeaveLost(h) PROVE TableInv'
<1>1. /\ host' = [host EXCEPT ![h].in = FALSE] /\ rj # h
      /\ UNCHANGED <<rpc, rj, clients, activeclients, joins, reused>>
  BY DEF LeaveLost, recvVars
<1>2. RecvTypes' /\ Handling'
  BY <1>1, GoneIsNotListed DEF TableInv, RecvTypes
<1>3. SlotsDistinct' /\ CountCovers'
  BY <1>1 DEF TableInv, SlotsDistinct, CountCovers, Used, FreeSlots, Roomy
<1>4. JoinerDistinct'
  BY <1>1, GoneIsNotListed DEF TableInv, JoinerDistinct
<1>5. PlayersListed'
  <2>1. \A g \in Playing' : g \in Playing /\ host'[g] = host[g]
    BY <1>1, GoneIsNotListed
  <2>2. Roomy' = Roomy
    BY <1>1 DEF Roomy
  <2> QED BY <1>1, <2>1, <2>2 DEF TableInv, PlayersListed
<1> QED BY <1>2, <1>3, <1>4, <1>5 DEF TableInv

(* ClientLeave() clears a slot with the id of the client that has left: its  *)
(* own, as long as no two hosts have picked one id.                          *)
LEMMA ClientLeaveTableStep ==
  ASSUME TableInv, NEW h \in Host, ClientLeave(h) PROVE TableInv'
<1> DEFINE S == {s \in Slot : clients[s].id = host[h].id}
<1>1. /\ host' = [host EXCEPT ![h].in = FALSE] /\ host[h].in /\ rj = NoOne
      /\ UNCHANGED <<rpc, rj, joins, reused>>
      /\ IF S # {}
         THEN /\ clients' = [clients EXCEPT ![Min(S)] = FreeSlot]
              /\ activeclients' = activeclients - 1
         ELSE UNCHANGED <<clients, activeclients>>
  BY DEF ClientLeave, Receiving, TableInv, Handling
<1>2. /\ host' \in [Host -> [id : Ids \union {0}, in : BOOLEAN]]
      /\ \A g \in Playing' : g \in Playing /\ g # h /\ host'[g] = host[g]
      /\ Handling'
  BY <1>1, HostAssumption, GoneIsNotListed
<1>3. JoinerDistinct'
  BY <1>1 DEF JoinerDistinct
<1>4. CASE S = {}
  <2>1. UNCHANGED <<clients, activeclients>>
    BY <1>1, <1>4
  <2>2. RecvTypes'
    BY <1>1, <1>2, <2>1 DEF TableInv, RecvTypes
  <2>3. SlotsDistinct' /\ CountCovers'
    BY <1>1, <2>1 DEF TableInv, SlotsDistinct, CountCovers, Used, FreeSlots, Roomy
  <2>4. PlayersListed'
    BY <1>1, <1>2, <2>1 DEF TableInv, PlayersListed, Roomy
  <2> QED BY <1>2, <1>3, <2>2, <2>3, <2>4 DEF TableInv
<1>5. CASE S # {}
  <2> DEFINE s == Min(S)
  <2>1. s \in Slot /\ clients[s].id = host[h].id
    <3>1. S \in SUBSET Nat
      BY SlotsFinite
    <3>2. s \in S
      BY <1>5, <3>1, MinOfNats
    <3> HIDE DEF s
    <3> QED BY <3>2
  <2>2. clients' = [clients EXCEPT ![s] = FreeSlot] /\ activeclients' = activeclients - 1
    BY <1>1, <1>5
  <2> HIDE DEF s, S
  <2>3. clients \in [Slot -> [ip : Host, id : Ids] \union {FreeSlot}]
    BY DEF TableInv, RecvTypes
  <2>4. /\ clients' \in [Slot -> [ip : Host, id : Ids] \union {FreeSlot}]
        /\ clients'[s] = FreeSlot /\ \A t \in Slot : t # s => clients'[t] = clients[t]
    BY <2>1, <2>2, <2>3
  <2>5. host[h].id \in Ids
    BY <1>1 DEF TableInv, Handling
  <2>6. s \notin FreeSlots
    BY <2>1, <2>5, SlotTypes DEF TableInv
  <2>7. FreeSlots' = FreeSlots \cup {s}
    BY <2>1, <2>4 DEF FreeSlots
  <2>8. Cardinality(FreeSlots') = Cardinality(FreeSlots) + 1
    BY <2>6, <2>7, SlotsFinite, FS_AddElement
  <2>9. Cardinality(FreeSlots) + 1 <= MAXCLIENTS
    <3>1. FreeSlots' \in SUBSET Slot
      BY <2>1, <2>7, SlotsFinite
    <3> QED BY <2>8, <3>1, SlotsFinite, FS_Subset
  <2>10. activeclients \in Nat /\ MAXCLIENTS \in Nat /\ Cardinality(FreeSlots) \in Nat
    BY SlotsFinite, ServerAssumption DEF TableInv, RecvTypes
  <2>11. activeclients' \in Nat /\ CountCovers'
    <3>1. activeclients >= MAXCLIENTS - Cardinality(FreeSlots)
      BY DEF TableInv, CountCovers, Used
    <3>2. activeclients' \in Nat
      BY <2>2, <2>9, <2>10, <3>1
    <3>3. Roomy' = Roomy
      BY <1>1 DEF Roomy
    <3> QED BY <2>2, <2>8, <2>10, <3>2, <3>3 DEF TableInv, CountCovers, Used
  <2>12. RecvTypes'
    BY <1>1, <1>2, <2>4, <2>11 DEF TableInv, RecvTypes
  <2>13. SlotsDistinct'
    BY <1>1, <2>4, <2>7 DEF TableInv, SlotsDistinct
  <2>14. PlayersListed'
    <3>1. ASSUME NEW g \in Playing', g # rj', Roomy
          PROVE  \E t \in Slot : clients'[t] = [ip |-> g, id |-> host'[g].id]
      <4>1. g \in Playing /\ g # h /\ host'[g] = host[g] /\ g # rj
        BY <1>1, <1>2, <3>1
      <4>2. h \in Playing /\ h # rj
        BY <1>1, HostAssumption DEF Playing
      <4>3. PICK t \in Slot : clients[t] = [ip |-> g, id |-> host[g].id]
        BY <3>1, <4>1 DEF TableInv, PlayersListed
      <4>4. PICK u \in Slot : clients[u] = [ip |-> h, id |-> host[h].id]
        BY <3>1, <4>2 DEF TableInv, PlayersListed
      <4>5. u = s
        <5>1. u \notin FreeSlots /\ clients[u].id = clients[s].id
          BY <2>1, <2>5, <4>4, SlotTypes DEF TableInv
        <5> QED BY <2>1, <2>6, <3>1, <5>1 DEF TableInv, SlotsDistinct, Roomy
      <4>6. t # s
        BY <4>1, <4>3, <4>4, <4>5
      <4> QED BY <2>4, <4>1, <4>3, <4>6
    <3> QED BY <1>1, <3>1 DEF PlayersListed, Roomy
  <2> QED BY <1>2, <1>3, <2>11, <2>12, <2>13, <2>14 DEF TableInv
<1> QED BY <1>4, <1>5

(* Steps that leave the table and the hosts alone.                           *)
LEMMA QuietTableStep ==
  ASSUME TableInv, UNCHANGED <<recvVars, hostVars>>
  PROVE  TableInv'
  BY DEF TableInv, recvVars, hostVars, RecvTypes, Handling, SlotsDistinct,
         JoinerDistinct, CountCovers, Used, FreeSlots, PlayersListed, Playing, Roomy

(* Every step keeps the table exact.                                         *)
LEMMA NextTableInv ==
  ASSUME TableInv, [Next]_vars
  PROVE  TableInv'
<1>1. CASE Sender \/ Faults \/ Terminated \/ UNCHANGED vars
  <2>1. UNCHANGED <<recvVars, hostVars>>
    <3>1. CASE Sender
      BY <3>1 DEF Sender, DequeueNothing, DequeueJoin, DequeueChunk, SendBlock,
                  ReadBeyondEOF, LastClientLeft, LastClientExit, IdleExit,
                  IdleAgain, KilledExit
    <3>2. CASE Faults
      BY <3>2 DEF Faults, ReadFailed, Kill, HangUp
    <3>3. CASE Terminated \/ UNCHANGED vars
      BY <3>3 DEF Terminated, vars
    <3> QED BY <1>1, <3>1, <3>2, <3>3
  <2> QED BY <2>1, QuietTableStep
<1>2. CASE Receiver
  <2>1. CASE Requests
    <3>1. UNCHANGED <<recvVars, hostVars>>
      BY <2>1 DEF Requests, RecvRequest
    <3> QED BY <3>1, QuietTableStep
  <2>2. CASE Joins
    BY <2>2, RecvJoinTableStep DEF Joins
  <2>3. CASE WorkQueueEnqueueJoin
    <3>1. /\ rpc = "enqueue" /\ rpc' = "table"
          /\ UNCHANGED <<rj, clients, activeclients, joins, host, reused>>
      BY <2>3 DEF WorkQueueEnqueueJoin, hostVars
    <3>2. RecvTypes' /\ Handling'
      BY <3>1 DEF TableInv, RecvTypes, Handling
    <3>3. SlotsDistinct' /\ JoinerDistinct' /\ CountCovers' /\ PlayersListed'
      BY <3>1 DEF TableInv, SlotsDistinct, JoinerDistinct, CountCovers, Used,
                  FreeSlots, PlayersListed, Playing, Roomy
    <3> QED BY <3>2, <3>3 DEF TableInv
  <2>4. CASE ClientJoin
    BY <2>4, ClientJoinTableStep
  <2>5. CASE \E h \in Host : ClientLeave(h)
    BY <2>5, ClientLeaveTableStep
  <2> QED BY <1>2, <2>1, <2>2, <2>3, <2>4, <2>5 DEF Receiver
<1>3. CASE \E h \in Host : LeaveLost(h)
  BY <1>3, LeaveLostTableStep
<1> QED BY <1>1, <1>2, <1>3 DEF Next

-----------------------------------------------------------------------------
(* The theorems.                                                             *)

IInv == QueueInv /\ TableInv

(* The inductive invariant holds in every reachable state.                   *)
THEOREM SpecIInv == Spec => []IInv
<1>1. Init => IInv
  BY InitQueueInv, InitTableInv DEF IInv
<1>2. IInv /\ [Next]_vars => IInv'
  BY NextQueueInv, NextTableInv DEF IInv, TableInv
<1> QED BY <1>1, <1>2, PTL DEF Spec

(* Every variable has its type, whatever packets and signals arrive: in      *)
(* particular the count of active clients never goes below zero.             *)
THEOREM TypesKept == Spec => []TypeOK
<1>1. IInv => TypeOK
  BY DEF IInv, QueueInv, TableInv, TypeOK
<1> QED BY <1>1, SpecIInv, PTL

(* An entry for blocks is one that is no join reply.                         *)
LEMMA ChunkEntriesAre ==
  ASSUME QueueTypes
  PROVE  ChunkEntries = {i \in 1 .. Len(WorkQ) : WorkQ[i].chunk \notin JoinChunk}
  BY QueueFacts DEF ChunkEntries

(* The count of an entry is the number of blocks in its map.                 *)
LEMMA NBlocksAreExact == ASSUME QueueInv PROVE NBlocksExact
<1>1. ChunkEntries = {i \in 1 .. Len(WorkQ) : WorkQ[i].chunk \notin JoinChunk}
  BY ChunkEntriesAre DEF QueueInv
<1> QED BY <1>1 DEF NBlocksExact, QueueInv, EntriesExact, EntryExact

(* One entry for a chunk and one more in front: no more entries than chunks, *)
(* and one.                                                                  *)
LEMMA QueueIsBounded == ASSUME QueueInv PROVE QueueBounded
<1> DEFINE E == ChunkEntries
<1>1. /\ E = {i \in 1 .. Len(WorkQ) : WorkQ[i].chunk \notin JoinChunk}
      /\ Len(WorkQ) \in Nat
      /\ \A i \in 1 .. Len(WorkQ) : WorkQ[i].chunk \in Chunk \cup JoinChunk
  BY ChunkEntriesAre, QueueFacts DEF QueueInv
<1> HIDE DEF E
<1>2. E \in SUBSET Nat
  BY <1>1
<1>3. ASSUME NEW i \in E, NEW j \in E, i < j, WorkQ[i].chunk = WorkQ[j].chunk
      PROVE  i = Min(E) /\ WorkQ[i].chunk = WorkChunk
  <2>1. /\ WorkQ[i].chunk = WorkChunk
        /\ \A k \in 1 .. i - 1 : WorkQ[k].chunk \in JoinChunk
    BY <1>1, <1>3 DEF QueueInv, OneAhead
  <2>2. ASSUME NEW k \in E PROVE i <= k
    <3>1. k \in 1 .. Len(WorkQ) /\ WorkQ[k].chunk \notin JoinChunk
      BY <1>1
    <3>2. k \notin 1 .. i - 1
      BY <2>1, <3>1
    <3> QED BY <1>1, <3>1, <3>2
  <2>3. i = Min(E)
    BY <1>2, <2>2, MinIs
  <2> QED BY <2>1, <2>3
<1>4. Cardinality(E) <= TotalChunks + 1
  <2> DEFINE F == E \ {Min(E)}
             f == [i \in F |-> WorkQ[i].chunk]
  <2>1. f \in [F -> Chunk]
    BY <1>1
  <2>2. ASSUME NEW i \in F, NEW j \in F, f[i] = f[j] PROVE i = j
    <3>1. i \in E /\ j \in E /\ i # Min(E) /\ j # Min(E)
          /\ WorkQ[i].chunk = WorkQ[j].chunk /\ i \in Nat /\ j \in Nat
      BY <1>2, <2>2
    <3>2. ~ (i < j) /\ ~ (j < i)
      BY <1>3, <3>1
    <3> QED BY <3>1, <3>2
  <2> HIDE DEF f
  <2>3. f \in Injection(F, Chunk)
    BY <2>1, <2>2 DEF Injection, IsInjective
  <2>4. IsFiniteSet(Chunk) /\ Cardinality(Chunk) = TotalChunks /\ TotalChunks \in Nat
    BY NoJoinChunk, Sizes, ChunksFinite, Totals
  <2>5. IsFiniteSet(F) /\ Cardinality(F) <= TotalChunks
    BY <2>3, <2>4, FS_Injection
  <2>6. Cardinality(F) \in Nat
    BY <2>5, FS_CardinalityType
  <2>7. IsFiniteSet(E)
    <3>1. E \in SUBSET (1 .. Len(WorkQ)) /\ IsFiniteSet(1 .. Len(WorkQ))
      BY <1>1, FS_Interval
    <3> QED BY <3>1, FS_Subset
  <2>8. Cardinality(F) = IF Min(E) \in E THEN Cardinality(E) - 1 ELSE Cardinality(E)
    BY <2>7, FS_RemoveElement
  <2>9. Cardinality(E) \in Nat
    BY <2>7, FS_CardinalityType
  <2> HIDE DEF F
  <2> QED BY <2>4, <2>5, <2>6, <2>8, <2>9
<1> QED BY <1>3, <1>4 DEF QueueBounded, E

(* The work queue is exact and bounded: merging keeps the count of an entry  *)
(* equal to the blocks in its map, and the queue holds at most one entry per *)
(* chunk, and one more for the chunk that is being sent.                     *)
THEOREM QueueKept == Spec => []QueueExact
<1>1. IInv => QueueExact
  BY NBlocksAreExact, QueueIsBounded DEF IInv, QueueExact
<1> QED BY <1>1, SpecIInv, PTL

(* A read for blocks of the range ends in the range, and in the file if its  *)
(* last block is one of the chunk.                                           *)
LEMMA ReadsRange ==
  ASSUME QueueInv, spc = "send"
  PROVE  /\ ReadEnd \in cur.block + 1 .. cur.last
         /\ ReadEnd - 1 \in ChunkBlocks(cur.chunk) => ~ BeyondEOF
<1>1. /\ cur.chunk \in Chunk /\ cur.block \in Nat /\ cur.last \in Nat
      /\ cur.block < cur.last
  <2>1. cur.block \in Nat /\ cur.last \in Nat
    BY Sizes DEF QueueInv, SenderTypes, SizesGiven
  <2> QED BY <2>1 DEF QueueInv, RangeInChunk
<1>2. ReadEnd \in cur.block + 1 .. cur.last
  <2>1. readsize \in Nat \ {0}
    BY ServerAssumption
  <2> QED BY <1>1, <2>1 DEF ReadEnd
<1>3. ASSUME ReadEnd - 1 \in ChunkBlocks(cur.chunk) PROVE ~ BeyondEOF
  <2> DEFINE b == ReadEnd - 1
             k == cur.chunk * MAXCHUNKSIZE
  <2>1. Number(cur.chunk, b) \in 0 .. TotalBlocks - 1
    BY <1>1, <1>3, Sizes, ChunksPartitionBlocks
  <2>2. TotalBlocks \in Nat /\ k \in Nat /\ ReadEnd \in Nat
    <3>1. cur.chunk \in Nat /\ MAXCHUNKSIZE \in Nat /\ TotalBlocks \in Nat
      BY <1>1, Sizes, ChunksFinite, Totals DEF SizesGiven
    <3> QED BY <1>1, <1>2, <3>1
  <2>3. k + b <= TotalBlocks - 1
    BY <2>1, <2>2 DEF Number
  <2> HIDE DEF k
  <2>4. ~ (k + ReadEnd > TotalBlocks)
    BY <2>2, <2>3
  <2> QED BY <2>4 DEF BeyondEOF, k
<1> QED BY <1>2, <1>3

(* Of whatever sizes, a read goes past the end of the file only if a block   *)
(* that is not in the file was asked for in the range being sent.            *)
THEOREM EOFKept == Spec => []PastEOFWasAsked
<1>1. ASSUME IInv, spc = "send",
             \A b \in cur.block .. cur.last - 1 : b \in ChunkBlocks(cur.chunk)
      PROVE  ~ BeyondEOF
  <2>1. cur.block \in Nat /\ cur.last \in Nat
    BY <1>1, Sizes DEF IInv, QueueInv, SenderTypes, SizesGiven
  <2>2. ReadEnd \in cur.block + 1 .. cur.last
    BY <1>1, ReadsRange DEF IInv
  <2>3. ReadEnd - 1 \in ChunkBlocks(cur.chunk)
    BY <1>1, <2>1, <2>2
  <2> QED BY <1>1, <2>3, ReadsRange DEF IInv
<1>2. IInv => PastEOFWasAsked
  BY <1>1 DEF PastEOFWasAsked
<1> QED BY <1>2, SpecIInv, PTL

(* With a slot for every host, and until two hosts have picked one id, the   *)
(* table lists every playing client exactly once under its current id and    *)
(* the count is the number of slots in use, whatever joins repeat and        *)
(* whichever clients crash and come back.                                    *)
THEOREM TableKept == Spec => []TableExact
<1>1. ASSUME TableInv, rpc = "recv", Roomy
      PROVE  /\ activeclients = MAXCLIENTS - Cardinality(FreeSlots)
             /\ \A h \in Playing :
                  \E s \in Slot : /\ clients[s] = [ip |-> h, id |-> host[h].id]
                                  /\ SlotsOf(h) = {s}
  <2>1. activeclients = MAXCLIENTS - Cardinality(FreeSlots)
    BY <1>1 DEF TableInv, CountCovers, Used
  <2>2. ASSUME NEW h \in Playing
        PROVE  \E s \in Slot : /\ clients[s] = [ip |-> h, id |-> host[h].id]
                               /\ SlotsOf(h) = {s}
    <3>1. h \in Host /\ h # NoOne /\ rj = NoOne /\ host[h].id \in Ids
      BY <1>1, HostAssumption DEF Playing, TableInv, Handling
    <3>2. PICK s \in Slot : clients[s] = [ip |-> h, id |-> host[h].id]
      BY <1>1, <3>1 DEF TableInv, PlayersListed
    <3>3. clients[s].ip = h /\ clients[s].id = host[h].id
      BY <3>2
    <3>4. \A t \in SlotsOf(h) : t \in Slot \ FreeSlots
      BY <1>1, <3>1, SlotTypes DEF SlotsOf, TableInv
    <3>5. s \in SlotsOf(h)
      BY <3>3 DEF SlotsOf
    <3>6. \A t \in SlotsOf(h) : t = s
      BY <1>1, <3>3, <3>4, <3>5 DEF SlotsOf, TableInv, SlotsDistinct, Roomy
    <3> QED BY <3>2, <3>5, <3>6
  <2> QED BY <2>1, <2>2
<1>2. IInv => TableExact
  BY <1>1 DEF IInv, TableExact, Roomy, SlotsOf
<1> QED BY <1>2, SpecIInv, PTL

-----------------------------------------------------------------------------
(* The queue implements a set of owed blocks.                                *)

(* The blocks a queue q and a range r being sent still owe.                  *)
OwedOf(q, r) ==
  (UNION {{q[i].chunk} \X q[i].blocks : i \in {j \in 1 .. Len(q) : ~ IsJoin(q[j])}})
  \union ({r.chunk} \X (r.block .. r.last - 1))

(* What is owed depends on the queue and the range being sent only.          *)
LEMMA OwedIs == Owed = OwedOf(WorkQ, cur) /\ Owed' = OwedOf(WorkQ', cur')
  BY DEF Owed, OwedOf, ChunkEntries

(* A block of chunk c is owed by an entry of c, or by the range.             *)
InEntry(q, c, b) ==
  \E i \in 1 .. Len(q) : q[i].chunk = c /\ c \notin JoinChunk /\ b \in q[i].blocks
InRange(r, c, b) == c = r.chunk /\ b \in r.block .. r.last - 1

(* A block is owed exactly when an entry or the range asks for it.           *)
LEMMA OwedPairs ==
  ASSUME NEW q \in Seq(QEntry), NEW r
  PROVE  /\ \A p \in OwedOf(q, r) : \E c, b : p = <<c, b>>
         /\ \A c, b : <<c, b>> \in OwedOf(q, r) <=> InEntry(q, c, b) \/ InRange(r, c, b)
<1>1. \A i \in 1 .. Len(q) : IsJoin(q[i]) <=> q[i].chunk \in JoinChunk
  <2>1. Chunk \subseteq Nat
    BY NoJoinChunk, Sizes, ChunksFinite
  <2>2. ASSUME NEW i \in 1 .. Len(q) PROVE IsJoin(q[i]) <=> q[i].chunk \in JoinChunk
    <3>1. q[i] \in QEntry
      BY ElementOfSeq
    <3>2. q[i].chunk \in Chunk \cup JoinChunk
      BY <3>1 DEF QEntry
    <3>3. q[i].chunk \in Nat \/ q[i].chunk \in JoinChunk
      BY <2>1, <3>2
    <3> QED BY <3>3 DEF IsJoin, JoinChunk
  <2> QED BY <2>2
<1> DEFINE I == {j \in 1 .. Len(q) : ~ IsJoin(q[j])}
           P(i) == {q[i].chunk} \X q[i].blocks
           R == {r.chunk} \X (r.block .. r.last - 1)
<1>2. \A p : p \in OwedOf(q, r) <=> (\E i \in I : p \in P(i)) \/ p \in R
  <2>1. OwedOf(q, r) = (UNION {P(i) : i \in I}) \cup R
    BY Zenon DEF OwedOf
  <2> DEFINE X == UNION {P(i) : i \in I}
  <2> HIDE DEF P, R, I
  <2>2. \A p : p \in X <=> \E i \in I : p \in P(i)
    BY Zenon
  <2>3. \A p : p \in OwedOf(q, r) <=> p \in X \/ p \in R
    <3> HIDE DEF X
    <3> QED BY <2>1, Zenon DEF X
  <2> HIDE DEF X
  <2> QED BY <2>2, <2>3, Zenon
<1>3. \A p \in OwedOf(q, r) : \E c, b : p = <<c, b>>
  BY <1>2
<1>4. ASSUME NEW c, NEW b
      PROVE  <<c, b>> \in OwedOf(q, r) <=> InEntry(q, c, b) \/ InRange(r, c, b)
  <2>1. \A i : <<c, b>> \in P(i) <=> q[i].chunk = c /\ b \in q[i].blocks
    OBVIOUS
  <2>2. <<c, b>> \in R <=> InRange(r, c, b)
    BY DEF InRange
  <2>3. (\E i \in I : <<c, b>> \in P(i)) <=> InEntry(q, c, b)
    BY <1>1, <2>1 DEF InEntry
  <2> HIDE DEF P, R, I
  <2> QED BY <1>2, <2>2, <2>3
<1> QED BY <1>3, <1>4

(* Between two states, to compare what is owed is to compare blocks.         *)
LEMMA OwedCompare ==
  ASSUME NEW q \in Seq(QEntry), NEW r, NEW T,
         \A c, b : InEntry(q, c, b) \/ InRange(r, c, b) => <<c, b>> \in T
  PROVE  OwedOf(q, r) \subseteq T
<1> SUFFICES ASSUME NEW p \in OwedOf(q, r) PROVE p \in T
  OBVIOUS
<1>1. PICK c, b : p = <<c, b>>
  BY OwedPairs
<1> QED BY <1>1, OwedPairs

(* A request adds its blocks and nothing else, unless it is dropped.         *)
LEMMA RequestOwes ==
  ASSUME QueueInv, NEW c \in Chunk, NEW B \in (SUBSET Requestable(c)) \ {{}},
         RecvRequest(c, B)
  PROVE  /\ Owed \subseteq Owed' /\ Owed' \subseteq Owed \cup ({c} \X B)
         /\ \/ {c} \X B \subseteq Owed'
            \/ /\ Cardinality(B) = MAXCHUNKSIZE
               /\ WorkChunk = c /\ WorkCount = MAXCHUNKSIZE
<1> DEFINE N == Len(WorkQ)
<1>1. /\ cur' = cur /\ WorkQueueEnqueueChunk(c, B) /\ WorkQ \in Seq(QEntry)
      /\ N \in Nat /\ c \notin JoinChunk
  BY QueueFacts, NoJoinChunk, Sizes, ChunksFinite DEF RecvRequest, senderVars, QueueInv, QueueTypes
<1>2. CASE Dropped(c, B)
  BY <1>1, <1>2, OwedIs DEF Dropped
<1>3. ASSUME WorkQ' \in Seq(QEntry),
             \A d, b : InEntry(WorkQ, d, b) => InEntry(WorkQ', d, b),
             \A d, b : InEntry(WorkQ', d, b) =>
                          InEntry(WorkQ, d, b) \/ (d = c /\ b \in B),
             \A b \in B : InEntry(WorkQ', c, b)
      PROVE  /\ Owed \subseteq Owed' /\ Owed' \subseteq Owed \cup ({c} \X B)
             /\ {c} \X B \subseteq Owed'
  <2>1. \A d, b : InRange(cur', d, b) <=> InRange(cur, d, b)
    BY <1>1
  <2>2. OwedOf(WorkQ, cur) \subseteq OwedOf(WorkQ', cur')
    BY <1>1, <1>3, <2>1, OwedPairs, OwedCompare
  <2>3. OwedOf(WorkQ', cur') \subseteq OwedOf(WorkQ, cur) \cup ({c} \X B)
    <3>1. \A d, b : InEntry(WorkQ', d, b) \/ InRange(cur', d, b)
                     => <<d, b>> \in OwedOf(WorkQ, cur) \cup ({c} \X B)
      BY <1>1, <1>3, <2>1, OwedPairs
    <3> QED BY <1>3, <3>1, OwedCompare
  <2>4. {c} \X B \subseteq OwedOf(WorkQ', cur')
    BY <1>3, OwedPairs
  <2> QED BY <2>2, <2>3, <2>4, OwedIs
<1>4. ASSUME NEW k \in 1 .. N, MergedAt(k, c, B)
      PROVE  /\ Owed \subseteq Owed' /\ Owed' \subseteq Owed \cup ({c} \X B)
             /\ {c} \X B \subseteq Owed'
  <2>1. /\ WorkQ' \in Seq(QEntry) /\ Len(WorkQ') = N
        /\ \A j \in 1 .. N : j # k => WorkQ'[j] = WorkQ[j]
        /\ WorkQ[k].chunk = c
        /\ WorkQ'[k].chunk = c /\ WorkQ'[k].blocks = WorkQ[k].blocks \cup B
    BY <1>4 DEF MergedAt
  <2>2. \A d, b : InEntry(WorkQ, d, b) => InEntry(WorkQ', d, b)
    BY <2>1 DEF InEntry
  <2>3. \A d, b : InEntry(WorkQ', d, b) => InEntry(WorkQ, d, b) \/ (d = c /\ b \in B)
    BY <2>1 DEF InEntry
  <2>4. \A b \in B : InEntry(WorkQ', c, b)
    BY <1>1, <2>1 DEF InEntry
  <2> QED BY <1>3, <2>1, <2>2, <2>3, <2>4
<1>5. CASE Appended(c, B)
  <2>1. /\ WorkQ' \in Seq(QEntry) /\ Len(WorkQ') = N + 1
        /\ \A j \in 1 .. N : WorkQ'[j] = WorkQ[j]
        /\ WorkQ'[N + 1].chunk = c /\ WorkQ'[N + 1].blocks = B
    BY <1>5 DEF Appended
  <2>2. /\ \A i \in 1 .. N : i \in 1 .. N + 1
        /\ \A i \in 1 .. N + 1 : i \in 1 .. N \/ i = N + 1
        /\ N + 1 \in 1 .. N + 1
    BY <1>1
  <2> HIDE DEF N
  <2>3. \A d, b : InEntry(WorkQ, d, b) => InEntry(WorkQ', d, b)
    BY <2>1, <2>2 DEF InEntry, N
  <2>4. \A d, b : InEntry(WorkQ', d, b) => InEntry(WorkQ, d, b) \/ (d = c /\ b \in B)
    BY <2>1, <2>2 DEF InEntry, N
  <2>5. \A b \in B : InEntry(WorkQ', c, b)
    BY <1>1, <2>1, <2>2 DEF InEntry
  <2> QED BY <1>3, <2>1, <2>3, <2>4, <2>5
<1> QED BY <1>1, <1>2, <1>4, <1>5, EnqueueChunkDoes DEF Dropped

(* Joins change nothing that is owed.                                        *)
LEMMA JoinOwes ==
  ASSUME QueueInv, RecvTypes, Handling, WorkQueueEnqueueJoin \/ DequeueJoin
  PROVE  Owed' = Owed
<1> DEFINE N == Len(WorkQ)
<1>1. WorkQ \in Seq(QEntry) /\ N \in Nat /\ cur' = cur
  BY QueueFacts DEF QueueInv, QueueTypes, WorkQueueEnqueueJoin, DequeueJoin, senderVars
<1>2. SUFFICES ASSUME WorkQ' \in Seq(QEntry)
                      /\ \A d, b : InEntry(WorkQ, d, b) <=> InEntry(WorkQ', d, b)
               PROVE  Owed' = Owed
  <2>1. CASE WorkQueueEnqueueJoin
    <3>1. /\ WorkQ' \in Seq(QEntry) /\ Len(WorkQ') = N + 1
          /\ WorkQ'[1].chunk \in JoinChunk
          /\ \A i \in 2 .. N + 1 : WorkQ'[i] = WorkQ[i - 1]
      BY <1>1, <2>1, EnqueueJoinDoes
    <3>2. /\ \A i \in 1 .. N + 1 : i = 1 \/ (i - 1 \in 1 .. N /\ WorkQ'[i] = WorkQ[i - 1])
          /\ \A i \in 1 .. N : i + 1 \in 1 .. N + 1 /\ WorkQ'[i + 1] = WorkQ[i]
      <4>1. \A i \in 1 .. N : i + 1 \in 2 .. N + 1 /\ i + 1 - 1 = i
        BY <1>1
      <4>2. \A i \in 1 .. N + 1 : i = 1 \/ (i - 1 \in 1 .. N /\ i \in 2 .. N + 1)
        BY <1>1
      <4>3. \A i \in 2 .. N + 1 : i \in 1 .. N + 1
        BY <1>1
      <4> QED BY <3>1, <4>1, <4>2, <4>3
    <3> HIDE DEF N
    <3>3. \A d, b : InEntry(WorkQ, d, b) => InEntry(WorkQ', d, b)
      BY <3>1, <3>2 DEF InEntry, N
    <3>4. \A d, b : InEntry(WorkQ', d, b) => InEntry(WorkQ, d, b)
      BY <3>1, <3>2 DEF InEntry, N
    <3> QED BY <1>2, <3>1, <3>3, <3>4
  <2>2. CASE DequeueJoin
    <3>1. WorkQ # <<>> /\ WorkQ' = Tail(WorkQ) /\ IsJoin(Head(WorkQ))
      BY <2>2 DEF DequeueJoin
    <3>2. /\ WorkQ' \in Seq(QEntry) /\ Len(WorkQ') = N - 1 /\ 1 \in 1 .. N
          /\ WorkQ[1].chunk \in JoinChunk
          /\ \A i \in 1 .. N - 1 : WorkQ'[i] = WorkQ[i + 1]
      BY <3>1, HeadOfQueue, QueueFacts DEF QueueInv
    <3>3. /\ \A i \in 1 .. N : i = 1 \/ (i - 1 \in 1 .. N - 1 /\ WorkQ'[i - 1] = WorkQ[i])
          /\ \A i \in 1 .. N - 1 : i + 1 \in 1 .. N /\ WorkQ'[i] = WorkQ[i + 1]
      <4>1. \A i \in 1 .. N : i = 1 \/ (i - 1 \in 1 .. N - 1 /\ i - 1 + 1 = i)
        BY <1>1
      <4>2. \A i \in 1 .. N - 1 : i + 1 \in 1 .. N
        BY <1>1
      <4> QED BY <3>2, <4>1, <4>2
    <3> HIDE DEF N
    <3>4. \A d, b : InEntry(WorkQ, d, b) => InEntry(WorkQ', d, b)
      BY <3>2, <3>3 DEF InEntry, N
    <3>5. \A d, b : InEntry(WorkQ', d, b) => InEntry(WorkQ, d, b)
      BY <3>2, <3>3 DEF InEntry, N
    <3> QED BY <1>2, <3>2, <3>4, <3>5
  <2> QED BY <2>1, <2>2
<1>3. OwedOf(WorkQ, cur) \subseteq OwedOf(WorkQ', cur')
  BY <1>1, <1>2, OwedPairs, OwedCompare
<1>4. OwedOf(WorkQ', cur') \subseteq OwedOf(WorkQ, cur)
  BY <1>1, <1>2, OwedPairs, OwedCompare
<1> QED BY <1>3, <1>4, OwedIs

(* Taking a range up moves its blocks from the entry to the range.           *)
LEMMA DequeueOwes ==
  ASSUME QueueInv, DequeueChunk
  PROVE  Owed' = Owed
<1>1. PICK lo \in Int, n \in Int : Taken(lo, n)
  BY DequeueChunkDoes
<1> DEFINE N == Len(WorkQ)
           e == WorkQ[1]
           R == lo .. lo + n - 1
<1>2. /\ WorkQ # <<>> /\ cur = NoCur /\ WorkQ \in Seq(QEntry) /\ N \in Nat
  BY QueueFacts DEF DequeueChunk, Looping, QueueInv, RangeInChunk, QueueTypes
<1>3. /\ e.chunk \notin JoinChunk /\ R \subseteq e.blocks
      /\ cur' = [chunk |-> e.chunk, block |-> lo, last |-> lo + n]
  BY <1>1, NoJoinChunk, Sizes, ChunksFinite DEF Taken
<1>4. \A c, b : ~ InRange(cur, c, b)
  BY <1>2 DEF InRange, NoCur
<1>5. \A c, b : InRange(cur', c, b) <=> c = e.chunk /\ b \in R
  BY <1>3 DEF InRange
<1>6. 1 \in 1 .. N
  BY <1>2, HeadOfQueue
<1>7. WorkQ' \in Seq(QEntry)
      /\ \A c, b : InEntry(WorkQ, c, b) <=>
                      InEntry(WorkQ', c, b) \/ (c = e.chunk /\ b \in R)
  <2>1. CASE WorkQ' = Tail(WorkQ) /\ e.blocks = R
    <3>1. /\ WorkQ' \in Seq(QEntry) /\ Len(WorkQ') = N - 1
          /\ \A i \in 1 .. N - 1 : WorkQ'[i] = WorkQ[i + 1]
      BY <1>2, <2>1, HeadOfQueue
    <3>2. /\ \A i \in 1 .. N : i = 1 \/ (i - 1 \in 1 .. N - 1 /\ WorkQ'[i - 1] = WorkQ[i])
          /\ \A i \in 1 .. N - 1 : i + 1 \in 1 .. N /\ WorkQ'[i] = WorkQ[i + 1]
      <4>1. \A i \in 1 .. N : i = 1 \/ (i - 1 \in 1 .. N - 1 /\ i - 1 + 1 = i)
        BY <1>2
      <4>2. \A i \in 1 .. N - 1 : i + 1 \in 1 .. N
        BY <1>2
      <4> QED BY <3>1, <4>1, <4>2
    <3> HIDE DEF N, R
    <3>3. \A c, b : InEntry(WorkQ, c, b) => InEntry(WorkQ', c, b) \/ (c = e.chunk /\ b \in R)
      BY <2>1, <3>1, <3>2 DEF InEntry, N
    <3>4. \A c, b : InEntry(WorkQ', c, b) => InEntry(WorkQ, c, b)
      BY <3>1, <3>2 DEF InEntry, N
    <3>5. \A c, b : c = e.chunk /\ b \in R => InEntry(WorkQ, c, b)
      BY <1>3, <1>6, <2>1 DEF InEntry, N
    <3> QED BY <3>1, <3>3, <3>4, <3>5
  <2>2. CASE /\ WorkQ' \in Seq(QEntry) /\ Len(WorkQ') = N
             /\ \A i \in 2 .. N : WorkQ'[i] = WorkQ[i]
             /\ WorkQ'[1].chunk = e.chunk /\ WorkQ'[1].blocks = e.blocks \ R
    <3>1. \A i \in 1 .. N : i = 1 \/ WorkQ'[i] = WorkQ[i]
      <4>1. \A i \in 1 .. N : i = 1 \/ i \in 2 .. N
        BY <1>2
      <4> QED BY <2>2, <4>1
    <3> HIDE DEF N, R
    <3>3. \A c, b : InEntry(WorkQ, c, b) => InEntry(WorkQ', c, b) \/ (c = e.chunk /\ b \in R)
      BY <2>2, <3>1 DEF InEntry, N
    <3>4. \A c, b : InEntry(WorkQ', c, b) => InEntry(WorkQ, c, b)
      BY <2>2, <3>1 DEF InEntry, N
    <3>5. \A c, b : c = e.chunk /\ b \in R => InEntry(WorkQ, c, b)
      BY <1>3, <1>6 DEF InEntry, N
    <3> QED BY <2>2, <3>3, <3>4, <3>5
  <2>3. \/ WorkQ' = Tail(WorkQ) /\ e.blocks = R
        \/ /\ WorkQ' \in Seq(QEntry) /\ Len(WorkQ') = N
           /\ \A i \in 2 .. N : WorkQ'[i] = WorkQ[i]
           /\ WorkQ'[1].chunk = e.chunk /\ WorkQ'[1].blocks = e.blocks \ R
    BY <1>1 DEF Taken
  <2> HIDE DEF N, R, e
  <2> QED BY <2>1, <2>2, <2>3
<1> HIDE DEF N, R, e
<1>8. OwedOf(WorkQ, cur) \subseteq OwedOf(WorkQ', cur')
  <2>1. \A c, b : InEntry(WorkQ, c, b) \/ InRange(cur, c, b)
                  => <<c, b>> \in OwedOf(WorkQ', cur')
    BY <1>4, <1>5, <1>7, OwedPairs
  <2> QED BY <1>2, <2>1, OwedCompare
<1>9. OwedOf(WorkQ', cur') \subseteq OwedOf(WorkQ, cur)
  <2>1. \A c, b : InEntry(WorkQ', c, b) \/ InRange(cur', c, b)
                  => <<c, b>> \in OwedOf(WorkQ, cur)
    BY <1>2, <1>5, <1>7, OwedPairs
  <2> QED BY <1>7, <2>1, OwedCompare
<1> QED BY <1>8, <1>9, OwedIs

(* A block is owed when it is sent, and no other block is forgotten.         *)
LEMMA SendOwes ==
  ASSUME QueueInv, SendBlock
  PROVE  Service!Send
<1> DEFINE s == <<cur.chunk, cur.block>>
<1>1. /\ spc = "send" /\ WorkQ' = WorkQ /\ WorkQ \in Seq(QEntry)
      /\ \/ cur.block + 1 < cur.last /\ cur' = [cur EXCEPT !.block = cur.block + 1]
         \/ ~ cur.block + 1 < cur.last /\ cur' = NoCur
  BY DEF SendBlock, queueVars, QueueInv, QueueTypes
<1>2. /\ cur.block \in Nat /\ cur.last \in Nat /\ cur.block < cur.last
      /\ cur = [chunk |-> cur.chunk, block |-> cur.block, last |-> cur.last]
  BY <1>1, Sizes DEF QueueInv, SenderTypes, RangeInChunk, SizesGiven
<1>3. Sent' = s
  BY DEF SendBlock, Sent, Nothing
<1>4. \A c, b : InRange(cur', c, b) => InRange(cur, c, b)
  <2>1. CASE cur' = NoCur
    BY <2>1 DEF InRange, NoCur
  <2>2. CASE cur' = [cur EXCEPT !.block = cur.block + 1]
    <3>1. cur'.chunk = cur.chunk /\ cur'.block = cur.block + 1 /\ cur'.last = cur.last
      BY <1>2, <2>2
    <3> QED BY <1>2, <3>1 DEF InRange
  <2> QED BY <1>1, <2>1, <2>2
<1>5. \A c, b : InRange(cur, c, b) => InRange(cur', c, b) \/ <<c, b>> = s
  <2>1. CASE ~ cur.block + 1 < cur.last
    BY <1>2, <2>1 DEF InRange
  <2>2. CASE cur' = [cur EXCEPT !.block = cur.block + 1]
    <3>1. cur'.chunk = cur.chunk /\ cur'.block = cur.block + 1 /\ cur'.last = cur.last
      BY <1>2, <2>2
    <3> QED BY <1>2, <3>1 DEF InRange
  <2> QED BY <1>1, <2>1, <2>2
<1>6. InRange(cur, cur.chunk, cur.block)
  BY <1>2 DEF InRange
<1> HIDE DEF s
<1>7. s \in OwedOf(WorkQ, cur)
  BY <1>1, <1>6, OwedPairs DEF s
<1>8. OwedOf(WorkQ', cur') \subseteq OwedOf(WorkQ, cur)
  BY <1>1, <1>4, OwedPairs, OwedCompare
<1>9. OwedOf(WorkQ, cur) \subseteq OwedOf(WorkQ', cur') \cup {s}
  <2>1. \A c, b : InEntry(WorkQ, c, b) \/ InRange(cur, c, b)
                  => <<c, b>> \in OwedOf(WorkQ', cur') \cup {s}
    BY <1>1, <1>5, OwedPairs
  <2> QED BY <1>1, <2>1, OwedCompare
<1> QED BY <1>3, <1>7, <1>8, <1>9, OwedIs DEF Service!Send

(* A read past the end of the file gives up blocks of one chunk, one of      *)
(* which is not in the file.                                                 *)
LEMMA RefuseOwes ==
  ASSUME QueueInv, ReadBeyondEOF
  PROVE  Service!Refuse
<1> DEFINE File == UNION {{c} \X ChunkBlocks(c) : c \in Chunk}
           s == <<cur.chunk, ReadEnd - 1>>
<1>1. /\ spc = "send" /\ BeyondEOF /\ cur' = NoCur /\ out' = Nothing
      /\ WorkQ' = WorkQ /\ WorkQ \in Seq(QEntry)
  BY DEF ReadBeyondEOF, queueVars, QueueInv, QueueTypes
<1>2. Sent' = <<>>
  BY <1>1 DEF Sent, Nothing
<1>3. cur.block \in Nat /\ cur.last \in Nat
  BY Sizes DEF QueueInv, SenderTypes, SizesGiven
<1>4. ReadEnd - 1 \in cur.block .. cur.last - 1
  <2>1. ReadEnd \in cur.block + 1 .. cur.last
    BY <1>1, ReadsRange
  <2> QED BY <1>3, <2>1
<1>5. ReadEnd - 1 \notin ChunkBlocks(cur.chunk)
  BY <1>1, ReadsRange
<1>6. s \notin File
  BY <1>5
<1>7. \A c, b : ~ InRange(cur', c, b)
  BY <1>1 DEF InRange, NoCur
<1> HIDE DEF File
<1>8. s \in OwedOf(WorkQ, cur)
  BY <1>1, <1>4, OwedPairs DEF InRange
<1>9. OwedOf(WorkQ', cur') \subseteq OwedOf(WorkQ, cur)
  <2>1. \A c, b : InEntry(WorkQ', c, b) \/ InRange(cur', c, b)
                  => <<c, b>> \in OwedOf(WorkQ, cur)
    BY <1>1, <1>7, OwedPairs
  <2> QED BY <1>1, <2>1, OwedCompare
<1>10. ASSUME NEW p \in OwedOf(WorkQ, cur), p \notin OwedOf(WorkQ', cur')
       PROVE  p[1] = s[1]
  <2>1. PICK c, b : p = <<c, b>>
    BY <1>1, <1>10, OwedPairs
  <2>2. InRange(cur, c, b)
    BY <1>1, <1>10, <2>1, OwedPairs
  <2> QED BY <2>1, <2>2 DEF InRange
<1> HIDE DEF s
<1>11. s \in Owed \ File /\ \A p \in Owed \ Owed' : p[1] = s[1]
  BY <1>6, <1>8, <1>10, OwedIs
<1>12. Owed' \subseteq Owed
  BY <1>9, OwedIs
<1> QED BY <1>2, <1>11, <1>12 DEF Service!Refuse, File

(* A step that leaves the queue and the range alone and sends no block asks  *)
(* for nothing.                                                              *)
LEMMA QuietOwes ==
  ASSUME out' = Nothing, WorkQ' = WorkQ, cur' = cur
  PROVE  Service!Ask
<1>1. Sent' = <<>>
  BY DEF Sent, Nothing
<1>2. Owed' = Owed
  BY OwedIs
<1> QED BY <1>1, <1>2 DEF Service!Ask

(* Every step is a step of the service, or leaves it unchanged.              *)
LEMMA NextService ==
  ASSUME IInv, [Next]_vars
  PROVE  [Service!Next]_(Service!vars)
<1>1. CASE UNCHANGED vars
  <2>1. WorkQ' = WorkQ /\ cur' = cur /\ out' = out
    BY <1>1 DEF vars, queueVars, senderVars
  <2>2. Sent' = Sent /\ Owed' = Owed
    BY <2>1, OwedIs DEF Sent
  <2> QED BY <2>2 DEF Service!vars
<1>2. ASSUME NEW c \in Chunk, NEW B \in (SUBSET Requestable(c)) \ {{}},
             RecvRequest(c, B)
      PROVE  Service!Ask
  <2>1. Owed \subseteq Owed' /\ Owed' \subseteq Owed \cup ({c} \X B)
    BY <1>2, RequestOwes DEF IInv
  <2>2. {c} \X B \subseteq UNION {{d} \X Requestable(d) : d \in Chunk}
    <3>1. {c} \X B \subseteq {c} \X Requestable(c)
      OBVIOUS
    <3> QED BY <3>1
  <2>3. Sent' = <<>>
    BY <1>2 DEF RecvRequest, Sent, Nothing
  <2> QED BY <2>1, <2>2, <2>3 DEF Service!Ask
<1>3. CASE WorkQueueEnqueueJoin \/ DequeueJoin
  <2>1. Owed' = Owed
    BY <1>3, JoinOwes DEF IInv, TableInv
  <2>2. out' = Nothing
        \/ out' = [Nothing EXCEPT !.type = JoinReply(- Head(WorkQ).chunk),
                                  !.who = Head(WorkQ).who]
    BY <1>3 DEF WorkQueueEnqueueJoin, DequeueJoin
  <2>3. out'.type # "BLOCK"
    <3> DEFINE v == JoinReply(- Head(WorkQ).chunk)
               w == Head(WorkQ).who
    <3>1. out' = Nothing \/ out' = [Nothing EXCEPT !.type = v, !.who = w]
      BY <2>2
    <3>2. v = "JOINREPLY" \/ v = "JOINREPLY2"
      BY DEF JoinReply
    <3> HIDE DEF v, w
    <3>3. Nothing.type = "none"
      BY DEF Nothing
    <3>4. /\ [Nothing EXCEPT !.type = "JOINREPLY", !.who = w].type = "JOINREPLY"
          /\ [Nothing EXCEPT !.type = "JOINREPLY2", !.who = w].type = "JOINREPLY2"
      BY DEF Nothing
    <3> QED BY <3>1, <3>2, <3>3, <3>4
  <2>4. Sent' = <<>>
    BY <2>3 DEF Sent
  <2> QED BY <2>1, <2>4 DEF Service!Ask, Service!Next
<1>4. CASE DequeueChunk
  <2>1. Owed' = Owed
    BY <1>4, DequeueOwes DEF IInv
  <2>2. Sent' = <<>>
    BY <1>4 DEF DequeueChunk, Sent, Nothing
  <2> QED BY <2>1, <2>2 DEF Service!Ask, Service!Next
<1>5. CASE SendBlock
  BY <1>5, SendOwes DEF IInv, Service!Next
<1>8. CASE ReadBeyondEOF
  BY <1>8, RefuseOwes DEF IInv, Service!Next
<1>6. ASSUME \/ DequeueNothing \/ LastClientLeft \/ LastClientExit \/ IdleExit
             \/ IdleAgain \/ KilledExit \/ Faults
      PROVE  out' = Nothing /\ WorkQ' = WorkQ /\ cur' = cur
  BY <1>6 DEF DequeueNothing, LastClientLeft, LastClientExit, IdleExit, IdleAgain,
       KilledExit, Faults, ReadFailed, Kill, HangUp, queueVars, senderVars
<1>7. ASSUME \/ ClientJoin \/ Joins \/ \E h \in Host : ClientLeave(h)
             \/ \E h \in Host : LeaveLost(h)
      PROVE  out' = Nothing /\ WorkQ' = WorkQ /\ cur' = cur
  BY <1>7 DEF ClientJoin, Joins, RecvJoin, ClientLeave, LeaveLost, queueVars, senderVars
<1> QED BY <1>1, <1>2, <1>3, <1>4, <1>5, <1>6, <1>7, <1>8, QuietOwes
        DEF Next, Sender, Receiver, Requests, Terminated, Service!Next

(* The server implements the service: merging requests and taking runs of    *)
(* blocks off the queue never forgets a block and never sends one that       *)
(* nobody asked for; blocks are given up only with one past the end of file. *)
THEOREM ServiceImplemented == Spec => ImplementsService
<1>1. Init => Service!Init
  <2> SUFFICES ASSUME Init PROVE Service!Init
    OBVIOUS
  <2>1. WorkQ = <<>> /\ cur = NoCur /\ out = Nothing
    BY DEF Init
  <2>2. Owed = {}
    <3>1. ChunkEntries = {}
      BY <2>1 DEF ChunkEntries
    <3>2. NoCur.block .. NoCur.last - 1 = {}
      BY DEF NoCur
    <3> QED BY <2>1, <3>1, <3>2 DEF Owed
  <2>3. Sent = <<>>
    BY <2>1 DEF Sent, Nothing
  <2> QED BY <2>2, <2>3 DEF Service!Init
<1>2. IInv /\ [Next]_vars => [Service!Next]_(Service!vars)
  BY NextService
<1> QED BY <1>1, <1>2, SpecIInv, PTL DEF Spec, ImplementsService, Service!Spec

(* No request is lost while it waits behind, or is merged into, what is      *)
(* being sent; the one that may be dropped asks for the whole chunk last     *)
(* taken off the queue.                                                      *)
THEOREM RequestsAreKept == Spec => RequestsKept
<1> DEFINE Kept ==
      \A c \in Chunk : \A blocks \in (SUBSET Requestable(c)) \ {{}} :
         RecvRequest(c, blocks) =>
            \/ {c} \X blocks \subseteq Owed'
            \/ /\ Cardinality(blocks) = MAXCHUNKSIZE
               /\ WorkChunk = c /\ WorkCount = MAXCHUNKSIZE
<1>1. IInv => Kept
  BY RequestOwes DEF IInv
<1>2. IInv /\ [Next]_vars => [Kept]_vars
  BY <1>1
<1>3. RequestsKept <=> [][Kept]_vars
  BY DEF RequestsKept
<1> HIDE DEF Kept
<1> QED BY <1>2, <1>3, SpecIInv, PTL DEF Spec

=============================================================================
