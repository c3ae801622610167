------------------------ MODULE FrisbeeClientProofs -------------------------
(***************************************************************************)
(* What the client's two threads keep true of the cache they share, for    *)
(* every image, every number of buffers and every setting of the options.  *)
(***************************************************************************)
EXTENDS FrisbeeClient, FrisbeeSizesProofs

-----------------------------------------------------------------------------
(* The inductive invariant.                                                  *)

(* No thread waits for a tick that has passed: the idle counter is negative  *)
(* only while the request it calls for is under way, and the server timeout  *)
(* is zero only once it has been acted on.                                   *)
TicksAhead ==
  /\ IdleCounter < 0 => rpc \in {"request", "exited"}
  /\ servertimo # 0 /\ STCounter = 0 => rpc \in {"signal", "exited"}

(* The scan of RequestChunk() has counted at most the buffers it looked at.  *)
ScanCounts == rq.empty <= rq.i /\ rq.filling <= rq.i

(* What the frame of GotBlock() says stays true until it returns, although   *)
(* the buffers were looked at one by one without the mutex.                  *)
SearchFrame ==
  rpc = "gotblock" =>
    /\ gb.chunk \in Chunk \ done
    /\ gb.block \in ChunkBlocks(gb.chunk)
    /\ \A b \in Buf : b < gb.i => ~ (Filling(b) /\ thischunk[b] = gb.chunk)
    /\ gb.free # None => state[gb.free] = "EMPTY"
    /\ gb.dubious # None => state[gb.dubious] = "DUBIOUS"

FullFrame ==
  rpc = "full" =>
    /\ gb.i \in Buf
    /\ Filling(gb.i)
    /\ thischunk[gb.i] = gb.chunk

(* Every block a buffer has was received for the chunk it is filled with.    *)
BlocksOfChunk ==
  \A b \in Buf : Holding(b) => \A k \in blockmap[b] : data[b][k] = thischunk[b]

(* The main thread: it writes a FULL buffer only, and the receive thread     *)
(* runs from the reply to JOIN until it is joined.                           *)
WritesFull == mpc = "write" => mi \in Buf /\ state[mi] = "FULL"
Started == rpc = "none" <=> mpc = "join"

IInv ==
  /\ ChunkTypes /\ BufTypes /\ RecvTypes /\ TickTypes /\ MainTypes
  /\ TicksAhead /\ ScanCounts
  /\ SearchFrame /\ FullFrame
  /\ EveryChunkAccounted /\ BlockCountExact /\ BlocksOfChunk
  /\ WritesFull /\ Started /\ ChunkCountExact /\ NoUseAfterFree
  /\ RequestsUseful

-----------------------------------------------------------------------------
(* The constants.                                                            *)

(* The image has sizes.                                                      *)
LEMMA Sizes == SizesGiven
  BY SizeAssumption DEF SizesGiven

(* None is neither a buffer nor a chunk, and a buffer is an index.           *)
LEMMA Bufs ==
  /\ NBufs \in Nat /\ TotalChunks \in Nat /\ Buf \subseteq Nat
  /\ None \notin Buf /\ None \notin Chunk /\ None \notin Block /\ None # 0
  /\ \A i \in 0 .. NBufs : i < NBufs => i \in Buf /\ i + 1 \in 0 .. NBufs
  /\ \A b \in Buf : b < NBufs /\ b \in 0 .. NBufs
  /\ NBufs \notin Buf
<1>1. TotalChunks \in Nat
  BY Sizes, Totals
<1>2. NBufs \in Nat
  BY <1>1, ClientAssumption DEF NBufs
<1> QED BY <1>1, <1>2, Sizes DEF Buf, None, Chunk, Block, SizesGiven

(* A number of seconds is a number of ticks, none only of no seconds.        *)
LEMMA Seconds ==
  /\ servertimo * TIMEOUT_HZ \in Nat /\ keepalive * TIMEOUT_HZ \in Nat
  /\ 0 * TIMEOUT_HZ = 0
  /\ servertimo # 0 => servertimo * TIMEOUT_HZ >= 1
  /\ keepalive # 0 => keepalive * TIMEOUT_HZ >= 1
<1>1. ASSUME NEW n \in Nat
      PROVE  n * TIMEOUT_HZ \in Nat /\ (n # 0 => n * TIMEOUT_HZ >= 1)
  <2>1. TIMEOUT_HZ \in Nat /\ TIMEOUT_HZ >= 1
    BY ClientAssumption
  <2> QED BY <2>1
<1> QED BY <1>1, ClientAssumption

-----------------------------------------------------------------------------
(* The life of the two threads.                                              *)

ThreadInv == Started /\ NoUseAfterFree

(* A step of the main thread: what it may do to the receive thread.          *)
LEMMA MainThreads ==
  ASSUME ThreadInv, Main
  PROVE  /\ ThreadInv'
         /\ UNCHANGED <<tickVars, chunkVars, gb, rq, lastnoroomchunk, child_error>>
         /\ \/ rpc' = rpc
            \/ rpc = "none" /\ rpc' = "recv"
<1>1. CASE MainJoin \/ MainJoined
  BY <1>1 DEF MainJoin, MainJoined, ThreadInv, Started, NoUseAfterFree, recvVars, mainVars
<1>2. CASE MainFound \/ MainNone \/ MainCheck \/ MainWait
  BY <1>2 DEF MainFound, MainNone, MainCheck, MainWait, MainStep, ThreadInv, Started,
       NoUseAfterFree, recvVars
<1>3. CASE MainSpuriousWakeup \/ MainExitError \/ MainWrite \/ MainWriteFailed
  BY <1>3 DEF MainSpuriousWakeup, MainExitError, MainWrite, MainWriteFailed, MainStep,
       ThreadInv, Started, NoUseAfterFree, recvVars
<1>4. CASE MainCancel \/ MainFinish \/ MainFlushFailed \/ MainLeave
  BY <1>4 DEF MainCancel, MainFinish, MainFlushFailed, MainLeave, MainStep, ThreadInv,
       Started, NoUseAfterFree, recvVars
<1> QED BY <1>1, <1>2, <1>3, <1>4 DEF Main

(* The receive thread runs only between its start and its end, and leaves    *)
(* the main thread where it is, or wakes it up.                              *)
LEMMA RecvThreads ==
  ASSUME ThreadInv,
         Packets \/ RecvTimeout \/ RecvServerTimeout \/ RecvWork
         \/ (\E c \in Chunk : Age(c))
  PROVE  /\ ThreadInv'
         /\ rpc \notin {"none", "exited"} /\ rpc' # "none"
         /\ mi' = mi /\ chunkcount' = chunkcount /\ disk' = disk
         /\ \/ mpc' = mpc
            \/ mpc = "waiting" /\ mpc' = "scan"
<1>1. ASSUME rpc \notin {"none", "exited"}, rpc' # "none", mainVars' = mainVars
      PROVE  ThreadInv' /\ UNCHANGED mainVars
  BY <1>1 DEF ThreadInv, Started, NoUseAfterFree, mainVars
<1>2. CASE Packets
  BY <1>1, <1>2 DEF Packets, RecvIgnored, RecvBlock, RecvRequest, RecvPartialRequest,
       ReceivePacket, Receiving, mainVars
<1>3. CASE RecvTimeout \/ RecvServerTimeout
  BY <1>1, <1>3 DEF RecvTimeout, RecvServerTimeout, Receiving, mainVars
<1>4. CASE \E c \in Chunk : Age(c)
  BY <1>1, <1>4 DEF Age, recvVars, mainVars
<1>5. CASE RecvWork
  <2>1. CASE RequestChunkScan \/ RequestChunkAhead \/ RecvCancel \/ GotBlockScan
    BY <1>1, <2>1 DEF RequestChunkScan, RequestChunkAhead, RecvCancel, GotBlockScan,
         mainVars
  <2>2. CASE GotBlockFound \/ GotBlockAlloc \/ GotBlockEvict \/ GotBlockNoRoom
             \/ GotBlockDone
    BY <1>1, <2>2 DEF GotBlockFound, GotBlockAlloc, GotBlockEvict, GotBlockNoRoom,
         GotBlockDone, Allocate, Insert, NotFound, mainVars
  <2>3. CASE RecvSignalExit \/ GotBlockFull
    BY <2>3 DEF RecvSignalExit, GotBlockFull, Signal, ThreadInv, Started, NoUseAfterFree
  <2> QED BY <1>5, <2>1, <2>2, <2>3 DEF RecvWork
<1> QED BY <1>2, <1>3, <1>4, <1>5 DEF mainVars

(* Every step keeps the threads in order.                                    *)
LEMMA NextThreads ==
  ASSUME ThreadInv, [Next]_vars
  PROVE  ThreadInv'
<1>1. CASE UNCHANGED vars
  BY <1>1 DEF vars, recvVars, mainVars, ThreadInv, Started, NoUseAfterFree
<1> QED BY <1>1, MainThreads, RecvThreads DEF Next, Terminated

-----------------------------------------------------------------------------
(* The tick counters.                                                        *)

TickInv == TickTypes /\ TicksAhead

(* The counters start within their bounds.                                   *)
LEMMA InitTicks == ASSUME Init PROVE TickInv
  BY ClientAssumption, Seconds DEF Init, TickInv, TickTypes, TicksAhead

(* A step that leaves the counters alone keeps them ahead, unless it puts an *)
(* end to what it was waiting for.                                           *)
LEMMA QuietTicks ==
  ASSUME TickInv, UNCHANGED tickVars,
         rpc' = rpc \/ rpc' = "exited" \/ rpc \notin {"request", "signal", "exited"}
  PROVE  TickInv'
  BY DEF TickInv, TickTypes, TicksAhead, tickVars

(* A packet resets the watchdogs.                                            *)
LEMMA PacketTicks ==
  ASSUME TickInv, ReceivePacket, kaSeconds' = kaSeconds
  PROVE  /\ STCounter' \in 0 .. servertimo * TIMEOUT_HZ
         /\ KACounter' \in 0 .. keepalive * TIMEOUT_HZ
         /\ servertimo # 0 => STCounter' # 0
         /\ IdleCounter >= 0
<1>1. rpc = "recv"
  BY DEF ReceivePacket, Receiving
<1>2. STCounter' \in 0 .. servertimo * TIMEOUT_HZ /\ (servertimo # 0 => STCounter' # 0)
  BY Seconds DEF ReceivePacket, ResetWatchdogs, TickInv, TickTypes
<1>3. KACounter' \in 0 .. keepalive * TIMEOUT_HZ
  BY Seconds DEF ReceivePacket, ResetWatchdogs, TickInv, TickTypes
<1>4. IdleCounter >= 0
  BY <1>1, ClientAssumption DEF TickInv, TicksAhead, TickTypes
<1> QED BY <1>2, <1>3, <1>4

(* Every step keeps the counters within their bounds.                        *)
LEMMA NextTicks ==
  ASSUME TickInv, ThreadInv, [Next]_vars
  PROVE  TickInv'
<1>1. CASE UNCHANGED vars
  BY <1>1, QuietTicks DEF vars, recvVars
<1>2. CASE Main
  BY <1>2, MainThreads, QuietTicks
<1>3. CASE Packets
  <2>1. ReceivePacket /\ kaSeconds' = kaSeconds
    BY <1>3 DEF Packets, RecvIgnored, RecvBlock, RecvRequest, RecvPartialRequest
  <2>2. BackOff' \in {0, BackOff} /\ IdleCounter' \in {IdleCounter, idletimer}
    BY <1>3 DEF Packets, RecvIgnored, RecvBlock, RecvRequest, RecvPartialRequest
  <2>3. IdleCounter' >= 0 /\ IdleCounter' \in -1 .. idletimer + TIMEOUT_HZ + 1
    BY <2>1, <2>2, PacketTicks, ClientAssumption DEF TickInv, TickTypes
  <2>4. BackOff' \in 0 .. TIMEOUT_HZ
    BY <2>2, ClientAssumption DEF TickInv, TickTypes
  <2> QED BY <2>1, <2>3, <2>4, PacketTicks DEF TickInv, TickTypes, TicksAhead
<1>4. CASE RecvTimeout
  <2>1. /\ rpc = "recv" /\ IdleCounter' = IdleCounter - 1
        /\ IdleCounter' <= 0 => rpc' = "request"
        /\ BackOff' = BackOff
    BY <1>4 DEF RecvTimeout, Receiving
  <2>2. IdleCounter \in 0 .. idletimer + TIMEOUT_HZ + 1
    BY <2>1, ClientAssumption DEF TickInv, TickTypes, TicksAhead
  <2>3. /\ IdleCounter' \in -1 .. idletimer + TIMEOUT_HZ + 1
        /\ IdleCounter' < 0 => rpc' = "request"
    BY <2>1, <2>2, ClientAssumption
  <2>4. STCounter' \in 0 .. servertimo * TIMEOUT_HZ /\ (servertimo # 0 => STCounter' # 0)
    BY <1>4, Seconds DEF RecvTimeout, ServerTimedOut, TickInv, TickTypes
  <2>5. KACounter' \in 0 .. keepalive * TIMEOUT_HZ /\ kaSeconds' \in {0, keepalive}
    BY <1>4, Seconds DEF RecvTimeout, KeepAliveTick, TickInv, TickTypes
  <2> QED BY <2>1, <2>3, <2>4, <2>5 DEF TickInv, TickTypes, TicksAhead
<1>5. CASE RecvServerTimeout
  <2>1. /\ rpc = "recv" /\ rpc' = "signal" /\ servertimo # 0
        /\ STCounter' = STCounter - 1 /\ IdleCounter' = IdleCounter
        /\ BackOff' = BackOff /\ KACounter' = KACounter /\ kaSeconds' = kaSeconds
    BY <1>5 DEF RecvServerTimeout, Receiving, ServerTimedOut
  <2>2. STCounter' \in 0 .. servertimo * TIMEOUT_HZ
    BY <2>1, Seconds DEF TickInv, TickTypes, TicksAhead
  <2>3. ~ IdleCounter < 0
    BY <2>1 DEF TickInv, TicksAhead
  <2> QED BY <2>1, <2>2, <2>3 DEF TickInv, TickTypes, TicksAhead
<1>6. CASE \E c \in Chunk : Age(c)
  BY <1>6, QuietTicks DEF Age, recvVars
<1>7. CASE RecvWork
  <2>1. CASE RequestChunkScan \/ RecvCancel \/ GotBlockScan \/ RecvSignalExit
    BY <2>1, QuietTicks DEF RequestChunkScan, RecvCancel, GotBlockScan, RecvSignalExit
  <2>2. CASE GotBlockNoRoom \/ GotBlockFull \/ GotBlockDone
    BY <2>2, QuietTicks DEF GotBlockNoRoom, GotBlockFull, GotBlockDone, NotFound
  <2>3. CASE RequestChunkAhead
    <3>1. /\ rpc = "request" /\ rpc' = "recv" /\ STCounter' = STCounter
          /\ KACounter' = KACounter /\ kaSeconds' = kaSeconds /\ RequestReturn
      BY <2>3 DEF RequestChunkAhead
    <3>2. BackOff \in 0 .. TIMEOUT_HZ /\ TIMEOUT_HZ \in Nat \ {0} /\ idletimer \in Nat
      BY ClientAssumption DEF TickInv, TickTypes
    <3>3. BackOff' \in 0 .. TIMEOUT_HZ /\ IdleCounter' \in 0 .. idletimer + TIMEOUT_HZ + 1
      BY <3>1, <3>2 DEF RequestReturn
    <3>4. /\ IdleCounter' \in -1 .. idletimer + TIMEOUT_HZ + 1 /\ ~ IdleCounter' < 0
      BY <3>2, <3>3
    <3> QED BY <3>1, <3>3, <3>4 DEF TickInv, TickTypes, TicksAhead
  <2>4. CASE GotBlockFound \/ GotBlockAlloc \/ GotBlockEvict
    <3>1. /\ rpc = "gotblock" /\ IdleCounter' \in {IdleCounter, idletimer}
          /\ UNCHANGED <<BackOff, STCounter, KACounter, kaSeconds>>
      BY <2>4 DEF GotBlockFound, GotBlockAlloc, GotBlockEvict, Allocate, Insert, NotFound
    <3>2. IdleCounter \in 0 .. idletimer + TIMEOUT_HZ + 1
      BY <3>1, ClientAssumption DEF TickInv, TickTypes, TicksAhead
    <3>3. IdleCounter' \in -1 .. idletimer + TIMEOUT_HZ + 1 /\ ~ IdleCounter' < 0
      BY <3>1, <3>2, ClientAssumption
    <3> QED BY <3>1, <3>3 DEF TickInv, TickTypes, TicksAhead
  <2> QED BY <1>7, <2>1, <2>2, <2>3, <2>4 DEF RecvWork
<1> QED BY <1>1, <1>2, <1>3, <1>4, <1>5, <1>6, <1>7 DEF Next, Terminated

-----------------------------------------------------------------------------
(* The cache.                                                                *)

CacheInv == EveryChunkAccounted /\ BlockCountExact /\ BlocksOfChunk

(* A step that fills and frees no buffer and hands no chunk over.            *)
CacheKept ==
  /\ UNCHANGED <<seen, disk, thischunk, blockcount, blockmap, data>>
  /\ \A b \in Buf : /\ state'[b] = "EMPTY" <=> state[b] = "EMPTY"
                    /\ state'[b] = "FULL" <=> state[b] = "FULL"
                    /\ (rpc' = "full" /\ gb'.i = b) <=> (rpc = "full" /\ gb.i = b)
  /\ HandedOver' = HandedOver

(* Such a step keeps the cache in order.                                     *)
LEMMA KeptCache == ASSUME CacheInv, CacheKept PROVE CacheInv'
<1>1. /\ seen' = seen /\ disk' = disk /\ thischunk' = thischunk /\ HandedOver' = HandedOver
      /\ blockcount' = blockcount /\ blockmap' = blockmap /\ data' = data
      /\ \A b \in Buf : /\ Holding(b)' <=> Holding(b)
                        /\ state'[b] = "FULL" <=> state[b] = "FULL"
                        /\ (rpc' = "full" /\ gb'.i = b) <=> (rpc = "full" /\ gb.i = b)
  BY DEF CacheKept, Holding
<1>2. EveryChunkAccounted'
  BY <1>1 DEF CacheInv, EveryChunkAccounted
<1>3. BlockCountExact'
  BY <1>1 DEF CacheInv, BlockCountExact
<1>4. BlocksOfChunk'
  BY <1>1 DEF CacheInv, BlocksOfChunk
<1> QED BY <1>2, <1>3, <1>4 DEF CacheInv

(* Insert() puts the block into the buffer, counts it if it is new, and      *)
(* notices the last one.                                                     *)
LEMMA InsertDoes ==
  ASSUME BufTypes, RecvTypes, NEW b \in Buf, NEW map, NEW req,
         gb.chunk \in Chunk, gb.block \in ChunkBlocks(gb.chunk),
         map \subseteq ChunkBlocks(gb.chunk),
         Cardinality(map) < ChunkSize(gb.chunk),
         \A k \in map : data[b][k] = gb.chunk,
         req \in [Chunk -> {"zero", "fresh", "old"}],
         Insert(b, map, ChunkSize(gb.chunk) - Cardinality(map), req)
  PROVE  /\ blockmap' \in [Buf -> SUBSET Block]
         /\ blockcount' \in [Buf -> 0 .. MAXCHUNKSIZE]
         /\ data' \in [Buf -> [Block -> Chunk \union {None}]]
         /\ lastreq' \in [Chunk -> {"zero", "fresh", "old"}]
         /\ \A a \in Buf : a # b => /\ blockmap'[a] = blockmap[a]
                                    /\ blockcount'[a] = blockcount[a]
                                    /\ data'[a] = data[a]
         /\ blockmap'[b] = map \union {gb.block}
         /\ blockmap'[b] \subseteq ChunkBlocks(gb.chunk)
         /\ blockcount'[b] = ChunkSize(gb.chunk) - Cardinality(blockmap'[b])
         /\ \A k \in blockmap'[b] : data'[b][k] = gb.chunk
         /\ \/ rpc' = "full" /\ blockcount'[b] = 0 /\ gb' = [gb EXCEPT !.i = b]
            \/ rpc' = "recv" /\ blockcount'[b] # 0 /\ gb' = NoFrame
<1> DEFINE c == gb.chunk
           k == gb.block
           n == ChunkSize(c) - Cardinality(map)
           m == IF k \in map THEN n ELSE n - 1
           mapk == map \cup {k}
<1>1. /\ ChunkSize(c) \in 1 .. MAXCHUNKSIZE /\ ChunkBlocks(c) \subseteq Block
      /\ IsFiniteSet(ChunkBlocks(c)) /\ Cardinality(ChunkBlocks(c)) = ChunkSize(c)
  BY Sizes, ChunkSizeBounds DEF Block
<1>2. IsFiniteSet(map) /\ Cardinality(map) \in Nat
  BY <1>1, FS_Subset, FS_CardinalityType
<1>3. MAXCHUNKSIZE \in Nat
  BY Sizes DEF SizesGiven
<1>4. m = ChunkSize(c) - Cardinality(mapk)
  <2>1. Cardinality(mapk) = IF k \in map THEN Cardinality(map) ELSE Cardinality(map) + 1
    BY <1>2, FS_AddElement
  <2>2. ChunkSize(c) \in Int /\ Cardinality(map) \in Int
    BY <1>1, <1>2
  <2> HIDE DEF mapk, c, k
  <2> QED BY <2>1, <2>2
<1>5. mapk \subseteq ChunkBlocks(c) /\ k \in Block /\ c \in Chunk /\ mapk \in SUBSET Block
  BY <1>1
<1>6. n \in 1 .. MAXCHUNKSIZE
  BY <1>1, <1>2, <1>3
<1>7. m \in 0 .. MAXCHUNKSIZE /\ (m = 0 <=> k \notin map /\ n - 1 = 0)
  BY <1>3, <1>6
<1> DEFINE d == IF k \in map THEN data ELSE [data EXCEPT ![b] = [data[b] EXCEPT ![k] = c]]
<1>8. /\ blockmap' = [blockmap EXCEPT ![b] = mapk]
      /\ blockcount' = [blockcount EXCEPT ![b] = m]
      /\ data' = d
  BY DEF Insert
<1>9. /\ \/ k \notin map /\ n - 1 = 0 /\ rpc' = "full" /\ gb' = [gb EXCEPT !.i = b]
         \/ ~ (k \notin map /\ n - 1 = 0) /\ rpc' = "recv" /\ gb' = NoFrame
      /\ lastreq' \in {req, StampReceived(req, mapk)}
  BY DEF Insert
<1>10. lastreq' \in [Chunk -> {"zero", "fresh", "old"}]
  BY <1>5, <1>9 DEF StampReceived
<1> HIDE DEF n, m, mapk
<1>11. /\ blockmap' \in [Buf -> SUBSET Block] /\ blockmap'[b] = mapk
       /\ \A a \in Buf : a # b => blockmap'[a] = blockmap[a]
  BY <1>5, <1>8 DEF BufTypes
<1>12. /\ blockcount' \in [Buf -> 0 .. MAXCHUNKSIZE] /\ blockcount'[b] = m
       /\ \A a \in Buf : a # b => blockcount'[a] = blockcount[a]
  BY <1>7, <1>8 DEF BufTypes
<1>13. /\ data' \in [Buf -> [Block -> Chunk \union {None}]]
       /\ \A a \in Buf : a # b => data'[a] = data[a]
       /\ \A j \in mapk : data'[b][j] = c
  <2>1. CASE k \in map
    BY <1>8, <2>1 DEF BufTypes, mapk
  <2>2. CASE k \notin map
    <3> DEFINE row == [data[b] EXCEPT ![k] = c]
    <3>1. data' = [data EXCEPT ![b] = row]
      BY <1>8, <2>2
    <3>2. data[b] \in [Block -> Chunk \union {None}]
      BY DEF BufTypes
    <3>3. row \in [Block -> Chunk \union {None}] /\ row[k] = c
          /\ \A j \in Block : j # k => row[j] = data[b][j]
      BY <1>5, <3>2
    <3>4. \A j \in mapk : row[j] = c
      BY <1>5, <3>3 DEF mapk
    <3> HIDE DEF row
    <3>5. data' \in [Buf -> [Block -> Chunk \union {None}]] /\ data'[b] = row
          /\ \A a \in Buf : a # b => data'[a] = data[a]
      BY <3>1, <3>3 DEF BufTypes
    <3> QED BY <3>4, <3>5
  <2> QED BY <2>1, <2>2
<1> HIDE DEF c, k
<1> QED BY <1>4, <1>5, <1>7, <1>9, <1>10, <1>11, <1>12, <1>13 DEF mapk, c, k

(* A chunk that the search has not found has not been seen: it would be in a *)
(* buffer that is FILLING or DUBIOUS, and the search would have met it.      *)
LEMMA NotFoundUnseen ==
  ASSUME BufTypes, RecvTypes, CacheInv, SearchFrame, NotFound
  PROVE  /\ gb.chunk \in Chunk \ seen
         /\ gb.block \in ChunkBlocks(gb.chunk)
<1>1. /\ rpc = "gotblock" /\ gb.i = NBufs
      /\ gb.chunk \in Chunk \ done /\ gb.block \in ChunkBlocks(gb.chunk)
  BY DEF NotFound, SearchFrame
<1>2. HandedOver = done
  BY <1>1 DEF HandedOver
<1>3. \A b \in Buf : ~ (Filling(b) /\ thischunk[b] = gb.chunk)
  BY <1>1, Bufs DEF SearchFrame
<1>4. ASSUME gb.chunk \in seen PROVE FALSE
  <2>1. gb.chunk \in seen \ disk
    BY <1>1, <1>2, <1>4 DEF CacheInv, EveryChunkAccounted
  <2>2. PICK b \in Buf : Holding(b) /\ thischunk[b] = gb.chunk
    BY <2>1 DEF CacheInv, EveryChunkAccounted
  <2>3. state[b] # "FULL"
    BY <1>1, <1>2, <2>2 DEF CacheInv, EveryChunkAccounted
  <2>4. Filling(b)
    BY <2>2, <2>3 DEF Holding, Filling, BufTypes
  <2> QED BY <1>3, <2>2, <2>4
<1> QED BY <1>1, <1>4

(* A buffer taken for a new chunk: an EMPTY one, or a DUBIOUS one, whose     *)
(* chunk counts as unseen again.                                             *)
LEMMA TakenBuffer ==
  ASSUME CacheInv, BufTypes, NEW b \in Buf, NEW c \in Chunk \ seen, NEW D, NEW s,
         \/ state[b] = "EMPTY" /\ D = {}
         \/ state[b] = "DUBIOUS" /\ D = {thischunk[b]},
         s \in {"FILLING", "DUBIOUS"},
         state' = [state EXCEPT ![b] = s],
         thischunk' = [thischunk EXCEPT ![b] = c],
         seen' = (seen \ D) \union {c},
         disk' = disk, done' = done,
         rpc \notin {"full", "mark"}, rpc' # "mark"
  PROVE  /\ EveryChunkAccounted'
         /\ state' \in [Buf -> {"EMPTY", "FILLING", "DUBIOUS", "FULL"}]
         /\ thischunk' \in [Buf -> Chunk]
<1>1. HandedOver = done /\ HandedOver' = done
  BY DEF HandedOver
<1>2. /\ state'[b] = s /\ thischunk'[b] = c
      /\ \A a \in Buf : a # b => state'[a] = state[a] /\ thischunk'[a] = thischunk[a]
  BY DEF BufTypes
<1>3. /\ Holding(b)' /\ state'[b] # "FULL"
      /\ \A a \in Buf : a # b => (Holding(a)' <=> Holding(a))
  BY <1>2 DEF Holding
<1>4. \A a \in Buf : a # b /\ Holding(a) => thischunk[a] \in seen \ (disk \cup D)
  <2>1. \A a \in Buf : a # b /\ Holding(a) => thischunk[a] \notin D
    BY DEF CacheInv, EveryChunkAccounted, Holding
  <2> QED BY <2>1 DEF CacheInv, EveryChunkAccounted
<1>5. D \cap done = {} /\ disk \subseteq done /\ done \subseteq seen
  <2>1. CASE D = {}
    BY <1>1, <2>1 DEF CacheInv, EveryChunkAccounted
  <2>2. CASE state[b] = "DUBIOUS" /\ D = {thischunk[b]}
    BY <1>1, <2>2 DEF CacheInv, EveryChunkAccounted, Holding
  <2> QED BY <2>1, <2>2
<1>6. \A a, a2 \in Buf : Holding(a)' /\ Holding(a2)' /\ a # a2
                            => thischunk'[a] # thischunk'[a2]
  BY <1>2, <1>3, <1>4 DEF CacheInv, EveryChunkAccounted
<1>7. \A a \in Buf : Holding(a)' => thischunk'[a] \in seen' \ disk'
  BY <1>2, <1>3, <1>4, <1>5
<1>8. \A d \in seen' \ disk' : \E a \in Buf : Holding(a)' /\ thischunk'[a] = d
  <2> SUFFICES ASSUME NEW d \in seen' \ disk'
               PROVE  \E a \in Buf : Holding(a)' /\ thischunk'[a] = d
    OBVIOUS
  <2>1. CASE d = c
    BY <1>2, <1>3, <2>1
  <2>2. CASE d # c
    <3>1. d \in seen \ disk /\ d \notin D
      BY <2>2
    <3>2. PICK a \in Buf : Holding(a) /\ thischunk[a] = d
      BY <3>1 DEF CacheInv, EveryChunkAccounted
    <3>3. a # b
      BY <3>1, <3>2 DEF Holding
    <3> QED BY <1>2, <1>3, <3>2, <3>3
  <2> QED BY <2>1, <2>2
<1>9. \A a \in Buf : Holding(a)' => (state'[a] = "FULL" <=> thischunk'[a] \in HandedOver')
  BY <1>1, <1>2, <1>3, <1>5 DEF CacheInv, EveryChunkAccounted
<1>10. disk' \subseteq HandedOver' /\ HandedOver' \subseteq seen'
  BY <1>1, <1>5
<1>11. EveryChunkAccounted'
  BY <1>6, <1>7, <1>8, <1>9, <1>10 DEF EveryChunkAccounted
<1>12. /\ state' \in [Buf -> {"EMPTY", "FILLING", "DUBIOUS", "FULL"}]
       /\ thischunk' \in [Buf -> Chunk]
  BY DEF BufTypes
<1> QED BY <1>11, <1>12

(* What holds once a block has been inserted into buffer b.                  *)
LEMMA InsertCache ==
  ASSUME BufTypes, RecvTypes, CacheInv, rpc = "gotblock",
         NEW b \in Buf, NEW map, NEW req,
         gb.chunk \in Chunk, gb.block \in ChunkBlocks(gb.chunk),
         map \subseteq ChunkBlocks(gb.chunk),
         Cardinality(map) < ChunkSize(gb.chunk),
         \A k \in map : data[b][k] = gb.chunk,
         req \in [Chunk -> {"zero", "fresh", "old"}],
         Insert(b, map, ChunkSize(gb.chunk) - Cardinality(map), req),
         state'[b] \in {"FILLING", "DUBIOUS"}, thischunk'[b] = gb.chunk,
         \A a \in Buf : a # b => state'[a] = state[a] /\ thischunk'[a] = thischunk[a]
  PROVE  /\ BlockCountExact' /\ BlocksOfChunk' /\ SearchFrame' /\ FullFrame'
         /\ blockmap' \in [Buf -> SUBSET Block]
         /\ blockcount' \in [Buf -> 0 .. MAXCHUNKSIZE]
         /\ data' \in [Buf -> [Block -> Chunk \union {None}]]
         /\ lastreq' \in [Chunk -> {"zero", "fresh", "old"}]
         /\ rpc' \in {"full", "recv"}
         /\ gb' \in [chunk : Chunk \union {None}, block : Block \union {None},
                     i : 0 .. NBufs, free : Buf \union {None},
                     dubious : Buf \union {None}]
<1>1. /\ \A a \in Buf : a # b => /\ blockmap'[a] = blockmap[a]
                                 /\ blockcount'[a] = blockcount[a]
                                 /\ data'[a] = data[a]
      /\ blockmap'[b] \subseteq ChunkBlocks(gb.chunk)
      /\ blockcount'[b] = ChunkSize(gb.chunk) - Cardinality(blockmap'[b])
      /\ \A k \in blockmap'[b] : data'[b][k] = gb.chunk
      /\ \/ rpc' = "full" /\ blockcount'[b] = 0 /\ gb' = [gb EXCEPT !.i = b]
         \/ rpc' = "recv" /\ blockcount'[b] # 0 /\ gb' = NoFrame
  BY InsertDoes
<1>2. rpc' = "full" => gb'.i = b /\ gb'.chunk = gb.chunk
  BY <1>1 DEF RecvTypes
<1>3. \A a \in Buf : a # b => (Holding(a)' <=> Holding(a))
  BY DEF Holding
<1>4. BlockCountExact'
  <2> SUFFICES ASSUME NEW a \in Buf, Holding(a)'
               PROVE  /\ blockmap'[a] \subseteq ChunkBlocks(thischunk'[a])
                      /\ blockcount'[a] =
                           ChunkSize(thischunk'[a]) - Cardinality(blockmap'[a])
                      /\ blockcount'[a] = 0 <=>
                           state'[a] = "FULL" \/ (rpc' = "full" /\ gb'.i = a)
    BY DEF BlockCountExact
  <2>1. CASE a = b
    BY <1>1, <1>2, <2>1
  <2>2. CASE a # b
    <3>1. ~ (rpc' = "full" /\ gb'.i = a) /\ ~ rpc = "full"
      BY <1>2, <2>2
    <3> QED BY <1>1, <1>3, <2>2, <3>1 DEF CacheInv, BlockCountExact
  <2> QED BY <2>1, <2>2
<1>5. BlocksOfChunk'
  BY <1>1, <1>3 DEF CacheInv, BlocksOfChunk
<1>6. SearchFrame' /\ FullFrame'
  BY <1>1, <1>2 DEF SearchFrame, FullFrame, Filling
<1>7. gb' \in [chunk : Chunk \union {None}, block : Block \union {None},
               i : 0 .. NBufs, free : Buf \union {None}, dubious : Buf \union {None}]
  BY <1>1, Bufs DEF RecvTypes, NoFrame
<1> QED BY <1>1, <1>4, <1>5, <1>6, <1>7, InsertDoes

-----------------------------------------------------------------------------
(* The receive thread's steps.                                               *)

RecvInv == ChunkTypes /\ RecvTypes /\ ScanCounts /\ SearchFrame /\ FullFrame
BufInv  == BufTypes /\ CacheInv
MainInv == MainTypes /\ WritesFull /\ ChunkCountExact
CoreInv == RecvInv /\ BufInv /\ MainInv

(* The block goes into the buffer its chunk is in.                           *)
LEMMA FoundStep ==
  ASSUME RecvInv, BufInv, GotBlockFound
  PROVE  RecvInv' /\ BufInv'
<1> USE DEF RecvInv, BufInv
<1> DEFINE b == gb.i
           map == blockmap[b]
<1>1. /\ rpc = "gotblock" /\ b \in Buf /\ Filling(b) /\ thischunk[b] = gb.chunk
      /\ Insert(b, map, blockcount[b], lastreq)
      /\ UNCHANGED <<seen, done, ours, ChunkRequestList, state, thischunk, rq,
                     lastnoroomchunk, child_error, disk>>
  BY Bufs DEF GotBlockFound, RecvTypes, mainVars
<1>2. gb.chunk \in Chunk /\ gb.block \in ChunkBlocks(gb.chunk)
  BY <1>1 DEF SearchFrame
<1>3. Holding(b) /\ state[b] # "FULL" /\ state[b] \in {"FILLING", "DUBIOUS"}
  BY <1>1 DEF Holding, Filling
<1>4. /\ map \subseteq ChunkBlocks(gb.chunk)
      /\ blockcount[b] = ChunkSize(gb.chunk) - Cardinality(map)
      /\ blockcount[b] # 0
      /\ \A k \in map : data[b][k] = gb.chunk
  BY <1>1, <1>3 DEF CacheInv, BlockCountExact, BlocksOfChunk
<1>5. Cardinality(map) < ChunkSize(gb.chunk)
  <2>1. /\ ChunkSize(gb.chunk) \in Nat /\ IsFiniteSet(ChunkBlocks(gb.chunk))
        /\ Cardinality(ChunkBlocks(gb.chunk)) = ChunkSize(gb.chunk)
    BY Sizes, ChunkSizeBounds DEF SizesGiven
  <2>2. Cardinality(map) \in Nat /\ Cardinality(map) <= ChunkSize(gb.chunk)
    BY <1>4, <2>1, FS_Subset, FS_CardinalityType
  <2> QED BY <1>4, <2>1, <2>2
<1>6. Insert(b, map, ChunkSize(gb.chunk) - Cardinality(map), lastreq)
  BY <1>1, <1>4
<1>7. /\ BlockCountExact' /\ BlocksOfChunk' /\ SearchFrame' /\ FullFrame'
      /\ blockmap' \in [Buf -> SUBSET Block]
      /\ blockcount' \in [Buf -> 0 .. MAXCHUNKSIZE]
      /\ data' \in [Buf -> [Block -> Chunk \union {None}]]
      /\ lastreq' \in [Chunk -> {"zero", "fresh", "old"}]
      /\ rpc' \in {"full", "recv"}
      /\ gb' \in [chunk : Chunk \union {None}, block : Block \union {None},
                  i : 0 .. NBufs, free : Buf \union {None},
                  dubious : Buf \union {None}]
  <2> HIDE DEF b, map
  <2>1. /\ state'[b] \in {"FILLING", "DUBIOUS"} /\ thischunk'[b] = gb.chunk
        /\ \A a \in Buf : a # b => state'[a] = state[a] /\ thischunk'[a] = thischunk[a]
        /\ lastreq \in [Chunk -> {"zero", "fresh", "old"}]
    BY <1>1, <1>3 DEF ChunkTypes
  <2> QED BY <1>1, <1>2, <1>4, <1>5, <1>6, <2>1, InsertCache
<1>8. EveryChunkAccounted'
  BY <1>1, <1>7 DEF CacheInv, EveryChunkAccounted, HandedOver, Holding
<1>9. BufTypes' /\ ChunkTypes' /\ RecvTypes' /\ ScanCounts'
  BY <1>1, <1>7 DEF BufTypes, ChunkTypes, RecvTypes, ScanCounts
<1> QED BY <1>7, <1>8, <1>9 DEF CacheInv

(* The block goes into a buffer taken for its chunk.                         *)
LEMMA TakeStep ==
  ASSUME RecvInv, BufInv, GotBlockAlloc \/ GotBlockEvict
  PROVE  RecvInv' /\ BufInv'
<1> USE DEF RecvInv, BufInv
<1>1. ASSUME NotFound, NEW b \in Buf, NEW D, NEW noroom, NEW req,
             \/ state[b] = "EMPTY" /\ D = {}
             \/ state[b] = "DUBIOUS" /\ D = {thischunk[b]},
             seen' = (seen \ D) \union {gb.chunk},
             req \in [Chunk -> {"zero", "fresh", "old"}],
             Allocate(b, noroom, req)
      PROVE  RecvInv' /\ BufInv'
  <2> DEFINE s == IF gb.chunk = noroom THEN "DUBIOUS" ELSE "FILLING"
  <2>1. /\ rpc = "gotblock" /\ gb.chunk \in Chunk \ seen
        /\ gb.block \in ChunkBlocks(gb.chunk)
    BY <1>1, NotFoundUnseen DEF NotFound
  <2>2. /\ state' = [state EXCEPT ![b] = s]
        /\ thischunk' = [thischunk EXCEPT ![b] = gb.chunk]
        /\ lastnoroomchunk' = None
        /\ Insert(b, {}, ChunkSize(gb.chunk), req)
        /\ UNCHANGED <<done, ours, ChunkRequestList, rq, child_error, disk>>
    BY <1>1 DEF Allocate, mainVars
  <2>3. s \in {"FILLING", "DUBIOUS"}
    OBVIOUS
  <2>4. /\ ChunkSize(gb.chunk) \in Nat \ {0} /\ Cardinality({}) = 0
        /\ ChunkSize(gb.chunk) - 0 = ChunkSize(gb.chunk)
    BY Sizes, ChunkSizeBounds, FS_EmptySet DEF SizesGiven
  <2>5. /\ Insert(b, {}, ChunkSize(gb.chunk) - Cardinality({}), req)
        /\ Cardinality({}) < ChunkSize(gb.chunk)
    BY <2>2, <2>4
  <2> HIDE DEF s
  <2>6. /\ state'[b] = s /\ thischunk'[b] = gb.chunk
        /\ \A a \in Buf : a # b => state'[a] = state[a] /\ thischunk'[a] = thischunk[a]
    BY <2>2 DEF BufTypes
  <2>7. /\ BlockCountExact' /\ BlocksOfChunk' /\ SearchFrame' /\ FullFrame'
        /\ blockmap' \in [Buf -> SUBSET Block]
        /\ blockcount' \in [Buf -> 0 .. MAXCHUNKSIZE]
        /\ data' \in [Buf -> [Block -> Chunk \union {None}]]
        /\ lastreq' \in [Chunk -> {"zero", "fresh", "old"}]
        /\ rpc' \in {"full", "recv"}
        /\ gb' \in [chunk : Chunk \union {None}, block : Block \union {None},
                    i : 0 .. NBufs, free : Buf \union {None},
                    dubious : Buf \union {None}]
    BY <1>1, <2>1, <2>3, <2>5, <2>6, InsertCache
  <2>8. /\ EveryChunkAccounted'
        /\ state' \in [Buf -> {"EMPTY", "FILLING", "DUBIOUS", "FULL"}]
        /\ thischunk' \in [Buf -> Chunk]
    BY <1>1, <2>1, <2>2, <2>3, <2>7, TakenBuffer
  <2>9. BufTypes' /\ ChunkTypes' /\ RecvTypes' /\ ScanCounts'
    BY <1>1, <2>1, <2>2, <2>7, <2>8 DEF BufTypes, ChunkTypes, RecvTypes, ScanCounts
  <2> QED BY <2>7, <2>8, <2>9 DEF CacheInv
<1>2. CASE GotBlockAlloc
  <2>1. /\ NotFound /\ gb.free \in Buf /\ state[gb.free] = "EMPTY"
        /\ seen' = (seen \ {}) \union {gb.chunk}
        /\ Allocate(gb.free, lastnoroomchunk, lastreq)
    BY <1>2 DEF GotBlockAlloc, NotFound, SearchFrame, RecvTypes
  <2> QED BY <1>1, <2>1 DEF ChunkTypes
<1>3. CASE GotBlockEvict
  <2> DEFINE old == thischunk[gb.dubious]
             req == [lastreq EXCEPT ![old] = "zero"]
  <2>1. /\ NotFound /\ gb.dubious \in Buf /\ state[gb.dubious] = "DUBIOUS"
        /\ seen' = (seen \ {old}) \union {gb.chunk}
        /\ Allocate(gb.dubious, None, req)
    BY <1>3 DEF GotBlockEvict, NotFound, SearchFrame, RecvTypes
  <2>2. req \in [Chunk -> {"zero", "fresh", "old"}]
    BY DEF ChunkTypes
  <2> HIDE DEF req
  <2> QED BY <1>1, <2>1, <2>2
<1> QED BY <1>2, <1>3

(* The complete chunk is handed over.                                        *)
LEMMA FullStep ==
  ASSUME RecvInv, BufInv, GotBlockFull
  PROVE  RecvInv' /\ BufInv'
<1> USE DEF RecvInv, BufInv
<1> DEFINE b == gb.i
<1>1. /\ rpc = "full" /\ rpc' = "mark" /\ gb' = gb
      /\ state' = [state EXCEPT ![b] = "FULL"]
      /\ UNCHANGED <<chunkVars, thischunk, blockcount, blockmap, data, rq,
                     lastnoroomchunk, child_error, disk>>
  BY DEF GotBlockFull
<1>2. b \in Buf /\ Filling(b) /\ thischunk[b] = gb.chunk
  BY <1>1 DEF FullFrame
<1>3. /\ state'[b] = "FULL" /\ \A a \in Buf : a # b => state'[a] = state[a]
      /\ state' \in [Buf -> {"EMPTY", "FILLING", "DUBIOUS", "FULL"}]
  BY <1>1, <1>2 DEF BufTypes
<1>4. \A a \in Buf : Holding(a)' <=> Holding(a)
  BY <1>2, <1>3 DEF Holding, Filling
<1>5. Holding(b) /\ HandedOver = done /\ HandedOver' = done \cup {gb.chunk}
  BY <1>1, <1>2 DEF Holding, Filling, HandedOver, chunkVars
<1> HIDE DEF b
<1>6. EveryChunkAccounted'
  <2>1. gb.chunk \in seen
    BY <1>2, <1>5 DEF CacheInv, EveryChunkAccounted
  <2>2. \A a \in Buf : Holding(a) /\ a # b => thischunk[a] # gb.chunk
    BY <1>2, <1>5 DEF CacheInv, EveryChunkAccounted
  <2> QED BY <1>1, <1>2, <1>3, <1>4, <1>5, <2>1, <2>2
          DEF CacheInv, EveryChunkAccounted, chunkVars
<1>7. BlockCountExact'
  <2> SUFFICES ASSUME NEW a \in Buf, Holding(a)
               PROVE  /\ blockmap[a] \subseteq ChunkBlocks(thischunk[a])
                      /\ blockcount[a] = ChunkSize(thischunk[a]) - Cardinality(blockmap[a])
                      /\ blockcount[a] = 0 <=> state'[a] = "FULL"
    BY <1>1, <1>4 DEF BlockCountExact
  <2> QED BY <1>1, <1>3 DEF CacheInv, BlockCountExact, b
<1>8. BlocksOfChunk'
  BY <1>1, <1>4 DEF CacheInv, BlocksOfChunk
<1>9. BufTypes' /\ ChunkTypes' /\ RecvTypes' /\ ScanCounts'
  BY <1>1, <1>3 DEF BufTypes, ChunkTypes, RecvTypes, ScanCounts, chunkVars
<1>10. SearchFrame' /\ FullFrame'
  BY <1>1 DEF SearchFrame, FullFrame
<1> QED BY <1>6, <1>7, <1>8, <1>9, <1>10 DEF CacheInv

(* And marked done.                                                          *)
LEMMA DoneStep ==
  ASSUME RecvInv, BufInv, GotBlockDone
  PROVE  RecvInv' /\ BufInv'
<1> USE DEF RecvInv, BufInv
<1>1. /\ rpc = "mark" /\ rpc' = "request" /\ gb' = NoFrame
      /\ rq' = [NoRequest EXCEPT !.timedout = FALSE]
      /\ done' = done \cup {gb.chunk} /\ state' = state
      /\ UNCHANGED <<seen, ours, lastreq, ChunkRequestList, thischunk, blockcount,
                     blockmap, data, lastnoroomchunk, child_error, disk>>
  BY DEF GotBlockDone, StartRequest, bufVars, mainVars
<1>2. HandedOver' = HandedOver /\ done' = HandedOver
  BY <1>1 DEF HandedOver
<1>3. CacheInv'
  BY <1>1, <1>2, KeptCache DEF CacheKept
<1>4. done' \in SUBSET Chunk
  BY <1>2 DEF CacheInv, EveryChunkAccounted, ChunkTypes
<1>5. BufTypes' /\ ChunkTypes'
  BY <1>1, <1>4 DEF BufTypes, ChunkTypes
<1>6. RecvTypes' /\ ScanCounts'
  <2>1. gb' \in [chunk : Chunk \union {None}, block : Block \union {None},
                 i : 0 .. NBufs, free : Buf \union {None},
                 dubious : Buf \union {None}]
    BY <1>1, Bufs DEF NoFrame
  <2>2. rq' = NoRequest
    BY <1>1 DEF NoRequest
  <2>3. rq' \in [timedout : BOOLEAN, i : 0 .. NBufs, empty : 0 .. NBufs,
                 filling : 0 .. NBufs]
    BY <2>2, Bufs DEF NoRequest
  <2>4. ScanCounts'
    BY <2>2 DEF ScanCounts, NoRequest
  <2> QED BY <1>1, <2>1, <2>3, <2>4 DEF RecvTypes
<1>7. SearchFrame' /\ FullFrame'
  BY <1>1 DEF SearchFrame, FullFrame
<1> QED BY <1>3, <1>5, <1>6, <1>7

(* The search for the chunk's buffer goes on.                                *)
LEMMA ScanStep ==
  ASSUME RecvInv, BufInv, GotBlockScan
  PROVE  RecvInv' /\ BufInv'
<1> USE DEF RecvInv, BufInv
<1> DEFINE b == gb.i
<1>1. /\ rpc = "gotblock" /\ rpc' = rpc /\ b \in Buf /\ b + 1 \in 0 .. NBufs
      /\ ~ (Filling(b) /\ thischunk[b] = gb.chunk)
      /\ UNCHANGED <<chunkVars, bufVars, rq, lastnoroomchunk, child_error, disk>>
  BY Bufs DEF GotBlockScan, RecvTypes, mainVars
<1>2. /\ gb' \in [chunk : Chunk \union {None}, block : Block \union {None},
                  i : 0 .. NBufs, free : Buf \union {None},
                  dubious : Buf \union {None}]
      /\ gb'.chunk = gb.chunk /\ gb'.block = gb.block /\ gb'.i = b + 1
      /\ gb'.free = IF state[b] = "EMPTY" /\ gb.free = None THEN b ELSE gb.free
      /\ gb'.dubious = IF state[b] = "DUBIOUS" /\ gb.dubious = None
                       THEN b ELSE gb.dubious
  BY <1>1 DEF GotBlockScan, RecvTypes
<1>3. CacheInv'
  BY <1>1, KeptCache DEF CacheKept, HandedOver, chunkVars, bufVars
<1>4. BufTypes' /\ ChunkTypes' /\ RecvTypes' /\ ScanCounts' /\ FullFrame'
  BY <1>1, <1>2 DEF BufTypes, ChunkTypes, RecvTypes, ScanCounts, FullFrame,
       chunkVars, bufVars
<1>5. SearchFrame'
  <2>1. \A a \in Buf : a < b + 1 => a < b \/ a = b
    <3>1. b \in Nat /\ Buf \subseteq Nat
      BY <1>1, Bufs
    <3> HIDE DEF b
    <3> QED BY <3>1
  <2>2. \A a \in Buf : a < gb'.i => ~ (Filling(a) /\ thischunk[a] = gb.chunk)
    BY <1>1, <1>2, <2>1 DEF SearchFrame
  <2>3. /\ gb'.free # None => state[gb'.free] = "EMPTY"
        /\ gb'.dubious # None => state[gb'.dubious] = "DUBIOUS"
    BY <1>1, <1>2 DEF SearchFrame
  <2>4. UNCHANGED <<state, thischunk, done>>
    BY <1>1 DEF chunkVars, bufVars
  <2>5. gb.chunk \in Chunk \ done /\ gb.block \in ChunkBlocks(gb.chunk)
    BY <1>1 DEF SearchFrame
  <2> QED BY <1>2, <2>2, <2>3, <2>4, <2>5 DEF SearchFrame, Filling
<1> QED BY <1>3, <1>4, <1>5

(* A step outside GotBlock(), or one that leaves it, which changes no buffer *)
(* but for one that is DUBIOUS and becomes FILLING.                          *)
LEMMA OutsideStep ==
  ASSUME RecvInv, BufInv, RecvTypes', ScanCounts', ChunkTypes',
         rpc \notin {"full", "mark"}, rpc' \notin {"gotblock", "full", "mark"},
         UNCHANGED <<seen, done, thischunk, blockcount, blockmap, data, disk>>,
         state' \in [Buf -> {"EMPTY", "FILLING", "DUBIOUS", "FULL"}],
         \A b \in Buf : \/ state'[b] = state[b]
                        \/ state[b] = "DUBIOUS" /\ state'[b] = "FILLING"
  PROVE  RecvInv' /\ BufInv'
<1> USE DEF RecvInv, BufInv
<1>1. CacheInv'
  <2>1. CacheKept
    BY DEF CacheKept, HandedOver
  <2> QED BY <2>1, KeptCache
<1>2. BufTypes' /\ SearchFrame' /\ FullFrame'
  BY DEF BufTypes, SearchFrame, FullFrame
<1> QED BY <1>1, <1>2

(* The stamps keep their type.                                               *)
LEMMA StampType ==
  ASSUME ChunkTypes, NEW S
  PROVE  Stamp(S) \in [Chunk -> {"zero", "fresh", "old"}]
  BY DEF Stamp, ChunkTypes

(* A packet arrives.                                                         *)
LEMMA PacketStep ==
  ASSUME RecvInv, BufInv, Packets
  PROVE  RecvInv' /\ BufInv'
<1> USE DEF RecvInv, BufInv
<1>1. rpc = "recv"
  BY DEF Packets, RecvIgnored, RecvBlock, RecvRequest, RecvPartialRequest,
     ReceivePacket, Receiving
<1>2. CASE RecvIgnored
  <2>1. UNCHANGED <<chunkVars, bufVars, rpc, gb, rq, lastnoroomchunk, child_error, disk>>
    BY <1>2 DEF RecvIgnored, mainVars
  <2>2. RecvTypes' /\ ScanCounts' /\ ChunkTypes'
    BY <2>1 DEF RecvTypes, ScanCounts, ChunkTypes, chunkVars
  <2> QED BY <1>1, <2>1, <2>2, OutsideStep DEF chunkVars, bufVars, BufTypes
<1>3. ASSUME NEW c \in Chunk, NEW blocks,
             RecvRequest(c, blocks) \/ RecvPartialRequest(c, blocks)
      PROVE  RecvInv' /\ BufInv'
  <2>1. /\ UNCHANGED <<seen, done, ours, ChunkRequestList, thischunk, blockcount,
                       blockmap, data, rpc, gb, rq, lastnoroomchunk, child_error, disk>>
        /\ state' = [b \in Buf |->
                       IF b \in Promoted(c, blocks) THEN "FILLING" ELSE state[b]]
        /\ \E S : lastreq' = Stamp(S)
    BY <1>3 DEF RecvRequest, RecvPartialRequest, mainVars
  <2>2. \A b \in Promoted(c, blocks) : state[b] = "DUBIOUS"
    BY DEF Promoted
  <2>3. RecvTypes' /\ ScanCounts' /\ ChunkTypes'
    BY <2>1, StampType DEF RecvTypes, ScanCounts, ChunkTypes
  <2>4. state' \in [Buf -> {"EMPTY", "FILLING", "DUBIOUS", "FULL"}]
    BY <2>1 DEF BufTypes
  <2>5. \A b \in Buf : \/ state'[b] = state[b]
                       \/ state[b] = "DUBIOUS" /\ state'[b] = "FILLING"
    BY <2>1, <2>2
  <2> QED BY <1>1, <2>1, <2>3, <2>4, <2>5, OutsideStep
<1>4. ASSUME NEW c \in Chunk, NEW k \in ChunkBlocks(c), RecvBlock(c, k)
      PROVE  RecvInv' /\ BufInv'
  <2>1. /\ UNCHANGED <<chunkVars, bufVars, rq, lastnoroomchunk, child_error, disk>>
        /\ \/ rpc' = rpc /\ gb' = gb
           \/ /\ c \notin done /\ rpc' = "gotblock"
              /\ gb' = [NoFrame EXCEPT !.chunk = c, !.block = k]
    BY <1>4 DEF RecvBlock, mainVars
  <2>2. k \in Block
    BY Sizes, ChunkSizeBounds DEF Block
  <2>3. rpc' = "gotblock" => /\ c \notin done
                             /\ gb' = [chunk |-> c, block |-> k, i |-> 0,
                                       free |-> None, dubious |-> None]
    BY <1>1, <2>1 DEF NoFrame
  <2>4. RecvTypes' /\ ScanCounts'
    <3>1. rpc' \in {"recv", "gotblock"} /\ (rpc' = "recv" => gb' = gb)
      BY <1>1, <2>1
    <3>2. gb' \in [chunk : Chunk \union {None}, block : Block \union {None},
                   i : 0 .. NBufs, free : Buf \union {None},
                   dubious : Buf \union {None}]
      BY <2>2, <2>3, <3>1, Bufs DEF RecvTypes
    <3> QED BY <2>1, <3>1, <3>2 DEF RecvTypes, ScanCounts
  <2>5. BufTypes' /\ ChunkTypes'
    BY <2>1 DEF BufTypes, ChunkTypes, bufVars, chunkVars
  <2>6. CacheInv'
    <3>1. rpc' \notin {"full", "mark"}
      BY <1>1, <2>1
    <3> QED BY <1>1, <2>1, <3>1, KeptCache DEF CacheKept, HandedOver, bufVars, chunkVars
  <2>7. SearchFrame' /\ FullFrame'
    <3>1. \A b \in Buf : ~ b < 0
      BY Bufs
    <3>2. rpc' # "full" /\ done' = done
      BY <1>1, <2>1 DEF chunkVars
    <3> QED BY <2>3, <3>1, <3>2 DEF SearchFrame, FullFrame
  <2> QED BY <2>4, <2>5, <2>6, <2>7
<1> QED BY <1>2, <1>3, <1>4 DEF Packets

(* RequestChunk() starts with nothing counted.                               *)
LEMMA RequestStarts ==
  ASSUME NEW t \in BOOLEAN
  PROVE  /\ StartRequest(t) = [timedout |-> t, i |-> 0, empty |-> 0, filling |-> 0]
         /\ StartRequest(t) \in [timedout : BOOLEAN, i : 0 .. NBufs,
                                 empty : 0 .. NBufs, filling : 0 .. NBufs]
         /\ StartRequest(t).empty <= StartRequest(t).i
         /\ StartRequest(t).filling <= StartRequest(t).i
<1>1. StartRequest(t) = [timedout |-> t, i |-> 0, empty |-> 0, filling |-> 0]
  BY DEF StartRequest, NoRequest
<1> QED BY <1>1, Bufs

(* One buffer of the scan of RequestChunk(): it promotes at most.            *)
LEMMA RequestScanStep ==
  ASSUME RecvInv, BufInv, RequestChunkScan
  PROVE  RecvInv' /\ BufInv'
<1> USE DEF RecvInv, BufInv
<1> DEFINE b == rq.i
<1>1. /\ rpc = "request" /\ b < NBufs
      /\ UNCHANGED <<seen, done, ChunkRequestList, thischunk, blockcount, blockmap,
                     data, rpc, gb, lastnoroomchunk, child_error, disk>>
  BY DEF RequestChunkScan, mainVars
<1>2. b \in Buf /\ b + 1 \in 0 .. NBufs
  BY <1>1, Bufs DEF RecvTypes
<1>3. \/ rq' = [rq EXCEPT !.i = b + 1, !.empty = rq.empty + 1]
      \/ rq' = [rq EXCEPT !.i = b + 1]
      \/ rq' = [rq EXCEPT !.i = b + 1, !.filling = rq.filling + 1]
  BY DEF RequestChunkScan
<1>4. RecvTypes' /\ ScanCounts'
  <2>1. /\ rq' \in [timedout : BOOLEAN, i : 0 .. NBufs, empty : Nat, filling : Nat]
        /\ rq'.i = b + 1 /\ rq'.empty \in {rq.empty, rq.empty + 1}
        /\ rq'.filling \in {rq.filling, rq.filling + 1}
    <3>1. /\ rq \in [timedout : BOOLEAN, i : 0 .. NBufs, empty : Nat, filling : Nat]
          /\ rq.empty + 1 \in Nat /\ rq.filling + 1 \in Nat
      BY Bufs DEF RecvTypes
    <3> HIDE DEF b
    <3>2. CASE rq' = [rq EXCEPT !.i = b + 1]
      BY <1>2, <3>1, <3>2
    <3>3. CASE rq' = [rq EXCEPT !.i = b + 1, !.empty = rq.empty + 1]
      BY <1>2, <3>1, <3>3
    <3>4. CASE rq' = [rq EXCEPT !.i = b + 1, !.filling = rq.filling + 1]
      BY <1>2, <3>1, <3>4
    <3> QED BY <1>3, <3>2, <3>3, <3>4
  <2>2. /\ rq.empty \in Nat /\ rq.filling \in Nat /\ b \in Nat
        /\ rq.empty <= b /\ rq.filling <= b
    BY Bufs DEF RecvTypes, ScanCounts
  <2> HIDE DEF b
  <2>3. rq'.empty <= b + 1 /\ rq'.filling <= b + 1
    BY <2>1, <2>2
  <2>4. ScanCounts'
    BY <2>1, <2>3 DEF ScanCounts
  <2>5. rq'.empty \in 0 .. NBufs /\ rq'.filling \in 0 .. NBufs
    BY <1>2, <2>1, <2>2, <2>3, Bufs
  <2>6. rq' \in [timedout : BOOLEAN, i : 0 .. NBufs, empty : 0 .. NBufs,
                 filling : 0 .. NBufs]
    BY <2>1, <2>5
  <2> QED BY <1>1, <2>4, <2>6 DEF RecvTypes
<1>5. /\ \/ UNCHANGED <<lastreq, ours, state>>
         \/ Filling(b) /\ RequestMissing(b)
  BY DEF RequestChunkScan
<1>6. ChunkTypes'
  <2>1. thischunk[b] \in Chunk
    BY <1>2 DEF BufTypes
  <2>2. lastreq' \in [Chunk -> {"zero", "fresh", "old"}] /\ ours' \in SUBSET Chunk
    BY <1>5, <2>1, StampType DEF RequestMissing, ChunkTypes
  <2> QED BY <1>1, <2>2 DEF ChunkTypes
<1>7. state' \in [Buf -> {"EMPTY", "FILLING", "DUBIOUS", "FULL"}]
  BY <1>2, <1>5 DEF RequestMissing, BufTypes
<1>8. \A a \in Buf : \/ state'[a] = state[a]
                     \/ state[a] = "DUBIOUS" /\ state'[a] = "FILLING"
  BY <1>2, <1>5 DEF RequestMissing, BufTypes, Filling
<1> QED BY <1>1, <1>4, <1>6, <1>7, <1>8, OutsideStep

(* The other steps of the receive thread leave the buffers alone.            *)
LEMMA QuietRecvStep ==
  ASSUME RecvInv, BufInv,
         \/ RecvTimeout \/ RecvServerTimeout \/ RequestChunkAhead
         \/ RecvSignalExit \/ RecvCancel \/ GotBlockNoRoom
         \/ \E c \in Chunk : Age(c)
  PROVE  RecvInv' /\ BufInv'
<1> USE DEF RecvInv, BufInv
<1>1. /\ rpc \notin {"full", "mark"}
      /\ rpc' \in {"recv", "request", "signal", "exited"}
      /\ UNCHANGED <<seen, done, ChunkRequestList, bufVars, disk>>
  <2>1. CASE RecvTimeout \/ RecvServerTimeout \/ \E c \in Chunk : Age(c)
    BY <2>1 DEF RecvTimeout, RecvServerTimeout, Age, Receiving, chunkVars, recvVars,
         mainVars
  <2>2. CASE RequestChunkAhead \/ RecvSignalExit \/ RecvCancel \/ GotBlockNoRoom
    BY <2>2 DEF RequestChunkAhead, RecvSignalExit, RecvCancel, GotBlockNoRoom,
         NotFound, chunkVars, mainVars
  <2> QED BY <2>1, <2>2
<1>2. ChunkTypes'
  <2>1. lastreq' \in [Chunk -> {"zero", "fresh", "old"}] /\ ours' \in SUBSET Chunk
    <3>1. CASE RecvTimeout \/ RecvServerTimeout \/ RecvSignalExit \/ RecvCancel
      BY <3>1 DEF RecvTimeout, RecvServerTimeout, RecvSignalExit, RecvCancel,
           chunkVars, ChunkTypes
    <3>2. CASE GotBlockNoRoom
      BY <3>2, StampType DEF GotBlockNoRoom, ChunkTypes
    <3>3. CASE RequestChunkAhead
      <4>1. ReadAhead \subseteq Chunk
        BY DEF ReadAhead, ChunkTypes
      <4> QED BY <3>3, <4>1, StampType DEF RequestChunkAhead, ChunkTypes
    <3>4. CASE \E c \in Chunk : Age(c)
      BY <3>4 DEF Age, ChunkTypes
    <3> QED BY <3>1, <3>2, <3>3, <3>4
  <2> QED BY <1>1, <2>1 DEF ChunkTypes
<1>3. RecvTypes' /\ ScanCounts'
  <2>1. gb' = gb \/ gb' = NoFrame
    BY DEF RecvTimeout, RecvServerTimeout, Age, RequestChunkAhead, RecvSignalExit,
       RecvCancel, GotBlockNoRoom, recvVars
  <2>2. gb' \in [chunk : Chunk \union {None}, block : Block \union {None},
                 i : 0 .. NBufs, free : Buf \union {None},
                 dubious : Buf \union {None}]
    BY <2>1, Bufs DEF NoFrame, RecvTypes
  <2>3. rq' = rq \/ rq' = StartRequest(TRUE) \/ rq' = StartRequest(FALSE)
    <3>1. NoRequest = StartRequest(FALSE)
      <4>1. StartRequest(FALSE) = [timedout |-> FALSE, i |-> 0, empty |-> 0, filling |-> 0]
        BY RequestStarts
      <4> QED BY <4>1, Zenon DEF NoRequest
    <3> QED BY <3>1 DEF RecvTimeout, RecvServerTimeout, Age, RequestChunkAhead,
            RecvSignalExit, RecvCancel, GotBlockNoRoom, recvVars
  <2>4. rq' \in [timedout : BOOLEAN, i : 0 .. NBufs, empty : 0 .. NBufs,
                 filling : 0 .. NBufs] /\ ScanCounts'
    BY <2>3, RequestStarts DEF RecvTypes, ScanCounts
  <2>5. lastnoroomchunk' \in Chunk \union {None}
    <3>1. lastnoroomchunk' = lastnoroomchunk \/ (GotBlockNoRoom /\ lastnoroomchunk' = gb.chunk)
      BY DEF RecvTimeout, RecvServerTimeout, Age, RequestChunkAhead, RecvSignalExit,
         RecvCancel, GotBlockNoRoom, recvVars
    <3> QED BY <3>1 DEF RecvTypes
  <2>6. child_error' \in {"none", "ETIMEDOUT"}
    BY DEF RecvTimeout, RecvServerTimeout, Age, RequestChunkAhead, RecvSignalExit,
       RecvCancel, GotBlockNoRoom, recvVars, RecvTypes
  <2> QED BY <1>1, <2>2, <2>4, <2>5, <2>6 DEF RecvTypes
<1> QED BY <1>1, <1>2, <1>3, OutsideStep DEF bufVars, BufTypes

(* Every step of the receive thread.                                         *)
LEMMA RecvStep ==
  ASSUME RecvInv, BufInv,
         Packets \/ RecvTimeout \/ RecvServerTimeout \/ RecvWork
         \/ (\E c \in Chunk : Age(c))
  PROVE  RecvInv' /\ BufInv'
  BY PacketStep, QuietRecvStep, RequestScanStep, ScanStep, FoundStep, TakeStep,
     FullStep, DoneStep DEF RecvWork

-----------------------------------------------------------------------------
(* The main thread.                                                          *)

(* The count is in range, and zero only of the whole image.                  *)
LEMMA CountsDisk ==
  ASSUME NEW d \in SUBSET Chunk
  PROVE  /\ IsFiniteSet(d) /\ Cardinality(d) \in Nat
         /\ TotalChunks - Cardinality(d) \in 0 .. TotalChunks
         /\ TotalChunks - Cardinality(d) = 0 => d = Chunk
<1>1. IsFiniteSet(Chunk) /\ Cardinality(Chunk) = TotalChunks /\ TotalChunks \in Nat
  BY Sizes, ChunksFinite, Bufs
<1>2. /\ IsFiniteSet(d) /\ Cardinality(d) <= TotalChunks /\ Cardinality(d) \in Nat
      /\ TotalChunks = Cardinality(d) => d = Chunk
  BY <1>1, FS_Subset, FS_CardinalityType
<1> QED BY <1>1, <1>2

(* A step of the receive thread leaves a buffer that is FULL, and so the one *)
(* being written, alone.                                                     *)
LEMMA RecvKeepsFull ==
  ASSUME RecvInv, BufInv, NEW b \in Buf, state[b] = "FULL",
         Packets \/ RecvTimeout \/ RecvServerTimeout \/ RecvWork
         \/ (\E c \in Chunk : Age(c))
  PROVE  state'[b] = "FULL"
<1> USE DEF RecvInv, BufInv
<1>1. CASE Packets
  <2>1. ASSUME NEW c, NEW blocks, RecvRequest(c, blocks) \/ RecvPartialRequest(c, blocks)
        PROVE  state'[b] = "FULL"
    BY <2>1 DEF RecvRequest, RecvPartialRequest, Promoted
  <2>2. CASE state' = state
    BY <2>2
  <2> QED BY <1>1, <2>1, <2>2 DEF Packets, RecvIgnored, RecvBlock, bufVars
<1>2. CASE RecvTimeout \/ RecvServerTimeout \/ \E c \in Chunk : Age(c)
  BY <1>2 DEF RecvTimeout, RecvServerTimeout, Age, bufVars
<1>3. CASE RecvWork
  <2>1. CASE RequestChunkScan
    <3>1. state' = state \/ (Filling(rq.i) /\ state' = [state EXCEPT ![rq.i] = "FILLING"])
      BY <2>1 DEF RequestChunkScan, RequestMissing
    <3> QED BY <3>1 DEF Filling, BufTypes
  <2>2. CASE GotBlockAlloc \/ GotBlockEvict
    <3>1. ASSUME NEW a \in Buf, NEW s, state[a] # "FULL", state' = [state EXCEPT ![a] = s]
          PROVE  state'[b] = "FULL"
      BY <3>1 DEF BufTypes
    <3>2. CASE GotBlockAlloc
      <4>1. gb.free \in Buf /\ state[gb.free] = "EMPTY"
        BY <3>2 DEF GotBlockAlloc, NotFound, SearchFrame, RecvTypes
      <4> QED BY <3>1, <3>2, <4>1 DEF GotBlockAlloc, Allocate
    <3>3. CASE GotBlockEvict
      <4>1. gb.dubious \in Buf /\ state[gb.dubious] = "DUBIOUS"
        BY <3>3 DEF GotBlockEvict, NotFound, SearchFrame, RecvTypes
      <4> QED BY <3>1, <3>3, <4>1 DEF GotBlockEvict, Allocate
    <3> QED BY <2>2, <3>2, <3>3
  <2>3. CASE GotBlockFull
    BY <2>3 DEF GotBlockFull, BufTypes
  <2>4. CASE RequestChunkAhead \/ RecvSignalExit \/ RecvCancel \/ GotBlockScan
             \/ GotBlockFound \/ GotBlockNoRoom \/ GotBlockDone
    BY <2>4 DEF RequestChunkAhead, RecvSignalExit, RecvCancel, GotBlockScan,
         GotBlockFound, GotBlockNoRoom, GotBlockDone, bufVars
  <2> QED BY <1>3, <2>1, <2>2, <2>3, <2>4 DEF RecvWork
<1> QED BY <1>1, <1>2, <1>3

(* So it keeps what the main thread relies on.                               *)
LEMMA RecvMainStep ==
  ASSUME CoreInv, ThreadInv,
         Packets \/ RecvTimeout \/ RecvServerTimeout \/ RecvWork
         \/ (\E c \in Chunk : Age(c))
  PROVE  MainInv'
<1>1. /\ mi' = mi /\ chunkcount' = chunkcount /\ disk' = disk
      /\ mpc' = mpc \/ (mpc = "waiting" /\ mpc' = "scan")
  BY RecvThreads
<1>2. MainTypes'
  BY <1>1 DEF CoreInv, MainInv, MainTypes
<1>3. ChunkCountExact'
  BY <1>1 DEF CoreInv, MainInv, ChunkCountExact
<1>4. WritesFull'
  BY <1>1, RecvKeepsFull DEF CoreInv, MainInv, WritesFull
<1> QED BY <1>2, <1>3, <1>4 DEF MainInv

(* The buffer is written and freed.                                          *)
LEMMA WriteStep ==
  ASSUME CoreInv, MainWrite
  PROVE  CoreInv'
<1> USE DEF CoreInv, RecvInv, BufInv, MainInv
<1> DEFINE c == thischunk[mi]
<1>1. /\ mpc = "write" /\ mpc' = "scan" /\ mi' = None
      /\ disk' = disk \cup {c} /\ chunkcount' = chunkcount - 1
      /\ state' = [state EXCEPT ![mi] = "EMPTY"]
      /\ UNCHANGED <<thischunk, blockcount, blockmap, data, chunkVars, recvVars>>
  BY DEF MainWrite, MainStep
<1>2. /\ UNCHANGED <<seen, done, ours, lastreq, ChunkRequestList, rpc, gb, rq,
                     lastnoroomchunk, child_error>>
      /\ HandedOver' = HandedOver
  BY <1>1 DEF chunkVars, recvVars, HandedOver
<1>3. mi \in Buf /\ state[mi] = "FULL" /\ Holding(mi)
  BY <1>1 DEF WritesFull, Holding
<1>4. c \in Chunk /\ c \in seen \ disk /\ c \in HandedOver
  BY <1>3 DEF CacheInv, EveryChunkAccounted, BufTypes
<1>5. /\ state'[mi] = "EMPTY" /\ \A a \in Buf : a # mi => state'[a] = state[a]
      /\ state' \in [Buf -> {"EMPTY", "FILLING", "DUBIOUS", "FULL"}]
  BY <1>1, <1>3 DEF BufTypes
<1>6. \A a \in Buf : Holding(a)' <=> a # mi /\ Holding(a)
  <2>1. \A a \in Buf : Holding(a)' <=> state'[a] # "EMPTY"
    BY DEF Holding
  <2> QED BY <1>5, <2>1 DEF Holding
<1>7. \A a \in Buf : a # mi /\ Holding(a) => thischunk[a] # c
  BY <1>3 DEF CacheInv, EveryChunkAccounted
<1> HIDE DEF c
<1>8. EveryChunkAccounted'
  <2>1. \A d \in seen \ disk' : \E a \in Buf : Holding(a)' /\ thischunk[a] = d
    <3> SUFFICES ASSUME NEW d \in seen \ disk'
                 PROVE  \E a \in Buf : Holding(a)' /\ thischunk[a] = d
      OBVIOUS
    <3>1. PICK a \in Buf : Holding(a) /\ thischunk[a] = d
      BY <1>1 DEF CacheInv, EveryChunkAccounted
    <3>2. a # mi
      BY <1>1, <3>1 DEF c
    <3> QED BY <1>6, <3>1, <3>2
  <2>2. \A a \in Buf : Holding(a)' => a # mi /\ Holding(a) /\ state'[a] = state[a]
    BY <1>3, <1>5, <1>6
  <2>3. \A a \in Buf : Holding(a)' => thischunk[a] \in seen \ disk'
    BY <1>1, <1>7, <2>2 DEF CacheInv, EveryChunkAccounted
  <2>4. disk' \subseteq HandedOver
    BY <1>1, <1>4 DEF CacheInv, EveryChunkAccounted
  <2> QED BY <1>1, <1>2, <2>1, <2>2, <2>3, <2>4 DEF CacheInv, EveryChunkAccounted
<1>9. BlockCountExact' /\ BlocksOfChunk'
  <2>1. \A a \in Buf : Holding(a)' => Holding(a) /\ state'[a] = state[a]
    BY <1>3, <1>5, <1>6
  <2> QED BY <1>1, <1>2, <2>1 DEF CacheInv, BlockCountExact, BlocksOfChunk
<1>10. BufTypes' /\ ChunkTypes' /\ RecvTypes' /\ ScanCounts'
  BY <1>1, <1>2, <1>5 DEF BufTypes, ChunkTypes, RecvTypes, ScanCounts
<1>11. SearchFrame'
  <2>1. \A a \in Buf : Filling(a)' => Filling(a)
    BY <1>3, <1>5 DEF Filling
  <2>2. \A a \in Buf : state[a] \in {"EMPTY", "DUBIOUS"} => state'[a] = state[a]
    BY <1>3, <1>5
  <2>3. gb.free \in Buf \cup {None} /\ gb.dubious \in Buf \cup {None}
    BY DEF RecvTypes
  <2> QED BY <1>1, <1>2, <2>1, <2>2, <2>3 DEF SearchFrame
<1>12. FullFrame'
  BY <1>1, <1>2, <1>3, <1>5 DEF FullFrame, Filling
<1>13. disk' \in SUBSET Chunk /\ Cardinality(disk') = Cardinality(disk) + 1
  <2>1. IsFiniteSet(disk)
    BY CountsDisk DEF MainTypes
  <2> QED BY <1>1, <1>4, <2>1, FS_AddElement DEF MainTypes
<1>14. chunkcount' = TotalChunks - Cardinality(disk')
  <2>1. Cardinality(disk) \in Nat /\ TotalChunks \in Nat
    BY CountsDisk, Bufs DEF MainTypes
  <2>2. chunkcount = TotalChunks - Cardinality(disk)
    BY DEF ChunkCountExact
  <2> QED BY <1>1, <1>13, <2>1, <2>2
<1>15. MainTypes' /\ WritesFull' /\ ChunkCountExact'
  <2>1. chunkcount' \in 0 .. TotalChunks
    BY <1>13, <1>14, CountsDisk
  <2> QED BY <1>1, <1>13, <1>14, <2>1 DEF MainTypes, WritesFull, ChunkCountExact
<1> QED BY <1>8, <1>9, <1>10, <1>11, <1>12, <1>15 DEF CacheInv

(* The other steps of the main thread.                                       *)
LEMMA QuietMainStep ==
  ASSUME CoreInv, ThreadInv, Main, ~ MainWrite
  PROVE  CoreInv'
<1> USE DEF CoreInv, RecvInv, BufInv, MainInv
<1>1. /\ UNCHANGED <<bufVars, chunkcount, disk>>
      /\ \/ mi' = mi /\ mpc' # "write"
         \/ mi' \in Buf /\ state[mi'] = "FULL" /\ mpc' = "write"
      /\ mpc' \in {"join", "scan", "check", "towait", "waiting", "joindead",
                   "write", "joinchild", "leave", "left", "errexit"}
  BY DEF Main, MainJoin, MainJoined, MainFound, MainNone, MainCheck, MainWait,
     MainSpuriousWakeup, MainExitError, MainWriteFailed, MainCancel, MainFinish,
     MainFlushFailed, MainLeave, mainVars
<1>2. /\ UNCHANGED <<chunkVars, gb, rq, lastnoroomchunk, child_error>>
      /\ rpc' = rpc \/ (rpc = "none" /\ rpc' = "recv")
  BY MainThreads
<1>3. mpc' \in {"joinchild", "leave", "left"} =>
        chunkcount = 0 \/ mpc \in {"joinchild", "leave", "left"}
  BY DEF Main, MainJoin, MainJoined, MainFound, MainNone, MainCheck, MainWait,
     MainSpuriousWakeup, MainExitError, MainWriteFailed, MainCancel, MainFinish,
     MainFlushFailed, MainLeave, mainVars
<1>4. MainTypes' /\ WritesFull'
  BY <1>1 DEF MainTypes, WritesFull, bufVars
<1>5. ChunkCountExact'
  <2>1. chunkcount = 0 => disk = Chunk
    BY CountsDisk DEF ChunkCountExact, MainTypes
  <2> QED BY <1>1, <1>3, <2>1 DEF ChunkCountExact
<1>6. CacheInv'
  <2>1. CacheKept
    BY <1>1, <1>2 DEF CacheKept, HandedOver, bufVars, chunkVars
  <2> QED BY <2>1, KeptCache
<1>7. BufTypes' /\ ChunkTypes' /\ RecvTypes' /\ ScanCounts'
  BY <1>1, <1>2 DEF BufTypes, ChunkTypes, RecvTypes, ScanCounts, bufVars, chunkVars
<1>8. SearchFrame' /\ FullFrame'
  BY <1>1, <1>2 DEF SearchFrame, FullFrame, Filling, bufVars, chunkVars
<1> QED BY <1>4, <1>5, <1>6, <1>7, <1>8

-----------------------------------------------------------------------------
(* What is asked for.                                                        *)

(* A buffer that is being filled lacks a block.                              *)
LEMMA FillingLacks ==
  ASSUME CacheInv, BufTypes, NEW b \in Buf, Filling(b), rpc # "full"
  PROVE  ChunkBlocks(thischunk[b]) \ blockmap[b] # {}
<1>1. /\ blockmap[b] \subseteq ChunkBlocks(thischunk[b])
      /\ blockcount[b] = ChunkSize(thischunk[b]) - Cardinality(blockmap[b])
      /\ blockcount[b] # 0
  BY DEF CacheInv, BlockCountExact, Holding, Filling
<1>2. /\ Cardinality(ChunkBlocks(thischunk[b])) = ChunkSize(thischunk[b])
      /\ ChunkSize(thischunk[b]) \in Nat
  BY Sizes, ChunkSizeBounds DEF SizesGiven
<1>3. ASSUME ChunkBlocks(thischunk[b]) \ blockmap[b] = {} PROVE FALSE
  <2>1. blockmap[b] = ChunkBlocks(thischunk[b])
    BY <1>1, <1>3
  <2>2. blockcount[b] = ChunkSize(thischunk[b]) - ChunkSize(thischunk[b])
    BY <1>1, <1>2, <2>1
  <2> QED BY <1>1, <1>2, <2>2
<1> QED BY <1>3

(* A PREQUEST asks for what its buffer lacks, and no other buffer has the    *)
(* chunk.                                                                    *)
LEMMA MissingUseful ==
  ASSUME RecvInv, BufInv, RequestChunkScan, Filling(rq.i), RequestMissing(rq.i)
  PROVE  RequestsUseful'
<1> USE DEF RecvInv, BufInv
<1> DEFINE b == rq.i
           c == thischunk[b]
           B == ChunkBlocks(c) \ blockmap[b]
<1>1. /\ rpc = "request" /\ b \in Buf
      /\ UNCHANGED <<rpc, gb, done, thischunk, blockmap>>
  BY Bufs DEF RequestChunkScan, RecvTypes
<1>2. /\ sent' = {Packet("PREQUEST", c, B, c \in ours)}
      /\ state' = [state EXCEPT ![b] = "FILLING"]
  BY DEF RequestMissing
<1>3. Holding(b) /\ state[b] # "FULL"
  BY DEF Holding, Filling
<1>4. B # {}
  BY <1>1, FillingLacks
<1>5. HandedOver = done /\ HandedOver' = done /\ c \notin done
  BY <1>1, <1>3 DEF HandedOver, CacheInv, EveryChunkAccounted
<1>6. \A a \in Buf : Holding(a)' => Holding(a)
  BY <1>1, <1>2, <1>3 DEF BufTypes, Holding
<1>7. \A a \in Buf : Holding(a)' /\ thischunk'[a] = c => a = b
  BY <1>1, <1>3, <1>6 DEF CacheInv, EveryChunkAccounted
<1>8. B \cap blockmap'[b] = {}
  BY <1>1
<1>9. \A p \in sent' : p.chunk = c /\ p.blocks = B
  BY <1>2 DEF Packet
<1> HIDE DEF b, c, B
<1> QED BY <1>4, <1>5, <1>7, <1>8, <1>9 DEF RequestsUseful

(* A read-ahead REQUEST is for a chunk that has not been seen.               *)
LEMMA AheadUseful ==
  ASSUME RecvInv, BufInv, RequestChunkAhead
  PROVE  RequestsUseful'
<1> USE DEF RecvInv, BufInv
<1>1. /\ rpc = "request" /\ rpc' = "recv"
      /\ UNCHANGED <<seen, done, state, thischunk, blockmap>>
  BY DEF RequestChunkAhead, bufVars
<1>2. \A c \in ReadAhead : c \notin seen
  BY DEF ReadAhead
<1>3. \A p \in sent' : \E c \in ReadAhead : p = RequestRange(c)
  BY DEF RequestChunkAhead
<1>4. \A p \in sent' : p.chunk \notin seen /\ p.blocks = ChunkBlocks(p.chunk)
  BY <1>2, <1>3 DEF RequestRange, Packet
<1>5. \A c : ChunkBlocks(c) # {}
  BY Sizes, ChunkSizeBounds
<1>6. HandedOver' = HandedOver /\ HandedOver \subseteq seen
  BY <1>1 DEF HandedOver, CacheInv, EveryChunkAccounted
<1>7. \A a \in Buf : Holding(a)' => thischunk'[a] \in seen
  BY <1>1 DEF Holding, CacheInv, EveryChunkAccounted
<1> QED BY <1>4, <1>5, <1>6, <1>7 DEF RequestsUseful

(* No other step sends a request.                                            *)
LEMMA NextUseful ==
  ASSUME RecvInv, BufInv, RequestsUseful, [Next]_vars
  PROVE  RequestsUseful'
<1>1. ASSUME sent' = {} PROVE RequestsUseful'
  BY <1>1 DEF RequestsUseful
<1>2. CASE UNCHANGED vars
  <2>1. UNCHANGED <<sent, done, rpc, gb, state, thischunk, blockmap>>
    BY <1>2 DEF vars, chunkVars, bufVars, recvVars
  <2> QED BY <2>1 DEF RequestsUseful, HandedOver, Holding
<1>3. CASE Main
  <2>1. \A p \in sent' : p.type \in {"JOIN", "LEAVE"}
    BY <1>3 DEF Main, MainJoin, MainJoined, MainFound, MainNone, MainCheck, MainWait,
         MainSpuriousWakeup, MainExitError, MainWrite, MainWriteFailed, MainCancel,
         MainFinish, MainFlushFailed, MainLeave, MainStep, Packet
  <2> QED BY <2>1 DEF RequestsUseful
<1>4. CASE Packets
  BY <1>1, <1>4 DEF Packets, RecvIgnored, RecvBlock, RecvRequest, RecvPartialRequest,
       ReceivePacket
<1>5. CASE RecvTimeout \/ RecvServerTimeout \/ \E c \in Chunk : Age(c)
  BY <1>1, <1>5 DEF RecvTimeout, RecvServerTimeout, Age
<1>6. CASE RecvWork
  <2>1. CASE RequestChunkScan
    <3>1. sent' = {} \/ (Filling(rq.i) /\ RequestMissing(rq.i))
      BY <2>1 DEF RequestChunkScan
    <3> QED BY <1>1, <2>1, <3>1, MissingUseful
  <2>2. CASE RequestChunkAhead
    BY <2>2, AheadUseful
  <2>3. CASE RecvSignalExit \/ RecvCancel \/ GotBlockScan \/ GotBlockFound
             \/ GotBlockNoRoom \/ GotBlockFull \/ GotBlockDone
    BY <1>1, <2>3 DEF RecvSignalExit, RecvCancel, GotBlockScan, GotBlockFound,
         GotBlockNoRoom, GotBlockFull, GotBlockDone
  <2>4. CASE GotBlockAlloc \/ GotBlockEvict
    BY <1>1, <2>4 DEF GotBlockAlloc, GotBlockEvict, Allocate
  <2> QED BY <1>6, <2>1, <2>2, <2>3, <2>4 DEF RecvWork
<1> QED BY <1>2, <1>3, <1>4, <1>5, <1>6 DEF Next, Terminated

-----------------------------------------------------------------------------
(* The theorems.                                                             *)

(* The empty cache is in order.                                              *)
LEMMA InitInv == Init => IInv
<1> SUFFICES ASSUME Init PROVE IInv
  OBVIOUS
<1>1. TickTypes /\ TicksAhead
  BY InitTicks DEF TickInv
<1>2. rpc = "none" /\ mpc = "join" /\ done = {} /\ seen = {} /\ disk = {} /\ sent = {}
  BY DEF Init
<1>3. 0 \in Chunk /\ 0 \in 0 .. MAXCHUNKSIZE /\ Cardinality({}) = 0
  BY Sizes, ChunksFinite, FS_EmptySet DEF SizesGiven
<1>4. ChunkTypes /\ MainTypes
  BY Bufs DEF Init, ChunkTypes, MainTypes
<1>5. BufTypes
  BY <1>3 DEF Init, BufTypes
<1>6. RecvTypes
  <2>1. gb \in [chunk : Chunk \union {None}, block : Block \union {None},
                i : 0 .. NBufs, free : Buf \union {None}, dubious : Buf \union {None}]
    BY Bufs DEF Init, NoFrame
  <2>2. rq \in [timedout : BOOLEAN, i : 0 .. NBufs, empty : 0 .. NBufs,
                filling : 0 .. NBufs]
    BY Bufs DEF Init, NoRequest
  <2> QED BY <2>1, <2>2 DEF Init, RecvTypes
<1>7. ScanCounts
  BY DEF Init, ScanCounts, NoRequest
<1>8. SearchFrame /\ FullFrame /\ WritesFull /\ Started /\ NoUseAfterFree
  BY <1>2 DEF SearchFrame, FullFrame, WritesFull, Started, NoUseAfterFree
<1>9. \A b \in Buf : ~ Holding(b)
  BY DEF Init, Holding
<1>10. EveryChunkAccounted /\ BlockCountExact /\ BlocksOfChunk
  BY <1>2, <1>9 DEF EveryChunkAccounted, BlockCountExact, BlocksOfChunk, HandedOver
<1>11. ChunkCountExact
  BY <1>2, <1>3, Bufs DEF Init, ChunkCountExact
<1>12. RequestsUseful
  BY <1>2 DEF RequestsUseful
<1> QED BY <1>1, <1>4, <1>5, <1>6, <1>7, <1>8, <1>10, <1>11, <1>12 DEF IInv

(* Every step keeps the invariant.                                           *)
LEMMA NextInv ==
  ASSUME IInv, [Next]_vars
  PROVE  IInv'
<1>1. CoreInv /\ TickInv /\ ThreadInv /\ RequestsUseful
  BY DEF IInv, CoreInv, RecvInv, BufInv, MainInv, CacheInv, TickInv, ThreadInv
<1>2. ThreadInv'
  BY <1>1, NextThreads
<1>3. TickInv'
  BY <1>1, NextTicks
<1>4. RequestsUseful'
  BY <1>1, NextUseful DEF CoreInv
<1>5. CoreInv'
  <2>1. CASE UNCHANGED vars
    <3>1. UNCHANGED <<seen, done, ours, lastreq, ChunkRequestList, state, thischunk,
                      blockcount, blockmap, data, rpc, gb, rq, lastnoroomchunk,
                      child_error, mpc, mi, chunkcount, disk>>
      BY <2>1 DEF vars, chunkVars, bufVars, recvVars, mainVars
    <3>2. CacheInv'
      BY <1>1, <3>1, KeptCache DEF CacheKept, HandedOver, CoreInv, BufInv
    <3>3. ChunkTypes' /\ BufTypes' /\ RecvTypes' /\ MainTypes'
      BY <1>1, <3>1 DEF CoreInv, RecvInv, BufInv, MainInv, ChunkTypes, BufTypes,
           RecvTypes, MainTypes
    <3>4. ScanCounts' /\ SearchFrame' /\ FullFrame' /\ WritesFull' /\ ChunkCountExact'
      BY <1>1, <3>1 DEF CoreInv, RecvInv, MainInv, ScanCounts, SearchFrame, FullFrame,
           WritesFull, ChunkCountExact, Filling
    <3> QED BY <3>2, <3>3, <3>4 DEF CoreInv, RecvInv, BufInv, MainInv
  <2>2. CASE Main
    BY <1>1, <2>2, WriteStep, QuietMainStep
  <2>3. CASE Packets \/ RecvTimeout \/ RecvServerTimeout \/ RecvWork
             \/ (\E c \in Chunk : Age(c))
    BY <1>1, <2>3, RecvStep, RecvMainStep DEF CoreInv
  <2> QED BY <2>1, <2>2, <2>3 DEF Next, Terminated
<1> QED BY <1>2, <1>3, <1>4, <1>5
        DEF IInv, CoreInv, RecvInv, BufInv, MainInv, CacheInv, TickInv, ThreadInv

(* The invariant holds of the client.                                        *)
THEOREM SpecIInv == Spec => []IInv
<1>1. IInv /\ [Next]_vars => IInv'
  BY NextInv
<1> QED BY <1>1, InitInv, PTL DEF Spec

(* Every variable keeps its type, and the back off its bound.                *)
THEOREM TypesKept == Spec => []TypeOK
<1>1. IInv => TypeOK
  BY DEF IInv, TypeOK
<1> QED BY <1>1, SpecIInv, PTL

(* The descriptors and the buffers agree whatever the threads interleave: a  *)
(* chunk that has been seen is in exactly one buffer until it is on disk.    *)
THEOREM ChunksAccounted == Spec => []EveryChunkAccounted
<1>1. IInv => EveryChunkAccounted
  BY DEF IInv
<1> QED BY <1>1, SpecIInv, PTL

(* The block and chunk counters the loops end on are exact.                  *)
THEOREM CountsKept == Spec => []CountsExact
<1>1. IInv => CountsExact
  BY DEF IInv, CountsExact
<1> QED BY <1>1, SpecIInv, PTL

(* The buffer the main thread writes without the mutex is complete, holds    *)
(* blocks of its own chunk only, and stays so until it is written.           *)
THEOREM WritesIntact == Spec => []WriteIntact
<1>1. ASSUME IInv, mpc = "write"
      PROVE  /\ state[mi] = "FULL"
             /\ thischunk[mi] \notin disk
             /\ \A k \in ChunkBlocks(thischunk[mi]) : data[mi][k] = thischunk[mi]
  <2>1. mi \in Buf /\ state[mi] = "FULL" /\ Holding(mi)
    BY <1>1 DEF IInv, WritesFull, Holding
  <2>2. thischunk[mi] \notin disk
    BY <1>1, <2>1 DEF IInv, EveryChunkAccounted
  <2>3. /\ blockmap[mi] \in SUBSET ChunkBlocks(thischunk[mi])
        /\ blockcount[mi] = ChunkSize(thischunk[mi]) - Cardinality(blockmap[mi])
        /\ blockcount[mi] = 0
    BY <1>1, <2>1 DEF IInv, BlockCountExact
  <2>4. /\ Cardinality(ChunkBlocks(thischunk[mi])) = ChunkSize(thischunk[mi])
        /\ IsFiniteSet(ChunkBlocks(thischunk[mi])) /\ ChunkSize(thischunk[mi]) \in Nat
    BY Sizes, ChunkSizeBounds DEF SizesGiven
  <2>5. Cardinality(blockmap[mi]) \in Nat
    BY <2>3, <2>4, FS_Subset, FS_CardinalityType
  <2>6. Cardinality(ChunkBlocks(thischunk[mi])) = Cardinality(blockmap[mi])
    BY <2>3, <2>4, <2>5
  <2>7. blockmap[mi] = ChunkBlocks(thischunk[mi])
    BY <2>3, <2>4, <2>6, FS_Subset
  <2> QED BY <1>1, <2>1, <2>2, <2>7 DEF IInv, BlocksOfChunk
<1>2. IInv => WriteIntact
  BY <1>1 DEF WriteIntact
<1> QED BY <1>2, SpecIInv, PTL

(* The assertions of GotBlock() hold although it searches without the mutex, *)
(* and the tables are freed only when the receive thread is gone.            *)
THEOREM AssertionsKept == Spec => []AssertionsHold
<1>1. ASSUME IInv PROVE AssertionsHold
  <2>1. BufTypes /\ RecvTypes /\ CacheInv /\ SearchFrame
    BY <1>1 DEF IInv, CacheInv
  <2>2. NotFound => gb.chunk \notin seen
    BY <2>1, NotFoundUnseen
  <2>3. done \subseteq seen
    BY <2>1 DEF CacheInv, EveryChunkAccounted, HandedOver
  <2>4. ASSUME NotFound, gb.dubious # None
        PROVE  /\ state[gb.dubious] = "DUBIOUS"
               /\ thischunk[gb.dubious] \in seen \ done
    <3>1. gb.dubious \in Buf /\ state[gb.dubious] = "DUBIOUS"
      BY <2>1, <2>4 DEF NotFound, SearchFrame, RecvTypes
    <3>2. Holding(gb.dubious) /\ HandedOver = done
      BY <2>4, <3>1 DEF Holding, HandedOver, NotFound
    <3> QED BY <2>1, <3>1, <3>2 DEF CacheInv, EveryChunkAccounted
  <2>5. NotFound /\ gb.free # None => state[gb.free] = "EMPTY"
    BY <2>1 DEF NotFound, SearchFrame
  <2>6. GotBlockAssertions
    BY <2>2, <2>3, <2>4, <2>5 DEF GotBlockAssertions
  <2> QED BY <1>1, <2>6 DEF AssertionsHold, IInv
<1>2. IInv => AssertionsHold
  BY <1>1
<1> QED BY <1>2, SpecIInv, PTL

(* Every request asks for something the client neither has nor has written.  *)
THEOREM RequestsAreUseful == Spec => []RequestsUseful
<1>1. IInv => RequestsUseful
  BY DEF IInv
<1> QED BY <1>1, SpecIInv, PTL

(* Blocks that have come in are not dropped: a buffer that is filling keeps  *)
(* its chunk and its blocks until it is FULL, unless it is DUBIOUS and is    *)
(* given up to the first block of a chunk that has not been seen.            *)
KeepsProgress ==
  \A b \in Buf :
    Filling(b) =>
       \/ thischunk'[b] = thischunk[b] /\ blockmap[b] \subseteq blockmap'[b]
       \/ /\ state[b] = "DUBIOUS"
          /\ blockmap'[b] = {0}
          /\ thischunk'[b] \notin seen

(* A step that changes no map keeps the progress.                            *)
LEMMA QuietProgress ==
  ASSUME UNCHANGED <<thischunk, blockmap>>
  PROVE  KeepsProgress
  BY DEF KeepsProgress

(* Insertion into b changes the map of b only.                               *)
LEMMA InsertMap ==
  ASSUME BufTypes, NEW b \in Buf, NEW map, NEW count, NEW req, Insert(b, map, count, req)
  PROVE  /\ blockmap'[b] = map \union {gb.block}
         /\ \A a \in Buf : a # b => blockmap'[a] = blockmap[a]
  BY DEF Insert, BufTypes

(* Every step keeps the progress.                                            *)
LEMMA NextProgress ==
  ASSUME IInv, Next
  PROVE  KeepsProgress
<1>1. BufTypes /\ RecvTypes /\ CacheInv /\ SearchFrame
  BY DEF IInv, CacheInv
<1>2. CASE UNCHANGED vars
  BY <1>2, QuietProgress DEF vars, bufVars
<1>3. CASE Main
  BY <1>3, QuietProgress DEF Main, MainJoin, MainJoined, MainFound, MainNone, MainCheck,
       MainWait, MainSpuriousWakeup, MainExitError, MainWrite, MainWriteFailed, MainCancel,
       MainFinish, MainFlushFailed, MainLeave, MainStep, bufVars
<1>4. CASE Packets
  BY <1>4, QuietProgress DEF Packets, RecvIgnored, RecvBlock, RecvRequest,
       RecvPartialRequest, bufVars
<1>5. CASE RecvTimeout \/ RecvServerTimeout \/ \E c \in Chunk : Age(c)
  BY <1>5, QuietProgress DEF RecvTimeout, RecvServerTimeout, Age, bufVars
<1>6. CASE RecvWork
  <2>1. CASE RequestChunkScan \/ RequestChunkAhead \/ RecvSignalExit \/ RecvCancel
             \/ GotBlockScan \/ GotBlockNoRoom \/ GotBlockFull \/ GotBlockDone
    BY <2>1, QuietProgress DEF RequestChunkScan, RequestChunkAhead, RecvSignalExit,
         RecvCancel, GotBlockScan, GotBlockNoRoom, GotBlockFull, GotBlockDone, bufVars
  <2>2. CASE GotBlockFound
    <3>1. gb.i \in Buf /\ thischunk' = thischunk
          /\ Insert(gb.i, blockmap[gb.i], blockcount[gb.i], lastreq)
      BY <1>1, <2>2, Bufs DEF GotBlockFound, RecvTypes
    <3>2. /\ blockmap'[gb.i] = blockmap[gb.i] \union {gb.block}
          /\ \A a \in Buf : a # gb.i => blockmap'[a] = blockmap[a]
      BY <1>1, <3>1, InsertMap
    <3> QED BY <3>1, <3>2 DEF KeepsProgress
  <2>3. ASSUME NEW b \in Buf, NEW noroom, NEW req, Allocate(b, noroom, req),
               Filling(b) => state[b] = "DUBIOUS" /\ gb.block = 0 /\ gb.chunk \notin seen
        PROVE  KeepsProgress
    <3>1. /\ thischunk' = [thischunk EXCEPT ![b] = gb.chunk]
          /\ Insert(b, {}, ChunkSize(gb.chunk), req)
      BY <2>3 DEF Allocate
    <3>2. /\ blockmap'[b] = {gb.block}
          /\ \A a \in Buf : a # b => blockmap'[a] = blockmap[a]
      BY <1>1, <3>1, InsertMap
    <3>3. /\ thischunk'[b] = gb.chunk
          /\ \A a \in Buf : a # b => thischunk'[a] = thischunk[a]
      BY <1>1, <3>1 DEF BufTypes
    <3> QED BY <2>3, <3>2, <3>3 DEF KeepsProgress
  <2>4. CASE GotBlockAlloc
    <3>1. gb.free \in Buf /\ ~ Filling(gb.free)
      BY <1>1, <2>4 DEF GotBlockAlloc, NotFound, SearchFrame, RecvTypes, Filling
    <3> QED BY <2>3, <2>4, <3>1 DEF GotBlockAlloc
  <2>5. CASE GotBlockEvict
    <3>1. /\ gb.dubious \in Buf /\ state[gb.dubious] = "DUBIOUS" /\ gb.block = 0
          /\ NotFound
      BY <1>1, <2>5 DEF GotBlockEvict, NotFound, SearchFrame, RecvTypes
    <3>2. gb.chunk \notin seen
      BY <1>1, <3>1, NotFoundUnseen
    <3> QED BY <2>3, <2>5, <3>1, <3>2 DEF GotBlockEvict
  <2> QED BY <1>6, <2>1, <2>2, <2>4, <2>5 DEF RecvWork
<1> QED BY <1>2, <1>3, <1>4, <1>5, <1>6 DEF Next, Terminated

(* No step drops what has been received.                                     *)
THEOREM ProgressIsKept == Spec => ProgressKept
<1>1. IInv /\ [Next]_vars => [KeepsProgress]_vars
  BY NextProgress
<1>2. ProgressKept <=> [][KeepsProgress]_vars
  BY DEF ProgressKept, KeepsProgress
<1> QED BY <1>1, <1>2, SpecIInv, PTL DEF Spec

=============================================================================
