---------------------------- MODULE FrisbeeClient ---------------------------
(***************************************************************************)
(* The frisbee disk-loading client, clientside/os/frisbee.redux/client.c.  *)
(*                                                                         *)
(* Two threads share a small cache of chunk buffers.  The receive thread   *)
(* (ClientRecvThread) reads packets, fills buffers block by block and asks *)
(* the server for what is missing; the main thread (ChunkerStartup) looks  *)
(* for FULL buffers, writes them to disk and makes them EMPTY again.       *)
(* chunkbuf_mutex is taken by the receive thread to make a buffer FULL and *)
(* by the main thread to look for one; everything else is unlocked, so the *)
(* receive thread's scans of the buffers are one step per buffer here.     *)
(*                                                                         *)
(* The network is the environment: any valid packet may arrive, or none.   *)
(* The build modelled is the default one: CONDVARS_WORK and STATS defined, *)
(* PASSIVE, OLD_SCHOOL and DOEVENTS not.                                   *)
(***************************************************************************)
EXTENDS FrisbeeSizes, FiniteSets, Sequences

CONSTANTS maxchunkbufs,   \* -C: buffers wanted, 0 for one per chunk
          maxreadahead,   \* -R: chunks requested ahead
          maxinprogress,  \* -I: chunks filling at a time before we read ahead
          idletimer,      \* -T: ticks without a useful packet before a retry
          TIMEOUT_HZ,     \* receive timeouts (ticks) in a second
          servertimo,     \* -O: seconds without a packet before giving up
          keepalive,      \* -K: seconds between IGMP reports, 0 for none
          redodelay,      \* -D: delay before a request is repeated, 0 for none
          randomize       \* -r: shuffle the order chunks are requested in

\* The reply to JOIN tells how many chunks there are; the options that exceed
\* that number are cut down to it.
ClampBufs == maxchunkbufs > TotalChunks
NBufs == IF maxchunkbufs = 0 \/ ClampBufs THEN TotalChunks ELSE maxchunkbufs
InProgressLimit ==
    IF ClampBufs /\ maxinprogress > NBufs THEN NBufs ELSE maxinprogress
ReadAheadLimit ==
    IF ClampBufs /\ maxreadahead > NBufs THEN NBufs ELSE maxreadahead

ASSUME SizeAssumption ==
    /\ MAXCHUNKSIZE \in Nat \ {0}
    /\ MAXBLOCKSIZE \in Nat \ {0}
    /\ ImageBytes \in Nat \ {0}

ASSUME ClientAssumption ==
    /\ maxchunkbufs \in Nat
    /\ maxreadahead \in Nat
    /\ maxinprogress \in Nat
    /\ idletimer \in Nat
    /\ TIMEOUT_HZ \in Nat \ {0}
    /\ servertimo \in Nat
    /\ keepalive \in Nat
    /\ redodelay \in Nat
    /\ randomize \in BOOLEAN

Buf == 0 .. NBufs - 1
Block == 0 .. MAXCHUNKSIZE - 1
None == -1

VARIABLES
    \* The chunk descriptors Chunks[], written by the receive thread only.
    seen,            \* chunks being filled or filled
    done,            \* chunks handed to the main thread
    ours,            \* chunks whose last request was ours
    lastreq,         \* age of the last request for a chunk we know of
    ChunkRequestList,\* the order in which chunks are requested
    \* The chunk buffers ChunkBuffer[], shared by both threads.
    state, thischunk, blockcount, blockmap,
    data,            \* the chunk each block in the buffer belongs to
    \* The receive thread.
    rpc,             \* where it is
    gb,              \* the frame of GotBlock()
    rq,              \* the frame of RequestChunk()
    lastnoroomchunk, \* static of GotBlock()
    IdleCounter, BackOff, STCounter, KACounter,
    kaSeconds,       \* the global keepalive, zeroed when a report fails
    child_error,
    \* The main thread.
    mpc,             \* where it is
    mi,              \* the buffer it is writing
    chunkcount,      \* chunks it has still to write
    \* What leaves the client.
    disk,            \* chunks written to disk
    sent             \* packets sent by the last step

chunkVars == <<seen, done, ours, lastreq, ChunkRequestList>>
bufVars   == <<state, thischunk, blockcount, blockmap, data>>
tickVars  == <<IdleCounter, BackOff, STCounter, KACounter, kaSeconds>>
recvVars  == <<rpc, gb, rq, lastnoroomchunk, child_error, tickVars>>
mainVars  == <<mpc, mi, chunkcount, disk>>
vars      == <<chunkVars, bufVars, recvVars, mainVars, sent>>

\* A request packet; JOIN and LEAVE name no chunk and no blocks.
Packet(type, c, blocks, retries) ==
    [type |-> type, chunk |-> c, blocks |-> blocks, retries |-> retries]

NoFrame   == [chunk |-> None, block |-> None, i |-> 0,
              free |-> None, dubious |-> None]
NoRequest == [timedout |-> FALSE, i |-> 0, empty |-> 0, filling |-> 0]

\* The main thread holds chunkbuf_mutex from its scan to pthread_cond_wait.
MutexFree == mpc \notin {"check", "towait"}

\* The process has exited, and with it both threads.
Stopped == mpc \in {"left", "errexit"}

Filling(b) == state[b] \in {"FILLING", "DUBIOUS"}
FillingBuf(c) == {b \in Buf : Filling(b) /\ thischunk[b] = c}

\* pthread_cond_signal(&chunkbuf_cond): the main thread reacquires the mutex,
\* releases it and goes round its loop.
Signal == IF mpc = "waiting" THEN "scan" ELSE mpc

-----------------------------------------------------------------------------
Init ==
    /\ seen = {} /\ done = {} /\ ours = {}
    /\ lastreq = [c \in Chunk |-> "zero"]
    /\ ChunkRequestList \in [Chunk -> Chunk]
    /\ \A c, d \in Chunk : ChunkRequestList[c] = ChunkRequestList[d] => c = d
    /\ randomize \/ \A c \in Chunk : ChunkRequestList[c] = c
    /\ state = [b \in Buf |-> "EMPTY"]
    /\ thischunk = [b \in Buf |-> 0]
    /\ blockcount = [b \in Buf |-> 0]
    /\ blockmap = [b \in Buf |-> {}]
    /\ data = [b \in Buf |-> [k \in Block |-> None]]
    /\ rpc = "none" /\ gb = NoFrame /\ rq = NoRequest
    /\ lastnoroomchunk = None
    /\ IdleCounter = 1 /\ BackOff = 0
    /\ STCounter = servertimo * TIMEOUT_HZ
    /\ KACounter = IF keepalive > 0 THEN 1 ELSE 0
    /\ kaSeconds = keepalive
    /\ child_error = "none"
    /\ mpc = "join" /\ mi = None /\ chunkcount = TotalChunks
    /\ disk = {} /\ sent = {}

-----------------------------------------------------------------------------
(***************************************************************************)
(* Requests and their time stamps.                                         *)
(***************************************************************************)

\* Chunks[c].lastreq compared with the clock: "zero" was never stamped,
\* "fresh" is not yet redodelay old, "old" is.
RequestRedoTime(c) == redodelay = 0 \/ lastreq[c] # "fresh"

\* Does a request for these blocks of c bring us anything (RequestStamp)?
NeedsBlocks(c, blocks) ==
    \E b \in FillingBuf(c) : ~ (blocks \subseteq blockmap[b])

Stamps(c, blocks) ==
    /\ redodelay # 0
    /\ c \notin done
    /\ \/ blocks = ChunkBlocks(c)
       \/ c \notin seen
       \/ NeedsBlocks(c, blocks)

\* A dubious buffer gets real value when someone asks for more of its chunk.
Promoted(c, blocks) ==
    IF /\ Stamps(c, blocks)
       /\ blocks # ChunkBlocks(c)
       /\ c \in seen
    THEN {b \in FillingBuf(c) : state[b] = "DUBIOUS"}
    ELSE {}

Stamp(S) == [c \in Chunk |-> IF c \in S THEN "fresh" ELSE lastreq[c]]

\* The stamp is compared as (int)(now - lastreq) >= redodelay: it becomes old
\* with time, and fresh again every 2^32 microseconds, when the int is
\* negative.  Only the receive thread looks at it.
Age(c) ==
    /\ rpc = "recv"
    /\ ~ Stopped
    /\ redodelay # 0
    /\ lastreq[c] # "zero"
    /\ lastreq' = [lastreq EXCEPT ![c] =
                      IF lastreq[c] = "fresh" THEN "old" ELSE "fresh"]
    /\ sent' = {}
    /\ UNCHANGED <<seen, done, ours, ChunkRequestList, bufVars, recvVars,
                   mainVars>>

-----------------------------------------------------------------------------
(***************************************************************************)
(* RequestChunk(): ask again for what the filling buffers lack, then ask   *)
(* for chunks we have nothing of.  The scan reads the state of each buffer *)
(* once, without the mutex.                                                *)
(***************************************************************************)
StartRequest(timedout) == [NoRequest EXCEPT !.timedout = timedout]

\* Mutant: a timeout does not override the delay between two requests.
RetryDueLater(c) == RequestRedoTime(c)

RetryDue(c) == rq.timedout \/ RequestRedoTime(c)

\* Mutant: the whole chunk is asked for again.
RequestMissingAll(b) ==
    LET c == thischunk[b] IN
    /\ sent' = {Packet("PREQUEST", c, ChunkBlocks(c), c \in ours)}
    /\ lastreq' = Stamp(IF Stamps(c, ChunkBlocks(c)) THEN {c} ELSE {})
    /\ ours' = ours \union {c}
    /\ state' = [state EXCEPT ![b] = "FILLING"]

\* RequestMissing() for buffer b: one PREQUEST for the blocks it lacks.
RequestMissing(b) ==
    LET c == thischunk[b] IN
    /\ sent' = {Packet("PREQUEST", c, ChunkBlocks(c) \ blockmap[b], c \in ours)}
    /\ lastreq' = Stamp(IF Stamps(c, ChunkBlocks(c)) THEN {c} ELSE {})
    /\ ours' = ours \union {c}
    /\ state' = [state EXCEPT ![b] = "FILLING"]

RequestChunkScan ==
    /\ rpc = "request"
    /\ rq.i < NBufs
    /\ LET b == rq.i IN
       \/ /\ state[b] = "EMPTY"
          /\ rq' = [rq EXCEPT !.i = b + 1, !.empty = rq.empty + 1]
          /\ sent' = {}
          /\ UNCHANGED <<lastreq, ours, state>>
       \/ /\ state[b] = "FULL"
          /\ rq' = [rq EXCEPT !.i = b + 1]
          /\ sent' = {}
          /\ UNCHANGED <<lastreq, ours, state>>
       \/ /\ Filling(b)
          /\ rq' = [rq EXCEPT !.i = b + 1, !.filling = rq.filling + 1]
          /\ IF RetryDue(thischunk[b])
             THEN RequestMissing(b)
             ELSE sent' = {} /\ UNCHANGED <<lastreq, ours, state>>
    /\ UNCHANGED <<seen, done, ChunkRequestList, thischunk, blockcount,
                   blockmap, data, rpc, gb, lastnoroomchunk, child_error,
                   tickVars, mainVars>>

\* The read-ahead candidates: the first unseen chunks of ChunkRequestList, no
\* more than ReadAheadLimit and the number of empty buffers counted above.
ReadAhead ==
    LET limit == IF ReadAheadLimit > rq.empty THEN rq.empty ELSE ReadAheadLimit
        before(i) == {j \in Chunk : j < i /\ ChunkRequestList[j] \notin seen}
    IN  IF rq.empty = 0 \/ rq.filling >= InProgressLimit
        THEN {}
        ELSE {ChunkRequestList[i] : i \in
                {j \in Chunk : /\ ChunkRequestList[j] \notin seen
                               /\ Cardinality(before(j)) < limit}}

\* RequestRange() of a whole chunk: a retry goes out as a PREQUEST.
RequestRange(c) ==
    Packet(IF c \in ours THEN "PREQUEST" ELSE "REQUEST",
           c, ChunkBlocks(c), c \in ours)

\* Mutant: the back off is not capped.
RequestReturnUncapped ==
    IF rq.timedout
    THEN IdleCounter' = idletimer + BackOff /\ BackOff' = BackOff + 1
    ELSE IdleCounter' = idletimer /\ UNCHANGED BackOff

\* The callers' use of the idle counter once RequestChunk() has returned.
RequestReturn ==
    IF rq.timedout
    THEN LET n == BackOff + 1 IN
         /\ IdleCounter' = IF BackOff = 0 THEN idletimer ELSE idletimer + n
         /\ BackOff' = IF BackOff # 0 /\ n > TIMEOUT_HZ THEN TIMEOUT_HZ ELSE n
    ELSE IdleCounter' = idletimer /\ UNCHANGED BackOff

RequestChunkAhead ==
    /\ rpc = "request"
    /\ rq.i = NBufs
    /\ LET S == {c \in ReadAhead : RetryDue(c)} IN
       /\ sent' = {RequestRange(c) : c \in S}
       /\ lastreq' = Stamp({c \in S : Stamps(c, ChunkBlocks(c))})
       /\ ours' = ours \union S
    /\ RequestReturn
    /\ rpc' = "recv"
    /\ rq' = NoRequest
    /\ UNCHANGED <<seen, done, ChunkRequestList, bufVars, gb, lastnoroomchunk,
                   child_error, STCounter, KACounter, kaSeconds, mainVars>>

-----------------------------------------------------------------------------
(***************************************************************************)
(* ClientRecvThread(): one packet, or one receive timeout.                 *)
(***************************************************************************)
Cancelled == mpc = "joinchild"

\* The thread is in PacketReceive(); pthread_testcancel() follows.
Receiving == rpc = "recv" /\ ~ Cancelled /\ ~ Stopped

\* Any packet proves that somebody is alive.
ResetWatchdogs ==
    /\ STCounter' = IF servertimo # 0 THEN servertimo * TIMEOUT_HZ
                                      ELSE STCounter
    /\ KACounter' = IF kaSeconds # 0 THEN kaSeconds * TIMEOUT_HZ ELSE KACounter

ReceivePacket ==
    /\ Receiving
    /\ ResetWatchdogs
    /\ sent' = {}

\* JOIN and LEAVE of other clients, BLOCKs that are not from our server, and
\* packets PacketValid() refuses.
RecvIgnored ==
    /\ ReceivePacket
    /\ UNCHANGED <<chunkVars, bufVars, rpc, gb, rq, lastnoroomchunk,
                   child_error, IdleCounter, BackOff, kaSeconds, mainVars>>

\* Someone else's REQUEST for blocks of c.
RecvRequest(c, blocks) ==
    /\ ReceivePacket
    /\ lastreq' = Stamp(IF Stamps(c, blocks) THEN {c} ELSE {})
    /\ state' = [b \in Buf |->
                    IF b \in Promoted(c, blocks) THEN "FILLING" ELSE state[b]]
    /\ IdleCounter' = IF Stamps(c, blocks) THEN idletimer ELSE IdleCounter
    /\ UNCHANGED <<seen, done, ours, ChunkRequestList, thischunk, blockcount,
                   blockmap, data, rpc, gb, rq, lastnoroomchunk, child_error,
                   BackOff, kaSeconds, mainVars>>

\* Someone else's PREQUEST.  BlockMapApply() calls RequestStamp() on each run
\* of blocks until one stamps; whether one does depends on their union only.
RecvPartialRequest(c, blocks) ==
    /\ ReceivePacket
    /\ lastreq' = Stamp(IF blocks # {} /\ Stamps(c, blocks) THEN {c} ELSE {})
    /\ state' = [b \in Buf |->
                    IF b \in Promoted(c, blocks) THEN "FILLING" ELSE state[b]]
    /\ UNCHANGED <<seen, done, ours, ChunkRequestList, thischunk, blockcount,
                   blockmap, data, rpc, gb, rq, lastnoroomchunk, child_error,
                   IdleCounter, BackOff, kaSeconds, mainVars>>

\* A BLOCK from our server: GotBlock() drops it when the chunk is done, or
\* starts to look for the chunk's buffer.
RecvBlock(c, k) ==
    /\ ReceivePacket
    /\ BackOff' = 0
    /\ IF c \in done
       THEN UNCHANGED <<rpc, gb>>
       ELSE /\ rpc' = "gotblock"
            /\ gb' = [NoFrame EXCEPT !.chunk = c, !.block = k]
    /\ UNCHANGED <<chunkVars, bufVars, rq, lastnoroomchunk, child_error,
                   IdleCounter, kaSeconds, mainVars>>

\* PacketReceive() timed out and nobody has been heard for servertimo seconds.
ServerTimedOut == servertimo # 0 /\ STCounter - 1 <= 0

RecvServerTimeout ==
    /\ Receiving
    /\ ServerTimedOut
    /\ STCounter' = STCounter - 1
    /\ child_error' = "ETIMEDOUT"
    /\ rpc' = "signal"
    /\ sent' = {}
    /\ UNCHANGED <<chunkVars, bufVars, gb, rq, lastnoroomchunk, IdleCounter,
                   BackOff, KACounter, kaSeconds, mainVars>>

\* The signal is sent without the mutex.
RecvSignalExit ==
    /\ rpc = "signal"
    /\ mpc' = Signal
    /\ rpc' = "exited"
    /\ sent' = {}
    /\ UNCHANGED <<chunkVars, bufVars, gb, rq, lastnoroomchunk, child_error,
                   tickVars, mi, chunkcount, disk>>

\* NetMCKeepAlive() may fail, which turns the keep alive off.
KeepAliveTick ==
    \/ /\ KACounter = 1
       /\ \E k \in {kaSeconds, 0} :
              kaSeconds' = k /\ KACounter' = k * TIMEOUT_HZ
    \/ /\ KACounter # 1
       /\ KACounter' = IF KACounter > 1 THEN KACounter - 1 ELSE KACounter
       /\ UNCHANGED kaSeconds

RecvTimeout ==
    /\ Receiving
    /\ ~ ServerTimedOut
    /\ STCounter' = IF servertimo # 0 THEN STCounter - 1 ELSE STCounter
    /\ KeepAliveTick
    /\ IdleCounter' = IdleCounter - 1
    /\ IF IdleCounter - 1 <= 0
       THEN rpc' = "request" /\ rq' = StartRequest(TRUE)
       ELSE UNCHANGED <<rpc, rq>>
    /\ sent' = {}
    /\ UNCHANGED <<chunkVars, bufVars, gb, lastnoroomchunk, child_error,
                   BackOff, mainVars>>

\* pthread_cancel() takes effect where the thread waits for a packet or, since
\* sending is a cancellation point too, inside RequestChunk().
RecvCancel ==
    /\ Cancelled
    /\ rpc \in {"recv", "request"}
    /\ rpc' = "exited"
    /\ sent' = {}
    /\ UNCHANGED <<chunkVars, bufVars, gb, rq, lastnoroomchunk, child_error,
                   tickVars, mainVars>>

-----------------------------------------------------------------------------
(***************************************************************************)
(* GotBlock(): find or allocate the buffer of the chunk, insert the block, *)
(* and release the chunk to the main thread when it is complete.           *)
(***************************************************************************)

\* Mutant: any buffer that is not FULL may be given up.
GotBlockScanAnyDubious ==
    /\ rpc = "gotblock"
    /\ gb.i < NBufs
    /\ ~ (Filling(gb.i) /\ thischunk[gb.i] = gb.chunk)
    /\ gb' = [gb EXCEPT !.i = gb.i + 1,
                        !.free = IF state[gb.i] = "EMPTY" THEN gb.i ELSE gb.free,
                        !.dubious = IF Filling(gb.i) THEN gb.i ELSE gb.dubious]
    /\ sent' = {}
    /\ UNCHANGED <<chunkVars, bufVars, rpc, rq, lastnoroomchunk, child_error,
                   tickVars, mainVars>>

\* One buffer of the search that is not the one looked for.
GotBlockScan ==
    /\ rpc = "gotblock"
    /\ gb.i < NBufs
    /\ LET b == gb.i IN
       /\ ~ (Filling(b) /\ thischunk[b] = gb.chunk)
       /\ gb' = [gb EXCEPT
                   !.i = b + 1,
                   !.free = IF state[b] = "EMPTY" /\ gb.free = None
                            THEN b ELSE gb.free,
                   !.dubious = IF state[b] = "DUBIOUS" /\ gb.dubious = None
                               THEN b ELSE gb.dubious]
    /\ sent' = {}
    /\ UNCHANGED <<chunkVars, bufVars, rpc, rq, lastnoroomchunk, child_error,
                   tickVars, mainVars>>

\* The receipt of a block counts as a request for it: RequestStamp() is called
\* once GotBlock() has returned, when the chunk's buffer holds map and the
\* stamps are req.
StampReceived(req, map) ==
    IF /\ redodelay # 0
       /\ {gb.block} = ChunkBlocks(gb.chunk) \/ gb.block \notin map
    THEN [req EXCEPT ![gb.chunk] = "fresh"]
    ELSE req

\* Mutant: a duplicate block is counted as a new one.
InsertCountsDuplicates(b, map, count, req) ==
    /\ blockmap' = [blockmap EXCEPT ![b] = map \union {gb.block}]
    /\ blockcount' = [blockcount EXCEPT ![b] = count - 1]
    /\ data' = [data EXCEPT ![b] = [data[b] EXCEPT ![gb.block] = gb.chunk]]
    /\ IF count - 1 = 0
       THEN rpc' = "full" /\ gb' = [gb EXCEPT !.i = b]
       ELSE rpc' = "recv" /\ gb' = NoFrame
    /\ lastreq' = req
    /\ UNCHANGED IdleCounter

\* Put the block into buffer b, whose blocks are map and which lacks count.
\* A complete chunk is still to be released; otherwise GotBlock() returns.
Insert(b, map, count, req) ==
    LET dup == gb.block \in map IN
    /\ blockmap' = [blockmap EXCEPT ![b] = map \union {gb.block}]
    /\ blockcount' = [blockcount EXCEPT ![b] = IF dup THEN count ELSE count - 1]
    /\ data' = IF dup THEN data
               ELSE [data EXCEPT ![b] = [data[b] EXCEPT ![gb.block] = gb.chunk]]
    /\ IF ~ dup /\ count - 1 = 0
       THEN /\ rpc' = "full"
            /\ gb' = [gb EXCEPT !.i = b]
            /\ lastreq' = req
            /\ UNCHANGED IdleCounter
       ELSE /\ rpc' = "recv"
            /\ gb' = NoFrame
            /\ lastreq' = StampReceived(req, map \union {gb.block})
            /\ IdleCounter' = IF dup THEN IdleCounter ELSE idletimer

GotBlockFound ==
    /\ rpc = "gotblock"
    /\ gb.i < NBufs
    /\ Filling(gb.i)
    /\ thischunk[gb.i] = gb.chunk
    /\ Insert(gb.i, blockmap[gb.i], blockcount[gb.i], lastreq)
    /\ sent' = {}
    /\ UNCHANGED <<seen, done, ours, ChunkRequestList, state, thischunk, rq,
                   lastnoroomchunk, child_error, BackOff, STCounter, KACounter,
                   kaSeconds, mainVars>>

\* A buffer for a new chunk; it is dubious if we have dropped blocks of that
\* chunk (noroom) for lack of a buffer.
Allocate(b, noroom, req) ==
    /\ state' = [state EXCEPT ![b] =
                    IF gb.chunk = noroom THEN "DUBIOUS" ELSE "FILLING"]
    /\ thischunk' = [thischunk EXCEPT ![b] = gb.chunk]
    /\ lastnoroomchunk' = None
    /\ Insert(b, {}, ChunkSize(gb.chunk), req)
    /\ sent' = {}
    /\ UNCHANGED <<done, ours, ChunkRequestList, rq, child_error, BackOff,
                   STCounter, KACounter, kaSeconds, mainVars>>

NotFound == rpc = "gotblock" /\ gb.i = NBufs

GotBlockAlloc ==
    /\ NotFound
    /\ gb.free # None
    /\ seen' = seen \union {gb.chunk}
    /\ Allocate(gb.free, lastnoroomchunk, lastreq)

\* Mutant: the chunk that loses its buffer is still marked as seen.
GotBlockEvictKeepsSeen ==
    /\ NotFound
    /\ gb.free = None
    /\ gb.dubious # None
    /\ gb.block = 0
    /\ seen' = seen \union {gb.chunk}
    /\ Allocate(gb.dubious, None, lastreq)

\* No buffer is free: the start of a new chunk takes the dubious one, whose
\* chunk has to be requested from scratch.
GotBlockEvict ==
    /\ NotFound
    /\ gb.free = None
    /\ gb.dubious # None
    /\ gb.block = 0
    /\ LET old == thischunk[gb.dubious] IN
       /\ seen' = (seen \ {old}) \union {gb.chunk}
       /\ Allocate(gb.dubious, None, [lastreq EXCEPT ![old] = "zero"])

\* No room at all: the block is dropped.  The chunk is still unseen, so
\* RequestStamp() stamps it.
GotBlockNoRoom ==
    /\ NotFound
    /\ gb.free = None
    /\ gb.dubious = None \/ gb.block # 0
    /\ lastnoroomchunk' = gb.chunk
    /\ lastreq' = Stamp(IF Stamps(gb.chunk, {gb.block}) THEN {gb.chunk} ELSE {})
    /\ rpc' = "recv"
    /\ gb' = NoFrame
    /\ sent' = {}
    /\ UNCHANGED <<seen, done, ours, ChunkRequestList, bufVars, rq,
                   child_error, tickVars, mainVars>>

\* Mutant: the main thread is not signalled.
GotBlockFullUnsignalled ==
    /\ rpc = "full"
    /\ MutexFree
    /\ state' = [state EXCEPT ![gb.i] = "FULL"]
    /\ rpc' = "mark"
    /\ sent' = {}
    /\ UNCHANGED <<chunkVars, thischunk, blockcount, blockmap, data, gb, rq,
                   lastnoroomchunk, child_error, tickVars, mainVars>>

\* Release the complete chunk to the main thread, under the mutex.
GotBlockFull ==
    /\ rpc = "full"
    /\ MutexFree
    /\ state' = [state EXCEPT ![gb.i] = "FULL"]
    /\ mpc' = Signal
    /\ rpc' = "mark"
    /\ sent' = {}
    /\ UNCHANGED <<chunkVars, thischunk, blockcount, blockmap, data, gb, rq,
                   lastnoroomchunk, child_error, tickVars, mi, chunkcount, disk>>

\* Mark it done, without the mutex, and ask for more.
GotBlockDone ==
    /\ rpc = "mark"
    /\ done' = done \union {gb.chunk}
    /\ rpc' = "request"
    /\ rq' = StartRequest(FALSE)
    /\ gb' = NoFrame
    /\ sent' = {}
    /\ UNCHANGED <<seen, ours, lastreq, ChunkRequestList, bufVars,
                   lastnoroomchunk, child_error, tickVars, mainVars>>

-----------------------------------------------------------------------------
(***************************************************************************)
(* The main thread: PlayFrisbee() and ChunkerStartup().                    *)
(***************************************************************************)
MainStep == sent' = {} /\ UNCHANGED <<chunkVars, recvVars>>

\* JOIN is sent again every half second until a reply comes.
MainJoin ==
    /\ mpc = "join"
    /\ sent' = {Packet("JOIN", None, {}, FALSE)}
    /\ UNCHANGED <<chunkVars, bufVars, recvVars, mainVars>>

\* The reply gives the sizes; the receive thread is created.
MainJoined ==
    /\ mpc = "join"
    /\ mpc' = "scan"
    /\ rpc' = "recv"
    /\ sent' = {}
    /\ UNCHANGED <<chunkVars, bufVars, gb, rq, lastnoroomchunk, child_error,
                   tickVars, mi, chunkcount, disk>>

\* Look for the first FULL buffer, under the mutex.
MainFound ==
    /\ mpc = "scan"
    /\ chunkcount # 0
    /\ \E b \in Buf :
          /\ state[b] = "FULL"
          /\ \A a \in Buf : a < b => state[a] # "FULL"
          /\ mi' = b
    /\ mpc' = "write"
    /\ MainStep
    /\ UNCHANGED <<bufVars, chunkcount, disk>>

MainNone ==
    /\ mpc = "scan"
    /\ chunkcount # 0
    /\ \A b \in Buf : state[b] # "FULL"
    /\ mpc' = "check"
    /\ MainStep
    /\ UNCHANGED <<bufVars, mi, chunkcount, disk>>

\* Nothing to write: exit if the receive thread has died, else wait.
MainCheck ==
    /\ mpc = "check"
    /\ mpc' = IF child_error # "none" THEN "joindead" ELSE "towait"
    /\ MainStep
    /\ UNCHANGED <<bufVars, mi, chunkcount, disk>>

MainWait ==
    /\ mpc = "towait"
    /\ mpc' = "waiting"
    /\ MainStep
    /\ UNCHANGED <<bufVars, mi, chunkcount, disk>>

\* POSIX lets pthread_cond_wait() return without a signal.
MainSpuriousWakeup ==
    /\ mpc = "waiting"
    /\ mpc' = "scan"
    /\ MainStep
    /\ UNCHANGED <<bufVars, mi, chunkcount, disk>>

\* pthread_join() of the dead child, then _exit(child_error).
MainExitError ==
    /\ mpc = "joindead"
    /\ rpc = "exited"
    /\ mpc' = "errexit"
    /\ MainStep
    /\ UNCHANGED <<bufVars, mi, chunkcount, disk>>

\* Decompress and write the chunk, then free the buffer without the mutex.
MainWrite ==
    /\ mpc = "write"
    /\ disk' = disk \union {thischunk[mi]}
    /\ state' = [state EXCEPT ![mi] = "EMPTY"]
    /\ chunkcount' = chunkcount - 1
    /\ mi' = None
    /\ mpc' = "scan"
    /\ MainStep
    /\ UNCHANGED <<thischunk, blockcount, blockmap, data>>

\* Mutant: a chunk that cannot be written is skipped.
MainWriteFailedSkips ==
    /\ mpc = "write"
    /\ mpc' = "scan"
    /\ state' = [state EXCEPT ![mi] = "EMPTY"]
    /\ chunkcount' = chunkcount - 1
    /\ mi' = None
    /\ MainStep
    /\ UNCHANGED <<thischunk, blockcount, blockmap, data, disk>>

\* A chunk that cannot be decompressed or written ends the program.
MainWriteFailed ==
    /\ mpc = "write"
    /\ mpc' = "errexit"
    /\ MainStep
    /\ UNCHANGED <<bufVars, mi, chunkcount, disk>>

\* All chunks written: cancel the receive thread and wait for it.
MainCancel ==
    /\ mpc = "scan"
    /\ chunkcount = 0
    /\ mpc' = "joinchild"
    /\ MainStep
    /\ UNCHANGED <<bufVars, mi, chunkcount, disk>>

\* Mutant: the receive thread is cancelled and not waited for.
MainFinishUnjoined ==
    /\ mpc = "joinchild"
    /\ mpc' = "leave"
    /\ MainStep
    /\ UNCHANGED <<bufVars, mi, chunkcount, disk>>

\* Flush the writer and free the tables the threads shared.
MainFinish ==
    /\ mpc = "joinchild"
    /\ rpc = "exited"
    /\ mpc' = "leave"
    /\ MainStep
    /\ UNCHANGED <<bufVars, mi, chunkcount, disk>>

\* ImageUnzipFlush(): the data cannot be flushed to the disk: FrisPfatal().
MainFlushFailed ==
    /\ mpc = "joinchild"
    /\ rpc = "exited"
    /\ mpc' = "errexit"
    /\ MainStep
    /\ UNCHANGED <<bufVars, mi, chunkcount, disk>>

MainLeave ==
    /\ mpc = "leave"
    /\ mpc' = "left"
    /\ sent' = {Packet("LEAVE", None, {}, FALSE)}
    /\ UNCHANGED <<chunkVars, bufVars, recvVars, mi, chunkcount, disk>>

Terminated == Stopped /\ UNCHANGED vars

-----------------------------------------------------------------------------
Main ==
    \/ MainJoin \/ MainJoined \/ MainFound \/ MainNone \/ MainCheck
    \/ MainWait \/ MainSpuriousWakeup \/ MainExitError \/ MainWrite
    \/ MainWriteFailed \/ MainCancel \/ MainFinish \/ MainFlushFailed \/ MainLeave

\* Packets the other clients send: a REQUEST names a run of blocks, a PREQUEST
\* any set of them.
Packets ==
    \/ RecvIgnored
    \/ \E c \in Chunk : \E k \in ChunkBlocks(c) :
          \/ RecvBlock(c, k)
          \/ \E l \in ChunkBlocks(c) : k <= l /\ RecvRequest(c, k .. l)
    \/ \E c \in Chunk : \E blocks \in SUBSET ChunkBlocks(c) :
          RecvPartialRequest(c, blocks)

\* What the receive thread does by itself, once a packet or a timeout is in.
RecvWork ==
    /\ ~ Stopped
    /\ \/ RequestChunkScan \/ RequestChunkAhead
       \/ RecvSignalExit \/ RecvCancel
       \/ GotBlockScan \/ GotBlockFound \/ GotBlockAlloc \/ GotBlockEvict
       \/ GotBlockNoRoom \/ GotBlockFull \/ GotBlockDone

Next ==
    \/ Main
    \/ Packets
    \/ RecvTimeout \/ RecvServerTimeout
    \/ RecvWork
    \/ \E c \in Chunk : Age(c)
    \/ Terminated

Spec == Init /\ [][Next]_vars

-----------------------------------------------------------------------------
(***************************************************************************)
(* Correctness.                                                            *)
(***************************************************************************)

ChunkTypes ==
    /\ seen \in SUBSET Chunk
    /\ done \in SUBSET Chunk
    /\ ours \in SUBSET Chunk
    /\ lastreq \in [Chunk -> {"zero", "fresh", "old"}]
    /\ ChunkRequestList \in [Chunk -> Chunk]

BufTypes ==
    /\ state \in [Buf -> {"EMPTY", "FILLING", "DUBIOUS", "FULL"}]
    /\ thischunk \in [Buf -> Chunk]
    /\ blockcount \in [Buf -> 0 .. MAXCHUNKSIZE]
    /\ blockmap \in [Buf -> SUBSET Block]
    /\ data \in [Buf -> [Block -> Chunk \union {None}]]

RecvTypes ==
    /\ rpc \in {"none", "recv", "request", "gotblock", "full", "mark",
                "signal", "exited"}
    /\ gb \in [chunk : Chunk \union {None}, block : Block \union {None},
               i : 0 .. NBufs, free : Buf \union {None},
               dubious : Buf \union {None}]
    /\ rq \in [timedout : BOOLEAN, i : 0 .. NBufs, empty : 0 .. NBufs,
               filling : 0 .. NBufs]
    /\ lastnoroomchunk \in Chunk \union {None}
    /\ child_error \in {"none", "ETIMEDOUT"}

TickTypes ==
    /\ IdleCounter \in -1 .. idletimer + TIMEOUT_HZ + 1
    /\ BackOff \in 0 .. TIMEOUT_HZ
    /\ STCounter \in 0 .. servertimo * TIMEOUT_HZ
    /\ KACounter \in 0 .. keepalive * TIMEOUT_HZ
    /\ kaSeconds \in {0, keepalive}

MainTypes ==
    /\ mpc \in {"join", "scan", "check", "towait", "waiting", "joindead",
                "write", "joinchild", "leave", "left", "errexit"}
    /\ mi \in Buf \union {None}
    /\ chunkcount \in 0 .. TotalChunks
    /\ disk \in SUBSET Chunk

\* Every variable has its type and every tick counter its bound; the back off
\* never makes the client wait more than idletimer + TIMEOUT_HZ + 1 ticks.
TypeOK == ChunkTypes /\ BufTypes /\ RecvTypes /\ TickTypes /\ MainTypes

Holding(b) == state[b] # "EMPTY"

\* Handed over: done, or FULL with the done bit about to be set.
HandedOver == IF rpc = "mark" THEN done \union {gb.chunk} ELSE done

\* The descriptors, which only the receive thread updates, and the buffers,
\* which both threads update, agree in every interleaving: a chunk that has
\* been seen is in exactly one buffer until it is on disk, a buffer is FULL
\* exactly when its chunk has been handed over, and only such a chunk is on
\* disk (client.c GotBlock(), ChunkerStartup()).
EveryChunkAccounted ==
    /\ \A a, b \in Buf : Holding(a) /\ Holding(b) /\ a # b
                            => thischunk[a] # thischunk[b]
    /\ \A b \in Buf : Holding(b) => thischunk[b] \in seen \ disk
    /\ \A c \in seen \ disk : \E b \in Buf : Holding(b) /\ thischunk[b] = c
    /\ \A b \in Buf : Holding(b) =>
          (state[b] = "FULL" <=> thischunk[b] \in HandedOver)
    /\ disk \subseteq HandedOver
    /\ HandedOver \subseteq seen

\* blockcount is the number of blocks the blockmap lacks, so a chunk is
\* released when, and only when, its last block has come in, whatever was
\* duplicated or dropped on the way.
BlockCountExact ==
    \A b \in Buf : Holding(b) =>
        /\ blockmap[b] \subseteq ChunkBlocks(thischunk[b])
        /\ blockcount[b] = ChunkSize(thischunk[b]) - Cardinality(blockmap[b])
        /\ blockcount[b] = 0 <=> state[b] = "FULL" \/ (rpc = "full" /\ gb.i = b)

\* While the main thread writes a buffer, without holding the mutex, the
\* buffer stays FULL, every block in it was received for that chunk (none is
\* left over from the chunk that used the buffer before), and the chunk has
\* not been written yet.
WriteIntact ==
    mpc = "write" =>
        /\ state[mi] = "FULL"
        /\ thischunk[mi] \notin disk
        /\ \A k \in ChunkBlocks(thischunk[mi]) : data[mi][k] = thischunk[mi]

\* chunkcount counts the chunks that are not on disk, so the main thread
\* leaves its loop when the whole image is written and not before.
ChunkCountExact ==
    /\ chunkcount = TotalChunks - Cardinality(disk)
    /\ mpc \in {"joinchild", "leave", "left"} => disk = Chunk

\* The counters the loops of the client end on are exact: the blocks a buffer
\* waits for and the chunks that are not on disk.
CountsExact == BlockCountExact /\ ChunkCountExact

\* The assertions of GotBlock(): a chunk not found by the unlocked search is
\* unseen, a chunk done is seen, and a dubious buffer holds a chunk that is
\* seen and not done.
GotBlockAssertions ==
    /\ NotFound => gb.chunk \notin seen
    /\ done \subseteq seen
    /\ NotFound /\ gb.dubious # None =>
          /\ state[gb.dubious] = "DUBIOUS"
          /\ thischunk[gb.dubious] \in seen \ done
    /\ NotFound /\ gb.free # None => state[gb.free] = "EMPTY"

\* ChunkerStartup() frees the tables only when the receive thread, which works
\* on them without a lock, is gone.
NoUseAfterFree == mpc \in {"leave", "left"} => rpc = "exited"

\* What the receive thread takes for granted: the assertions of GotBlock(), and
\* that the tables ChunkerStartup() frees are still there.
AssertionsHold == GotBlockAssertions /\ NoUseAfterFree

\* Every request asks for something, and only for blocks that are neither in a
\* buffer nor on disk.
RequestsUseful ==
    \A p \in sent : p.type \in {"REQUEST", "PREQUEST"} =>
        /\ p.blocks # {}
        /\ p.chunk \notin HandedOver
        /\ \A b \in Buf : Holding(b) /\ thischunk[b] = p.chunk
                            => p.blocks \intersect blockmap[b] = {}

\* Blocks in a FILLING buffer are never dropped; a DUBIOUS buffer is given up
\* only to the first block of a chunk the client has nothing of.
ProgressKept ==
    [][\A b \in Buf :
         Filling(b) =>
            \/ thischunk'[b] = thischunk[b] /\ blockmap[b] \subseteq blockmap'[b]
            \/ /\ state[b] = "DUBIOUS"
               /\ blockmap'[b] = {0}
               /\ thischunk'[b] \notin seen]_vars

-----------------------------------------------------------------------------
(***************************************************************************)
(* Liveness.  Both threads keep running, a thread that wants the mutex     *)
(* gets it in the end however often it is taken (strong fairness), and the *)
(* receive thread, which comes back to PacketReceive() again and again,    *)
(* sees a timeout now and then.  A spurious wakeup, the failure of a write *)
(* and the arrival of any particular packet are not promised.              *)
(***************************************************************************)
MainProgress ==
    \/ MainJoined \/ MainFound \/ MainNone \/ MainCheck \/ MainWait
    \/ MainExitError \/ MainWrite \/ MainCancel \/ MainFinish \/ MainLeave

Fairness ==
    /\ WF_vars(MainProgress)
    /\ WF_vars(RecvWork)
    /\ SF_vars(~ Stopped /\ GotBlockFull)
    /\ SF_vars(RecvTimeout \/ RecvServerTimeout)

FairSpec == Spec /\ Fairness

\* No chunk handed over is forgotten: the main thread writes it (the signal under
\* the mutex is not lost, client.c 1617-1632).
HandedOverIsWritten ==
    \A c \in Chunk : c \in done ~> (c \in disk \/ mpc = "errexit")

\* A silent network does not silence the client: until it is done, or has not
\* heard from anybody for servertimo seconds, it asks again and again for what
\* it lacks, however long the back off has grown.  (A timeout that counts down
\* to idletimer is also what another client's request would do.)
KeepsAsking ==
    <>[][Packets => RecvTimeout]_vars =>
        []<>(sent # {}) \/ <>(Stopped \/ child_error # "none")

\* "The parent thread will see this and exit with an error" (client.c 1048):
\* when the receive thread dies the main thread does not wait for ever.
ChildDeathNoticed == child_error # "none" ~> Stopped

=============================================================================
