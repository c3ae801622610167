----------------------------- MODULE ImageUnzip -----------------------------
(***************************************************************************)
(* The image writer, clientside/os/imagezip/imageunzip.c, as the frisbee   *)
(* client and the imageunzip program use it.                               *)
(*                                                                         *)
(* The caller's thread decompresses one chunk after the other              *)
(* (inflate_subblock), in any order, or takes it as it is                  *)
(* (write_subblock), and queues writes; the thread DiskWriter carries them *)
(* out.  A chunk holds the data of some regions of the disk: a buffer of   *)
(* decompressed data that crosses the end of a region is split into        *)
(* writes that share it, and the space between the regions is zeroed when  *)
(* dofill is set.  Buffer memory is limited, counted and reference-counted *)
(* under writebuf_mutex; the queue is guarded by writequeue_mutex;         *)
(* writeinprogress is cleared without a lock.                              *)
(*                                                                         *)
(* The content of a byte of an image is the address it belongs at, which   *)
(* shows data that is written to the wrong place.  Of the magic number,    *)
(* checksum, image id and cipher of a chunk only the refusal is modelled;  *)
(* decryption itself, the relocations, the CRC mode and output that cannot *)
(* seek are left out.                                                      *)
(***************************************************************************)
EXTENDS Integers, Sequences, FiniteSets, FiniteSetsExt

CONSTANTS SECSIZE,          \* bytes of a sector
          OUTSIZE,          \* bytes of a buffer for decompressed data
          MaxWriteBufMem,   \* maxwritebufmem, not 0
          DiskSectors,      \* size of the output
          Images,           \* images: functions from chunk numbers to chunks
          Options           \* command lines

(* What imagezip writes into the header of a chunk: regions that are not   *)
(* empty, in order and apart from one another, as the assertions of        *)
(* inflate_subblock() require, between its first and its last sector.      *)
IsChunk(c) ==
    LET n == Len(c.regions)
    IN  /\ c.first \in Nat /\ c.last \in Nat /\ c.first <= c.last
        /\ c.regions \in Seq([start : Nat, size : Nat \ {0}]) /\ c.regions # <<>>
        /\ \A i \in 1 .. n - 1 :
              c.regions[i].start + c.regions[i].size < c.regions[i + 1].start
        /\ c.first <= c.regions[1].start
        /\ c.regions[n].start + c.regions[n].size <= c.last

(* The chunks of an image lie apart, and one of them is the last.          *)
IsImage(im) ==
    /\ \A c \in DOMAIN im : IsChunk(im[c])
    /\ \A c, e \in DOMAIN im :
          c # e => im[c].last <= im[e].first \/ im[e].last <= im[c].first
    /\ \E e \in DOMAIN im : \A c \in DOMAIN im : im[c].last <= im[e].last

ASSUME UnzipAssumption ==
    /\ SECSIZE \in Nat \ {0}
    /\ OUTSIZE \in Nat \ {0} /\ OUTSIZE % SECSIZE = 0
    /\ MaxWriteBufMem \in Nat /\ MaxWriteBufMem >= OUTSIZE
    /\ DiskSectors \in Nat \ {0}
    /\ \A o \in Options :
          /\ {o.fill, o.threads, o.raw, o.v1} \subseteq BOOLEAN
          /\ o.min \in Nat /\ o.max \in Nat
          /\ o.max = 0 => o.min = 0
    /\ \A im \in Images : IsImage(im)

Old  == -1       \* what the disk held before
Zero == -2

BufId == 1 .. MaxWriteBufMem \div SECSIZE

NULL == [offset |-> 0, size |-> 0, buf |-> 0, data |-> 0]

VARIABLES
    opt, image,     \* the command line and the image, fixed
    disk,           \* byte -> content
    maxwritten,     \* maxwrittenoffset
    bufs,           \* buffer -> refs, size, bytes; refs = 0 when it is free
    curmem,         \* curwritebufmem
    wanted,         \* writebufwanted
    writequeue, writeinprogress,
    wpc, wcur,      \* DiskWriter and its wbuf
    mpc,            \* the caller's thread
    todo,           \* chunks not yet given to the writer
    d               \* the local variables of inflate_subblock

shared == <<disk, maxwritten, bufs, curmem, wanted, writequeue>>
writer == <<wpc, wcur, writeinprogress>>
fixed  == <<opt, image>>
vars   == <<fixed, shared, writer, mpc, todo, d>>

sectobytes(s) == s * SECSIZE
DiskBytes     == sectobytes(DiskSectors)

(* The decompressed data of a chunk: the bytes of its regions in order. *)
DataOf(c) ==
    UNION {sectobytes(c.regions[i].start) ..
             sectobytes(c.regions[i].start + c.regions[i].size) - 1 :
             i \in DOMAIN c.regions}
Stream(c) ==
    [k \in 1 .. Cardinality(DataOf(c)) |->
        CHOOSE a \in DataOf(c) : Cardinality({b \in DataOf(c) : b < a}) = k - 1]

Init ==
    /\ opt \in Options
    /\ image \in Images
    /\ disk = [a \in 0 .. DiskBytes - 1 |-> Old]
    /\ maxwritten = 0
    /\ bufs = [b \in BufId |-> [refs |-> 0, size |-> 0, bytes |-> <<>>]]
    /\ curmem = 0
    /\ wanted = FALSE
    /\ writequeue = <<>>
    /\ writeinprogress = FALSE
    /\ wpc = IF opt.threads THEN "take" ELSE "none"
    /\ wcur = NULL
    /\ mpc = "idle"
    /\ todo = DOMAIN image
    /\ d = [chunk |-> 0, region |-> 0, pos |-> 0, resid |-> <<>>,
            offset |-> 0, size |-> 0, count |-> 0, wbuf |-> NULL, tail |-> NULL]

-----------------------------------------------------------------------------
(* Buffers. *)

HasRoom(n) == curmem + n <= MaxWriteBufMem

(* alloc_writebuf() with room: malloc() returns any free memory. *)
AllocBuf(n, bytes, b) ==
    /\ HasRoom(n)
    /\ bufs[b].refs = 0
    /\ \A x \in 1 .. b - 1 : bufs[x].refs # 0
    /\ bufs' = [bufs EXCEPT ![b] = [refs |-> 1, size |-> n, bytes |-> bytes]]
    /\ curmem' = curmem + n
    /\ UNCHANGED <<disk, maxwritten, wanted, writequeue>>

(* Mutant: the waiting thread is not woken. *)
FreeWritebufQuietly(w) ==
    LET b == w.buf
        last == b # 0 /\ bufs[b].refs = 1
    IN  /\ bufs' = IF b = 0 THEN bufs
                   ELSE [bufs EXCEPT ![b].refs = @ - 1]
        /\ curmem' = IF last THEN curmem - bufs[b].size ELSE curmem
        /\ wanted' = wanted

(* Dropping the last reference frees the memory and lets a waiting         *)
(* allocation try again.                                                   *)
FreeWritebuf(w) ==
    LET b == w.buf
        last == b # 0 /\ bufs[b].refs = 1
    IN  /\ bufs' = IF b = 0 THEN bufs
                   ELSE [bufs EXCEPT ![b].refs = @ - 1]
        /\ curmem' = IF last THEN curmem - bufs[b].size ELSE curmem
        /\ wanted' = (wanted /\ ~last)

(* alloc_writebuf() without room: wait for writebufwanted to be cleared. *)
AllocWait ==
    /\ \/ mpc = "inflate" /\ ~HasRoom(OUTSIZE)
       \/ mpc = "raw" /\ d.size > 0 /\ ~HasRoom(Min({OUTSIZE, d.size}))
    /\ wanted' = TRUE
    /\ mpc' = IF mpc = "raw" THEN "rawwait" ELSE "inflatewait"
    /\ UNCHANGED <<fixed, disk, maxwritten, bufs, curmem, writequeue, writer, todo, d>>

AllocWoken ==
    /\ mpc \in {"rawwait", "inflatewait"}
    /\ ~wanted
    /\ mpc' = IF mpc = "rawwait" THEN "raw" ELSE "inflate"
    /\ UNCHANGED <<fixed, shared, writer, todo, d>>

-----------------------------------------------------------------------------
(* Writes. *)

(* The content that a write puts at byte a. *)
ByteOf(w, a) ==
    IF w.buf = 0 THEN Zero ELSE bufs[w.buf].bytes[w.data + (a - w.offset) + 1]

Touched(w) == w.offset .. w.offset + w.size - 1

(* writedata() or writezeros(). *)
Write(w) ==
    /\ disk' = [a \in DOMAIN disk |-> IF a \in Touched(w) THEN ByteOf(w, a) ELSE disk[a]]
    /\ maxwritten' = Max({maxwritten, w.offset + w.size})

(* Adjusted for the start of the partition and cut at its end; NULL when   *)
(* nothing is left.                                                        *)
Adjust(w) ==
    LET off == w.offset + sectobytes(opt.min)
        end == IF opt.max > 0 THEN Min({off + w.size, sectobytes(opt.max)})
               ELSE off + w.size
    IN  IF off >= end THEN NULL ELSE [w EXCEPT !.offset = off, !.size = end - off]

(* dowrite_request(): drop it, queue it for the writer or write it. *)
DoWriteRequest(w) ==
    LET v == Adjust(w)
    IN  \/ /\ v = NULL
           /\ FreeWritebuf(w)
           /\ UNCHANGED <<disk, maxwritten, writequeue>>
        \/ /\ v # NULL /\ opt.threads
           /\ writequeue' = Append(writequeue, v)
           /\ UNCHANGED <<disk, maxwritten, bufs, curmem, wanted>>
        \/ /\ v # NULL /\ ~opt.threads
           /\ Write(v)
           /\ FreeWritebuf(w)
           /\ UNCHANGED writequeue

(* A request to zero bytes from..to - 1, made only when dofill is set. *)
ZeroFill(from, to) ==
    IF opt.fill /\ from < to
    THEN DoWriteRequest([offset |-> from, size |-> to - from, buf |-> 0, data |-> 0])
    ELSE UNCHANGED shared

-----------------------------------------------------------------------------
(* The caller's thread. *)

Chunk     == image[d.chunk]
Region(i) == Chunk.regions[i]

(* ImageUnzipChunk(): the free space before the first region. *)
UnzipChunk(c) ==
    LET first == image[c].regions[1]
    IN  /\ mpc = "idle" /\ c \in todo /\ ~opt.raw
        /\ IF opt.v1 THEN UNCHANGED shared
           ELSE ZeroFill(sectobytes(image[c].first), sectobytes(first.start))
        /\ d' = [chunk |-> c, region |-> 1, pos |-> 0, resid |-> <<>>,
                 offset |-> sectobytes(first.start), size |-> sectobytes(first.size),
                 count |-> 0, wbuf |-> NULL, tail |-> NULL]
        /\ mpc' = "inflate"
        /\ UNCHANGED <<fixed, writer, todo>>

(* What inflate() may produce.  imagezip compresses whole sectors, and a   *)
(* call with input left stops only for want of output space or at the end  *)
(* of the stream, so each call completes a sector; of data that is cut in  *)
(* another way, the assertion after the loop over the regions would stop   *)
(* the program.                                                            *)
Produced ==
    {n \in 1 .. Min({OUTSIZE - Len(d.resid), Len(Stream(Chunk)) - d.pos}) :
        Len(d.resid) + n >= SECSIZE}

(* A buffer is allocated and filled, after what the last one left over of  *)
(* a sector.                                                               *)
Inflate ==
    /\ mpc = "inflate"
    /\ \E n \in Produced, b \in BufId :
          LET bytes  == d.resid \o SubSeq(Stream(Chunk), d.pos + 1, d.pos + n)
              ibleft == Len(bytes) % SECSIZE
              count  == Len(bytes) - ibleft
          IN  /\ AllocBuf(OUTSIZE, bytes, b)
              /\ d' = [d EXCEPT !.pos = @ + n, !.count = count,
                                !.resid = SubSeq(bytes, count + 1, Len(bytes)),
                                !.wbuf = [offset |-> d.offset, size |-> count,
                                          buf |-> b, data |-> 0]]
    /\ mpc' = "region"
    /\ UNCHANGED <<fixed, writer, todo>>

(* Mutant: data that ends with its region is split too. *)
FitsRegionStrictly == d.count < d.size

FitsRegion == d.count <= d.size

(* After cc bytes of the region have been queued; w is the data that is    *)
(* left.                                                                   *)
Advance(cc, w) ==
    /\ d' = [d EXCEPT !.count = @ - cc, !.size = @ - cc, !.offset = @ + cc,
                      !.wbuf = w, !.tail = NULL]
    /\ mpc' = IF d.size # cc THEN "region"
              ELSE IF d.region = Len(Chunk.regions) THEN "break" ELSE "gap"
    /\ UNCHANGED <<fixed, writer, todo>>

WriteRegion ==
    /\ mpc = "region" /\ d.count > 0 /\ FitsRegion
    /\ DoWriteRequest(d.wbuf)
    /\ Advance(d.count, NULL)

(* Mutant: the shared buffer is not counted twice. *)
SplitWritebufUncounted ==
    /\ mpc = "region" /\ d.count > 0 /\ ~FitsRegion
    /\ d' = [d EXCEPT !.wbuf.size = d.size,
                      !.tail = [offset |-> d.wbuf.offset + d.size,
                                size |-> d.wbuf.size - d.size,
                                buf |-> d.wbuf.buf, data |-> d.wbuf.data + d.size]]
    /\ mpc' = "head"
    /\ UNCHANGED <<fixed, shared, writer, todo>>

(* The data goes on after the end of the region: its tail becomes a write  *)
(* of its own that shares the buffer.                                      *)
SplitWritebuf ==
    /\ mpc = "region" /\ d.count > 0 /\ ~FitsRegion
    /\ bufs' = [bufs EXCEPT ![d.wbuf.buf].refs = @ + 1]
    /\ d' = [d EXCEPT !.wbuf.size = d.size,
                      !.tail = [offset |-> d.wbuf.offset + d.size,
                                size |-> d.wbuf.size - d.size,
                                buf |-> d.wbuf.buf, data |-> d.wbuf.data + d.size]]
    /\ mpc' = "head"
    /\ UNCHANGED <<fixed, disk, maxwritten, curmem, wanted, writequeue, writer, todo>>

WriteHead ==
    /\ mpc = "head"
    /\ DoWriteRequest(d.wbuf)
    /\ Advance(d.size, d.tail)

(* On to the next region: the gap is zeroed, the remaining data moves. *)
NextRegion ==
    LET next == Region(d.region + 1)
    IN  /\ mpc = "gap"
        /\ ZeroFill(d.offset, sectobytes(next.start))
        /\ d' = [d EXCEPT !.region = @ + 1, !.offset = sectobytes(next.start),
                          !.size = sectobytes(next.size),
                          !.wbuf = IF @ = NULL THEN NULL
                                   ELSE [@ EXCEPT !.offset = sectobytes(next.start)]]
        /\ mpc' = "region"
        /\ UNCHANGED <<fixed, writer, todo>>

BufferDone == mpc = "break" \/ (mpc = "region" /\ d.count = 0)

MoreInput ==
    /\ BufferDone /\ d.pos < Len(Stream(Chunk))
    /\ mpc' = "inflate"
    /\ UNCHANGED <<fixed, shared, writer, todo, d>>

(* The free space after the last region. *)
ChunkDone ==
    LET last == Region(Len(Chunk.regions))
    IN  /\ BufferDone /\ d.pos = Len(Stream(Chunk))
        /\ IF opt.v1 THEN UNCHANGED shared
           ELSE ZeroFill(sectobytes(last.start + last.size), sectobytes(Chunk.last))
        /\ todo' = todo \ {d.chunk}
        /\ mpc' = "idle"
        /\ UNCHANGED <<fixed, writer, d>>

(* ImageWriteChunk(): the chunk goes to the disk as it is.  It is taken to *)
(* be a number of sectors: the code writes any number of bytes, and trips  *)
(* over the assertion on the offset in dowrite_request() when it zeroes    *)
(* what follows a last chunk that ends inside a sector.                    *)
WriteChunk(c) ==
    /\ mpc = "idle" /\ c \in todo /\ opt.raw
    /\ d' = [d EXCEPT !.chunk = c, !.offset = sectobytes(image[c].first),
                      !.size = sectobytes(image[c].last - image[c].first)]
    /\ mpc' = "raw"
    /\ UNCHANGED <<fixed, shared, writer, todo>>

RawAlloc ==
    LET n == Min({OUTSIZE, d.size})
    IN  /\ mpc = "raw" /\ d.size > 0
        /\ \E b \in BufId :
              /\ AllocBuf(n, [i \in 1 .. n |-> d.offset + i - 1], b)
              /\ d' = [d EXCEPT !.wbuf = [offset |-> d.offset, size |-> n,
                                          buf |-> b, data |-> 0]]
        /\ mpc' = "rawwrite"
        /\ UNCHANGED <<fixed, writer, todo>>

RawWrite ==
    /\ mpc = "rawwrite"
    /\ DoWriteRequest(d.wbuf)
    /\ d' = [d EXCEPT !.offset = @ + d.wbuf.size, !.size = @ - d.wbuf.size, !.wbuf = NULL]
    /\ mpc' = "raw"
    /\ UNCHANGED <<fixed, writer, todo>>

RawDone ==
    /\ mpc = "raw" /\ d.size = 0
    /\ todo' = todo \ {d.chunk}
    /\ mpc' = "idle"
    /\ UNCHANGED <<fixed, shared, writer, d>>

-----------------------------------------------------------------------------
(* The end: zero_remainder(), threadwait(), threadquit(). *)

(* Mutant: a write that has been taken off the queue is forgotten. *)
DrainedQueue == writequeue = <<>>

(* The test of threadwait(). *)
Drained == writequeue = <<>> /\ ~writeinprogress

(* zero_remainder() returns at once unless it is to fill a whole disk. *)
Flush ==
    /\ mpc = "idle" /\ todo = {}
    /\ mpc' = IF opt.fill /\ opt.max = 0 THEN "remainder" ELSE "drain"
    /\ UNCHANGED <<fixed, shared, writer, todo, d>>

ZeroRemainder ==
    /\ mpc = "remainder" /\ Drained
    /\ ZeroFill(maxwritten, DiskBytes)
    /\ mpc' = "drain"
    /\ UNCHANGED <<fixed, writer, todo, d>>

ThreadWait ==
    /\ mpc = "drain" /\ Drained
    /\ mpc' = "flushed"
    /\ UNCHANGED <<fixed, shared, writer, todo, d>>

(* threadquit() cancels the writer, which is waiting. *)
Quit ==
    /\ mpc = "flushed" /\ Drained
    /\ mpc' = "done"
    /\ wpc' = "cancelled"
    /\ UNCHANGED <<fixed, shared, wcur, writeinprogress, todo, d>>

-----------------------------------------------------------------------------
(* DiskWriter(). *)

WriterTake ==
    /\ wpc = "take" /\ writequeue # <<>>
    /\ wcur' = Head(writequeue)
    /\ writequeue' = Tail(writequeue)
    /\ writeinprogress' = TRUE
    /\ wpc' = "write"
    /\ UNCHANGED <<fixed, disk, maxwritten, bufs, curmem, wanted, mpc, todo, d>>

WriterWrite ==
    /\ wpc = "write"
    /\ Write(wcur)
    /\ wpc' = "free"
    /\ UNCHANGED <<fixed, bufs, curmem, wanted, writequeue, wcur, writeinprogress, mpc, todo, d>>

WriterFree ==
    /\ wpc = "free"
    /\ FreeWritebuf(wcur)
    /\ wcur' = NULL
    /\ wpc' = "clear"
    /\ UNCHANGED <<fixed, disk, maxwritten, writequeue, writeinprogress, mpc, todo, d>>

WriterClear ==
    /\ wpc = "clear"
    /\ writeinprogress' = FALSE
    /\ wpc' = "take"
    /\ UNCHANGED <<fixed, shared, wcur, mpc, todo, d>>

(* Is the caller's next step a write of its own. *)
Writing ==
    /\ ~opt.threads
    /\ \/ mpc \in {"head", "rawwrite"} \/ (mpc = "region" /\ d.count > 0)
       \/ /\ opt.fill
          /\ BufferDone \/ mpc \in {"gap", "remainder"} \/ (mpc = "idle" /\ todo # {})

(* exit(1) by either thread ends both where they are. *)
Exit ==
    /\ mpc' = "exit"
    /\ wpc' = "exit"
    /\ UNCHANGED <<fixed, shared, wcur, writeinprogress, todo, d>>

(* A write that fails or is short. *)
WriteFails == (wpc = "write" \/ Writing) /\ Exit

(* A chunk whose header is refused (magic number, checksum, image id or    *)
(* cipher), before any of it is written, or whose data inflate() refuses.  *)
ChunkRefused ==
    /\ \/ mpc = "idle" /\ todo # {} /\ ~opt.raw
       \/ mpc = "inflate" /\ HasRoom(OUTSIZE)
    /\ Exit

-----------------------------------------------------------------------------
Caller ==
    \/ \E c \in todo : UnzipChunk(c) \/ WriteChunk(c)
    \/ Inflate \/ AllocWait \/ AllocWoken
    \/ WriteRegion \/ SplitWritebuf \/ WriteHead \/ NextRegion
    \/ MoreInput \/ ChunkDone
    \/ RawAlloc \/ RawWrite \/ RawDone
    \/ Flush \/ ZeroRemainder \/ ThreadWait \/ Quit

DiskWriter == WriterTake \/ WriterWrite \/ WriterFree \/ WriterClear

Next == Caller \/ DiskWriter \/ WriteFails \/ ChunkRefused

(* Both threads are scheduled. *)
Spec == Init /\ [][Next]_vars /\ WF_vars(Caller) /\ WF_vars(DiskWriter)

-----------------------------------------------------------------------------
(* Properties. *)

(* The bytes between the first and the last sector of a chunk, those the   *)
(* image says something about, and those it holds.                         *)
Extent(c) == sectobytes(c.first) .. sectobytes(c.last) - 1
Span(c) ==        \* version 1 chunks say nothing of their first and last gap
    LET last == c.regions[Len(c.regions)]
    IN  IF opt.raw \/ ~opt.v1 THEN Extent(c)
        ELSE sectobytes(c.regions[1].start) .. sectobytes(last.start + last.size) - 1
Covered == UNION {Span(image[c]) : c \in DOMAIN image}
Copied ==
    UNION {IF opt.raw THEN Extent(image[c]) ELSE DataOf(image[c]) : c \in DOMAIN image}

(* Is byte a before the end of the partition. *)
Inside(a) == opt.max > 0 => a < sectobytes(opt.max)

(* What byte a of the disk holds when the image has been written: the      *)
(* image's data; zero between the regions and after them if dofill is set; *)
(* what it held before elsewhere, and outside the partition.               *)
Wanted(a) ==
    LET i == a - sectobytes(opt.min)
    IN  IF Inside(a) /\ i \in Copied THEN i
        ELSE IF /\ opt.fill
                /\ \/ Inside(a) /\ i \in Covered
                   \/ opt.max = 0 /\ i > Max(Covered)
        THEN Zero
        ELSE Old

(* The disk never holds anything but its old content and what the image    *)
(* wants there, and once ImageUnzipFlush() has drained the queue, which it *)
(* does by looking at the queue and an unlocked flag, it holds the image.  *)
DiskExact ==
    /\ \A a \in DOMAIN disk : disk[a] \in {Old, Wanted(a)}
    /\ mpc \in {"flushed", "done"} => \A a \in DOMAIN disk : disk[a] = Wanted(a)

(* The writes that refer to a buffer: queued, being written, or in the     *)
(* hands of the decompressor.                                              *)
Refs(b) ==
    Cardinality({i \in DOMAIN writequeue : writequeue[i].buf = b})
      + (IF wcur.buf = b THEN 1 ELSE 0)
      + (IF d.wbuf.buf = b THEN 1 ELSE 0)
      + (IF d.tail.buf = b THEN 1 ELSE 0)

(* The bytes of the buffers in use. *)
BytesInUse ==
    {x \in BufId \X (1 .. OUTSIZE) :
        bufs[x[1]].refs > 0 /\ x[2] <= bufs[x[1]].size}

(* A buffer is freed exactly when its last write is done, whichever thread *)
(* drops it and however often it was split, and the memory in use is       *)
(* counted exactly and never above the limit.                              *)
BuffersExact ==
    /\ \A b \in BufId : bufs[b].refs = Refs(b)
    /\ curmem = Cardinality(BytesInUse)
    /\ curmem <= MaxWriteBufMem

(* The assertions of split_writebuf(), dowrite_request(), applied to every *)
(* write in hand, and of inflate_subblock(): a buffer's data is used up    *)
(* with the buffer, the regions with the input.                            *)
AssertionsHold ==
    /\ mpc = "head" => d.tail.size > 0 /\ d.wbuf.size > 0
    /\ mpc \in {"region", "head"} /\ d.count > 0 =>
          d.wbuf # NULL /\ d.offset % SECSIZE = 0
    /\ BufferDone => d.wbuf = NULL /\ d.count = 0
    /\ mpc = "gap" => sectobytes(Region(d.region + 1).start) > d.offset
    /\ BufferDone /\ d.pos = Len(Stream(Chunk)) =>
          d.region = Len(Chunk.regions) /\ d.size = 0 /\ d.resid = <<>>

(* The decompressor that waits for memory, and the end that waits for the  *)
(* writer, always go on: the image is written or the process exits.        *)
WritesFinish == <>(mpc \in {"done", "exit"})

=============================================================================
