---------------------------- MODULE FrisbeeSizes ----------------------------
(***************************************************************************)
(* The sizes of a frisbee image, clientside/os/frisbee.redux/utils.c.      *)
(*                                                                         *)
(* An image of ImageBytes bytes is cut into blocks of MAXBLOCKSIZE bytes,  *)
(* the unit of a network packet, and the blocks into chunks of             *)
(* MAXCHUNKSIZE blocks, the unit the client decompresses and writes.       *)
(* InitSizes() computes six static variables from the three numbers; they  *)
(* never change afterwards, so here they are definitions.                  *)
(***************************************************************************)
EXTENDS Integers

CONSTANTS MAXCHUNKSIZE,   \* blocks in a chunk
          MAXBLOCKSIZE,   \* bytes in a block
          ImageBytes      \* bytes in the image being served

\* Mutant: a partial last block is not counted.
TotalBlocksTruncated == ImageBytes \div MAXBLOCKSIZE

TotalBlocks == (ImageBytes + MAXBLOCKSIZE - 1) \div MAXBLOCKSIZE
TotalChunks == (TotalBlocks + MAXCHUNKSIZE - 1) \div MAXCHUNKSIZE

\* Bytes of the last block and blocks of the last chunk; zero means full.
LastBlockSize == ImageBytes % MAXBLOCKSIZE
LastChunkSize == TotalBlocks % MAXCHUNKSIZE

ChunkSize(c) ==
    IF c < TotalChunks - 1 \/ LastChunkSize = 0
    THEN MAXCHUNKSIZE
    ELSE LastChunkSize

ChunkBytes(c) ==
    IF c < TotalChunks - 1 \/ LastChunkSize = 0
    THEN MAXCHUNKSIZE * MAXBLOCKSIZE
    ELSE (LastChunkSize - 1) * MAXBLOCKSIZE + LastBlockSize

BlockSize(c, b) ==
    IF \/ c < 0
       \/ c * MAXCHUNKSIZE + b < TotalBlocks - 1
       \/ LastBlockSize = 0
    THEN MAXBLOCKSIZE
    ELSE LastBlockSize

-----------------------------------------------------------------------------
\* The chunks of the image, and the blocks of one of them.
Chunk == 0 .. TotalChunks - 1
ChunkBlocks(c) == 0 .. ChunkSize(c) - 1

=============================================================================
