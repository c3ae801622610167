--------------------------- MODULE MCFrisbeeUtils ---------------------------
(***************************************************************************)
(* utils.c for TLC: every sequence of operations on a block map, and a     *)
(* sweep of the image size, every length from one byte to MaxBytes, so     *)
(* that the last block and the last chunk are full, partial or the only    *)
(* one.  The two halves share nothing: the sweep keeps the map it started  *)
(* with.                                                                   *)
(***************************************************************************)
EXTENDS BlockMap, FiniteSetsExt

CONSTANTS MAXBLOCKSIZE,
          MaxBytes    \* BOUND: the longest image

ASSUME SweepAssumption == MAXBLOCKSIZE \in Nat \ {0} /\ MaxBytes \in Nat

VARIABLE bytes

Image == INSTANCE FrisbeeSizes WITH ImageBytes <- bytes

UtilsInit == Init /\ bytes = 1
Grow      == map = BlockMapInit(0, 1) /\ bytes < MaxBytes /\ bytes' = bytes + 1
MapStep   == bytes = 1 /\ Next

UtilsNext ==
  \/ MapStep /\ UNCHANGED bytes
  \/ Grow /\ UNCHANGED vars

UtilsSpec == UtilsInit /\ [][UtilsNext]_<<vars, bytes>>

(* The bytes of a chunk, added up over its blocks.                          *)
BlocksBytes(c) ==
  MapThenSumSet(LAMBDA b : Image!BlockSize(c, b), Image!ChunkBlocks(c))

(* The chunks cut the image into its blocks, and the blocks into its bytes: *)
(* none is lost or counted twice at the end of the image (utils.c 196-275). *)
SizesPartitionImage ==
  /\ MapThenSumSet(Image!ChunkSize, Image!Chunk) = Image!TotalBlocks
  /\ MapThenSumSet(BlocksBytes, Image!Chunk) = bytes

(* "Return the number of bytes in the indicated chunk" (utils.c 236): it is *)
(* the sum of the sizes of the chunk's blocks, which the writer thread      *)
(* passes to ImageWriteChunk (client.c 1226-1248).                          *)
ChunkBytesIsItsBlocks ==
  \A c \in Image!Chunk : Image!ChunkBytes(c) = BlocksBytes(c)
=============================================================================
