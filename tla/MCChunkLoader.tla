--------------------------- MODULE MCChunkLoader ---------------------------
(* Small instance of module ChunkLoader for TLC: chunks in a row, seen from *)
(* two places whose surroundings overlap.                                  *)
EXTENDS ChunkLoader

CONSTANTS overworld, arena

MCChunks == 0 .. 3
MCCentres == {1, 2}
MCFirstStock == [level \in {overworld, arena} |->
    IF level = arena THEN {0, 1, 2} ELSE {1, 2, 3}]
MCRadial == [c \in MCCentres |-> <<c, c - 1, c + 1>>]
=============================================================================
