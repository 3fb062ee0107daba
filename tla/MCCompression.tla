--------------------------- MODULE MCCompression ---------------------------
(* A coarse cell with two children. *)
EXTENDS Compression
CONSTANTS coarse, first, second
MCCells == {coarse, first, second}
MCParent == [c \in MCCells |-> IF c = coarse THEN NoCell ELSE coarse]
=============================================================================
