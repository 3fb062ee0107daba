-------------------------- MODULE MCLimiterStatus --------------------------
(***************************************************************************)
(* A row of cells: the faces across the row are boundary faces.            *)
(***************************************************************************)
EXTENDS LimiterStatus

CONSTANT Columns

MCCells == 1..Columns

MCNeighbours ==
  [c \in MCCells |-> {n \in MCCells : n = c + 1 \/ c = n + 1}]

\* No cell, any one cell, or the first cell together with any other: two that
\* fail in one step, at every distance the row has.
MCTroubledSets ==
  {{}} \cup {{c} : c \in MCCells} \cup {{1, c} : c \in MCCells}
=============================================================================
