--------------------------- MODULE MCFaceExchange ---------------------------
(***************************************************************************)
(* Peano cuts a cube into three parts per dimension: nine cells, of which  *)
(* the second rank owns an L-shaped part.  Faces between the ranks have    *)
(* one or two inside vertices; one vertex lists both ranks for two faces   *)
(* of one cell.                                                            *)
(***************************************************************************)
EXTENDS FaceExchange

MCRanks == {1, 2, 3}
MCOwner == [c \in (1..3) \X (1..3) |->
  IF c[1] = 3 \/ c = <<2, 3>> THEN 2 ELSE IF c[1] = 1 /\ c[2] > 1 THEN 3 ELSE 1]

\* Line by line, every other line backwards.
MCTurn ==
  [v \in (0..3) \X (0..3) |-> 4 * v[2] + IF v[2] % 2 = 0 THEN v[1] ELSE 3 - v[1]]

MCRequests == {"Local", "Mesh", "MeshAndLocal", "Global"}
MCSolvers == {"ADERDG", "LimitingADERDG"}
MCSolversWithFiniteVolumes == {"LimitingADERDG", "FiniteVolumes"}
=============================================================================
