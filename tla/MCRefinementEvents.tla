-------------------------- MODULE MCRefinementEvents --------------------------
(* Refinement criteria of small trees for TLC. *)
EXTENDS RefinementEvents

(* Cells of the finest level below a cell *)
Below(c) ==
  { i \in 0..(Width[MaxLevel] - 1) : i \div Children^(MaxLevel - Level(c)) = c[2] }

(* The region R is refined as far as possible, all else is erased. *)
RefineAround(R) ==
  [ c \in Cell |-> IF Below(c) \cap R # {} THEN "Refine" ELSE "Erase" ]

MCWave == { RefineAround({i}) : i \in 0..(Width[MaxLevel] - 1) }
            \cup { RefineAround({}) }

(* The level wanted is given for each cell of the first refined level. *)
Wants(wanted, c) ==
  Max({ wanted[i] : i \in { j \div Children^(MaxLevel - 1) : j \in Below(c) } })

MCLevels ==
  { [ c \in Cell |-> CASE Level(c) < Wants(wanted, c) -> "Refine"
                      [] Level(c) = Wants(wanted, c) -> "Keep"
                      [] OTHER -> "Erase" ] :
    wanted \in [0..(Width[1] - 1) -> 0..MaxLevel] }
=============================================================================
