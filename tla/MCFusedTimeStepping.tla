------------------------- MODULE MCFusedTimeStepping -------------------------
(***************************************************************************)
(* Instances of FusedTimeStepping for TLC: the sets of solvers, and what   *)
(* their cells may report.                                                 *)
(***************************************************************************)
EXTENDS FusedTimeStepping

CONSTANTS aderdg, limiting, volumes

MCTypeOf ==
  [ s \in Solver |-> CASE s = aderdg   -> "ADERDG"
                       [] s = limiting -> "LimitingADERDG"
                       [] s = volumes  -> "FiniteVolumes" ]

MCGlobal == [ s \in Solver |-> "Global" ]
MCMixed  == [ s \in Solver |-> IF s = aderdg THEN "GlobalFixed" ELSE "Global" ]
=============================================================================
