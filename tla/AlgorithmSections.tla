-------------------------- MODULE AlgorithmSections --------------------------
(***************************************************************************)
(* The algorithm sections of the fused ADER-DG scheme and which solvers    *)
(* take part in them.  Solver::isSending decides whether a solver's face   *)
(* data travels over a rank boundary in a section, Solver::isComputing     *)
(* whether its cells are worked on (and its face data received).  The two  *)
(* answers have to fit together over the whole sequence of sections a time *)
(* step runs through, on every rank.                                       *)
(***************************************************************************)

Section ==
  { "TimeStepping", "LimiterStatusSpreading", "MeshRefinement",
    "MeshRefinementAllSend", "MeshRefinementOrGlobalRecomputation",
    "MeshRefinementOrLocalOrGlobalRecomputation",
    "LocalRecomputationAllSend", "GlobalRecomputationAllSend",
    "PredictionRerunAllSend" }

Type == { "ADERDG", "LimitingADERDG", "FiniteVolumes" }

LimiterDomainChange ==
  { "Regular", "Irregular", "IrregularRequiringMeshUpdate" }

(***************************************************************************)
(* The enumeration is ordered by severity; updateNextLimiterDomainChange   *)
(* takes the maximum.                                                      *)
(***************************************************************************)
Worst(a, b) ==
  IF a = "Regular" \/ b = "IrregularRequiringMeshUpdate" THEN b ELSE a

-----------------------------------------------------------------------------
AllSendButLocalRecomputation == \* faulty
  { "TimeStepping", "MeshRefinementAllSend", "GlobalRecomputationAllSend",
    "PredictionRerunAllSend" }

(* Sections in which every solver sends. *)
AllSend ==
  { "TimeStepping", "MeshRefinementAllSend", "LocalRecomputationAllSend",
    "GlobalRecomputationAllSend", "PredictionRerunAllSend" }

(***************************************************************************)
(* Who sends face data: type is the solver's Type, mesh its                *)
(* getMeshUpdateRequest(), change its getLimiterDomainChange().            *)
(***************************************************************************)
ADERDGIsSending(section, mesh) ==
  \/ section \in AllSend
  \/ /\ section \in { "MeshRefinement", "MeshRefinementOrGlobalRecomputation",
                      "MeshRefinementOrLocalOrGlobalRecomputation" }
     /\ mesh

LimitingIsSending(section, mesh, change) ==
  \/ ADERDGIsSending(section, mesh)
  \/ /\ section = "MeshRefinementOrGlobalRecomputation"
     /\ change = "IrregularRequiringMeshUpdate"
  \/ /\ section = "MeshRefinementOrLocalOrGlobalRecomputation"
     /\ change # "Regular"

FiniteVolumesIsSending(section) == section \in AllSend

IsSending(section, type, mesh, change) ==
  \/ type = "ADERDG" /\ ADERDGIsSending(section, mesh)
  \/ type = "LimitingADERDG" /\ LimitingIsSending(section, mesh, change)
  \/ type = "FiniteVolumes" /\ FiniteVolumesIsSending(section)

(***************************************************************************)
(* Who computes: violated is getStabilityConditionWasViolated().           *)
(***************************************************************************)
AllCompute(section, mesh, violated) == \* faulty: all send read as all compute
  \/ section \in { "TimeStepping", "MeshRefinementAllSend" }
  \/ /\ section \in { "MeshRefinement", "MeshRefinementOrGlobalRecomputation",
                      "MeshRefinementOrLocalOrGlobalRecomputation" }
     /\ mesh
  \/ section = "PredictionRerunAllSend" /\ violated

ADERDGIsComputing(section, mesh, violated) ==
  \/ section = "TimeStepping"
  \/ /\ section \in { "MeshRefinement", "MeshRefinementAllSend",
                      "MeshRefinementOrGlobalRecomputation",
                      "MeshRefinementOrLocalOrGlobalRecomputation" }
     /\ mesh
  \/ section = "PredictionRerunAllSend" /\ violated

LimitingIsComputing(section, mesh, change, violated) ==
  \/ ADERDGIsComputing(section, mesh, violated)
  \/ section = "LimiterStatusSpreading" /\ (mesh \/ change # "Regular")
  \/ /\ section = "MeshRefinementOrGlobalRecomputation"
     /\ change = "IrregularRequiringMeshUpdate"
  \/ /\ section = "MeshRefinementOrLocalOrGlobalRecomputation"
     /\ change # "Regular"
  \/ section = "LocalRecomputationAllSend" /\ change = "Irregular"
  \/ /\ section = "GlobalRecomputationAllSend"
     /\ change = "IrregularRequiringMeshUpdate"

FiniteVolumesIsComputing(section) == section = "TimeStepping"

IsComputing(section, type, mesh, change, violated) ==
  \/ type = "ADERDG" /\ ADERDGIsComputing(section, mesh, violated)
  \/ type = "LimitingADERDG" /\ LimitingIsComputing(section, mesh, change, violated)
  \/ type = "FiniteVolumes" /\ FiniteVolumesIsComputing(section)
=============================================================================
