--------------------- MODULE FusedTimeSteppingFlagsProofs ---------------------
(***************************************************************************)
(* What the request flags of the solvers say wherever the runner reads     *)
(* them.                                                                   *)
(***************************************************************************)
EXTENDS FusedTimeSteppingProofs

(***************************************************************************)
(* The inductive invariant.  NextValuesAreReset: between two sweeps no     *)
(* request waits in the next values, and the next stable state is only     *)
(* pending before the very first sweep.  RequestsFit: the present values   *)
(* of one solver agree with each other.  RequestIsPending: from the time   *)
(* step to the mesh update, a solver with a request is not stable.         *)
(***************************************************************************)
NextValuesAreReset(s) ==
  /\ ~flags[s].nextMesh
  /\ flags[s].nextChange = "Regular"
  /\ ~flags[s].nextStable => phase = "FirstGrid" /\ ~flags[s].stable

RequestsFit(s) ==
  /\ s \notin Limiting => flags[s].change = "Regular"
  /\ flags[s].change = "IrregularRequiringMeshUpdate" => flags[s].mesh
  /\ ~flags[s].stable => flags[s].mesh

RequestIsPending(s) ==
  phase \in { "Drop", "Spreading", "MeshUpdate" } /\ flags[s].mesh
    => ~flags[s].stable

FlagsInv ==
  \A s \in Solver : NextValuesAreReset(s) /\ RequestsFit(s) /\ RequestIsPending(s)
-----------------------------------------------------------------------------
(* A step that leaves the flags alone and does not go back keeps the invariant. *)
LEMMA FlagsUnchanged ==
  ASSUME FlagsInv, UNCHANGED flags,
         phase = "FirstGrid" => \A s \in Solver : flags[s].nextStable,
         phase' \in { "Drop", "Spreading", "MeshUpdate" } => phase \in { "Drop", "Spreading" }
  PROVE  FlagsInv'
  BY DEF FlagsInv, NextValuesAreReset, RequestsFit, RequestIsPending

(***************************************************************************)
(* How the operators on the flags f of a solver change each field.         *)
(***************************************************************************)
LEMMA FlagFields ==
  ASSUME NEW f \in Flags, NEW mesh \in BOOLEAN, NEW c \in LimiterDomainChange
  PROVE  /\ SetNext(f).mesh = f.nextMesh
         /\ SetNext(f).stable = f.nextStable
         /\ SetNext(f).change = f.nextChange
         /\ ~SetNext(f).nextMesh
         /\ SetNext(f).nextStable
         /\ SetNext(f).nextChange = "Regular"
         /\ UpdateNext(f, mesh, c).nextMesh = (f.nextMesh \/ mesh)
         /\ UpdateNext(f, mesh, c).nextStable = (f.nextStable /\ ~(f.nextMesh \/ mesh))
         /\ UpdateNext(f, mesh, c).nextChange = Worst(f.nextChange, c)
         /\ UpdateNext(f, mesh, c).mesh = f.mesh
         /\ UpdateNext(f, mesh, c).stable = f.stable
         /\ UpdateNext(f, mesh, c).change = f.change
         /\ Memorise(f).nextMesh = (f.nextMesh \/ f.mesh)
         /\ Memorise(f).nextStable = f.nextStable
         /\ Memorise(f).nextChange = Worst(f.nextChange, f.change)
  BY DEF Flags, SetNext, UpdateNext, Memorise

LEMMA FlagsInit == Init => FlagsInv
  BY DEF Init, FlagsInv, NextValuesAreReset, RequestsFit, RequestIsPending

(* One sweep of createMesh: only solvers with a request may become unstable. *)
LEMMA FlagsAfterMeshRefinement ==
  ASSUME TypeOK, FlagsInv, MeshRefinementSweep,
         phase' \in { "Grid", "ExtraGrid" }
  PROVE  FlagsInv'
<1>1. PICK stable \in [Solver -> BOOLEAN] :
        flags' = [ s \in Solver |->
          IF flags[s].mesh
          THEN [ flags[s] EXCEPT !.stable = flags[s].nextStable /\ stable[s],
                                 !.nextStable = TRUE ]
          ELSE flags[s] ]
  BY DEF MeshRefinementSweep
<1>2. ASSUME NEW s \in Solver
      PROVE  (NextValuesAreReset(s) /\ RequestsFit(s) /\ RequestIsPending(s))'
  <2>1. flags[s] \in Flags
    BY DEF TypeOK
  <2>2. CASE flags[s].mesh
    <3>1. /\ flags'[s].mesh = flags[s].mesh
          /\ flags'[s].nextMesh = flags[s].nextMesh
          /\ flags'[s].nextStable
          /\ flags'[s].change = flags[s].change
          /\ flags'[s].nextChange = flags[s].nextChange
      BY <1>1, <2>1, <2>2 DEF Flags
    <3> QED
      BY <2>2, <3>1 DEF FlagsInv, NextValuesAreReset, RequestsFit, RequestIsPending
  <2>3. CASE ~flags[s].mesh
    BY <1>1, <2>3 DEF FlagsInv, NextValuesAreReset, RequestsFit, RequestIsPending
  <2> QED
    BY <2>2, <2>3
<1> QED
  BY <1>2 DEF FlagsInv

(* A time step: what the cells report becomes the solvers' requests. *)
LEMMA FlagsAfterTimeStep ==
  ASSUME TypeOK, FlagsInv, ADERDGTimeStep
  PROVE  FlagsInv'
<1>1. PICK report \in CellReports :
        flags' = [ s \in Solver |->
          SetNext(UpdateNext(SetNext(flags[s]), report.mesh[s], report.change[s])) ]
  BY DEF ADERDGTimeStep
<1>2. ASSUME NEW s \in Solver
      PROVE  (NextValuesAreReset(s) /\ RequestsFit(s) /\ RequestIsPending(s))'
  <2> DEFINE first  == SetNext(flags[s])
             second == UpdateNext(first, report.mesh[s], report.change[s])
  <2>1. first \in Flags /\ report.mesh[s] \in BOOLEAN
                        /\ report.change[s] \in LimiterDomainChange
    BY SetNextType, ReportType DEF TypeOK
  <2>2. ~first.nextMesh /\ first.nextStable /\ first.nextChange = "Regular"
    BY FlagFields, "Regular" \in LimiterDomainChange DEF TypeOK, LimiterDomainChange
  <2>3. second \in Flags
    BY <2>1, UpdateNextType
  <2> HIDE DEF first
  <2>4. /\ second.nextMesh = report.mesh[s]
        /\ second.nextStable = ~report.mesh[s]
        /\ second.nextChange = report.change[s]
    BY <2>1, <2>2, FlagFields DEF Worst
  <2> HIDE DEF second
  <2>5. flags'[s] = SetNext(second)
    BY <1>1 DEF first, second
  <2>6. /\ flags'[s].mesh = report.mesh[s]
        /\ flags'[s].stable = ~report.mesh[s]
        /\ flags'[s].change = report.change[s]
        /\ ~flags'[s].nextMesh
        /\ flags'[s].nextStable
        /\ flags'[s].nextChange = "Regular"
    <3>1. /\ SetNext(second).mesh = second.nextMesh
          /\ SetNext(second).stable = second.nextStable
          /\ SetNext(second).change = second.nextChange
          /\ ~SetNext(second).nextMesh
          /\ SetNext(second).nextStable
          /\ SetNext(second).nextChange = "Regular"
      BY <2>1, <2>3, FlagFields
    <3> QED
      BY <2>4, <2>5, <3>1
  <2>7. /\ s \notin Limiting => report.change[s] = "Regular"
        /\ report.change[s] = "IrregularRequiringMeshUpdate" => report.mesh[s]
    BY DEF CellReports
  <2> QED
    BY <2>6, <2>7 DEF NextValuesAreReset, RequestsFit, RequestIsPending
<1> QED
  BY <1>2 DEF FlagsInv

(* The spreading keeps the requests of a solver and may add one. *)
LEMMA FlagsAfterSpreading ==
  ASSUME TypeOK, FlagsInv, LimiterStatusSpreading
  PROVE  FlagsInv'
<1>1. PICK request \in SUBSET (Limiting \cap MeshRequesters) :
        flags' = [ s \in Solver |->
          IF s \notin Limiting \/ flags[s].change = "Regular" THEN flags[s]
          ELSE SetNext(
                 UpdateNext(Memorise(flags[s]), s \in request,
                            IF s \in request THEN "IrregularRequiringMeshUpdate"
                                             ELSE "Regular")) ]
  BY DEF LimiterStatusSpreading
<1>2. phase = "Spreading"
  BY DEF LimiterStatusSpreading, Enter
<1>3. ASSUME NEW s \in Solver
      PROVE  (NextValuesAreReset(s) /\ RequestsFit(s) /\ RequestIsPending(s))'
  <2>1. CASE s \notin Limiting \/ flags[s].change = "Regular"
    <3>1. flags'[s] = flags[s]
      BY <1>1, <2>1
    <3> QED
      BY <1>2, <3>1 DEF FlagsInv, NextValuesAreReset, RequestsFit, RequestIsPending
  <2>2. CASE s \in Limiting /\ flags[s].change # "Regular"
    <3> DEFINE asked  == s \in request
               change == IF asked THEN "IrregularRequiringMeshUpdate" ELSE "Regular"
               first  == Memorise(flags[s])
               second == UpdateNext(first, asked, change)
    <3>1. /\ change \in LimiterDomainChange
          /\ asked \in BOOLEAN
          /\ asked => change = "IrregularRequiringMeshUpdate"
          /\ ~asked => change = "Regular"
      BY DEF LimiterDomainChange
    <3>2. flags'[s] = SetNext(second)
      BY <1>1, <2>2
    <3>3. flags[s] \in Flags
      BY DEF TypeOK
    <3>4. ~flags[s].nextMesh /\ flags[s].nextChange = "Regular" /\ flags[s].nextStable
      BY <1>2 DEF FlagsInv, NextValuesAreReset
    <3>5. first \in Flags
      BY <3>3, MemoriseType
    <3>6. /\ first.nextMesh = flags[s].mesh
          /\ first.nextStable
          /\ first.nextChange = flags[s].change
      BY <3>1, <3>3, <3>4, FlagFields DEF Worst, Flags
    <3> HIDE DEF asked, change, first
    <3>7. second \in Flags
      BY <3>1, <3>5, UpdateNextType
    <3>8. /\ second.nextMesh = (flags[s].mesh \/ asked)
          /\ second.nextStable = ~(flags[s].mesh \/ asked)
          /\ second.nextChange = Worst(flags[s].change, change)
      BY <3>1, <3>5, <3>6, FlagFields
    <3> HIDE DEF second
    <3>9. /\ flags'[s].mesh = (flags[s].mesh \/ asked)
          /\ flags'[s].stable = ~(flags[s].mesh \/ asked)
          /\ flags'[s].change = Worst(flags[s].change, change)
          /\ ~flags'[s].nextMesh
          /\ flags'[s].nextStable
          /\ flags'[s].nextChange = "Regular"
      BY <3>1, <3>2, <3>7, <3>8, FlagFields
    <3>10. flags[s].change = "IrregularRequiringMeshUpdate" => flags[s].mesh
      BY DEF FlagsInv, RequestsFit
    <3>11. Worst(flags[s].change, change) = "IrregularRequiringMeshUpdate"
             => flags[s].mesh \/ asked
      BY <3>1, <3>10 DEF Worst
    <3>12. NextValuesAreReset(s)' /\ RequestIsPending(s)'
      BY <3>9 DEF NextValuesAreReset, RequestIsPending
    <3>13. RequestsFit(s)'
      BY <2>2, <3>9, <3>11 DEF RequestsFit
    <3> QED
      BY <3>12, <3>13
  <2> QED
    BY <2>1, <2>2
<1> QED
  BY <1>3 DEF FlagsInv

(* The first step size: the computing solvers' requests are done. *)
LEMMA FlagsAfterInitialTimeStepSize ==
  ASSUME TypeOK, FlagsInv, InitialTimeStepSizeComputation
  PROVE  FlagsInv'
<1>1. phase = "InitialTimeStepSize" /\ phase' = "InitialPrediction"
  BY DEF InitialTimeStepSizeComputation
<1>2. ASSUME NEW s \in Solver
      PROVE  (NextValuesAreReset(s) /\ RequestsFit(s) /\ RequestIsPending(s))'
  <2>1. flags'[s] = IF s \in Computing(algorithmSection) THEN SetNext(flags[s])
                                                          ELSE flags[s]
    BY DEF InitialTimeStepSizeComputation
  <2>2. CASE s \in Computing(algorithmSection)
    <3>1. flags[s].nextStable /\ ~flags[s].nextMesh /\ flags[s].nextChange = "Regular"
      BY <1>1 DEF FlagsInv, NextValuesAreReset
    <3>2. /\ ~flags'[s].mesh
          /\ flags'[s].stable
          /\ flags'[s].change = "Regular"
          /\ ~flags'[s].nextMesh
          /\ flags'[s].nextStable
          /\ flags'[s].nextChange = "Regular"
      BY <2>1, <2>2, <3>1 DEF SetNext
    <3> QED
      BY <3>2 DEF NextValuesAreReset, RequestsFit, RequestIsPending
  <2>3. CASE s \notin Computing(algorithmSection)
    BY <1>1, <2>1, <2>3 DEF FlagsInv, NextValuesAreReset, RequestsFit, RequestIsPending
  <2> QED
    BY <2>2, <2>3
<1> QED
  BY <1>2 DEF FlagsInv

(* The global recomputation reports nothing. *)
LEMMA FlagsAfterGlobalRecomputation ==
  ASSUME TypeOK, FlagsInv, GlobalRecomputation
  PROVE  FlagsInv'
<1>1. phase = "GlobalRecomputation" /\ phase' = "Rerun"
  BY DEF GlobalRecomputation, Enter, Successor
<1>2. ASSUME NEW s \in Solver PROVE flags'[s] = flags[s]
  <2>1. flags[s] \in Flags
    BY DEF TypeOK
  <2>2. ~flags[s].nextMesh /\ flags[s].nextStable /\ flags[s].nextChange = "Regular"
    BY <1>1 DEF FlagsInv, NextValuesAreReset
  <2>3. UpdateNext(flags[s], FALSE, "Regular") = flags[s]
    BY <2>1, <2>2 DEF UpdateNext, Worst, Flags
  <2> QED
    BY <2>3 DEF GlobalRecomputation
<1> QED
  BY <1>1, <1>2 DEF FlagsInv, NextValuesAreReset, RequestsFit, RequestIsPending

LEMMA FlagsNext == TypeOK /\ FlagsInv /\ [Next]_vars => FlagsInv'
<1> SUFFICES ASSUME TypeOK, FlagsInv, [Next]_vars PROVE FlagsInv'
  OBVIOUS
<1>1. CASE CreateMeshIterate
  BY <1>1, FlagsAfterMeshRefinement DEF CreateMeshIterate
<1>2. CASE StartExtraIterations
  BY <1>2, FlagsUnchanged DEF StartExtraIterations
<1>3. CASE CreateMeshExtraIterate
  BY <1>3, FlagsAfterMeshRefinement DEF CreateMeshExtraIterate
<1>4. CASE FinishMesh
  BY <1>4, FlagsUnchanged DEF FinishMesh
<1>5. CASE InitialTimeStepSizeComputation
  BY <1>5, FlagsAfterInitialTimeStepSize
<1>6. CASE InitialPrediction
  BY <1>6, FlagsUnchanged DEF InitialPrediction, PredictAndInitialiseFused
<1>7. CASE ADERDGTimeStep
  BY <1>7, FlagsAfterTimeStep
<1>8. CASE SkipPhase
  BY <1>8, FlagsUnchanged DEF SkipPhase, Successor
<1>9. CASE DropNeighbourData
  BY <1>9, FlagsUnchanged DEF DropNeighbourData, Enter, Successor
<1>10. CASE LimiterStatusSpreading
  BY <1>10, FlagsAfterSpreading
<1>11. CASE StartMeshUpdate
  BY <1>11 DEF StartMeshUpdate, FlagsInv, NextValuesAreReset, RequestsFit,
               RequestIsPending
<1>12. CASE FinaliseMeshRefinementAndReinitialisation
  BY <1>12, FlagsUnchanged
     DEF FinaliseMeshRefinementAndReinitialisation, Enter, Successor
<1>13. CASE LocalRecomputationAndTimeStepSizeComputation
  BY <1>13, FlagsUnchanged
     DEF LocalRecomputationAndTimeStepSizeComputation, Enter, Successor
<1>14. CASE PredictionAfterMeshUpdate
  BY <1>14, FlagsUnchanged
     DEF PredictionAfterMeshUpdate, PredictAndInitialiseFused, Enter, Successor
<1>15. CASE GlobalRecomputation
  BY <1>15, FlagsAfterGlobalRecomputation
<1>16. CASE PredictionRerun
  BY <1>16, FlagsUnchanged DEF PredictionRerun, Enter, Successor
<1>17. CASE EndSimulation
  BY <1>17, FlagsUnchanged DEF EndSimulation
<1>18. CASE Terminating \/ UNCHANGED vars
  BY <1>18 DEF Terminating, vars, FlagsInv, NextValuesAreReset, RequestsFit,
               RequestIsPending
<1> QED
  BY <1>1, <1>2, <1>3, <1>4, <1>5, <1>6, <1>7, <1>8, <1>9, <1>10, <1>11, <1>12, <1>13,
     <1>14, <1>15, <1>16, <1>17, <1>18 DEF Next

(* In every reachable state the request flags fit together. *)
THEOREM FlagsInvariant == Spec => []FlagsInv
<1>1. Init => FlagsInv
  BY FlagsInit
<1>2. TypeOK /\ FlagsInv /\ [Next]_vars => FlagsInv'
  BY FlagsNext
<1> QED
  BY <1>1, <1>2, TypeCorrect, PTL DEF Spec

(***************************************************************************)
(* Only solvers that requested a mesh update, and are marked stable again  *)
(* by MeshRefinement, are unstable while createMesh iterates: no other     *)
(* solver keeps its loop running.                                          *)
(***************************************************************************)
THEOREM UnstableSolversUpdate == Spec => []OnlyUpdatingSolversAreUnstable
<1>1. FlagsInv => OnlyUpdatingSolversAreUnstable
  BY DEF FlagsInv, RequestsFit, OnlyUpdatingSolversAreUnstable
<1> QED
  BY <1>1, FlagsInvariant, PTL

(***************************************************************************)
(* What updateMeshFusedTimeStepping asserts of a solver that recomputes    *)
(* globally holds when the runner comes to updating the mesh.              *)
(***************************************************************************)
THEOREM GlobalRecomputationHasMeshUpdate == Spec => []GlobalRecomputationRefines
<1>1. FlagsInv => GlobalRecomputationRefines
  BY DEF FlagsInv, RequestsFit, RequestIsPending, GlobalRecomputationRefines, Limiting
<1> QED
  BY <1>1, FlagsInvariant, PTL
=============================================================================
