-------------------------- MODULE FusedTimeStepping --------------------------
(***************************************************************************)
(* The fused ADER-DG time stepping loop of the runner: initial mesh, first *)
(* predictor, then time steps, each followed by a mesh update, a local or  *)
(* global recomputation and a predictor rerun where a solver asked for it. *)
(*                                                                         *)
(* One action is one grid sweep (repository.iterate()) with everything its *)
(* mappings change in a solver: the request flags, the time step data and  *)
(* the face data and metadata on the way between neighbouring ranks.  The  *)
(* ranks run the sections in step and agree on the flags (broadcast and    *)
(* reduction); the model is one such rank and its neighbour, which sends   *)
(* what this one sends.  What the cells find out (the stable step size,    *)
(* the refinement criterion, the limiter's verdict) is an input.           *)
(***************************************************************************)
EXTENDS TimeStepData, AlgorithmSections, FiniteSets

CONSTANTS
  Solver,         \* RegisteredSolvers
  TypeOf,         \* Solver::getType()
  TimeStepping,   \* Solver::getTimeStepping()
  StepSizes,      \* the stable step sizes the cells may report
  MeshRequesters, \* solvers whose refinement criterion may ask for an update
  Changes,        \* limiter domain changes the cells may report
  EndTime,        \* the simulation end time
  MaxUnstable     \* grid iterations per mesh in which the grid still changes

ASSUME FusedTimeSteppingAssumption ==
  /\ TypeOf \in [Solver -> Type]
  /\ TimeStepping \in [Solver -> TimeSteppingScheme]
  /\ StepSizes \subseteq 1..(MaxDouble - 1)
  /\ MeshRequesters \subseteq Solver
  /\ Changes \subseteq LimiterDomainChange
  /\ "Regular" \in Changes
  /\ EndTime \in Nat
  /\ MaxUnstable \in Nat

VARIABLES
  phase,          \* the next thing runAsMaster does
  algorithmSection,
  flags,          \* the request flags of each solver and their next values
  stabilityConditionWasViolated,
  time,           \* the time step data of each solver
  faceData,       \* sets of face data sent to the neighbour, not yet received
  metadata,       \* the same for the metadata
  isFirstIteration,         \* of LimiterStatusSpreading and of MeshRefinement
  isInitialMeshRefinement,
  extraIterations,          \* of createMesh's second loop
  continueToConstructGrid,  \* the State's answer after an iteration
  unstableIterations,       \* bounded by MaxUnstable
  predictedWith,  \* history: step sizes of the predictors the cells hold
  solution        \* history: the time of the cells' solution, now and before

vars == << phase, algorithmSection, flags, stabilityConditionWasViolated, time,
           faceData, metadata, isFirstIteration, isInitialMeshRefinement,
           extraIterations, continueToConstructGrid, unstableIterations,
           predictedWith, solution >>

gridVars == << extraIterations, continueToConstructGrid, unstableIterations >>
cellVars == << predictedWith, solution >>
mailVars == << faceData, metadata >>

Limiting == { s \in Solver : TypeOf[s] = "LimitingADERDG" }
ADER     == { s \in Solver : TypeOf[s] # "FiniteVolumes" }

(***************************************************************************)
(* The kinds of cells the limiter tells apart: cells on the finest level   *)
(* with a limiter status other than Ok, the other cells on that level, and *)
(* coarser cells, which reinitialiseSolvers never touches.                 *)
(***************************************************************************)
CellClass == { "limited", "ok", "coarse" }

Phase == { "FirstGrid", "Grid", "ExtraGrid", "InitialTimeStepSize", "InitialPrediction",
           "Barrier", "Drop", "Spreading", "MeshUpdate", "Reinitialisation",
           "LocalRecomputation", "Prediction", "GlobalRecomputation", "Rerun",
           "Terminated" }

Flags == [ mesh : BOOLEAN, nextMesh : BOOLEAN, stable : BOOLEAN,
           nextStable : BOOLEAN, change : LimiterDomainChange,
           nextChange : LimiterDomainChange ]
-----------------------------------------------------------------------------
(* Who sends and who computes in the section sec, with the present flags. *)
Sending(sec) ==
  { s \in Solver : IsSending(sec, TypeOf[s], flags[s].mesh, flags[s].change) }

Computing(sec) ==
  { s \in Solver : IsComputing(sec, TypeOf[s], flags[s].mesh, flags[s].change,
                               stabilityConditionWasViolated[s]) }

OneSolverRequestedMeshUpdate == \E s \in Solver : flags[s].mesh

OneSolverHasNotAttainedStableState == \E s \in Solver : ~flags[s].stable

OneSolverRequestedLimiterStatusSpreading ==
  \E s \in Limiting : flags[s].change # "Regular" \/ flags[s].mesh

OneSolverRequestedLocalOrGlobalRecomputation ==
  \E s \in Limiting : flags[s].change # "Regular"

OneSolverRequestedGlobalRecomputation ==
  \E s \in Limiting : flags[s].change = "IrregularRequiringMeshUpdate"

StabilityConditionOfOneSolverWasViolated ==
  \E s \in ADER : stabilityConditionWasViolated[s]

MinTimeStamp(s) ==
  IF s \in ADER THEN time[s].correctorStamp ELSE time[s].stamp
MinTimeStepSize(s) ==
  IF s \in ADER THEN time[s].correctorSize ELSE time[s].size

(***************************************************************************)
(* The flags f of a solver once its next values (setNextMeshUpdateRequest, *)
(* setNextAttainedStableState, setNextLimiterDomainChange) take over.      *)
(***************************************************************************)
SetNext(f) ==
  [ mesh |-> f.nextMesh, nextMesh |-> FALSE,
    stable |-> f.nextStable, nextStable |-> TRUE,
    change |-> f.nextChange, nextChange |-> "Regular" ]

(* A faulty UpdateNext, which replaces an earlier request by the cells' one. *)
ForgetEarlierRequest(f, mesh, c) ==
  [ f EXCEPT !.nextMesh   = mesh,
             !.nextStable = @ /\ ~(f.nextMesh \/ mesh),
             !.nextChange = Worst(@, c) ]

(***************************************************************************)
(* The next values once the cells have asked for a mesh update or not, and *)
(* reported the limiter domain change c.                                   *)
(***************************************************************************)
UpdateNext(f, mesh, c) ==
  [ f EXCEPT !.nextMesh   = @ \/ mesh,
             !.nextStable = @ /\ ~(f.nextMesh \/ mesh),
             !.nextChange = Worst(@, c) ]

(***************************************************************************)
(* LimiterStatusSpreading::beginIteration enters the present requests into *)
(* the next values, so that they survive the spreading.                    *)
(***************************************************************************)
MemoriseOnlyChange(f) == [ f EXCEPT !.nextChange = Worst(@, f.change) ] \* faulty

Memorise(f) ==
  [ f EXCEPT !.nextMesh = @ \/ f.mesh, !.nextChange = Worst(@, f.change) ]

(***************************************************************************)
(* TimeStepSizeComputation over the solvers in comp, whose cells report    *)
(* the stable sizes.                                                       *)
(***************************************************************************)
ComputeTimeStepSizes(comp, size) ==
  /\ time' = [ s \in Solver |->
       IF s \notin comp THEN time[s]
       ELSE IF s \in ADER THEN NextTimeStep(time[s], size[s], TimeStepping[s])
       ELSE NextFiniteVolumesTimeStep(time[s], size[s], TimeStepping[s]) ]
  /\ stabilityConditionWasViolated' = [ s \in Solver |->
       IF s \in comp \cap ADER THEN WasInstable(time[s], size[s], TimeStepping[s])
       ELSE stabilityConditionWasViolated[s] ]

(***************************************************************************)
(* The sets of face data and metadata the sweep of the present phase       *)
(* receives from the neighbour.  MeshRefinement and LimiterStatusSpreading *)
(* skip the metadata in the first sweep after a mesh was finalised.        *)
(***************************************************************************)
LocallyRecomputing == { s \in Limiting : flags[s].change = "Irregular" }

Receivers ==
  CASE phase = "Barrier"             -> Computing("TimeStepping")
    [] phase = "Drop"                -> Computing(algorithmSection)
    [] phase = "LocalRecomputation"  -> LocallyRecomputing
    [] phase = "GlobalRecomputation" -> Computing("GlobalRecomputationAllSend")
    [] phase = "Rerun"               -> Computing("PredictionRerunAllSend")
    [] OTHER                         -> {}

ReceivesMetadata ==
  \/ phase \in { "InitialTimeStepSize", "Barrier", "Drop", "Reinitialisation",
                 "LocalRecomputation", "GlobalRecomputation", "Rerun" }
  \/ phase \in { "Grid", "ExtraGrid" } /\ ~isFirstIteration.refinement
  \/ phase = "Spreading" /\ ~isFirstIteration.spreading

Arrived == /\ \A s \in Receivers : faceData[s] > 0
           /\ ReceivesMetadata => metadata > 0

(***************************************************************************)
(* A sweep first receives, and waits for what has not arrived, then sends: *)
(* the face data of the solvers in send, and a set of metadata if sends is *)
(* true.                                                                   *)
(***************************************************************************)
Count(b) == IF b THEN 1 ELSE 0

Exchange(send, sends) ==
  /\ Arrived
  /\ faceData' = [ s \in Solver |->
       faceData[s] - Count(s \in Receivers) + Count(s \in send) ]
  /\ metadata' = metadata - Count(ReceivesMetadata) + Count(sends)

(* SolutionUpdate: the solution of the solvers in comp moves on. *)
UpdateSolution(comp) ==
  solution' = [ s \in Solver |->
    IF s \in comp
    THEN [ c \in CellClass |-> [ now    |-> solution[s][c].now + MinTimeStepSize(s),
                                 before |-> solution[s][c].now ] ]
    ELSE solution[s] ]
-----------------------------------------------------------------------------
(***************************************************************************)
(* The whole grid is on one rank, which gets its neighbour in the first    *)
(* sweep (FirstGrid).  In the parallel build, run() resets the switches    *)
(* isFirstIteration: as there is no neighbour yet, nothing is skipped.     *)
(***************************************************************************)
Init ==
  /\ phase = "FirstGrid"
  /\ algorithmSection = "TimeStepping"
  /\ flags = [ s \in Solver |->
       [ mesh |-> TRUE, nextMesh |-> FALSE, stable |-> FALSE, nextStable |-> FALSE,
         change |-> "Regular", nextChange |-> "Regular" ] ]
  /\ stabilityConditionWasViolated = [ s \in Solver |-> FALSE ]
  /\ time = [ s \in Solver |-> IF s \in ADER THEN InitialADERDG(0)
                                             ELSE InitialFiniteVolumes(0) ]
  /\ faceData = [ s \in Solver |-> 0 ]
  /\ metadata = 0
  /\ isFirstIteration = [ spreading |-> FALSE, refinement |-> FALSE ]
  /\ isInitialMeshRefinement = TRUE
  /\ extraIterations = 0
  /\ continueToConstructGrid = TRUE
  /\ unstableIterations = 0
  /\ predictedWith = [ s \in Solver |-> {} ]
  /\ solution = [ s \in Solver |-> [ c \in CellClass |-> [ now |-> 0, before |-> 0 ] ] ]

(***************************************************************************)
(* One grid sweep of createMesh.  The solvers that update their mesh have  *)
(* their step sizes zeroed; their cells say whether they are stable, and   *)
(* the State whether the grid is still under construction.  The mapping    *)
(* sends metadata in every sweep and receives it in all but the first of a *)
(* mesh update and, without a neighbour, of the run.                       *)
(***************************************************************************)
MeshRefinementSweep ==
  /\ \E stable \in [Solver -> BOOLEAN], continue \in BOOLEAN :
       /\ \/ unstableIterations < MaxUnstable
          \/ ~continue /\ \A s \in Solver : stable[s]
       /\ flags' = [ s \in Solver |->
            IF flags[s].mesh
            THEN [ flags[s] EXCEPT !.stable = flags[s].nextStable /\ stable[s],
                                   !.nextStable = TRUE ]
            ELSE flags[s] ]
       /\ continueToConstructGrid' = continue
       /\ unstableIterations' =
            IF continue \/ \E s \in Solver : ~stable[s]
            THEN unstableIterations + 1 ELSE unstableIterations
  /\ time' = [ s \in Solver |->
       IF ~flags[s].mesh THEN time[s]
       ELSE IF s \in ADER THEN ZeroTimeStepSizes(time[s])
       ELSE [ time[s] EXCEPT !.size = 0 ] ]
  /\ Exchange({}, TRUE)
  /\ isFirstIteration' = [ isFirstIteration EXCEPT !.refinement = FALSE ]
  /\ UNCHANGED << algorithmSection, stabilityConditionWasViolated,
                  isInitialMeshRefinement, cellVars >>

GridUnfinished == continueToConstructGrid \/ OneSolverHasNotAttainedStableState

CreateMeshIterate ==
  /\ phase \in { "FirstGrid", "Grid" }
  /\ GridUnfinished
  /\ MeshRefinementSweep
  /\ phase' = "Grid"
  /\ UNCHANGED extraIterations

(* A few extra iterations for the limiter status spreading. *)
StartExtraIterations ==
  /\ phase = "Grid"
  /\ ~GridUnfinished
  /\ phase' = "ExtraGrid"
  /\ extraIterations' = IF OneSolverRequestedGlobalRecomputation THEN 5 ELSE 3
  /\ UNCHANGED << algorithmSection, flags, stabilityConditionWasViolated, time,
                  mailVars, isFirstIteration, isInitialMeshRefinement,
                  continueToConstructGrid, unstableIterations, cellVars >>

CreateMeshExtraIterate ==
  /\ phase = "ExtraGrid"
  /\ extraIterations > 0 \/ GridUnfinished
  /\ MeshRefinementSweep
  /\ extraIterations' = IF extraIterations > 0 THEN extraIterations - 1 ELSE 0
  /\ UNCHANGED phase

FinishMesh ==
  /\ phase = "ExtraGrid"
  /\ extraIterations = 0 /\ ~GridUnfinished
  /\ phase' = IF isInitialMeshRefinement THEN "InitialTimeStepSize"
                                         ELSE "Reinitialisation"
  /\ UNCHANGED << algorithmSection, flags, stabilityConditionWasViolated, time,
                  mailVars, isFirstIteration, isInitialMeshRefinement, gridVars,
                  cellVars >>

(***************************************************************************)
(* FinaliseMeshRefinementAndTimeStepSizeComputation: the first step size.  *)
(* In the section TimeStepping the flags are replaced by their next values.*)
(***************************************************************************)
InitialTimeStepSizeComputation ==
  /\ phase = "InitialTimeStepSize"
  /\ \E size \in [Solver -> StepSizes] :
       ComputeTimeStepSizes(Computing(algorithmSection), size)
  /\ flags' = [ s \in Solver |-> IF s \in Computing(algorithmSection)
                                 THEN SetNext(flags[s]) ELSE flags[s] ]
  /\ Exchange({}, FALSE)
  /\ isFirstIteration' = [ spreading |-> TRUE, refinement |-> TRUE ]
  /\ isInitialMeshRefinement' = FALSE
  /\ phase' = "InitialPrediction"
  /\ algorithmSection' = "TimeStepping"
  /\ UNCHANGED << gridVars, cellVars >>

(***************************************************************************)
(* PredictionAndFusedTimeSteppingInitialisation in the section sec: the    *)
(* computing solvers predict and let the predictor data run ahead; at the  *)
(* end of the sweep all limiting solvers, computing or not, take over the  *)
(* predictor's step size.  The sending ones send.  Nothing is received.    *)
(***************************************************************************)
PredictAndInitialiseFused(sec) ==
  /\ time' = [ s \in Solver |->
       LET ahead == IF s \in Computing(sec) \cap ADER
                    THEN InitialiseFusedTimeStepping(time[s]) ELSE time[s]
       IN  IF s \in Limiting THEN InitFusedSolverTimeStepSizes(ahead) ELSE ahead ]
  /\ predictedWith' = [ s \in Solver |->
       IF s \in Computing(sec) \cap ADER THEN {time[s].predictorSize}
                                         ELSE predictedWith[s] ]
  /\ Exchange(Sending(sec), TRUE)
  /\ UNCHANGED << flags, stabilityConditionWasViolated, isFirstIteration,
                  isInitialMeshRefinement, gridVars, solution >>

InitialPrediction ==
  /\ phase = "InitialPrediction"
  /\ PredictAndInitialiseFused(algorithmSection)
  /\ phase' = "Barrier"
  /\ UNCHANGED algorithmSection
-----------------------------------------------------------------------------
(* The loop condition of runAsMaster, over the minima of all solvers. *)
LoopContinues == /\ \E s \in Solver : MinTimeStamp(s) < EndTime
                 /\ \A s \in Solver : MinTimeStepSize(s) > 0

EndSimulation ==
  /\ phase = "Barrier"
  /\ ~LoopContinues
  /\ phase' = "Terminated"
  /\ UNCHANGED << algorithmSection, flags, stabilityConditionWasViolated, time,
                  mailVars, isFirstIteration, isInitialMeshRefinement, gridVars,
                  cellVars >>

Terminating == phase = "Terminated" /\ UNCHANGED vars

(***************************************************************************)
(* The sweep ADERDGTimeStep in the section sec: merge the face data,       *)
(* update the solution with the corrector's step size, predict with the    *)
(* predictor's, compute the new step size, send.                           *)
(***************************************************************************)
AdvanceSolvers(sec, size) ==
  /\ UpdateSolution(Computing(sec))
  /\ predictedWith' = [ s \in Solver |->
       IF s \in Computing(sec) \cap ADER THEN {time[s].predictorSize}
                                         ELSE predictedWith[s] ]
  /\ ComputeTimeStepSizes(Computing(sec), size)
  /\ Exchange(Sending(sec), TRUE)

(***************************************************************************)
(* What the cells of a solver report after the solution update: whether    *)
(* they want the mesh updated, and the limiter domain change.  A change    *)
(* that needs a mesh update comes with the request for one.                *)
(***************************************************************************)
CellReports ==
  { r \in [ mesh : [Solver -> BOOLEAN], change : [Solver -> Changes] ] :
      \A s \in Solver :
        /\ r.mesh[s] => s \in MeshRequesters
        /\ r.change[s] # "Regular" => s \in Limiting
        /\ r.change[s] = "IrregularRequiringMeshUpdate" => r.mesh[s] }

(***************************************************************************)
(* SolutionUpdate::beginIteration replaces the flags by their next values, *)
(* its endIteration enters the cells' reports into the next values, and    *)
(* TimeStepSizeComputation::endIteration replaces the flags again.         *)
(***************************************************************************)
ADERDGTimeStep ==
  /\ phase = "Barrier"
  /\ LoopContinues
  /\ algorithmSection' = "TimeStepping"
  /\ \E size \in [Solver -> StepSizes] : AdvanceSolvers("TimeStepping", size)
  /\ \E report \in CellReports :
       flags' = [ s \in Solver |->
         SetNext(UpdateNext(SetNext(flags[s]), report.mesh[s], report.change[s])) ]
  /\ phase' = "Drop"
  /\ UNCHANGED << isFirstIteration, isInitialMeshRefinement, gridVars >>
-----------------------------------------------------------------------------
(***************************************************************************)
(* updateMeshFusedTimeStepping.  Needed(p) is the runner's condition for   *)
(* entering p, and Successor[p] what it looks at next.                     *)
(***************************************************************************)
Successor ==
  [ Drop |-> "Spreading", Spreading |-> "MeshUpdate",
    MeshUpdate |-> "Reinitialisation", Reinitialisation |-> "LocalRecomputation",
    LocalRecomputation |-> "Prediction", Prediction |-> "GlobalRecomputation",
    GlobalRecomputation |-> "Rerun", Rerun |-> "Barrier" ]

MeshUpdateOrRecomputation ==
  OneSolverRequestedMeshUpdate \/ OneSolverRequestedLocalOrGlobalRecomputation

MeshUpdateOrGlobalRecomputation ==
  OneSolverRequestedMeshUpdate \/ OneSolverRequestedGlobalRecomputation

Needed(p) ==
  CASE p = "Drop"               -> MeshUpdateOrRecomputation
    [] p = "Spreading"          -> OneSolverRequestedLimiterStatusSpreading
    [] p = "MeshUpdate"         -> OneSolverRequestedMeshUpdate
    [] p = "Reinitialisation"   -> MeshUpdateOrRecomputation
    [] p = "LocalRecomputation" -> MeshUpdateOrRecomputation
    [] p = "Prediction"         -> MeshUpdateOrGlobalRecomputation
    [] p = "GlobalRecomputation" -> OneSolverRequestedGlobalRecomputation
    [] p = "Rerun"              -> StabilityConditionOfOneSolverWasViolated

SkipPhase ==
  /\ phase \in DOMAIN Successor
  /\ ~Needed(phase)
  /\ phase' = Successor[phase]
  /\ UNCHANGED << algorithmSection, flags, stabilityConditionWasViolated, time,
                  mailVars, isFirstIteration, isInitialMeshRefinement, gridVars,
                  cellVars >>

Enter(p) ==
  /\ phase = p
  /\ Needed(p)
  /\ phase' = Successor[p]

(* NeighbourDataMerging in the dropping context: every solver's data goes. *)
DropNeighbourData ==
  /\ Enter("Drop")
  /\ Exchange({}, FALSE)
  /\ UNCHANGED << algorithmSection, flags, stabilityConditionWasViolated, time,
                  isFirstIteration, isInitialMeshRefinement, gridVars, cellVars >>

(***************************************************************************)
(* Five sweeps of LimiterStatusSpreading.  Solvers with a limiter domain   *)
(* change keep their requests and may add one for a mesh update.  Metadata *)
(* goes both ways in each sweep, except that the first does not receive.   *)
(***************************************************************************)
LimiterStatusSpreading ==
  /\ Enter("Spreading")
  /\ algorithmSection' = "LimiterStatusSpreading"
  /\ \E request \in SUBSET (Limiting \cap MeshRequesters) :
       flags' = [ s \in Solver |->
         IF s \notin Limiting \/ flags[s].change = "Regular" THEN flags[s]
         ELSE SetNext(
                UpdateNext(Memorise(flags[s]), s \in request,
                           IF s \in request THEN "IrregularRequiringMeshUpdate"
                                            ELSE "Regular")) ]
  /\ Exchange({}, TRUE)
  /\ isFirstIteration' = [ isFirstIteration EXCEPT !.spreading = FALSE ]
  /\ UNCHANGED << stabilityConditionWasViolated, time, isInitialMeshRefinement,
                  gridVars, cellVars >>

(* The runner enters createMesh; the grid has not been looked at yet. *)
StartMeshUpdate ==
  /\ phase = "MeshUpdate"
  /\ Needed("MeshUpdate")
  /\ phase' = "Grid"
  /\ algorithmSection' = "MeshRefinement"
  /\ unstableIterations' = 0
  /\ continueToConstructGrid' \in BOOLEAN
  /\ UNCHANGED << flags, stabilityConditionWasViolated, time, mailVars,
                  isFirstIteration, isInitialMeshRefinement, extraIterations,
                  cellVars >>

(***************************************************************************)
(* FinaliseMeshRefinementAndReinitialisation.  The solvers with a limiter  *)
(* domain change roll back their time step data, and their cells on the    *)
(* finest level the solution: all of them for a global recomputation, only *)
(* the limited ones for a local one, whose face data is sent as well.      *)
(***************************************************************************)
RolledBack(s, c) ==
  \/ flags[s].change = "Irregular" /\ c = "limited"
  \/ flags[s].change = "IrregularRequiringMeshUpdate" /\ c # "coarse"

FinaliseMeshRefinementAndReinitialisation ==
  /\ Enter("Reinitialisation")
  /\ algorithmSection' = "MeshRefinementOrLocalOrGlobalRecomputation"
  /\ time' = [ s \in Solver |->
       IF s \in Limiting /\ flags[s].change # "Regular"
       THEN RollbackToPreviousTimeStep(time[s], TimeStepping[s]) ELSE time[s] ]
  /\ solution' = [ s \in Solver |-> [ c \in CellClass |->
       IF s \in Limiting /\ RolledBack(s, c)
       THEN [ now |-> solution[s][c].before, before |-> solution[s][c].now ]
       ELSE solution[s][c] ] ]
  /\ Exchange(LocallyRecomputing, TRUE)
  /\ isFirstIteration' = [ spreading |-> TRUE, refinement |-> TRUE ]
  /\ isInitialMeshRefinement' = FALSE
  /\ UNCHANGED << flags, stabilityConditionWasViolated, gridVars, predictedWith >>

(***************************************************************************)
(* LocalRecomputationAndTimeStepSizeComputation.  The limited cells of the *)
(* locally recomputing solvers redo the rolled back step with the data the *)
(* neighbour sent in the sweep before, and predict again; every computing  *)
(* solver gets a new step size.                                            *)
(***************************************************************************)
LocalRecomputationSection ==
  IF MeshUpdateOrGlobalRecomputation THEN algorithmSection
                                     ELSE "LocalRecomputationAllSend"

LocalRecomputationAndTimeStepSizeComputation ==
  /\ Enter("LocalRecomputation")
  /\ algorithmSection' = LocalRecomputationSection
  /\ solution' = [ s \in Solver |-> [ c \in CellClass |->
       IF s \in LocallyRecomputing /\ c = "limited"
       THEN [ now    |-> solution[s][c].now + time[s].correctorSize,
              before |-> solution[s][c].now ]
       ELSE solution[s][c] ] ]
  /\ predictedWith' = [ s \in Solver |->
       IF s \in LocallyRecomputing /\ time[s].predictorSize > 0
       THEN predictedWith[s] \cup {time[s].predictorSize}
       ELSE predictedWith[s] ]
  /\ \E size \in [Solver -> StepSizes] :
       ComputeTimeStepSizes(Computing(LocalRecomputationSection), size)
  /\ Exchange(Sending(LocalRecomputationSection), TRUE)
  /\ UNCHANGED << flags, isFirstIteration, isInitialMeshRefinement, gridVars >>

(* The solvers with a new mesh predict anew; the fused scheme starts afresh. *)
PredictionSectionOfUpdatingSolvers == "MeshRefinementOrGlobalRecomputation" \* faulty

PredictionSection ==
  IF OneSolverRequestedGlobalRecomputation
  THEN "MeshRefinementOrGlobalRecomputation" ELSE "MeshRefinementAllSend"

PredictionAfterMeshUpdate ==
  /\ Enter("Prediction")
  /\ algorithmSection' = PredictionSection
  /\ PredictAndInitialiseFused(PredictionSection)

(***************************************************************************)
(* A second ADERDGTimeStep sweep, for the globally recomputing solvers.    *)
(* Outside the section TimeStepping the cells report nothing.              *)
(***************************************************************************)
GlobalRecomputation ==
  /\ Enter("GlobalRecomputation")
  /\ algorithmSection' = "GlobalRecomputationAllSend"
  /\ \E size \in [Solver -> StepSizes] :
       AdvanceSolvers("GlobalRecomputationAllSend", size)
  /\ flags' = [ s \in Solver |->
       IF s \in Computing("GlobalRecomputationAllSend")
       THEN UpdateNext(flags[s], FALSE, "Regular") ELSE flags[s] ]
  /\ UNCHANGED << isFirstIteration, isInitialMeshRefinement, gridVars >>

(***************************************************************************)
(* The predictor rerun: the solvers whose step size was unstable drop what *)
(* they received and predict with the corrected step size; all send.       *)
(* The flag stays as it is until the next step size computation.           *)
(***************************************************************************)
PredictionRerun ==
  /\ Enter("Rerun")
  /\ algorithmSection' = "PredictionRerunAllSend"
  /\ predictedWith' = [ s \in Solver |->
       IF s \in Computing("PredictionRerunAllSend")
       THEN {time[s].predictorSize} ELSE predictedWith[s] ]
  /\ Exchange(Sending("PredictionRerunAllSend"), TRUE)
  /\ UNCHANGED << flags, stabilityConditionWasViolated, time, isFirstIteration,
                  isInitialMeshRefinement, gridVars, solution >>
-----------------------------------------------------------------------------
Next ==
  \/ CreateMeshIterate \/ StartExtraIterations \/ CreateMeshExtraIterate
  \/ FinishMesh \/ InitialTimeStepSizeComputation \/ InitialPrediction
  \/ ADERDGTimeStep \/ SkipPhase \/ DropNeighbourData
  \/ LimiterStatusSpreading \/ StartMeshUpdate
  \/ FinaliseMeshRefinementAndReinitialisation
  \/ LocalRecomputationAndTimeStepSizeComputation
  \/ PredictionAfterMeshUpdate \/ GlobalRecomputation \/ PredictionRerun
  \/ EndSimulation \/ Terminating

Spec == Init /\ [][Next]_vars

(* The runner never idles: it takes the next step whenever there is one. *)
FairSpec == Spec /\ WF_vars(Next)
-----------------------------------------------------------------------------
(* The types of the variables. *)
TimeData(s) == IF s \in ADER THEN ADERDGTimeStepData ELSE FiniteVolumesTimeStepData

TypeOK ==
  /\ phase \in Phase
  /\ algorithmSection \in Section
  /\ flags \in [Solver -> Flags]
  /\ stabilityConditionWasViolated \in [Solver -> BOOLEAN]
  /\ DOMAIN time = Solver
  /\ \A s \in Solver : time[s] \in TimeData(s)
  /\ faceData \in [Solver -> Nat]
  /\ metadata \in Nat
  /\ isFirstIteration \in [ spreading : BOOLEAN, refinement : BOOLEAN ]
  /\ isInitialMeshRefinement \in BOOLEAN
  /\ extraIterations \in 0..5
  /\ continueToConstructGrid \in BOOLEAN
  /\ unstableIterations \in 0..MaxUnstable
  /\ predictedWith \in [Solver -> SUBSET Nat]
  /\ solution \in [Solver -> [CellClass -> [ now : Nat, before : Nat ]]]

(***************************************************************************)
(* No sweep waits for face data or metadata that the neighbour did not     *)
(* send: over all sections, the receives of a solver (isComputing, and the *)
(* recomputing ones) never overtake its sends (isSending).  Receives block *)
(* and both ranks run the same sections, so a violation is a hung run.     *)
(***************************************************************************)
SweepTakesPlace ==
  \/ phase \in { "FirstGrid", "Grid" } /\ GridUnfinished
  \/ phase = "ExtraGrid" /\ (extraIterations > 0 \/ GridUnfinished)
  \/ phase = "InitialTimeStepSize"
  \/ phase = "Barrier" /\ LoopContinues
  \/ phase \in DOMAIN Successor /\ Needed(phase)

NeverReceivesUnsent == SweepTakesPlace => Arrived

(***************************************************************************)
(* While the mesh is built, a solver that has not attained a stable state  *)
(* has requested the update.  Only those solvers are ever marked stable by *)
(* MeshRefinement, so any other one would keep createMesh looping forever. *)
(***************************************************************************)
OnlyUpdatingSolversAreUnstable ==
  phase \in { "MeshUpdate", "FirstGrid", "Grid", "ExtraGrid" } =>
    \A s \in Solver : ~flags[s].stable => flags[s].mesh

(***************************************************************************)
(* A solver that has to recompute globally has also requested the mesh     *)
(* update, and its mesh is not stable, when the runner comes to updating   *)
(* the mesh (the assertions in updateMeshFusedTimeStepping and             *)
(* TimeStepSizeComputation::endIteration).                                 *)
(***************************************************************************)
GlobalRecomputationRefines ==
  phase = "MeshUpdate" =>
    \A s \in Limiting :
      flags[s].change = "IrregularRequiringMeshUpdate" =>
        flags[s].mesh /\ ~flags[s].stable

(***************************************************************************)
(* The generations of an ADER-DG solver's time step data join: the         *)
(* corrector's step ends at the predictor's stamp ("the predictor time     *)
(* stamp must be one time step size ahead of the corrector time stamp",    *)
(* FusedTimeSteppingInitialisation) and, as long as a rollback may use it, *)
(* the previous step at the corrector's.  A recomputed step therefore ends *)
(* where the discarded one did.                                            *)
(***************************************************************************)
CorrectorJoinsPredictor(d) == d.correctorStamp + d.correctorSize = d.predictorStamp
PreviousJoinsCorrector(d)  == d.previousStamp + d.previousSize = d.correctorStamp

PredictorIsOneStepAhead == \A s \in ADER : CorrectorJoinsPredictor(time[s])

(* A rollback may still come for the step just done. *)
BeforeRollback ==
  phase \in { "Drop", "Spreading", "MeshUpdate", "FirstGrid", "Grid", "ExtraGrid",
               "Reinitialisation" }

GenerationsJoin ==
  /\ PredictorIsOneStepAhead
  /\ BeforeRollback => \A s \in ADER : PreviousJoinsCorrector(time[s])

(***************************************************************************)
(* Where the fused scheme starts afresh (the first prediction and the one  *)
(* after a mesh update), the predictor of a computing solver has not run   *)
(* ahead yet and has a step size: FusedTimeSteppingInitialisation asserts  *)
(* the latter, and would skip a step of the solver without the former.     *)
(***************************************************************************)
RestartsFromZeroedStep ==
  \/ phase = "InitialPrediction"
  \/ phase = "Prediction" /\ Needed("Prediction")
  => \A s \in Computing(IF phase = "Prediction" THEN PredictionSection
                                                 ELSE algorithmSection) \cap ADER :
       /\ time[s].correctorSize = 0
       /\ time[s].predictorSize \in 1..(MaxDouble - 1)

(***************************************************************************)
(* At the barrier, every cell of a solver holds a predictor computed with  *)
(* the step size the corrector is about to use: the time step exchanges    *)
(* the fluctuations "using the predictor computed in the previous sweep    *)
(* and the corrector time step size" (runOneTimeStepWithFusedAlgorithmicSteps).*)
(***************************************************************************)
PredictorMatchesCorrector ==
  phase = "Barrier" =>
    \A s \in ADER : predictedWith[s] = {time[s].correctorSize}

(***************************************************************************)
(* At the barrier, the solution in every cell of an ADER-DG solver is that *)
(* of the solver's corrector time stamp, recomputed or not.                *)
(***************************************************************************)
SolutionIsAtCorrectorStamp ==
  phase = "Barrier" =>
    \A s \in ADER, c \in CellClass : solution[s][c].now = time[s].correctorStamp

(***************************************************************************)
(* A solver that asked for nothing keeps its time step data, its solution  *)
(* and its predictors while the others update the mesh and recompute: the  *)
(* "AllSend" sections make it send, not compute.                           *)
(***************************************************************************)
KeepsItsData(s) ==
  /\ time'[s] = time[s]
  /\ solution'[s] = solution[s]
  /\ predictedWith'[s] = predictedWith[s]

AskedForNothing(s) == ~flags[s].mesh /\ flags[s].change = "Regular"

BystandersAreLeftAlone ==
  [][\A s \in Solver :
       phase \in DOMAIN Successor \ {"Rerun"} /\ AskedForNothing(s)
         => KeepsItsData(s)]_vars

(***************************************************************************)
(* The simulation gets to its end time.  It neither hangs in the mesh      *)
(* update nor leaves the loop early because a step size stayed zero after  *)
(* mesh refinement.                                                        *)
(***************************************************************************)
ReachesEndTime ==
  <>(phase = "Terminated" /\ \A s \in Solver : MinTimeStamp(s) >= EndTime)

=============================================================================
