--------------------------- MODULE LimiterStatus ---------------------------
(***************************************************************************)
(* The limiter status of the cells of a limiting ADER-DG solver, the       *)
(* solution arrays its value selects, and the local recomputation.         *)
(*                                                                         *)
(* A cell whose candidate solution fails the admissibility criteria is     *)
(* Troubled and is updated with a finite volumes patch (the "limiter").    *)
(* The cells around it are NeighbourOfTroubled1 .. 4: the two inner layers *)
(* are updated with finite volumes too, the two outer ones with ADER-DG    *)
(* but keep a projected limiter patch that the inner layers read.  A       *)
(* trouble in a cell that was no immediate neighbour of a troubled one     *)
(* makes the solver spread the status, roll back and compute the step      *)
(* again around the new troubled cells                                     *)
(* (solvers/LimitingADERDGSolver.cpp, mappings/LimiterStatusSpreading.cpp, *)
(* Reinitialisation.cpp, LocalRecomputation.cpp).                          *)
(*                                                                         *)
(* All cells are of type Cell and on the finest level of the mesh.  A      *)
(* sweep of the grid is one action: the faces of a cell are merged when    *)
(* its first vertex is touched, before either cell of a face is entered,   *)
(* so enterCell of one cell reads nothing that enterCell of another wrote. *)
(***************************************************************************)
EXTENDS Naturals, FiniteSets

CONSTANTS
  Cells,
  Neighbours,             \* the cells a cell shares a face with
  IterationsToCure,       \* _iterationsToCureTroubledCell
  TroubledSets            \* bound: the sets of cells that may fail the criteria
                          \* together in one step

ASSUME LimiterStatusAssumption ==
  /\ Neighbours \in [Cells -> SUBSET Cells]
  /\ \A c \in Cells : \A n \in Neighbours[c] : n # c /\ c \in Neighbours[n]
  /\ IterationsToCure \in Nat \ {0}
  /\ TroubledSets \subseteq SUBSET Cells
  /\ {} \in TroubledSets

VARIABLES
  phase,                  \* the sweep that comes next
  spreadings,             \* sweeps left of repository.iterate(5)
  limiterStatus,
  previousLimiterStatus,
  iterationsToCure,       \* iterationsToCureTroubledCell; 0 where it is not
                          \* read, in a cell that is not Troubled
  limiterPatches,         \* the cells with a limiter patch
  solution,               \* the contents of the four arrays, see Contents
  previousSolution,
  limiterSolution,
  previousLimiterSolution,
  predicted               \* cells whose predictor belongs to their solution

statuses == <<limiterStatus, previousLimiterStatus, iterationsToCure>>
arrays == <<solution, previousSolution, limiterSolution,
            previousLimiterSolution, predicted>>
vars == <<phase, spreadings, statuses, limiterPatches, arrays>>

Ok == 0
NeighbourOfTroubled4 == 1
NeighbourOfTroubled3 == 2
NeighbourOfTroubled2 == 3
NeighbourOfTroubled1 == 4
Troubled == 5

\* A faulty form, with two sweeps fewer.
TooFewSpreadings == 3

Spreadings == 5

\* What an array holds: the solution at the time stamp the step leads to, the
\* one a step before, or anything no step may start from: an older one, a
\* candidate that failed the criteria, or nothing that was ever written.
Contents == {"now", "before", "useless"}

\* The same array after the time stamp has moved on.
Aged == [now |-> "before", before |-> "useless", useless |-> "useless"]

UsesSolver(status) == status <= NeighbourOfTroubled3
UsesLimiter(status) == status >= NeighbourOfTroubled2

Larger(a, b) == IF a >= b THEN a ELSE b

\* determineLimiterStatus of the values mergeWithLimiterStatus left at the
\* faces of c; a boundary face holds Ok.
MergedStatus(status, c) ==
  LET faces == {Larger(status[c], status[n]) : n \in Neighbours[c]}
      values == {Ok} \cup {f - 1 : f \in faces \ {Ok}}
  IN CHOOSE v \in values : \A w \in values : w <= v

\* Which of its solvers merge the face between two cells.
NeighboursCanCommunicate(s1, s2) ==
  /\ s1 = Ok => s2 <= NeighbourOfTroubled3
  /\ s2 = Ok => s1 <= NeighbourOfTroubled3

Overlap(s1, s2) ==
  /\ s1 \in {NeighbourOfTroubled1, NeighbourOfTroubled2}
  /\ s2 \in {NeighbourOfTroubled3, NeighbourOfTroubled4}

SolverMerges(s1, s2) ==
  \/ UsesSolver(s1) /\ UsesSolver(s2)
  \/ Overlap(s1, s2)
  \/ Overlap(s2, s1)

LimiterMerges(s1, s2) ==
  \/ UsesLimiter(s1) /\ UsesLimiter(s2)
  \/ Overlap(s1, s2)
  \/ Overlap(s2, s1)

-----------------------------------------------------------------------------
(***************************************************************************)
(* A time step: updateSolution, the criteria, the limiter status, the      *)
(* limiter patch and the prediction, cell by cell.                         *)
(***************************************************************************)

\* A faulty form, which compares the counter before it is decremented.
IsCuredTooLate(T, c) ==
  c \notin T /\ limiterStatus[c] = Troubled /\ iterationsToCure[c] = 0

\* determineLimiterStatusAfterSolutionUpdate; T are the cells that fail.
IsCured(T, c) ==
  c \notin T /\ limiterStatus[c] = Troubled /\ iterationsToCure[c] = 1

StatusAfterSolutionUpdate(T, c) ==
  IF c \in T \/ (limiterStatus[c] = Troubled /\ ~IsCured(T, c))
  THEN Troubled
  ELSE IF IsCured(T, c) THEN NeighbourOfTroubled1
  ELSE MergedStatus(limiterStatus, c)

\* A faulty form, which starts the counter of a troubled cell again every step.
IterationsRestarted(T, c) ==
  IF c \in T \/ limiterStatus[c] = Troubled THEN IterationsToCure + 1 ELSE 0

IterationsAfterSolutionUpdate(T, c) ==
  IF c \in T THEN IterationsToCure + 1
  ELSE IF limiterStatus[c] = Troubled THEN iterationsToCure[c] - 1
  ELSE 0

\* A faulty form, which takes a trouble in the second layer for a regular one.
IsIrregularBeyondSecondLayer(T) ==
  \E c \in T : limiterStatus[c] < NeighbourOfTroubled2

IsIrregular(T) == \E c \in T : limiterStatus[c] < NeighbourOfTroubled1

\* A faulty form, which frees a patch as soon as the new status is Ok.
PatchesFreedAtOnce(status) == {c \in Cells : status[c] # Ok}

\* updateSolution frees the patch of a cell that was Ok when the step began;
\* allocateLimiterPatchAfterSolutionUpdate adds the ones the new status needs.
PatchesAfterSolutionUpdate(status) ==
  {c \in limiterPatches : limiterStatus[c] # Ok}
    \cup {c \in Cells : status[c] # Ok}

TimeStep(T) ==
  LET status == [c \in Cells |-> StatusAfterSolutionUpdate(T, c)]
      updated == [c \in Cells |->
                   IF c \in T /\ UsesSolver(limiterStatus[c])
                   THEN "useless" ELSE "now"]
      patches == PatchesAfterSolutionUpdate(status)
      kept(c) == limiterStatus[c] # Ok
  IN
  /\ phase = "TimeStepping"
  /\ phase' = IF IsIrregular(T) THEN "LimiterStatusSpreading" ELSE phase
  /\ spreadings' = IF IsIrregular(T) THEN Spreadings ELSE 0
  /\ previousLimiterStatus' = limiterStatus
  /\ iterationsToCure' =
       [c \in Cells |-> IterationsAfterSolutionUpdate(T, c)]
  /\ limiterStatus' = status
  /\ limiterPatches' = patches
  /\ solution' = updated
  /\ previousSolution' =
       [c \in Cells |-> IF UsesSolver(limiterStatus[c])
                        THEN Aged[solution[c]]
                        ELSE Aged[previousSolution[c]]]
  /\ limiterSolution' =
       [c \in Cells |->
         IF c \in patches /\ (kept(c) \/ UsesSolver(status[c]))
         THEN updated[c] ELSE "useless"]
  /\ previousLimiterSolution' =
       [c \in Cells |-> IF c \in patches /\ kept(c)
                        THEN Aged[limiterSolution[c]] ELSE "useless"]
  /\ predicted' = {c \in Cells : status[c] # Troubled}

-----------------------------------------------------------------------------
(***************************************************************************)
(* The recomputation: five sweeps of status spreading, the rollback and    *)
(* the second computation of the step.                                     *)
(***************************************************************************)

\* updateLimiterStatusDuringLimiterStatusSpreading
SpreadStatus(c) ==
  IF limiterStatus[c] = Troubled THEN Troubled
                                 ELSE MergedStatus(limiterStatus, c)

Spread ==
  LET status == [c \in Cells |-> SpreadStatus(c)] IN
  /\ phase = "LimiterStatusSpreading"
  /\ phase' = IF spreadings = 1 THEN "Reinitialisation" ELSE phase
  /\ spreadings' = spreadings - 1
  /\ limiterStatus' = status
  /\ limiterPatches' = limiterPatches \cup {c \in Cells : status[c] # Ok}
  /\ UNCHANGED <<previousLimiterStatus, iterationsToCure, arrays>>

RollsBackSolver(c) ==
  limiterStatus[c] # Ok /\ UsesSolver(previousLimiterStatus[c])

\* A faulty form, which forgets the inner layers of the step before.
RollsBackOuterLayersOnly(c) ==
  /\ limiterStatus[c] # Ok
  /\ previousLimiterStatus[c] \in {NeighbourOfTroubled3, NeighbourOfTroubled4}

\* The swap of the limiter's arrays, when the patch existed in that step.
RollsBackLimiter(c) ==
  limiterStatus[c] # Ok /\ previousLimiterStatus[c] # Ok

\* reinitialiseSolvers
Reinitialise ==
  LET rolledBack == [c \in Cells |->
                      IF RollsBackSolver(c) THEN previousSolution[c]
                                            ELSE solution[c]]
  IN
  /\ phase = "Reinitialisation"
  /\ phase' = "LocalRecomputation"
  /\ limiterPatches' = {c \in Cells : limiterStatus[c] # Ok}
  /\ solution' = rolledBack
  /\ previousSolution' =
       [c \in Cells |-> IF RollsBackSolver(c) THEN solution[c]
                                              ELSE previousSolution[c]]
  /\ limiterSolution' =
       [c \in Cells |->
         IF limiterStatus[c] = Ok THEN "useless"
         ELSE IF RollsBackLimiter(c) THEN previousLimiterSolution[c]
         ELSE rolledBack[c]]
  /\ previousLimiterSolution' =
       [c \in Cells |->
         IF limiterStatus[c] = Ok THEN "useless"
         ELSE IF RollsBackLimiter(c) THEN limiterSolution[c]
         ELSE previousLimiterSolution[c]]
  /\ iterationsToCure' =
       [c \in Cells |-> IF limiterStatus[c] = Troubled
                        THEN IterationsToCure + 1 ELSE iterationsToCure[c]]
  /\ UNCHANGED <<spreadings, limiterStatus, previousLimiterStatus, predicted>>

\* A faulty form, which does not predict again in the second layer.
RecomputesFirstLayerPredictor(c) ==
  \/ limiterStatus[c] = NeighbourOfTroubled1
  \/ UsesSolver(limiterStatus[c]) /\ previousLimiterStatus[c] = Troubled

\* The cells recomputePredictor predicts again.  Its guard that the predictor's
\* step size is positive always holds here, as only a mesh update zeroes it.
RecomputesPredictor(c) ==
  \/ limiterStatus[c] \in {NeighbourOfTroubled1, NeighbourOfTroubled2}
  \/ UsesSolver(limiterStatus[c]) /\ previousLimiterStatus[c] = Troubled

\* The cells of the outer layers have lent their old limiter solution to the
\* inner ones and take the new solution back from where the rollback left it.
IsOuterLayer(c) == limiterStatus[c] # Ok /\ UsesSolver(limiterStatus[c])

\* A faulty form, which leaves out the cells that were Ok before.
RestoresOldLayersOnly(c) ==
  /\ IsOuterLayer(c)
  /\ UsesSolver(previousLimiterStatus[c])
  /\ previousLimiterStatus[c] # Ok

RestoresSolver(c) == IsOuterLayer(c) /\ UsesSolver(previousLimiterStatus[c])

RestoresLimiter(c) == IsOuterLayer(c) /\ UsesLimiter(previousLimiterStatus[c])

\* recomputeSolution and recomputePredictor
Recompute ==
  LET advanced(c) == UsesLimiter(limiterStatus[c]) IN
  /\ phase = "LocalRecomputation"
  /\ phase' = "TimeStepping"
  /\ solution' =
       [c \in Cells |->
         IF advanced(c) THEN "now"
         ELSE IF RestoresSolver(c) THEN previousSolution[c]
         ELSE IF RestoresLimiter(c) THEN previousLimiterSolution[c]
         ELSE solution[c]]
  /\ previousSolution' =
       [c \in Cells |-> IF RestoresSolver(c) THEN solution[c]
                                           ELSE previousSolution[c]]
  /\ limiterSolution' =
       [c \in Cells |->
         IF advanced(c) THEN "now"
         ELSE IF RestoresSolver(c) THEN previousSolution[c]
         ELSE IF RestoresLimiter(c) THEN previousLimiterSolution[c]
         ELSE limiterSolution[c]]
  /\ previousLimiterSolution' =
       [c \in Cells |->
         IF advanced(c) \/ RestoresLimiter(c) THEN limiterSolution[c]
                                            ELSE previousLimiterSolution[c]]
  /\ predicted' = (predicted \ {c \in Cells : advanced(c)})
                    \cup {c \in Cells : RecomputesPredictor(c)}
  /\ UNCHANGED <<spreadings, statuses, limiterPatches>>

-----------------------------------------------------------------------------
(***************************************************************************)
(* The initial mesh: the status has been spread around the cells whose     *)
(* initial values fail the physical criterion, and the initial values are  *)
(* in both solutions.                                                      *)
(***************************************************************************)

\* The cells of S and those next to them.
Around(S) == {c \in Cells : c \in S \/ Neighbours[c] \cap S # {}}

\* The status of a cell by its distance from the cells of T.
StatusAround(T) ==
  LET ring1 == Around(T)
      ring2 == Around(ring1)
      ring3 == Around(ring2)
      ring4 == Around(ring3)
  IN [c \in Cells |->
        IF c \in T THEN Troubled
        ELSE IF c \in ring1 THEN NeighbourOfTroubled1
        ELSE IF c \in ring2 THEN NeighbourOfTroubled2
        ELSE IF c \in ring3 THEN NeighbourOfTroubled3
        ELSE IF c \in ring4 THEN NeighbourOfTroubled4
        ELSE Ok]

Init ==
  /\ phase = "TimeStepping"
  /\ spreadings = 0
  /\ \E T \in TroubledSets : limiterStatus = StatusAround(T)
  /\ previousLimiterStatus = [c \in Cells |-> Ok]
  /\ iterationsToCure =
       [c \in Cells |-> IF limiterStatus[c] = Troubled
                        THEN IterationsToCure + 1 ELSE 0]
  /\ limiterPatches = {c \in Cells : limiterStatus[c] # Ok}
  /\ solution = [c \in Cells |-> "now"]
  /\ previousSolution = [c \in Cells |-> "useless"]
  /\ limiterSolution =
       [c \in Cells |-> IF c \in limiterPatches THEN "now" ELSE "useless"]
  /\ previousLimiterSolution = [c \in Cells |-> "useless"]
  /\ predicted = {c \in Cells : limiterStatus[c] # Troubled}

Next ==
  \/ \E T \in TroubledSets : TimeStep(T)
  \/ Spread
  \/ Reinitialise
  \/ Recompute

Spec == Init /\ [][Next]_vars

FairSpec == Spec /\ WF_vars(Next)

-----------------------------------------------------------------------------
(***************************************************************************)
(* Properties                                                              *)
(***************************************************************************)

Phases == {"TimeStepping", "LimiterStatusSpreading", "Reinitialisation",
           "LocalRecomputation"}

\* The variables hold values of their types; a cell without a limiter patch
\* has no limiter solutions.
TypeOK ==
  /\ phase \in Phases
  /\ spreadings \in 0..Spreadings
  /\ limiterStatus \in [Cells -> Ok..Troubled]
  /\ previousLimiterStatus \in [Cells -> Ok..Troubled]
  /\ iterationsToCure \in [Cells -> 0..(IterationsToCure + 1)]
  /\ limiterPatches \subseteq Cells
  /\ solution \in [Cells -> Contents]
  /\ previousSolution \in [Cells -> Contents]
  /\ limiterSolution \in [Cells -> Contents]
  /\ previousLimiterSolution \in [Cells -> Contents]
  /\ predicted \subseteq Cells
  /\ \A c \in Cells \ limiterPatches :
       limiterSolution[c] = "useless" /\ previousLimiterSolution[c] = "useless"

\* When the faces are merged for a time step or for its recomputation, a cell
\* that is about to be updated has its boundary data from every neighbour, and
\* from the solver it is updated with: no face is left out between a cell of
\* the solver and a cell of the limiter, and mergeNeighboursBasedOnLimiterStatus
\* never stops the program because two neighbours cannot communicate.
EveryFaceIsMerged ==
  phase \in {"TimeStepping", "LocalRecomputation"} =>
    \A c \in Cells : \A n \in Neighbours[c] :
      LET s1 == limiterStatus[c]
          s2 == limiterStatus[n]
      IN /\ NeighboursCanCommunicate(s1, s2)
         /\ UsesLimiter(s1) => LimiterMerges(s1, s2)
         /\ UsesSolver(s1) /\ phase = "TimeStepping" => SolverMerges(s1, s2)

\* At the start of a step every cell holds the solution at the present time
\* stamp, and no candidate that failed the criteria; so does the limiter patch
\* of every cell of the limiter's domain, also of those that only lend it.
SolutionsAreCurrent ==
  phase = "TimeStepping" =>
    \A c \in Cells :
      /\ solution[c] = "now"
      /\ limiterStatus[c] # Ok => limiterSolution[c] = "now"

\* A recomputation starts, in each cell the limiter updates and in each cell
\* whose limiter solution such a cell reads, from the solution before the step
\* that is computed again.
RecomputesFromTheStepBefore ==
  phase = "LocalRecomputation" =>
    \A c \in Cells :
      UsesLimiter(limiterStatus[c]) =>
        \A n \in Neighbours[c] \cup {c} : limiterSolution[n] = "before"

\* At the start of a step the predictor of every cell that takes part in a
\* Riemann problem of the ADER-DG solver was computed from its present
\* solution, also where the solution was computed again.
PredictorsAreCurrent ==
  phase = "TimeStepping" =>
    \A c \in Cells : \A n \in Neighbours[c] :
      SolverMerges(limiterStatus[c], limiterStatus[n]) => c \in predicted

\* After the spreading a cell has the status that its distance to the nearest
\* troubled cell asks for: the five sweeps reach the outermost layer, and
\* nothing is left of the layers around cells that are no longer troubled.
StatusFollowsDistance ==
  phase \in {"Reinitialisation", "LocalRecomputation"} =>
    limiterStatus = StatusAround({c \in Cells : limiterStatus[c] = Troubled})

\* A limiter patch is only ever allocated in a cell that was Ok in the step
\* before, which is what ensureRequiredLimiterPatchIsAllocated asserts: in any
\* other cell the patch would start without the old limiter solution.
PatchesAreAllocatedInOkCells ==
  [][\A c \in limiterPatches' \ limiterPatches :
       previousLimiterStatus'[c] = Ok]_vars

\* When the criteria stop failing, the limiter withdraws: every cell becomes Ok
\* again and its patch is freed.
TroubleIsCured ==
  <>[][phase = "TimeStepping" => TimeStep({})]_vars
    => <>[](limiterPatches = {})
=============================================================================
