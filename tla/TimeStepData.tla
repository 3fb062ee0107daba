---------------------------- MODULE TimeStepData ----------------------------
(***************************************************************************)
(* The time step data of a solver and the operations on it.                *)
(*                                                                         *)
(* An ADER-DG solver keeps three generations: the previous and the current *)
(* corrector (a time stamp and a step size each), the predictor, which in  *)
(* the fused scheme runs one step ahead, and the minimum over the cells    *)
(* that will become the next predictor step size.  A Finite Volumes solver *)
(* keeps one stamp and step size and the next one.                         *)
(*                                                                         *)
(* Times are natural numbers.  MaxDouble stands for                        *)
(* numeric_limits<double>::max(), WeightInTenths for the prediction rerun  *)
(* weight, and products are rounded up, so that a positive step size stays *)
(* positive, as it does in floating point.                                 *)
(***************************************************************************)
EXTENDS Integers

CONSTANTS MaxDouble, WeightInTenths

ASSUME TimeStepDataAssumption ==
  /\ MaxDouble \in Nat \ {0}
  /\ WeightInTenths \in 1..10

TimeSteppingScheme == { "Global", "GlobalFixed" }

ADERDGTimeStepData ==
  [ previousStamp : Nat, previousSize : Nat,
    correctorStamp : Nat, correctorSize : Nat,
    predictorStamp : Nat, predictorSize : Nat,
    nextPredictorSize : Nat ]

FiniteVolumesTimeStepData == [ stamp : Nat, size : Nat, nextSize : Nat ]

Smaller(a, b) == IF a <= b THEN a ELSE b

(* weight * t, and the average of a and b, rounded up. *)
Weighted(t) == (WeightInTenths * t + 9) \div 10
Average(a, b) == (a + b + 1) \div 2
-----------------------------------------------------------------------------
(***************************************************************************)
(* initSolver leaves the next step size at the constructor's maximum.      *)
(***************************************************************************)
InitialADERDG(t) ==
  [ previousStamp |-> t, previousSize |-> 0,
    correctorStamp |-> t, correctorSize |-> 0,
    predictorStamp |-> t, predictorSize |-> 0,
    nextPredictorSize |-> MaxDouble ]

InitialFiniteVolumes(t) == [ stamp |-> t, size |-> 0, nextSize |-> MaxDouble ]

(***************************************************************************)
(* startNewTimeStep shifts every generation by one.                        *)
(***************************************************************************)
StartNewTimeStep(d, scheme) ==
  [ previousStamp |-> d.correctorStamp, previousSize |-> d.correctorSize,
    correctorStamp |-> d.predictorStamp, correctorSize |-> d.predictorSize,
    predictorStamp |-> d.predictorStamp + d.predictorSize,
    predictorSize |-> d.nextPredictorSize,
    nextPredictorSize |-> IF scheme = "Global" THEN MaxDouble
                                               ELSE d.nextPredictorSize ]

StartNewFiniteVolumesTimeStep(d, scheme) ==
  [ stamp |-> d.stamp + d.size, size |-> d.nextSize,
    nextSize |-> IF scheme = "Global" THEN MaxDouble ELSE d.nextSize ]

(* Faulty: the predictor stays ahead, or keeps its step size. *)
ZeroButPredictorAhead(d) == [ d EXCEPT !.correctorSize = 0, !.predictorSize = 0 ]
ZeroOnlyCorrector(d) ==
  [ d EXCEPT !.correctorSize = 0, !.predictorStamp = d.correctorStamp ]

ZeroTimeStepSizes(d) ==
  [ d EXCEPT !.correctorSize = 0, !.predictorSize = 0,
             !.predictorStamp = d.correctorStamp ]

(***************************************************************************)
(* rollbackToPreviousTimeStep shifts back; the previous generation is lost.*)
(***************************************************************************)
RollbackKeepingPredictorStamp(d, scheme) == \* faulty
  [ previousStamp |-> MaxDouble, previousSize |-> MaxDouble,
    correctorStamp |-> d.previousStamp, correctorSize |-> d.previousSize,
    predictorStamp |-> d.predictorStamp, predictorSize |-> d.correctorSize,
    nextPredictorSize |-> MaxDouble ]

RollbackWithReversedDifference(d, scheme) == \* faulty: size from the stamps
  [ previousStamp |-> MaxDouble, previousSize |-> MaxDouble,
    correctorStamp |-> d.previousStamp,
    correctorSize |-> d.previousStamp - d.correctorStamp,
    predictorStamp |-> d.correctorStamp, predictorSize |-> d.correctorSize,
    nextPredictorSize |-> MaxDouble ]

RollbackToPreviousTimeStep(d, scheme) ==
  [ previousStamp |-> MaxDouble, previousSize |-> MaxDouble,
    correctorStamp |-> d.previousStamp, correctorSize |-> d.previousSize,
    predictorStamp |-> d.correctorStamp, predictorSize |-> d.correctorSize,
    nextPredictorSize |-> IF scheme = "Global" THEN MaxDouble
                                               ELSE d.nextPredictorSize ]

(***************************************************************************)
(* Only global time stepping adapts the step size in every step: the fixed *)
(* scheme only while predictor and corrector stand at the same time.       *)
(***************************************************************************)
UpdateMinNextPredictorTimeStepSize(d, t, scheme) ==
  IF scheme = "Global" \/ d.predictorStamp = d.correctorStamp
  THEN [ d EXCEPT !.nextPredictorSize = Smaller(@, t) ]
  ELSE d

(***************************************************************************)
(* The predictor ran ahead with predictorSize, the cells only now say what *)
(* was stable.  A step size of zero (mesh refinement) counts as stable.    *)
(***************************************************************************)
UsedTimeStepSizeWasInstable(d) == d.predictorSize > d.nextPredictorSize

CorrectOnlyNextSize(d, scheme) == \* faulty: the unstable size stays in use
  LET stable == d.nextPredictorSize
      used   == IF d.predictorSize = 0 THEN stable ELSE d.predictorSize
  IN  UpdateMinNextPredictorTimeStepSize(
        d, IF UsedTimeStepSizeWasInstable(d) THEN Weighted(stable)
                                             ELSE Average(used, Weighted(stable)),
        scheme)

(***************************************************************************)
(* What reinitialises an unstable size.  endIteration can be told to leave *)
(* this out (VetoFusedTimeSteppingTimeStepSizeReinitialisation), but       *)
(* nothing ever sets that switch.                                          *)
(***************************************************************************)
ReinitialiseIfInstable(d, scheme) ==
  LET stable == d.nextPredictorSize
      used   == IF d.predictorSize = 0 THEN stable ELSE d.predictorSize
  IN  IF UsedTimeStepSizeWasInstable(d)
      THEN [ UpdateMinNextPredictorTimeStepSize(d, Weighted(stable), scheme)
             EXCEPT !.predictorSize = Weighted(stable) ]
      ELSE UpdateMinNextPredictorTimeStepSize(
             d, Average(used, Weighted(stable)), scheme)

(***************************************************************************)
(* TimeStepSizeComputation::endIteration for one ADER-DG solver whose      *)
(* cells found t to be stable: what is known of the next step size,        *)
(* whether the last predictor was unstable, and the new time step data.    *)
(***************************************************************************)
WithStableSize(d, t, scheme) == UpdateMinNextPredictorTimeStepSize(d, t, scheme)

NextTimeStep(d, t, scheme) ==
  StartNewTimeStep(ReinitialiseIfInstable(WithStableSize(d, t, scheme), scheme), scheme)

WasInstable(d, t, scheme) ==
  UsedTimeStepSizeWasInstable(WithStableSize(d, t, scheme))

NextFiniteVolumesTimeStep(d, t, scheme) ==
  StartNewFiniteVolumesTimeStep([ d EXCEPT !.nextSize = Smaller(@, t) ], scheme)

(***************************************************************************)
(* FusedTimeSteppingInitialisation lets the predictor run one step ahead.  *)
(***************************************************************************)
RunAheadOnly(d) == \* faulty: the corrector keeps its zero step size
  [ d EXCEPT !.predictorStamp = d.predictorStamp + d.predictorSize ]

InitialiseFusedTimeStepping(d) ==
  [ d EXCEPT !.predictorStamp = d.predictorStamp + d.predictorSize,
             !.correctorSize = d.predictorSize ]

(***************************************************************************)
(* What the end of the same mapping does to every limiting solver.         *)
(***************************************************************************)
TakeOverSizesInReverseOrder(d) == \* faulty: the corrector gets the old size
  [ d EXCEPT !.correctorSize = d.previousSize, !.previousSize = d.predictorSize ]

InitFusedSolverTimeStepSizes(d) ==
  [ d EXCEPT !.previousSize = d.predictorSize, !.correctorSize = d.predictorSize ]
=============================================================================
