---------------------- MODULE FusedTimeSteppingTimeProofs ----------------------
(***************************************************************************)
(* The time step data of the solvers: where the generations join, when the *)
(* fused scheme starts afresh, and what that makes of predictor and        *)
(* solution.                                                               *)
(***************************************************************************)
EXTENDS FusedTimeSteppingFlagsProofs

(***************************************************************************)
(* The solvers whose time step data the mesh updates of other solvers      *)
(* leave alone: PredictionAndFusedTimeSteppingInitialisation takes over    *)
(* the predictor's step size in every limiting solver, whoever asked for   *)
(* the update.                                                             *)
(***************************************************************************)
Undisturbed == { s \in ADER : s \in Limiting => MeshRequesters \subseteq {s} }

(* Who may have requested what. *)
RequestsAreMade ==
  IF isInitialMeshRefinement
  THEN /\ phase \in { "FirstGrid", "Grid", "ExtraGrid", "InitialTimeStepSize" }
       /\ algorithmSection = "TimeStepping"
       /\ \A s \in Solver : flags[s].mesh
  ELSE /\ phase \notin { "FirstGrid", "InitialTimeStepSize" }
       /\ \A s \in Solver : flags[s].mesh => s \in MeshRequesters

SectionFits ==
  /\ phase = "InitialPrediction" => algorithmSection = "TimeStepping"
  /\ phase = "LocalRecomputation" /\ MeshUpdateOrRecomputation =>
       algorithmSection = "MeshRefinementOrLocalOrGlobalRecomputation"

(* The generations of the undisturbed solvers' data join. *)
Joined(s) ==
  /\ CorrectorJoinsPredictor(time[s])
  /\ BeforeRollback => PreviousJoinsCorrector(time[s])

(* A solver with a new mesh stands still until the fused scheme starts afresh. *)
Zeroed(d) == d.correctorSize = 0 /\ d.predictorSize = 0 /\ d.predictorStamp = d.correctorStamp

StandsStill(s) ==
  /\ isInitialMeshRefinement => Zeroed(time[s])
  /\ phase = "ExtraGrid" /\ extraIterations = 0 /\ flags[s].mesh => Zeroed(time[s])
  /\ phase = "Reinitialisation" /\ flags[s].mesh => Zeroed(time[s])
  /\ phase = "LocalRecomputation" /\ flags[s].mesh =>
       /\ time[s].predictorSize = 0
       /\ flags[s].change = "Regular" => time[s].correctorSize = 0
  /\ phase = "InitialPrediction"
       \/ (phase = "Prediction" /\ Needed("Prediction") /\ flags[s].mesh) =>
       /\ time[s].correctorSize = 0
       /\ time[s].predictorSize \in 1..(MaxDouble - 1)

(* Step sizes to come are positive, and in the fixed scheme known. *)
NextSizeIsKnown(s) ==
  /\ time[s].nextPredictorSize >= 1
  /\ TimeStepping[s] # "Global" /\ ~isInitialMeshRefinement =>
       time[s].nextPredictorSize <= MaxDouble - 1

TimeInv ==
  /\ RequestsAreMade /\ SectionFits
  /\ \A s \in ADER : StandsStill(s) /\ NextSizeIsKnown(s)
  /\ \A s \in Undisturbed : Joined(s)

(***************************************************************************)
(* The predictors in the cells are those of the corrector's step size; or  *)
(* the step size was unstable and the rerun will use the corrector's.      *)
(***************************************************************************)
Fresh(s) ==
  IF stabilityConditionWasViolated[s] THEN time[s].predictorSize = time[s].correctorSize
                                      ELSE predictedWith[s] = {time[s].correctorSize}

PredictorFits(s) ==
  /\ phase = "Barrier" => predictedWith[s] = {time[s].correctorSize}
  /\ phase \in { "Drop", "Spreading", "GlobalRecomputation", "Rerun" } => Fresh(s)
  /\ phase \in { "MeshUpdate", "Grid", "ExtraGrid", "Reinitialisation",
                 "LocalRecomputation", "Prediction" }
       /\ ~isInitialMeshRefinement /\ ~flags[s].mesh => Fresh(s)

(* The step size the fixed scheme keeps never turns out to be unstable. *)
SizeIsFixed(s) ==
  TimeStepping[s] # "Global" => time[s].predictorSize <= time[s].nextPredictorSize

(* Without local recomputations. *)
PredictorInv ==
  /\ \A s \in Solver : flags[s].change # "Irregular"
  /\ \A s \in ADER : SizeIsFixed(s)
  /\ \A s \in Undisturbed : PredictorFits(s)

(***************************************************************************)
(* Between the rollback and the local recomputation, only the limited      *)
(* cells have gone back.                                                   *)
(***************************************************************************)
SolutionFits(s, c) ==
  LET d == time[s] IN
  /\ phase # "LocalRecomputation" => solution[s][c].now = d.correctorStamp
  /\ BeforeRollback => solution[s][c].before = d.previousStamp
  /\ phase = "LocalRecomputation" =>
       solution[s][c].now = IF s \in LocallyRecomputing /\ c # "limited"
                            THEN d.predictorStamp ELSE d.correctorStamp

ReportsFit == Changes = {"Regular"} => \A s \in Solver : flags[s].change = "Regular"

(* Without global recomputations. *)
SolutionInv ==
  /\ ReportsFit
  /\ \A s \in ADER, c \in CellClass : SolutionFits(s, c)
-----------------------------------------------------------------------------
(***************************************************************************)
(* The operations on time step data, field by field.                       *)
(***************************************************************************)

(* A weighted step size is no larger, and positive. *)
LEMMA WeightedIsSmaller ==
  ASSUME NEW a \in Nat \ {0}
  PROVE  Weighted(a) \in 1..a
<1>1. WeightInTenths \in {1, 2, 3, 4, 5, 6, 7, 8, 9, 10}
  BY TimeStepDataAssumption
<1>2. WeightInTenths * a \in a..(10 * a)
  BY <1>1
<1> QED
  BY <1>2 DEF Weighted

LEMMA AverageIsBetween ==
  ASSUME NEW m \in Nat, NEW a \in 1..m, NEW b \in 1..m
  PROVE  Average(a, b) \in 1..m
  BY DEF Average

LEMMA UpdateMinFields ==
  ASSUME NEW d \in ADERDGTimeStepData, NEW t \in Nat, NEW scheme
  PROVE  LET e == UpdateMinNextPredictorTimeStepSize(d, t, scheme)
         IN  /\ e \in ADERDGTimeStepData
             /\ e.previousStamp = d.previousStamp /\ e.previousSize = d.previousSize
             /\ e.correctorStamp = d.correctorStamp /\ e.correctorSize = d.correctorSize
             /\ e.predictorStamp = d.predictorStamp /\ e.predictorSize = d.predictorSize
             /\ e.nextPredictorSize =
                  IF scheme = "Global" \/ d.predictorStamp = d.correctorStamp
                  THEN Smaller(d.nextPredictorSize, t) ELSE d.nextPredictorSize
  BY DEF UpdateMinNextPredictorTimeStepSize, ADERDGTimeStepData, Smaller

(***************************************************************************)
(* The step size computation shifts the generations.  A solver that stands *)
(* still does so for another step.  The step size after next is known      *)
(* and positive; after an unstable step, the next step size is the same.   *)
(***************************************************************************)
LEMMA NextTimeStepFields ==
  ASSUME NEW d \in ADERDGTimeStepData, NEW t \in 1..(MaxDouble - 1), NEW scheme,
         d.nextPredictorSize >= 1
  PROVE  LET n == NextTimeStep(d, t, scheme)
             isKnown == \/ scheme = "Global" \/ d.predictorStamp = d.correctorStamp
                        \/ d.nextPredictorSize <= MaxDouble - 1
             fixedIsStable == \/ scheme = "Global" \/ d.predictorStamp = d.correctorStamp
                              \/ d.predictorSize <= d.nextPredictorSize
         IN  /\ n.previousStamp = d.correctorStamp /\ n.previousSize = d.correctorSize
             /\ n.correctorStamp = d.predictorStamp
             /\ n.predictorStamp = d.predictorStamp + n.correctorSize
             /\ d.predictorSize = 0 => n.correctorSize = 0
             /\ ~WasInstable(d, t, scheme) => n.correctorSize = d.predictorSize
             /\ WasInstable(d, t, scheme) /\ fixedIsStable => n.correctorSize = n.predictorSize
             /\ n.nextPredictorSize >= 1
             /\ isKnown => n.predictorSize \in 1..(MaxDouble - 1)
             /\ scheme # "Global" => n.nextPredictorSize = n.predictorSize
<1> DEFINE e == WithStableSize(d, t, scheme)
           stable == e.nextPredictorSize
           used == IF e.predictorSize = 0 THEN stable ELSE e.predictorSize
           guess == IF UsedTimeStepSizeWasInstable(e)
                    THEN Weighted(stable) ELSE Average(used, Weighted(stable))
           f == UpdateMinNextPredictorTimeStepSize(e, guess, scheme)
           r == ReinitialiseIfInstable(e, scheme)
           adapts == scheme = "Global" \/ d.predictorStamp = d.correctorStamp
<1>0. MaxDouble \in Nat \ {0} /\ t \in Nat
  BY TimeStepDataAssumption
<1>1. /\ e \in ADERDGTimeStepData
      /\ e.previousStamp = d.previousStamp /\ e.previousSize = d.previousSize
      /\ e.correctorStamp = d.correctorStamp /\ e.correctorSize = d.correctorSize
      /\ e.predictorStamp = d.predictorStamp /\ e.predictorSize = d.predictorSize
      /\ stable = IF adapts THEN Smaller(d.nextPredictorSize, t) ELSE d.nextPredictorSize
  BY <1>0, UpdateMinFields DEF WithStableSize
<1>2. d.nextPredictorSize \in Nat /\ d.predictorSize \in Nat
  BY DEF ADERDGTimeStepData
<1>3. /\ stable \in Nat \ {0}
      /\ adapts => stable <= t
      /\ stable <= d.nextPredictorSize
  BY <1>0, <1>1, <1>2 DEF Smaller
<1>4. Weighted(stable) \in 1..stable
  BY <1>3, WeightedIsSmaller
<1>5. used \in Nat \ {0}
  BY <1>1, <1>2, <1>3
<1>6. guess \in Nat \ {0}
  <2>1. Average(used, Weighted(stable)) \in Nat \ {0}
    BY <1>3, <1>4, <1>5 DEF Average
  <2> QED
    BY <1>3, <1>4, <2>1
<1> HIDE DEF e, guess
<1>7. /\ f \in ADERDGTimeStepData
      /\ f.previousStamp = d.previousStamp /\ f.previousSize = d.previousSize
      /\ f.correctorStamp = d.correctorStamp /\ f.correctorSize = d.correctorSize
      /\ f.predictorStamp = d.predictorStamp /\ f.predictorSize = d.predictorSize
      /\ f.nextPredictorSize = IF adapts THEN Smaller(stable, guess) ELSE stable
  <2>1. guess \in Nat
    BY <1>6
  <2> QED
    BY <2>1, <1>1, UpdateMinFields
<1>8. r = IF UsedTimeStepSizeWasInstable(e)
          THEN [ f EXCEPT !.predictorSize = Weighted(stable) ] ELSE f
  BY DEF ReinitialiseIfInstable, guess
<1> HIDE DEF f
<1>9. /\ r.correctorStamp = d.correctorStamp /\ r.correctorSize = d.correctorSize
      /\ r.predictorStamp = d.predictorStamp
      /\ r.nextPredictorSize = f.nextPredictorSize
      /\ r.predictorSize = IF UsedTimeStepSizeWasInstable(e) THEN Weighted(stable)
                                                             ELSE d.predictorSize
  BY <1>7, <1>8 DEF ADERDGTimeStepData
<1> HIDE DEF r
<1>10. WasInstable(d, t, scheme) = UsedTimeStepSizeWasInstable(e)
  BY DEF WasInstable, e
<1>11. UsedTimeStepSizeWasInstable(e) <=> d.predictorSize > stable
  BY <1>1 DEF UsedTimeStepSizeWasInstable
<1> DEFINE n == NextTimeStep(d, t, scheme)
<1>12. /\ n.previousStamp = d.correctorStamp /\ n.previousSize = d.correctorSize
       /\ n.correctorStamp = d.predictorStamp
       /\ n.correctorSize = r.predictorSize
       /\ n.predictorStamp = d.predictorStamp + r.predictorSize
       /\ n.predictorSize = f.nextPredictorSize
       /\ n.nextPredictorSize = IF scheme = "Global" THEN MaxDouble ELSE f.nextPredictorSize
  BY <1>9 DEF NextTimeStep, StartNewTimeStep, r, e
<1> HIDE DEF n
<1>13. f.nextPredictorSize \in Nat \ {0} /\ f.nextPredictorSize <= stable
  BY <1>3, <1>6, <1>7 DEF Smaller
<1>14. n.nextPredictorSize >= 1
  BY <1>0, <1>12, <1>13
<1>15. ASSUME \/ adapts \/ d.nextPredictorSize <= MaxDouble - 1
       PROVE  n.predictorSize \in 1..(MaxDouble - 1)
  <2>1. stable <= MaxDouble - 1
    BY <1>0, <1>2, <1>3, <1>15
  <2> QED
    BY <1>0, <1>3, <1>12, <1>13, <2>1
<1>16. d.predictorSize = 0 => n.correctorSize = 0
  BY <1>3, <1>9, <1>11, <1>12
<1>17. ~WasInstable(d, t, scheme) => n.correctorSize = d.predictorSize
  BY <1>9, <1>10, <1>12
<1>18. ASSUME WasInstable(d, t, scheme), adapts \/ d.predictorSize <= d.nextPredictorSize
       PROVE  n.correctorSize = n.predictorSize
  <2>1. adapts
    BY <1>1, <1>2, <1>10, <1>11, <1>18
  <2>2. guess = Weighted(stable)
    BY <1>10, <1>18 DEF guess
  <2>3. Smaller(stable, guess) = Weighted(stable)
    BY <1>3, <1>4, <2>2 DEF Smaller
  <2> QED
    BY <1>7, <1>9, <1>10, <1>12, <1>18, <2>1, <2>3
<1> QED
  BY <1>9, <1>12, <1>14, <1>15, <1>16, <1>17, <1>18 DEF n

LEMMA ZeroFields ==
  ASSUME NEW d \in ADERDGTimeStepData
  PROVE  LET z == ZeroTimeStepSizes(d)
         IN  /\ z.correctorSize = 0 /\ z.predictorSize = 0
             /\ z.predictorStamp = d.correctorStamp /\ z.correctorStamp = d.correctorStamp
             /\ z.previousStamp = d.previousStamp /\ z.previousSize = d.previousSize
             /\ z.nextPredictorSize = d.nextPredictorSize
  BY DEF ZeroTimeStepSizes, ADERDGTimeStepData

LEMMA RollbackFields ==
  ASSUME NEW d \in ADERDGTimeStepData, NEW scheme
  PROVE  LET b == RollbackToPreviousTimeStep(d, scheme)
         IN  /\ b.correctorStamp = d.previousStamp /\ b.correctorSize = d.previousSize
             /\ b.predictorStamp = d.correctorStamp /\ b.predictorSize = d.correctorSize
             /\ b.nextPredictorSize = IF scheme = "Global" THEN MaxDouble
                                                           ELSE d.nextPredictorSize
  BY DEF RollbackToPreviousTimeStep

LEMMA InitialiseFusedFields ==
  ASSUME NEW d \in ADERDGTimeStepData
  PROVE  LET a == InitialiseFusedTimeStepping(d)
         IN  /\ a.correctorStamp = d.correctorStamp /\ a.correctorSize = d.predictorSize
             /\ a.predictorStamp = d.predictorStamp + d.predictorSize
             /\ a.predictorSize = d.predictorSize
             /\ a.nextPredictorSize = d.nextPredictorSize
  BY DEF InitialiseFusedTimeStepping, ADERDGTimeStepData

LEMMA InitFusedFields ==
  ASSUME NEW d \in ADERDGTimeStepData
  PROVE  LET a == InitFusedSolverTimeStepSizes(d)
         IN  /\ a.correctorStamp = d.correctorStamp /\ a.correctorSize = d.predictorSize
             /\ a.predictorStamp = d.predictorStamp /\ a.predictorSize = d.predictorSize
             /\ a.nextPredictorSize = d.nextPredictorSize
  BY DEF InitFusedSolverTimeStepSizes, ADERDGTimeStepData

-----------------------------------------------------------------------------
(***************************************************************************)
(* Who computes, and who may ask for what.                                 *)
(***************************************************************************)
LEMMA WhoComputes ==
  ASSUME TypeOK, FlagsInv
  PROVE  /\ Computing("TimeStepping") = Solver
         /\ Computing("LocalRecomputationAllSend") = LocallyRecomputing
         /\ Computing("MeshRefinementOrLocalOrGlobalRecomputation") =
              { s \in ADER : flags[s].mesh \/ flags[s].change # "Regular" }
         /\ Computing("GlobalRecomputationAllSend") =
              { s \in Limiting : flags[s].change = "IrregularRequiringMeshUpdate" }
         /\ Computing("PredictionRerunAllSend") =
              { s \in ADER : stabilityConditionWasViolated[s] }
         /\ Computing(PredictionSection) = { s \in ADER : flags[s].mesh }
<1> USE FusedTimeSteppingAssumption
        DEF Computing, IsComputing, ADERDGIsComputing, LimitingIsComputing,
            FiniteVolumesIsComputing, Type
<1>1. \A s \in Solver : /\ s \notin Limiting => flags[s].change = "Regular"
                        /\ flags[s].change = "IrregularRequiringMeshUpdate" => flags[s].mesh
  BY DEF FlagsInv, RequestsFit
<1>2. Computing("TimeStepping") = Solver
  OBVIOUS
<1>3. Computing("LocalRecomputationAllSend") = LocallyRecomputing
  BY DEF LocallyRecomputing, Limiting
<1>4. Computing("MeshRefinementOrLocalOrGlobalRecomputation") =
        { s \in ADER : flags[s].mesh \/ flags[s].change # "Regular" }
  BY <1>1 DEF ADER, Limiting
<1>5. Computing("GlobalRecomputationAllSend") =
        { s \in Limiting : flags[s].change = "IrregularRequiringMeshUpdate" }
  BY DEF Limiting
<1>6. Computing("PredictionRerunAllSend") = { s \in ADER : stabilityConditionWasViolated[s] }
  BY DEF ADER
<1>7. Computing(PredictionSection) = { s \in ADER : flags[s].mesh }
  BY <1>1 DEF ADER, Limiting, PredictionSection
<1> QED
  BY <1>2, <1>3, <1>4, <1>5, <1>6, <1>7

(* Where the fused scheme starts afresh, an undisturbed limiting solver does. *)
LEMMA UndisturbedOnesPredict ==
  ASSUME TypeOK, FlagsInv, RequestsAreMade, phase = "Prediction", Needed("Prediction"),
         NEW s \in Undisturbed, s \in Limiting
  PROVE  flags[s].mesh
<1>1. ~isInitialMeshRefinement
  BY DEF RequestsAreMade
<1>2. PICK r \in Solver : flags[r].mesh
  BY DEF Needed, MeshUpdateOrGlobalRecomputation, OneSolverRequestedMeshUpdate,
         OneSolverRequestedGlobalRecomputation, FlagsInv, RequestsFit, Limiting
<1>3. r \in MeshRequesters
  BY <1>1, <1>2 DEF RequestsAreMade
<1> QED
  BY <1>2, <1>3 DEF Undisturbed

(* A sweep of createMesh changes no request. *)
LEMMA SweepKeepsRequests ==
  ASSUME TypeOK, MeshRefinementSweep, NEW s \in Solver
  PROVE  flags'[s].mesh = flags[s].mesh /\ flags'[s].change = flags[s].change
<1>1. PICK stable \in [Solver -> BOOLEAN] :
        flags' = [ r \in Solver |->
          IF flags[r].mesh
          THEN [ flags[r] EXCEPT !.stable = flags[r].nextStable /\ stable[r],
                                 !.nextStable = TRUE ]
          ELSE flags[r] ]
  BY DEF MeshRefinementSweep
<1>2. flags[s] \in Flags
  BY DEF TypeOK
<1> QED
  BY <1>1, <1>2 DEF Flags

(* After a time step, the requests are what the cells reported. *)
LEMMA RequestsAfterTimeStep ==
  ASSUME TypeOK, FlagsInv, ADERDGTimeStep, NEW s \in Solver
  PROVE  /\ flags'[s].mesh => s \in MeshRequesters
         /\ flags'[s].change \in Changes
<1>1. PICK report \in CellReports :
        flags' = [ r \in Solver |->
          SetNext(UpdateNext(SetNext(flags[r]), report.mesh[r], report.change[r])) ]
  BY DEF ADERDGTimeStep
<1> DEFINE first  == SetNext(flags[s])
           second == UpdateNext(first, report.mesh[s], report.change[s])
<1>2. /\ flags[s] \in Flags /\ first \in Flags
      /\ report.mesh[s] \in BOOLEAN /\ report.change[s] \in LimiterDomainChange
  BY SetNextType, ReportType DEF TypeOK
<1>3. second \in Flags
  BY <1>2, UpdateNextType
<1>4. ~first.nextMesh /\ first.nextChange = "Regular"
  BY <1>2, FlagFields
<1> HIDE DEF first
<1>5. second.nextMesh = report.mesh[s] /\ second.nextChange = report.change[s]
  BY <1>2, <1>4, FlagFields DEF Worst
<1> HIDE DEF second
<1>6. SetNext(second).mesh = report.mesh[s] /\ SetNext(second).change = report.change[s]
  BY <1>2, <1>3, <1>5, FlagFields
<1>7. flags'[s] = SetNext(second)
  BY <1>1 DEF second, first
<1> QED
  BY <1>6, <1>7 DEF CellReports

(* The spreading drops no request, and adds those for a mesh update. *)
LEMMA RequestsAfterLimiterSpreading ==
  ASSUME TypeOK, FlagsInv, LimiterStatusSpreading, NEW s \in Solver
  PROVE  /\ flags[s].mesh => flags'[s].mesh
         /\ flags'[s].mesh => flags[s].mesh \/ s \in MeshRequesters
         /\ flags'[s].change \in { flags[s].change, "IrregularRequiringMeshUpdate" }
         /\ flags[s].change = "Regular" => flags'[s].change = "Regular"
<1>1. PICK request \in SUBSET (Limiting \cap MeshRequesters) :
        flags' = [ r \in Solver |->
          IF r \notin Limiting \/ flags[r].change = "Regular" THEN flags[r]
          ELSE SetNext(
                 UpdateNext(Memorise(flags[r]), r \in request,
                            IF r \in request THEN "IrregularRequiringMeshUpdate"
                                             ELSE "Regular")) ]
  BY DEF LimiterStatusSpreading
<1>2. CASE s \notin Limiting \/ flags[s].change = "Regular"
  BY <1>1, <1>2
<1>3. CASE s \in Limiting /\ flags[s].change # "Regular"
  <2> DEFINE asked  == s \in request
             change == IF asked THEN "IrregularRequiringMeshUpdate" ELSE "Regular"
             first  == Memorise(flags[s])
             second == UpdateNext(first, asked, change)
  <2>1. /\ flags[s] \in Flags /\ asked \in BOOLEAN /\ change \in LimiterDomainChange
        /\ ~flags[s].nextMesh /\ flags[s].nextChange = "Regular"
    BY DEF TypeOK, LimiterDomainChange, FlagsInv, NextValuesAreReset
  <2>2. flags'[s] = SetNext(second)
    BY <1>1, <1>3
  <2>3. change = (IF asked THEN "IrregularRequiringMeshUpdate" ELSE "Regular")
        /\ (asked => s \in MeshRequesters)
    OBVIOUS
  <2>4. first \in Flags
    BY <2>1, MemoriseType
  <2> HIDE DEF asked, change
  <2>5. first.nextMesh = (flags[s].nextMesh \/ flags[s].mesh)
        /\ first.nextChange = Worst(flags[s].nextChange, flags[s].change)
    BY <2>1, FlagFields
  <2>6. (first.nextMesh <=> flags[s].mesh) /\ first.nextChange = flags[s].change
    BY <2>1, <2>5 DEF Worst
  <2> HIDE DEF first
  <2>7. second \in Flags
    BY <2>1, <2>4, UpdateNextType
  <2>8. /\ second.nextMesh = (first.nextMesh \/ asked)
        /\ second.nextChange = Worst(first.nextChange, change)
    BY <2>1, <2>4, FlagFields
  <2> HIDE DEF second
  <2>9. SetNext(second).mesh = second.nextMesh /\ SetNext(second).change = second.nextChange
    BY <2>7, FlagFields, <2>1
  <2> QED
    BY <1>3, <2>2, <2>3, <2>6, <2>8, <2>9 DEF Worst
<1> QED
  BY <1>2, <1>3

(* The first step size computation takes the initial requests away. *)
LEMMA RequestsAfterInitialTimeStepSize ==
  ASSUME TypeOK, FlagsInv, RequestsAreMade, InitialTimeStepSizeComputation, NEW s \in Solver
  PROVE  ~flags'[s].mesh /\ flags'[s].change = "Regular"
<1>1. algorithmSection = "TimeStepping"
  BY DEF RequestsAreMade, InitialTimeStepSizeComputation
<1>2. flags'[s] = SetNext(flags[s])
  BY <1>1, WhoComputes DEF InitialTimeStepSizeComputation
<1>3. flags[s] \in Flags /\ ~flags[s].nextMesh /\ flags[s].nextChange = "Regular"
  BY DEF TypeOK, FlagsInv, NextValuesAreReset
<1>4. SetNext(flags[s]).mesh = flags[s].nextMesh /\ SetNext(flags[s]).change = flags[s].nextChange
  BY <1>3, FlagFields DEF LimiterDomainChange
<1> QED
  BY <1>2, <1>3, <1>4

(* The global recomputation changes no request. *)
LEMMA RecomputationKeepsRequests ==
  ASSUME TypeOK, GlobalRecomputation, NEW s \in Solver
  PROVE  flags'[s].mesh = flags[s].mesh /\ flags'[s].change = flags[s].change
<1>1. flags[s] \in Flags /\ "Regular" \in LimiterDomainChange /\ FALSE \in BOOLEAN
  BY DEF TypeOK, LimiterDomainChange
<1>2. UpdateNext(flags[s], FALSE, "Regular").mesh = flags[s].mesh
      /\ UpdateNext(flags[s], FALSE, "Regular").change = flags[s].change
  BY <1>1 DEF UpdateNext, Flags
<1> QED
  BY <1>2 DEF GlobalRecomputation

(***************************************************************************)
(* What the parts of the actions do to the data of an ADER-DG solver.      *)
(***************************************************************************)
LEMMA DataIsTyped ==
  ASSUME TypeOK, NEW s \in ADER
  PROVE  /\ s \in Solver /\ time[s] \in ADERDGTimeStepData
         /\ time[s].correctorStamp \in Nat /\ time[s].correctorSize \in Nat
         /\ time[s].predictorStamp \in Nat /\ time[s].predictorSize \in Nat
         /\ time[s].previousStamp \in Nat /\ time[s].previousSize \in Nat
         /\ time[s].nextPredictorSize \in Nat
  BY DEF TypeOK, TimeData, ADER, ADERDGTimeStepData

LEMMA ComputedSteps ==
  ASSUME TypeOK, NEW comp, NEW size \in [Solver -> StepSizes], ComputeTimeStepSizes(comp, size),
         NEW s \in ADER
  PROVE  /\ size[s] \in 1..(MaxDouble - 1)
         /\ s \notin comp => /\ time'[s] = time[s]
                             /\ stabilityConditionWasViolated'[s] = stabilityConditionWasViolated[s]
         /\ s \in comp => /\ time'[s] = NextTimeStep(time[s], size[s], TimeStepping[s])
                          /\ stabilityConditionWasViolated'[s] =
                               WasInstable(time[s], size[s], TimeStepping[s])
<1>1. s \in Solver /\ size[s] \in 1..(MaxDouble - 1)
  BY FusedTimeSteppingAssumption DEF ADER
<1> QED
  BY <1>1 DEF ComputeTimeStepSizes

(* Rollback and mesh refinement. *)
LEMMA RefinedData ==
  ASSUME TypeOK, MeshRefinementSweep, NEW s \in ADER
  PROVE  time'[s] = IF flags[s].mesh THEN ZeroTimeStepSizes(time[s]) ELSE time[s]
  BY DEF MeshRefinementSweep, ADER

LEMMA RolledBackData ==
  ASSUME TypeOK, FlagsInv, FinaliseMeshRefinementAndReinitialisation, NEW s \in ADER
  PROVE  time'[s] = IF flags[s].change # "Regular"
                    THEN RollbackToPreviousTimeStep(time[s], TimeStepping[s]) ELSE time[s]
  BY DEF FinaliseMeshRefinementAndReinitialisation, ADER, FlagsInv, RequestsFit

-----------------------------------------------------------------------------
(***************************************************************************)
(* The requests and the sections.                                          *)
(***************************************************************************)
LEMMA RequestsInit == Init => RequestsAreMade /\ SectionFits
  BY DEF Init, RequestsAreMade, SectionFits

LEMMA RequestsNext ==
  ASSUME TypeOK, FlagsInv, RequestsAreMade, SectionFits, [Next]_vars
  PROVE  RequestsAreMade' /\ SectionFits'
<1> USE DEF RequestsAreMade
<1>1. CASE CreateMeshIterate
  <2>1. MeshRefinementSweep /\ phase' = "Grid" /\ phase \in { "FirstGrid", "Grid" }
    BY <1>1 DEF CreateMeshIterate
  <2> QED
    BY <2>1, SweepKeepsRequests DEF MeshRefinementSweep, SectionFits
<1>2. CASE StartExtraIterations
  BY <1>2 DEF StartExtraIterations, SectionFits
<1>3. CASE CreateMeshExtraIterate
  <2>1. MeshRefinementSweep /\ phase' = "ExtraGrid" /\ phase = "ExtraGrid"
    BY <1>3 DEF CreateMeshExtraIterate
  <2> QED
    BY <2>1, SweepKeepsRequests DEF MeshRefinementSweep, SectionFits
<1>4. CASE FinishMesh
  BY <1>4 DEF FinishMesh, SectionFits
<1>5. CASE InitialTimeStepSizeComputation
  <2>1. /\ phase' = "InitialPrediction" /\ algorithmSection' = "TimeStepping"
        /\ ~isInitialMeshRefinement'
    BY <1>5 DEF InitialTimeStepSizeComputation
  <2> QED
    BY <1>5, <2>1, RequestsAfterInitialTimeStepSize DEF SectionFits
<1>6. CASE InitialPrediction
  BY <1>6 DEF InitialPrediction, PredictAndInitialiseFused, SectionFits
<1>7. CASE ADERDGTimeStep
  <2>1. phase' = "Drop" /\ isInitialMeshRefinement' = isInitialMeshRefinement /\ phase = "Barrier"
    BY <1>7 DEF ADERDGTimeStep
  <2> QED
    BY <1>7, <2>1, RequestsAfterTimeStep DEF SectionFits
<1>8. CASE SkipPhase
  <2>1. /\ phase \in DOMAIN Successor /\ ~Needed(phase) /\ phase' = Successor[phase]
        /\ UNCHANGED << flags, algorithmSection, isInitialMeshRefinement >>
    BY <1>8 DEF SkipPhase
  <2>2. phase' \in { "Spreading", "MeshUpdate", "Reinitialisation", "LocalRecomputation",
                     "Prediction", "GlobalRecomputation", "Rerun", "Barrier" }
        /\ phase \notin { "FirstGrid", "Grid", "ExtraGrid", "InitialTimeStepSize" }
        /\ (phase' = "LocalRecomputation" => phase = "Reinitialisation")
    BY <2>1 DEF Successor
  <2>3. phase' = "LocalRecomputation" => ~MeshUpdateOrRecomputation'
    BY <2>1, <2>2 DEF Needed, MeshUpdateOrRecomputation, OneSolverRequestedMeshUpdate,
                      OneSolverRequestedLocalOrGlobalRecomputation
  <2> QED
    BY <2>1, <2>2, <2>3 DEF SectionFits
<1>9. CASE DropNeighbourData
  BY <1>9 DEF DropNeighbourData, Enter, Successor, SectionFits
<1>10. CASE LimiterStatusSpreading
  <2>1. phase' = "MeshUpdate" /\ isInitialMeshRefinement' = isInitialMeshRefinement
        /\ phase = "Spreading"
    BY <1>10 DEF LimiterStatusSpreading, Enter, Successor
  <2> QED
    BY <1>10, <2>1, RequestsAfterLimiterSpreading DEF SectionFits
<1>11. CASE StartMeshUpdate
  BY <1>11 DEF StartMeshUpdate, SectionFits
<1>12. CASE FinaliseMeshRefinementAndReinitialisation
  <2>1. /\ phase = "Reinitialisation" /\ phase' = "LocalRecomputation"
        /\ algorithmSection' = "MeshRefinementOrLocalOrGlobalRecomputation"
        /\ ~isInitialMeshRefinement' /\ UNCHANGED flags
    BY <1>12 DEF FinaliseMeshRefinementAndReinitialisation, Enter, Successor
  <2> QED
    BY <2>1 DEF SectionFits
<1>13. CASE LocalRecomputationAndTimeStepSizeComputation
  <2>1. /\ phase = "LocalRecomputation" /\ phase' = "Prediction"
        /\ UNCHANGED << flags, isInitialMeshRefinement >>
    BY <1>13 DEF LocalRecomputationAndTimeStepSizeComputation, Enter, Successor
  <2> QED
    BY <2>1 DEF SectionFits
<1>14. CASE PredictionAfterMeshUpdate
  <2>1. /\ phase = "Prediction" /\ phase' = "GlobalRecomputation"
        /\ UNCHANGED << flags, isInitialMeshRefinement >>
    BY <1>14 DEF PredictionAfterMeshUpdate, PredictAndInitialiseFused, Enter, Successor
  <2> QED
    BY <2>1 DEF SectionFits
<1>15. CASE GlobalRecomputation
  <2>1. /\ phase = "GlobalRecomputation" /\ phase' = "Rerun"
        /\ UNCHANGED isInitialMeshRefinement
    BY <1>15 DEF GlobalRecomputation, Enter, Successor
  <2> QED
    BY <1>15, <2>1, RecomputationKeepsRequests DEF SectionFits
<1>16. CASE PredictionRerun
  <2>1. /\ phase = "Rerun" /\ phase' = "Barrier"
        /\ UNCHANGED << flags, isInitialMeshRefinement >>
    BY <1>16 DEF PredictionRerun, Enter, Successor
  <2> QED
    BY <2>1 DEF SectionFits
<1>17. CASE EndSimulation
  BY <1>17 DEF EndSimulation, SectionFits
<1>18. CASE Terminating \/ UNCHANGED vars
  BY <1>18 DEF Terminating, vars, SectionFits, MeshUpdateOrRecomputation,
               OneSolverRequestedMeshUpdate, OneSolverRequestedLocalOrGlobalRecomputation
<1> QED
  BY <1>1, <1>2, <1>3, <1>4, <1>5, <1>6, <1>7, <1>8, <1>9, <1>10, <1>11, <1>12, <1>13,
     <1>14, <1>15, <1>16, <1>17, <1>18 DEF Next

-----------------------------------------------------------------------------
(***************************************************************************)
(* The generations of a solver's data, step by step.                       *)
(***************************************************************************)
DataFits(s) ==
  StandsStill(s) /\ NextSizeIsKnown(s) /\ (s \in Undisturbed => Joined(s))

LEMMA TimeInit == Init => \A s \in ADER : DataFits(s)
<1> SUFFICES ASSUME Init, NEW s \in ADER PROVE DataFits(s)
  OBVIOUS
<1>1. time[s] = InitialADERDG(0)
  BY DEF Init, ADER
<1>2. /\ Zeroed(time[s]) /\ time[s].nextPredictorSize = MaxDouble
      /\ CorrectorJoinsPredictor(time[s]) /\ PreviousJoinsCorrector(time[s])
  BY <1>1 DEF InitialADERDG, Zeroed, CorrectorJoinsPredictor, PreviousJoinsCorrector
<1> QED
  BY <1>2, TimeStepDataAssumption
     DEF Init, DataFits, StandsStill, NextSizeIsKnown, Joined

(* One sweep of createMesh: what is zeroed joins. *)
LEMMA DataAfterMeshRefinement ==
  ASSUME TypeOK, FlagsInv, TimeInv, MeshRefinementSweep, NEW s \in ADER,
         phase \in { "FirstGrid", "Grid", "ExtraGrid" }, phase' \in { "Grid", "ExtraGrid" },
         phase = "ExtraGrid" => extraIterations' \in Nat
  PROVE  DataFits(s)'
<1>1. /\ time'[s] = IF flags[s].mesh THEN ZeroTimeStepSizes(time[s]) ELSE time[s]
      /\ flags'[s].mesh = flags[s].mesh /\ UNCHANGED isInitialMeshRefinement
  BY RefinedData, SweepKeepsRequests DEF MeshRefinementSweep, ADER
<1>2. flags[s].mesh => Zeroed(time'[s])
  BY <1>1, DataIsTyped, ZeroFields DEF Zeroed
<1>3. StandsStill(s)'
  BY <1>1, <1>2 DEF TimeInv, StandsStill, RequestsAreMade, ADER
<1>4. NextSizeIsKnown(s)'
  BY <1>1, DataIsTyped, ZeroFields DEF TimeInv, NextSizeIsKnown
<1>5. s \in Undisturbed => Joined(s)'
  <2>1. CASE flags[s].mesh
    <3>1. /\ CorrectorJoinsPredictor(time'[s])
          /\ PreviousJoinsCorrector(time[s]) => PreviousJoinsCorrector(time'[s])
      BY <1>1, <2>1, DataIsTyped, ZeroFields DEF CorrectorJoinsPredictor, PreviousJoinsCorrector
    <3> QED
      BY <3>1 DEF TimeInv, Joined, BeforeRollback
  <2>2. CASE ~flags[s].mesh
    BY <1>1, <2>2 DEF TimeInv, Joined, BeforeRollback
  <2> QED
    BY <2>1, <2>2
<1> QED
  BY <1>3, <1>4, <1>5 DEF DataFits

(* A step size computation shifts the generations; they still join. *)
LEMMA DataAfterComputation ==
  ASSUME TypeOK, TimeInv, NEW comp, NEW size \in [Solver -> StepSizes],
         ComputeTimeStepSizes(comp, size), NEW s \in ADER, s \in comp
  PROVE  /\ NextSizeIsKnown(s)'
         /\ s \in Undisturbed => /\ CorrectorJoinsPredictor(time'[s])
                                 /\ PreviousJoinsCorrector(time'[s])
         /\ time'[s].predictorSize \in 1..(MaxDouble - 1)
         /\ time[s].predictorSize = 0 => time'[s].correctorSize = 0
         /\ time'[s].correctorStamp = time[s].predictorStamp
         /\ time'[s].previousStamp = time[s].correctorStamp
<1>1. /\ time[s] \in ADERDGTimeStepData /\ size[s] \in 1..(MaxDouble - 1)
      /\ time'[s] = NextTimeStep(time[s], size[s], TimeStepping[s])
      /\ time[s].nextPredictorSize >= 1
  BY DataIsTyped, ComputedSteps DEF TimeInv, NextSizeIsKnown
<1>2. \/ TimeStepping[s] = "Global" \/ time[s].predictorStamp = time[s].correctorStamp
      \/ time[s].nextPredictorSize <= MaxDouble - 1
  BY DEF TimeInv, NextSizeIsKnown, StandsStill, Zeroed
<1>3. NextSizeIsKnown(s)' /\ time'[s].predictorSize \in 1..(MaxDouble - 1)
  BY <1>1, <1>2, NextTimeStepFields DEF NextSizeIsKnown
<1>4. s \in Undisturbed => /\ CorrectorJoinsPredictor(time'[s])
                           /\ PreviousJoinsCorrector(time'[s])
  <2>1. s \in Undisturbed => CorrectorJoinsPredictor(time[s])
    BY DEF TimeInv, Joined
  <2>2. /\ time'[s].correctorStamp = time[s].predictorStamp
        /\ time'[s].predictorStamp = time[s].predictorStamp + time'[s].correctorSize
        /\ time'[s].previousStamp = time[s].correctorStamp
        /\ time'[s].previousSize = time[s].correctorSize
    BY <1>1, NextTimeStepFields
  <2> QED
    BY <2>1, <2>2 DEF CorrectorJoinsPredictor, PreviousJoinsCorrector
<1> QED
  BY <1>1, <1>3, <1>4, NextTimeStepFields

(* Where nothing happens to the data and the requests, the phase may move on. *)
LEMMA DataIsKept ==
  ASSUME TypeOK, TimeInv, NEW s \in ADER, time'[s] = time[s],
         flags'[s].mesh = flags[s].mesh \/ phase' = "MeshUpdate",
         UNCHANGED isInitialMeshRefinement,
         phase' \notin { "InitialPrediction", "LocalRecomputation", "Prediction",
                         "ExtraGrid", "Reinitialisation" },
         BeforeRollback' => BeforeRollback
  PROVE  DataFits(s)'
  BY DEF TimeInv, DataFits, StandsStill, NextSizeIsKnown, Joined

(* A prediction after which the fused scheme runs ahead. *)
LEMMA DataAfterPrediction ==
  ASSUME TypeOK, TimeInv, NEW sec, PredictAndInitialiseFused(sec), NEW s \in ADER
  PROVE  /\ s \in Computing(sec) => /\ time'[s].correctorSize = time[s].predictorSize
                                    /\ predictedWith'[s] = {time[s].predictorSize}
         /\ s \notin Computing(sec) => predictedWith'[s] = predictedWith[s]
         /\ s \notin Computing(sec) \cup Limiting => time'[s] = time[s]
         /\ s \in Computing(sec) /\ CorrectorJoinsPredictor(time[s])
              /\ time[s].correctorSize = 0 => CorrectorJoinsPredictor(time'[s])
         /\ time'[s].nextPredictorSize = time[s].nextPredictorSize
         /\ time'[s].predictorSize = time[s].predictorSize
         /\ time'[s].correctorStamp = time[s].correctorStamp
<1> DEFINE ahead == IF s \in Computing(sec) THEN InitialiseFusedTimeStepping(time[s]) ELSE time[s]
<1>1. time'[s] = IF s \in Limiting THEN InitFusedSolverTimeStepSizes(ahead) ELSE ahead
  BY DEF PredictAndInitialiseFused, ADER
<1>2. time[s] \in ADERDGTimeStepData /\ ahead \in ADERDGTimeStepData
  BY DataIsTyped, TimeStepDataType, 0 \in Nat
<1>3. /\ ahead.correctorStamp = time[s].correctorStamp
      /\ ahead.predictorSize = time[s].predictorSize
      /\ ahead.nextPredictorSize = time[s].nextPredictorSize
      /\ s \in Computing(sec) =>
           /\ ahead.correctorSize = time[s].predictorSize
           /\ ahead.predictorStamp = time[s].predictorStamp + time[s].predictorSize
      /\ s \notin Computing(sec) => ahead = time[s]
  BY <1>2, InitialiseFusedFields
<1> HIDE DEF ahead
<1>4. /\ time'[s].correctorStamp = time[s].correctorStamp
      /\ time'[s].predictorSize = time[s].predictorSize
      /\ time'[s].nextPredictorSize = time[s].nextPredictorSize
      /\ s \in Computing(sec) =>
           /\ time'[s].correctorSize = time[s].predictorSize
           /\ time'[s].predictorStamp = time[s].predictorStamp + time[s].predictorSize
      /\ s \notin Computing(sec) \cup Limiting => time'[s] = time[s]
  BY <1>1, <1>2, <1>3, InitFusedFields
<1>5. /\ s \in Computing(sec) => predictedWith'[s] = {time[s].predictorSize}
      /\ s \notin Computing(sec) => predictedWith'[s] = predictedWith[s]
  BY DEF PredictAndInitialiseFused, ADER
<1> QED
  BY <1>4, <1>5, DataIsTyped DEF CorrectorJoinsPredictor

LEMMA TimeNext ==
  ASSUME TypeOK, FlagsInv, TimeInv, [Next]_vars, NEW s \in ADER
  PROVE  DataFits(s)'
<1> s \in Solver /\ RequestsAreMade /\ SectionFits /\ DataFits(s)
  BY DEF ADER, TimeInv, DataFits
<1> RequestsAreMade' /\ SectionFits'
  BY RequestsNext
<1>1. CASE CreateMeshIterate
  BY <1>1, DataAfterMeshRefinement DEF CreateMeshIterate
<1>2. CASE StartExtraIterations
  <2>1. /\ phase = "Grid" /\ phase' = "ExtraGrid" /\ extraIterations' # 0
        /\ UNCHANGED << time, flags, isInitialMeshRefinement >>
    BY <1>2 DEF StartExtraIterations
  <2> QED
    BY <2>1 DEF DataFits, StandsStill, NextSizeIsKnown, Joined, BeforeRollback
<1>3. CASE CreateMeshExtraIterate
  <2>1. extraIterations' \in Nat
    BY <1>3 DEF CreateMeshExtraIterate, TypeOK
  <2> QED
    BY <1>3, <2>1, DataAfterMeshRefinement DEF CreateMeshExtraIterate
<1>4. CASE FinishMesh
  <2>1. /\ phase = "ExtraGrid" /\ extraIterations = 0
        /\ phase' = IF isInitialMeshRefinement THEN "InitialTimeStepSize" ELSE "Reinitialisation"
        /\ UNCHANGED << time, flags, isInitialMeshRefinement >>
    BY <1>4 DEF FinishMesh
  <2> QED
    BY <2>1 DEF DataFits, StandsStill, NextSizeIsKnown, Joined, BeforeRollback
<1>5. CASE InitialTimeStepSizeComputation
  <2>1. PICK size \in [Solver -> StepSizes] :
          ComputeTimeStepSizes(Computing(algorithmSection), size)
    BY <1>5 DEF InitialTimeStepSizeComputation
  <2>2. /\ phase = "InitialTimeStepSize" /\ phase' = "InitialPrediction"
        /\ ~isInitialMeshRefinement'
    BY <1>5 DEF InitialTimeStepSizeComputation
  <2>3. s \in Computing(algorithmSection)
    BY <2>2, WhoComputes DEF RequestsAreMade
  <2>4. time[s].predictorSize = 0
    BY <2>2 DEF RequestsAreMade, DataFits, StandsStill, Zeroed
  <2> QED
    BY <2>1, <2>2, <2>3, <2>4, DataAfterComputation
       DEF DataFits, StandsStill, Joined, BeforeRollback
<1>6. CASE InitialPrediction
  <2>1. /\ phase = "InitialPrediction" /\ phase' = "Barrier"
        /\ PredictAndInitialiseFused(algorithmSection)
        /\ UNCHANGED << flags, isInitialMeshRefinement >> /\ ~isInitialMeshRefinement
    BY <1>6 DEF InitialPrediction, PredictAndInitialiseFused, RequestsAreMade
  <2>2. s \in Computing(algorithmSection) /\ time[s].correctorSize = 0
    BY <2>1, WhoComputes DEF SectionFits, DataFits, StandsStill
  <2> QED
    BY <2>1, <2>2, DataAfterPrediction
       DEF DataFits, StandsStill, NextSizeIsKnown, Joined, BeforeRollback
<1>7. CASE ADERDGTimeStep
  <2>1. PICK size \in [Solver -> StepSizes] :
          ComputeTimeStepSizes(Computing("TimeStepping"), size)
    BY <1>7 DEF ADERDGTimeStep, AdvanceSolvers
  <2>2. phase' = "Drop" /\ UNCHANGED isInitialMeshRefinement /\ ~isInitialMeshRefinement
    BY <1>7 DEF ADERDGTimeStep, RequestsAreMade
  <2>3. s \in Computing("TimeStepping")
    BY WhoComputes
  <2> QED
    BY <2>1, <2>2, <2>3, DataAfterComputation DEF DataFits, StandsStill, Joined
<1>8. CASE SkipPhase
  <2>1. /\ phase \in DOMAIN Successor /\ ~Needed(phase) /\ phase' = Successor[phase]
        /\ UNCHANGED << flags, time, isInitialMeshRefinement >>
    BY <1>8 DEF SkipPhase
  <2>2. /\ phase' \in { "Reinitialisation", "LocalRecomputation", "Prediction" }
             => ~flags[s].mesh
        /\ phase' \notin { "InitialPrediction", "ExtraGrid" }
        /\ BeforeRollback' => BeforeRollback
    <3>1. /\ phase' = "Reinitialisation" => phase = "MeshUpdate"
          /\ phase' = "LocalRecomputation" => phase = "Reinitialisation"
          /\ phase' = "Prediction" => phase = "LocalRecomputation"
          /\ phase' \in { "Spreading", "MeshUpdate", "Reinitialisation", "LocalRecomputation",
                           "Prediction", "GlobalRecomputation", "Rerun", "Barrier" }
          /\ phase' = "Spreading" => phase = "Drop"
          /\ phase' = "MeshUpdate" => phase = "Spreading"
      BY <2>1 DEF Successor
    <3>2. phase' \in { "Reinitialisation", "LocalRecomputation", "Prediction" }
            => ~OneSolverRequestedMeshUpdate
      BY <2>1, <3>1 DEF Needed, MeshUpdateOrRecomputation
    <3> QED
      BY <3>1, <3>2 DEF BeforeRollback, OneSolverRequestedMeshUpdate
  <2> QED
    BY <2>1, <2>2 DEF DataFits, StandsStill, NextSizeIsKnown, Joined, RequestsAreMade
<1>9. CASE DropNeighbourData
  <2>1. /\ phase = "Drop" /\ phase' = "Spreading"
        /\ UNCHANGED << flags, time, isInitialMeshRefinement >>
    BY <1>9 DEF DropNeighbourData, Enter, Successor
  <2> QED
    BY <2>1, DataIsKept DEF BeforeRollback
<1>10. CASE LimiterStatusSpreading
  <2>1. /\ phase = "Spreading" /\ phase' = "MeshUpdate"
        /\ UNCHANGED << time, isInitialMeshRefinement >>
    BY <1>10 DEF LimiterStatusSpreading, Enter, Successor
  <2> QED
    BY <2>1, DataIsKept DEF BeforeRollback
<1>11. CASE StartMeshUpdate
  <2>1. /\ phase = "MeshUpdate" /\ phase' = "Grid"
        /\ UNCHANGED << flags, time, isInitialMeshRefinement >>
    BY <1>11 DEF StartMeshUpdate
  <2> QED
    BY <2>1, DataIsKept DEF BeforeRollback
<1>12. CASE FinaliseMeshRefinementAndReinitialisation
  <2>1. /\ phase = "Reinitialisation" /\ phase' = "LocalRecomputation"
        /\ UNCHANGED flags /\ ~isInitialMeshRefinement' /\ ~isInitialMeshRefinement
    BY <1>12 DEF FinaliseMeshRefinementAndReinitialisation, Enter, Successor, RequestsAreMade
  <2>2. flags[s].mesh => Zeroed(time[s])
    BY <2>1 DEF DataFits, StandsStill
  <2>3. CASE flags[s].change # "Regular"
    <3>1. time'[s] = RollbackToPreviousTimeStep(time[s], TimeStepping[s])
      BY <1>12, <2>3, RolledBackData
    <3>2. /\ time'[s].correctorStamp = time[s].previousStamp
          /\ time'[s].correctorSize = time[s].previousSize
          /\ time'[s].predictorStamp = time[s].correctorStamp
          /\ time'[s].predictorSize = time[s].correctorSize
          /\ time'[s].nextPredictorSize = IF TimeStepping[s] = "Global" THEN MaxDouble
                                          ELSE time[s].nextPredictorSize
      BY <3>1, DataIsTyped, RollbackFields
    <3>3. StandsStill(s)'
      BY <2>1, <2>2, <2>3, <3>2 DEF StandsStill, Zeroed
    <3>4. NextSizeIsKnown(s)'
      BY <2>1, <3>2, TimeStepDataAssumption DEF DataFits, NextSizeIsKnown
    <3>5. s \in Undisturbed => Joined(s)'
      BY <2>1, <3>2 DEF DataFits, Joined, BeforeRollback, CorrectorJoinsPredictor,
                        PreviousJoinsCorrector
    <3> QED
      BY <3>3, <3>4, <3>5 DEF DataFits
  <2>4. CASE flags[s].change = "Regular"
    <3>1. time'[s] = time[s]
      BY <1>12, <2>4, RolledBackData
    <3> QED
      BY <2>1, <2>2, <3>1
         DEF DataFits, StandsStill, Zeroed, NextSizeIsKnown, Joined, BeforeRollback
  <2> QED
    BY <2>3, <2>4
<1>13. CASE LocalRecomputationAndTimeStepSizeComputation
  <2> DEFINE comp == Computing(LocalRecomputationSection)
  <2>1. PICK size \in [Solver -> StepSizes] : ComputeTimeStepSizes(comp, size)
    BY <1>13 DEF LocalRecomputationAndTimeStepSizeComputation
  <2>2. /\ phase = "LocalRecomputation" /\ phase' = "Prediction"
        /\ UNCHANGED << flags, isInitialMeshRefinement >> /\ ~isInitialMeshRefinement
        /\ MeshUpdateOrRecomputation
    BY <1>13 DEF LocalRecomputationAndTimeStepSizeComputation, Enter, Successor, Needed,
                 RequestsAreMade
  <2>3. flags[s].mesh => s \in comp
    <3>1. flags[s].mesh =>
            LocalRecomputationSection = "MeshRefinementOrLocalOrGlobalRecomputation"
      BY <2>2 DEF LocalRecomputationSection, SectionFits, MeshUpdateOrGlobalRecomputation,
                  OneSolverRequestedMeshUpdate
    <3> QED
      BY <3>1, WhoComputes
  <2>4. CASE s \in comp
    <3>1. flags[s].mesh => time[s].predictorSize = 0
      BY <2>2 DEF DataFits, StandsStill
    <3> QED
      BY <2>1, <2>2, <2>4, <3>1, DataAfterComputation
         DEF DataFits, StandsStill, Joined, BeforeRollback
  <2>5. CASE s \notin comp
    <3>1. time'[s] = time[s] /\ ~flags[s].mesh
      BY <2>1, <2>3, <2>5, ComputedSteps
    <3> QED
      BY <2>2, <3>1 DEF DataFits, StandsStill, NextSizeIsKnown, Joined, BeforeRollback
  <2> QED
    BY <2>4, <2>5
<1>14. CASE PredictionAfterMeshUpdate
  <2>1. /\ phase = "Prediction" /\ phase' = "GlobalRecomputation" /\ Needed("Prediction")
        /\ PredictAndInitialiseFused(PredictionSection)
        /\ UNCHANGED << flags, isInitialMeshRefinement >> /\ ~isInitialMeshRefinement
    BY <1>14 DEF PredictionAfterMeshUpdate, PredictAndInitialiseFused, Enter, Successor,
                 RequestsAreMade
  <2>2. /\ s \in Computing(PredictionSection) <=> flags[s].mesh
        /\ flags[s].mesh => time[s].correctorSize = 0
    BY <2>1, WhoComputes DEF DataFits, StandsStill
  <2>3. s \in Undisturbed /\ s \in Limiting => flags[s].mesh
    BY <2>1, UndisturbedOnesPredict
  <2>4. s \in Undisturbed => CorrectorJoinsPredictor(time'[s])
    BY <2>1, <2>2, <2>3, DataAfterPrediction DEF DataFits, Joined
  <2> QED
    BY <2>1, <2>4, DataAfterPrediction
       DEF DataFits, StandsStill, NextSizeIsKnown, Joined, BeforeRollback
<1>15. CASE GlobalRecomputation
  <2> DEFINE comp == Computing("GlobalRecomputationAllSend")
  <2>1. PICK size \in [Solver -> StepSizes] : ComputeTimeStepSizes(comp, size)
    BY <1>15 DEF GlobalRecomputation, AdvanceSolvers
  <2>2. /\ phase = "GlobalRecomputation" /\ phase' = "Rerun"
        /\ UNCHANGED isInitialMeshRefinement /\ ~isInitialMeshRefinement
    BY <1>15 DEF GlobalRecomputation, Enter, Successor, RequestsAreMade
  <2>3. CASE s \in comp
    BY <2>1, <2>2, <2>3, DataAfterComputation
       DEF DataFits, StandsStill, Joined, BeforeRollback
  <2>4. CASE s \notin comp
    <3>1. time'[s] = time[s]
      BY <2>1, <2>4, ComputedSteps
    <3> QED
      BY <2>2, <3>1 DEF DataFits, StandsStill, NextSizeIsKnown, Joined, BeforeRollback
  <2> QED
    BY <2>3, <2>4
<1>16. CASE PredictionRerun
  <2>1. /\ phase = "Rerun" /\ phase' = "Barrier"
        /\ UNCHANGED << flags, time, isInitialMeshRefinement >>
    BY <1>16 DEF PredictionRerun, Enter, Successor
  <2> QED
    BY <2>1, DataIsKept DEF BeforeRollback
<1>17. CASE EndSimulation
  <2>1. phase' = "Terminated" /\ UNCHANGED << flags, time, isInitialMeshRefinement >>
    BY <1>17 DEF EndSimulation
  <2> QED
    BY <2>1, DataIsKept DEF BeforeRollback
<1>18. CASE Terminating \/ UNCHANGED vars
  <2>1. UNCHANGED << phase, flags, time, isInitialMeshRefinement, extraIterations >>
    BY <1>18 DEF Terminating, vars, gridVars
  <2>2. Needed("Prediction")' <=> Needed("Prediction")
    BY <2>1 DEF Needed, MeshUpdateOrGlobalRecomputation, OneSolverRequestedMeshUpdate,
                OneSolverRequestedGlobalRecomputation
  <2> QED
    BY <2>1, <2>2 DEF DataFits, StandsStill, NextSizeIsKnown, Joined, BeforeRollback
<1> QED
  BY <1>1, <1>2, <1>3, <1>4, <1>5, <1>6, <1>7, <1>8, <1>9, <1>10, <1>11, <1>12, <1>13,
     <1>14, <1>15, <1>16, <1>17, <1>18 DEF Next

(* The inductive invariant of the time step data. *)
THEOREM TimeInvariant == Spec => []TimeInv
<1>1. Init => TimeInv
  BY RequestsInit, TimeInit DEF TimeInv, DataFits, Undisturbed
<1>2. TypeOK /\ FlagsInv /\ TimeInv /\ [Next]_vars => TimeInv'
  BY RequestsNext, TimeNext DEF TimeInv, DataFits, Undisturbed
<1> QED
  BY <1>1, <1>2, TypeCorrect, FlagsInvariant, PTL DEF Spec

(***************************************************************************)
(* Before the fused scheme starts afresh, the predictor of every solver    *)
(* that computes has a step size and has not run ahead, as                 *)
(* FusedTimeSteppingInitialisation asserts.                                *)
(***************************************************************************)
THEOREM FusedSchemeStartsAfresh == Spec => []RestartsFromZeroedStep
<1>1. TypeOK /\ FlagsInv /\ TimeInv => RestartsFromZeroedStep
  <2> SUFFICES ASSUME TypeOK, FlagsInv, TimeInv,
                      \/ phase = "InitialPrediction"
                      \/ phase = "Prediction" /\ Needed("Prediction"),
                      NEW s \in ADER,
                      s \in Computing(IF phase = "Prediction" THEN PredictionSection
                                                              ELSE algorithmSection)
               PROVE  /\ time[s].correctorSize = 0
                      /\ time[s].predictorSize \in 1..(MaxDouble - 1)
    BY DEF RestartsFromZeroedStep
  <2>1. phase = "Prediction" => flags[s].mesh
    BY WhoComputes
  <2> QED
    BY <2>1 DEF TimeInv, StandsStill
<1> QED
  BY <1>1, TypeCorrect, FlagsInvariant, TimeInvariant, PTL

(***************************************************************************)
(* No limiting solver is disturbed by another one's mesh update.           *)
(***************************************************************************)
NoneIsDisturbed == \A s \in Limiting : MeshRequesters \subseteq {s}

(***************************************************************************)
(* The generations of time step data join in every phase: rollbacks and    *)
(* recomputed steps lose no time and repeat none, as long as no limiting   *)
(* solver is disturbed.  (FusedTimeSteppingInitialisation: "the predictor  *)
(* time stamp must be one time step size ahead".)                          *)
(***************************************************************************)
THEOREM GenerationsAlwaysJoin ==
  ASSUME NoneIsDisturbed
  PROVE  Spec => []GenerationsJoin
<1>1. TimeInv => GenerationsJoin
  BY DEF TimeInv, Joined, Undisturbed, NoneIsDisturbed, GenerationsJoin, PredictorIsOneStepAhead
<1> QED
  BY <1>1, TimeInvariant, PTL

-----------------------------------------------------------------------------
(***************************************************************************)
(* From the drop to the global recomputation, only solvers that asked for  *)
(* something have their data changed, as long as no limiting solver is     *)
(* disturbed: the sections that make all send make few compute.            *)
(***************************************************************************)
LEMMA BystanderIsLeftAlone ==
  ASSUME TypeOK, FlagsInv, TimeInv, NoneIsDisturbed, [Next]_vars, NEW s \in Solver,
         phase \in DOMAIN Successor \ {"Rerun"}, AskedForNothing(s)
  PROVE  KeepsItsData(s)
<1> USE DEF KeepsItsData
<1> ~flags[s].mesh /\ flags[s].change = "Regular" /\ RequestsAreMade /\ SectionFits
  BY DEF AskedForNothing, TimeInv
<1>0. phase \in { "Drop", "Spreading", "MeshUpdate", "Reinitialisation",
                  "LocalRecomputation", "Prediction", "GlobalRecomputation" }
  BY DEF Successor
<1>1. CASE SkipPhase \/ DropNeighbourData \/ LimiterStatusSpreading \/ StartMeshUpdate
             \/ UNCHANGED vars
  BY <1>1 DEF SkipPhase, DropNeighbourData, LimiterStatusSpreading, StartMeshUpdate, vars,
              cellVars
<1>2. CASE FinaliseMeshRefinementAndReinitialisation
  <2>1. /\ time'[s] = time[s] /\ UNCHANGED predictedWith
        /\ solution'[s] = [ c \in CellClass |-> solution[s][c] ]
    BY <1>2 DEF FinaliseMeshRefinementAndReinitialisation, RolledBack
  <2>2. solution[s] \in [CellClass -> [ now : Nat, before : Nat ]]
    BY DEF TypeOK
  <2> QED
    BY <2>1, <2>2
<1>3. CASE LocalRecomputationAndTimeStepSizeComputation
  <2>1. PICK size \in [Solver -> StepSizes] :
          ComputeTimeStepSizes(Computing(LocalRecomputationSection), size)
    BY <1>3 DEF LocalRecomputationAndTimeStepSizeComputation
  <2>2. LocalRecomputationSection \in { "MeshRefinementOrLocalOrGlobalRecomputation",
                                        "LocalRecomputationAllSend" }
    BY <1>3 DEF LocalRecomputationAndTimeStepSizeComputation, Enter, Needed, SectionFits,
                LocalRecomputationSection
  <2>3. s \notin Computing(LocalRecomputationSection) /\ s \notin LocallyRecomputing
    BY <2>2, WhoComputes DEF LocallyRecomputing
  <2>4. /\ predictedWith'[s] = predictedWith[s]
        /\ solution'[s] = [ c \in CellClass |-> solution[s][c] ]
    BY <1>3, <2>3 DEF LocalRecomputationAndTimeStepSizeComputation
  <2>5. solution[s] \in [CellClass -> [ now : Nat, before : Nat ]]
    BY DEF TypeOK
  <2> QED
    BY <2>1, <2>3, <2>4, <2>5 DEF ComputeTimeStepSizes
<1>4. CASE PredictionAfterMeshUpdate
  <2>1. /\ phase = "Prediction" /\ Needed("Prediction") /\ UNCHANGED solution
        /\ PredictAndInitialiseFused(PredictionSection)
    BY <1>4 DEF PredictionAfterMeshUpdate, PredictAndInitialiseFused, Enter
  <2>2. s \notin Computing(PredictionSection)
    BY WhoComputes
  <2>3. s \notin Limiting
    BY <2>1, UndisturbedOnesPredict DEF Undisturbed, NoneIsDisturbed, ADER, Limiting
  <2> QED
    BY <2>1, <2>2, <2>3 DEF PredictAndInitialiseFused
<1>5. CASE GlobalRecomputation
  <2>1. PICK size \in [Solver -> StepSizes] : AdvanceSolvers("GlobalRecomputationAllSend", size)
    BY <1>5 DEF GlobalRecomputation
  <2>2. s \notin Computing("GlobalRecomputationAllSend")
    BY WhoComputes
  <2> QED
    BY <2>1, <2>2 DEF AdvanceSolvers, ComputeTimeStepSizes, UpdateSolution
<1> QED
  BY <1>0, <1>1, <1>2, <1>3, <1>4, <1>5
     DEF Next, CreateMeshIterate, StartExtraIterations, CreateMeshExtraIterate, FinishMesh,
         InitialTimeStepSizeComputation, InitialPrediction, ADERDGTimeStep, PredictionRerun,
         EndSimulation, Terminating, Enter

THEOREM BystandersKeepTheirData ==
  ASSUME NoneIsDisturbed
  PROVE  Spec => BystandersAreLeftAlone
<1> DEFINE Alone ==
      \A s \in Solver : phase \in DOMAIN Successor \ {"Rerun"} /\ AskedForNothing(s)
                          => KeepsItsData(s)
<1>1. TypeOK /\ FlagsInv /\ TimeInv /\ [Next]_vars => Alone
  BY BystanderIsLeftAlone
<1>2. TypeOK /\ FlagsInv /\ TimeInv /\ [Next]_vars => [Alone]_vars
  BY <1>1
<1>3. Spec => [][Alone]_vars
  BY <1>2, TypeCorrect, FlagsInvariant, TimeInvariant, PTL DEF Spec
<1> QED
  BY <1>3 DEF BystandersAreLeftAlone

-----------------------------------------------------------------------------
(***************************************************************************)
(* Predictors and corrector step sizes, where no solver recomputes locally.*)
(***************************************************************************)
NoneRecomputesLocally == "Irregular" \notin Changes

LEMMA NoneIsIrregular ==
  ASSUME TypeOK, FlagsInv, TimeInv, NoneRecomputesLocally, [Next]_vars,
         \A s \in Solver : flags[s].change # "Irregular", NEW s \in Solver
  PROVE  flags'[s].change # "Irregular"
<1>1. CASE CreateMeshIterate \/ CreateMeshExtraIterate
  BY <1>1, SweepKeepsRequests DEF CreateMeshIterate, CreateMeshExtraIterate
<1>2. CASE InitialTimeStepSizeComputation
  BY <1>2, RequestsAfterInitialTimeStepSize DEF TimeInv
<1>3. CASE ADERDGTimeStep
  BY <1>3, RequestsAfterTimeStep DEF NoneRecomputesLocally
<1>4. CASE LimiterStatusSpreading
  BY <1>4, RequestsAfterLimiterSpreading
<1>5. CASE GlobalRecomputation
  BY <1>5, RecomputationKeepsRequests
<1> QED
  BY <1>1, <1>2, <1>3, <1>4, <1>5
     DEF Next, vars, StartExtraIterations, FinishMesh, InitialPrediction, SkipPhase,
         DropNeighbourData, StartMeshUpdate, FinaliseMeshRefinementAndReinitialisation,
         LocalRecomputationAndTimeStepSizeComputation, PredictionAfterMeshUpdate,
         PredictAndInitialiseFused, PredictionRerun, EndSimulation, Terminating

(* A step size computation after the cells predicted, or not at all. *)
LEMMA PredictorAfterComputation ==
  ASSUME TypeOK, TimeInv, NEW comp, NEW size \in [Solver -> StepSizes],
         ComputeTimeStepSizes(comp, size), NEW s \in ADER, SizeIsFixed(s)
  PROVE  /\ SizeIsFixed(s)'
         /\ s \in comp /\ predictedWith'[s] = {time[s].predictorSize} => Fresh(s)'
         /\ s \notin comp /\ predictedWith'[s] = predictedWith[s] /\ Fresh(s) => Fresh(s)'
<1>1. /\ time[s] \in ADERDGTimeStepData /\ size[s] \in 1..(MaxDouble - 1)
      /\ time[s].nextPredictorSize >= 1
  BY DataIsTyped, ComputedSteps DEF TimeInv, NextSizeIsKnown
<1>2. CASE s \in comp
  <2>1. /\ time'[s] = NextTimeStep(time[s], size[s], TimeStepping[s])
        /\ stabilityConditionWasViolated'[s] = WasInstable(time[s], size[s], TimeStepping[s])
    BY <1>2, ComputedSteps
  <2>2. /\ ~WasInstable(time[s], size[s], TimeStepping[s]) =>
             time'[s].correctorSize = time[s].predictorSize
        /\ WasInstable(time[s], size[s], TimeStepping[s]) =>
             time'[s].correctorSize = time'[s].predictorSize
        /\ TimeStepping[s] # "Global" => time'[s].nextPredictorSize = time'[s].predictorSize
    BY <1>1, <2>1, NextTimeStepFields DEF SizeIsFixed
  <2>3. time'[s].nextPredictorSize \in Nat
    <3>1. s \in Solver /\ size[s] \in Nat
      BY <1>1, TimeStepDataAssumption DEF ADER
    <3> QED
      BY <1>1, <2>1, <3>1, TimeStepDataType DEF ADERDGTimeStepData
  <2> QED
    BY <1>2, <2>1, <2>2, <2>3 DEF SizeIsFixed, Fresh
<1>3. CASE s \notin comp
  BY <1>3, ComputedSteps DEF SizeIsFixed, Fresh
<1> QED
  BY <1>2, <1>3


LEMMA PredictorNext ==
  ASSUME TypeOK, FlagsInv, TimeInv, PredictorInv, [Next]_vars, NEW s \in ADER
  PROVE  SizeIsFixed(s)' /\ (s \in Undisturbed => PredictorFits(s)')
<1> /\ s \in Solver /\ RequestsAreMade /\ SectionFits
    /\ SizeIsFixed(s) /\ (s \in Undisturbed => PredictorFits(s))
    /\ flags[s].change = "IrregularRequiringMeshUpdate" => flags[s].mesh
    /\ flags[s].change \in { "Regular", "IrregularRequiringMeshUpdate" }
  <2>1. s \in Solver
    BY DEF ADER
  <2>2. flags[s].change \in LimiterDomainChange /\ flags[s].change # "Irregular"
    BY <2>1 DEF TypeOK, Flags, PredictorInv
  <2> QED
    BY <2>1, <2>2 DEF TimeInv, PredictorInv, FlagsInv, RequestsFit,
                      LimiterDomainChange
<1>1. CASE CreateMeshIterate \/ CreateMeshExtraIterate
  <2>1. /\ MeshRefinementSweep /\ phase \in { "FirstGrid", "Grid", "ExtraGrid" }
        /\ phase' \in { "Grid", "ExtraGrid" }
        /\ UNCHANGED << stabilityConditionWasViolated, predictedWith, isInitialMeshRefinement >>
    BY <1>1 DEF CreateMeshIterate, CreateMeshExtraIterate, MeshRefinementSweep, cellVars
  <2>2. /\ time'[s] = IF flags[s].mesh THEN ZeroTimeStepSizes(time[s]) ELSE time[s]
        /\ flags'[s].mesh = flags[s].mesh
    BY <2>1, RefinedData, SweepKeepsRequests
  <2>3. SizeIsFixed(s)'
    BY <2>2, DataIsTyped, ZeroFields DEF SizeIsFixed
  <2>4. PredictorFits(s) => PredictorFits(s)'
    BY <2>1, <2>2 DEF PredictorFits, Fresh, RequestsAreMade
  <2> QED
    BY <2>3, <2>4
<1>2. CASE StartExtraIterations \/ FinishMesh
  <2>1. /\ UNCHANGED << time, flags, predictedWith, stabilityConditionWasViolated,
                        isInitialMeshRefinement >>
        /\ phase \in { "Grid", "ExtraGrid" }
        /\ phase' \in { "ExtraGrid", "InitialTimeStepSize", "Reinitialisation" }
    BY <1>2 DEF StartExtraIterations, FinishMesh, cellVars
  <2>2. PredictorFits(s) => PredictorFits(s)'
    BY <2>1 DEF PredictorFits, Fresh
  <2> QED
    BY <2>1, <2>2 DEF SizeIsFixed
<1>5. CASE InitialTimeStepSizeComputation
  <2>1. PICK size \in [Solver -> StepSizes] :
          ComputeTimeStepSizes(Computing(algorithmSection), size)
    BY <1>5 DEF InitialTimeStepSizeComputation
  <2>2. phase' = "InitialPrediction"
    BY <1>5 DEF InitialTimeStepSizeComputation
  <2> QED
    BY <2>1, <2>2, PredictorAfterComputation DEF PredictorFits
<1>6. CASE InitialPrediction
  <2>1. /\ phase = "InitialPrediction" /\ phase' = "Barrier"
        /\ PredictAndInitialiseFused(algorithmSection)
    BY <1>6 DEF InitialPrediction
  <2>2. s \in Computing(algorithmSection)
    BY <2>1, WhoComputes DEF SectionFits
  <2> QED
    BY <2>1, <2>2, DataAfterPrediction DEF SizeIsFixed, PredictorFits
<1>7. CASE ADERDGTimeStep
  <2>1. PICK size \in [Solver -> StepSizes] : AdvanceSolvers("TimeStepping", size)
    BY <1>7 DEF ADERDGTimeStep
  <2>2. phase' = "Drop" /\ s \in Computing("TimeStepping")
    BY <1>7, WhoComputes DEF ADERDGTimeStep
  <2>3. predictedWith'[s] = {time[s].predictorSize}
    BY <2>1, <2>2 DEF AdvanceSolvers
  <2>4. SizeIsFixed(s)' /\ Fresh(s)'
    BY <2>1, <2>2, <2>3, PredictorAfterComputation DEF AdvanceSolvers
  <2> QED
    BY <2>2, <2>4 DEF PredictorFits
<1>8. CASE SkipPhase
  <2>1. /\ phase \in DOMAIN Successor /\ ~Needed(phase) /\ phase' = Successor[phase]
        /\ UNCHANGED << flags, time, isInitialMeshRefinement, predictedWith,
                        stabilityConditionWasViolated >>
    BY <1>8 DEF SkipPhase, cellVars
  <2>2. /\ phase \in { "Drop", "Spreading", "MeshUpdate", "Reinitialisation",
                       "LocalRecomputation", "Prediction", "GlobalRecomputation", "Rerun" }
        /\ phase' = "Barrier" => phase = "Rerun"
        /\ phase' = "GlobalRecomputation" => phase = "Prediction"
        /\ phase' \in { "Barrier", "Spreading", "MeshUpdate", "Reinitialisation",
                        "LocalRecomputation", "Prediction", "GlobalRecomputation", "Rerun" }
        /\ phase' = "Spreading" => phase = "Drop"
        /\ phase' = "Rerun" => phase = "GlobalRecomputation"
        /\ ~isInitialMeshRefinement
    BY <2>1 DEF Successor, RequestsAreMade
  <2>3. phase = "Rerun" => ~stabilityConditionWasViolated[s]
    BY <2>1 DEF Needed, StabilityConditionOfOneSolverWasViolated
  <2>4. phase = "Prediction" => ~flags[s].mesh
    BY <2>1 DEF Needed, MeshUpdateOrGlobalRecomputation, OneSolverRequestedMeshUpdate
  <2>5. PredictorFits(s) => PredictorFits(s)'
    BY <2>1, <2>2, <2>3, <2>4 DEF PredictorFits, Fresh
  <2> QED
    BY <2>1, <2>5 DEF SizeIsFixed
<1>9. CASE DropNeighbourData \/ StartMeshUpdate
  <2>1. /\ << phase, phase' >> \in { << "Drop", "Spreading" >>, << "MeshUpdate", "Grid" >> }
        /\ UNCHANGED << flags, time, isInitialMeshRefinement, predictedWith,
                        stabilityConditionWasViolated >>
    BY <1>9 DEF DropNeighbourData, StartMeshUpdate, Enter, Successor, cellVars
  <2>2. PredictorFits(s) => PredictorFits(s)'
    BY <2>1 DEF PredictorFits, Fresh
  <2> QED
    BY <2>1, <2>2 DEF SizeIsFixed
<1>10. CASE LimiterStatusSpreading
  <2>1. /\ phase = "Spreading" /\ phase' = "MeshUpdate"
        /\ UNCHANGED << time, isInitialMeshRefinement, predictedWith,
                        stabilityConditionWasViolated >>
    BY <1>10 DEF LimiterStatusSpreading, Enter, Successor, cellVars
  <2>2. PredictorFits(s) => PredictorFits(s)'
    BY <2>1 DEF PredictorFits, Fresh
  <2> QED
    BY <2>1, <2>2 DEF SizeIsFixed
<1>12. CASE FinaliseMeshRefinementAndReinitialisation
  <2>1. /\ phase = "Reinitialisation" /\ phase' = "LocalRecomputation"
        /\ UNCHANGED << flags, predictedWith, stabilityConditionWasViolated >>
        /\ ~isInitialMeshRefinement' /\ ~isInitialMeshRefinement
    BY <1>12 DEF FinaliseMeshRefinementAndReinitialisation, Enter, Successor, RequestsAreMade
  <2>2. CASE flags[s].change = "Regular"
    <3>1. time'[s] = time[s]
      BY <1>12, <2>2, RolledBackData
    <3> QED
      BY <2>1, <3>1 DEF SizeIsFixed, PredictorFits, Fresh
  <2>3. CASE flags[s].change = "IrregularRequiringMeshUpdate"
    <3>1. flags[s].mesh /\ time[s].correctorSize = 0
      BY <2>1, <2>3 DEF TimeInv, StandsStill, Zeroed
    <3>2. /\ time'[s].predictorSize = 0
          /\ TimeStepping[s] # "Global" => time'[s].nextPredictorSize \in Nat
      BY <1>12, <2>3, <3>1, RolledBackData, DataIsTyped, RollbackFields
    <3> QED
      BY <2>1, <3>1, <3>2 DEF SizeIsFixed, PredictorFits
  <2> QED
    BY <2>2, <2>3
<1>13. CASE LocalRecomputationAndTimeStepSizeComputation
  <2> DEFINE comp == Computing(LocalRecomputationSection)
  <2>1. PICK size \in [Solver -> StepSizes] : ComputeTimeStepSizes(comp, size)
    BY <1>13 DEF LocalRecomputationAndTimeStepSizeComputation
  <2>2. /\ phase = "LocalRecomputation" /\ phase' = "Prediction" /\ UNCHANGED flags
        /\ ~isInitialMeshRefinement
        /\ LocalRecomputationSection \in { "MeshRefinementOrLocalOrGlobalRecomputation",
                                           "LocalRecomputationAllSend" }
    BY <1>13 DEF LocalRecomputationAndTimeStepSizeComputation, Enter, Successor, Needed,
                 RequestsAreMade, SectionFits, LocalRecomputationSection
  <2>3. s \in comp => flags[s].mesh
    BY <2>2, WhoComputes DEF LocallyRecomputing
  <2>4. s \notin LocallyRecomputing
    BY DEF LocallyRecomputing
  <2>5. predictedWith'[s] = predictedWith[s]
    BY <1>13, <2>4 DEF LocalRecomputationAndTimeStepSizeComputation
  <2>6. PredictorFits(s) /\ ~flags[s].mesh => Fresh(s)
    BY <2>2 DEF PredictorFits
  <2>7. SizeIsFixed(s)' /\ (PredictorFits(s) /\ ~flags[s].mesh => Fresh(s)')
    BY <2>1, <2>3, <2>5, <2>6, PredictorAfterComputation
  <2> QED
    BY <2>2, <2>7 DEF PredictorFits
<1>14. CASE PredictionAfterMeshUpdate
  <2>1. /\ phase = "Prediction" /\ phase' = "GlobalRecomputation" /\ Needed("Prediction")
        /\ PredictAndInitialiseFused(PredictionSection) /\ ~isInitialMeshRefinement
        /\ UNCHANGED stabilityConditionWasViolated
    BY <1>14 DEF PredictionAfterMeshUpdate, PredictAndInitialiseFused, Enter, Successor,
                 RequestsAreMade
  <2>2. s \in Computing(PredictionSection) <=> flags[s].mesh
    BY WhoComputes
  <2>3. SizeIsFixed(s)'
    BY <2>1, DataAfterPrediction DEF SizeIsFixed
  <2>4. CASE flags[s].mesh
    BY <2>1, <2>2, <2>3, <2>4, DataAfterPrediction DEF PredictorFits, Fresh
  <2>5. CASE ~flags[s].mesh
    <3>1. s \in Undisturbed => s \notin Limiting
      BY <2>1, <2>5, UndisturbedOnesPredict
    <3>2. s \in Undisturbed => time'[s] = time[s] /\ predictedWith'[s] = predictedWith[s]
      BY <2>1, <2>2, <2>5, <3>1, DataAfterPrediction
    <3> QED
      BY <2>1, <2>3, <2>5, <3>2 DEF PredictorFits, Fresh
  <2> QED
    BY <2>4, <2>5
<1>15. CASE GlobalRecomputation
  <2> DEFINE comp == Computing("GlobalRecomputationAllSend")
  <2>1. PICK size \in [Solver -> StepSizes] : AdvanceSolvers("GlobalRecomputationAllSend", size)
    BY <1>15 DEF GlobalRecomputation
  <2>2. phase = "GlobalRecomputation" /\ phase' = "Rerun"
    BY <1>15 DEF GlobalRecomputation, Enter, Successor
  <2>3. predictedWith'[s] = IF s \in comp THEN {time[s].predictorSize} ELSE predictedWith[s]
    BY <2>1 DEF AdvanceSolvers
  <2>4. ComputeTimeStepSizes(comp, size)
    BY <2>1 DEF AdvanceSolvers
  <2>5. PredictorFits(s) => Fresh(s)
    BY <2>2 DEF PredictorFits
  <2>6. SizeIsFixed(s)' /\ (PredictorFits(s) => Fresh(s)')
    BY <2>3, <2>4, <2>5, PredictorAfterComputation
  <2> QED
    BY <2>2, <2>6 DEF PredictorFits
<1>16. CASE PredictionRerun
  <2>1. /\ phase = "Rerun" /\ phase' = "Barrier"
        /\ UNCHANGED << flags, time, isInitialMeshRefinement >>
        /\ predictedWith'[s] = IF stabilityConditionWasViolated[s] THEN {time[s].predictorSize}
                                                                   ELSE predictedWith[s]
    BY <1>16, WhoComputes DEF PredictionRerun, Enter, Successor
  <2>2. PredictorFits(s) => PredictorFits(s)'
    BY <2>1 DEF PredictorFits, Fresh
  <2> QED
    BY <2>1, <2>2 DEF SizeIsFixed
<1>17. CASE EndSimulation
  BY <1>17 DEF EndSimulation, SizeIsFixed, PredictorFits
<1>18. CASE Terminating \/ UNCHANGED vars
  BY <1>18 DEF Terminating, vars, cellVars, SizeIsFixed, PredictorFits, Fresh
<1> QED
  BY <1>1, <1>2, <1>5, <1>6, <1>7, <1>8, <1>9, <1>10, <1>12, <1>13,
     <1>14, <1>15, <1>16, <1>17, <1>18 DEF Next

THEOREM PredictorInvariant ==
  ASSUME NoneRecomputesLocally
  PROVE  Spec => []PredictorInv
<1>1. Init => PredictorInv
  <2>1. ASSUME Init, NEW s \in ADER PROVE SizeIsFixed(s) /\ PredictorFits(s)
    <3>1. time[s] = InitialADERDG(0)
      BY <2>1 DEF Init, ADER
    <3> QED
      BY <2>1, <3>1, TimeStepDataAssumption DEF InitialADERDG, Init, SizeIsFixed, PredictorFits
  <2>2. ASSUME Init, NEW s \in Solver PROVE flags[s].change # "Irregular"
    BY <2>2 DEF Init
  <2>3. Init => \A s \in Undisturbed : PredictorFits(s)
    BY <2>1 DEF Undisturbed
  <2> QED
    BY <2>1, <2>2, <2>3 DEF PredictorInv
<1>2. TypeOK /\ FlagsInv /\ TimeInv /\ PredictorInv /\ [Next]_vars => PredictorInv'
  <2> SUFFICES ASSUME TypeOK, FlagsInv, TimeInv, PredictorInv, [Next]_vars PROVE PredictorInv'
    OBVIOUS
  <2>1. \A s \in Solver : flags'[s].change # "Irregular"
    BY NoneIsIrregular DEF PredictorInv
  <2>2. \A s \in ADER : SizeIsFixed(s)' /\ (s \in Undisturbed => PredictorFits(s)')
    BY PredictorNext
  <2> QED
    BY <2>1, <2>2 DEF PredictorInv, Undisturbed
<1> QED
  BY <1>1, <1>2, TypeCorrect, FlagsInvariant, TimeInvariant, PTL DEF Spec

(***************************************************************************)
(* At the barrier, the predictors in the cells were computed with the step *)
(* size that the corrector is about to use, whatever was rerun, refined or *)
(* recomputed globally, as long as no solver recomputes locally and none   *)
(* is disturbed (see the runs LocalRecomputation and BystanderLimiting).   *)
(***************************************************************************)
THEOREM PredictorsMatch ==
  ASSUME NoneRecomputesLocally, NoneIsDisturbed
  PROVE  Spec => []PredictorMatchesCorrector
<1>1. PredictorInv => PredictorMatchesCorrector
  BY DEF PredictorInv, PredictorFits, PredictorMatchesCorrector, Undisturbed, NoneIsDisturbed
<1> QED
  BY <1>1, PredictorInvariant, PTL

-----------------------------------------------------------------------------
(***************************************************************************)
(* Solution and corrector stamp, where no solver recomputes globally: none *)
(* with a limiter asks for a mesh update, or no limiter ever triggers.     *)
(***************************************************************************)
NoneRecomputesGlobally == Limiting \cap MeshRequesters = {} \/ Changes = {"Regular"}

LEMMA ReportsFitNext ==
  ASSUME TypeOK, FlagsInv, TimeInv, ReportsFit, [Next]_vars
  PROVE  ReportsFit'
<1> SUFFICES ASSUME Changes = {"Regular"}, NEW s \in Solver
             PROVE  flags'[s].change = "Regular"
  BY DEF ReportsFit
<1>0. flags[s].change = "Regular"
  BY DEF ReportsFit
<1>1. CASE CreateMeshIterate \/ CreateMeshExtraIterate
  BY <1>0, <1>1, SweepKeepsRequests DEF CreateMeshIterate, CreateMeshExtraIterate
<1>2. CASE InitialTimeStepSizeComputation
  BY <1>2, RequestsAfterInitialTimeStepSize DEF TimeInv
<1>3. CASE ADERDGTimeStep
  BY <1>3, RequestsAfterTimeStep
<1>4. CASE LimiterStatusSpreading
  BY <1>0, <1>4, RequestsAfterLimiterSpreading
<1>5. CASE GlobalRecomputation
  BY <1>0, <1>5, RecomputationKeepsRequests
<1> QED
  BY <1>0, <1>1, <1>2, <1>3, <1>4, <1>5
     DEF Next, vars, StartExtraIterations, FinishMesh, InitialPrediction, SkipPhase,
         DropNeighbourData, StartMeshUpdate, FinaliseMeshRefinementAndReinitialisation,
         LocalRecomputationAndTimeStepSizeComputation, PredictionAfterMeshUpdate,
         PredictAndInitialiseFused, PredictionRerun, EndSimulation, Terminating

(* Once the initial mesh stands, no global recomputation is ever requested. *)
LEMMA NoGlobalRecomputation ==
  ASSUME FlagsInv, TimeInv, ReportsFit, NoneRecomputesGlobally, NEW s \in Solver,
         ~isInitialMeshRefinement
  PROVE  flags[s].change # "IrregularRequiringMeshUpdate"
<1>1. flags[s].mesh => s \in MeshRequesters
  BY DEF TimeInv, RequestsAreMade
<1> QED
  BY <1>1 DEF FlagsInv, RequestsFit, ReportsFit, NoneRecomputesGlobally

(* Where neither stamps nor solution change, the phase may move on. *)
LEMMA SolutionIsKept ==
  ASSUME NEW s \in ADER, NEW c \in CellClass, SolutionFits(s, c),
         time'[s].correctorStamp = time[s].correctorStamp,
         BeforeRollback => time'[s].previousStamp = time[s].previousStamp,
         solution'[s][c] = solution[s][c],
         BeforeRollback' => BeforeRollback,
         phase = "LocalRecomputation" \/ phase' = "LocalRecomputation"
           => s \notin LocallyRecomputing /\ UNCHANGED flags
  PROVE  SolutionFits(s, c)'
  BY DEF SolutionFits, LocallyRecomputing

LEMMA SolutionNext ==
  ASSUME TypeOK, FlagsInv, TimeInv, SolutionInv, NoneIsDisturbed, NoneRecomputesGlobally,
         [Next]_vars, NEW s \in ADER, NEW c \in CellClass
  PROVE  SolutionFits(s, c)'
<1> /\ s \in Solver /\ RequestsAreMade /\ SectionFits /\ SolutionFits(s, c)
    /\ CorrectorJoinsPredictor(time[s]) /\ ReportsFit
  BY DEF ADER, TimeInv, SolutionInv, Joined, Undisturbed, NoneIsDisturbed
<1>1. CASE CreateMeshIterate \/ CreateMeshExtraIterate
  <2>1. /\ MeshRefinementSweep /\ phase \in { "FirstGrid", "Grid", "ExtraGrid" }
        /\ phase' \in { "Grid", "ExtraGrid" }
        /\ UNCHANGED solution
    BY <1>1 DEF CreateMeshIterate, CreateMeshExtraIterate, MeshRefinementSweep, cellVars
  <2>2. /\ time'[s].correctorStamp = time[s].correctorStamp
        /\ time'[s].previousStamp = time[s].previousStamp
    BY <2>1, RefinedData, DataIsTyped, ZeroFields
  <2> QED
    BY <2>1, <2>2, SolutionIsKept DEF BeforeRollback
<1>2. CASE StartExtraIterations \/ FinishMesh
  <2>1. /\ UNCHANGED << time, solution >> /\ phase \in { "Grid", "ExtraGrid" }
        /\ phase' \in { "ExtraGrid", "InitialTimeStepSize", "Reinitialisation" }
    BY <1>2 DEF StartExtraIterations, FinishMesh, cellVars
  <2> QED
    BY <2>1, SolutionIsKept DEF BeforeRollback
<1>5. CASE InitialTimeStepSizeComputation
  <2>1. PICK size \in [Solver -> StepSizes] :
          ComputeTimeStepSizes(Computing(algorithmSection), size)
    BY <1>5 DEF InitialTimeStepSizeComputation
  <2>2. /\ phase = "InitialTimeStepSize" /\ phase' = "InitialPrediction"
        /\ UNCHANGED solution /\ s \in Computing(algorithmSection)
    BY <1>5, WhoComputes DEF InitialTimeStepSizeComputation, cellVars, RequestsAreMade
  <2>3. time[s].predictorStamp = time[s].correctorStamp
    BY <2>2 DEF TimeInv, StandsStill, Zeroed, RequestsAreMade
  <2>4. time'[s].correctorStamp = time[s].correctorStamp
    BY <2>1, <2>2, <2>3, DataAfterComputation
  <2> QED
    BY <2>2, <2>4, SolutionIsKept DEF BeforeRollback
<1>6. CASE InitialPrediction
  <2>1. /\ phase = "InitialPrediction" /\ phase' = "Barrier" /\ UNCHANGED solution
        /\ PredictAndInitialiseFused(algorithmSection)
    BY <1>6 DEF InitialPrediction, PredictAndInitialiseFused
  <2> QED
    BY <2>1, DataAfterPrediction, SolutionIsKept DEF BeforeRollback
<1>7. CASE ADERDGTimeStep
  <2>1. PICK size \in [Solver -> StepSizes] : AdvanceSolvers("TimeStepping", size)
    BY <1>7 DEF ADERDGTimeStep
  <2>2. phase = "Barrier" /\ phase' = "Drop" /\ s \in Computing("TimeStepping")
    BY <1>7, WhoComputes DEF ADERDGTimeStep
  <2>3. solution'[s][c] = [ now    |-> solution[s][c].now + time[s].correctorSize,
                            before |-> solution[s][c].now ]
    BY <2>1, <2>2 DEF AdvanceSolvers, UpdateSolution, MinTimeStepSize
  <2>4. /\ time'[s].correctorStamp = time[s].predictorStamp
        /\ time'[s].previousStamp = time[s].correctorStamp
    BY <2>1, <2>2, DataAfterComputation DEF AdvanceSolvers
  <2> QED
    BY <2>2, <2>3, <2>4 DEF SolutionFits, CorrectorJoinsPredictor
<1>8. CASE SkipPhase
  <2>1. /\ phase \in DOMAIN Successor /\ ~Needed(phase) /\ phase' = Successor[phase]
        /\ UNCHANGED << flags, time, solution >>
    BY <1>8 DEF SkipPhase, cellVars
  <2>2. /\ BeforeRollback' => BeforeRollback
        /\ phase = "LocalRecomputation" \/ phase' = "LocalRecomputation"
             => phase \in { "Reinitialisation", "LocalRecomputation" }
    BY <2>1 DEF Successor, BeforeRollback
  <2>3. phase = "LocalRecomputation" \/ phase' = "LocalRecomputation"
          => s \notin LocallyRecomputing
    BY <2>1, <2>2 DEF Needed, MeshUpdateOrRecomputation, LocallyRecomputing,
                      OneSolverRequestedLocalOrGlobalRecomputation
  <2> QED
    BY <2>1, <2>2, <2>3, SolutionIsKept
<1>9. CASE DropNeighbourData \/ StartMeshUpdate \/ LimiterStatusSpreading
  <2>1. /\ << phase, phase' >> \in { << "Drop", "Spreading" >>, << "Spreading", "MeshUpdate" >>,
                                     << "MeshUpdate", "Grid" >> }
        /\ UNCHANGED << time, solution >>
    BY <1>9 DEF DropNeighbourData, StartMeshUpdate, LimiterStatusSpreading, Enter, Successor,
                cellVars
  <2> QED
    BY <2>1, SolutionIsKept DEF BeforeRollback
<1>12. CASE FinaliseMeshRefinementAndReinitialisation
  <2>1. /\ phase = "Reinitialisation" /\ phase' = "LocalRecomputation" /\ UNCHANGED flags
        /\ ~isInitialMeshRefinement
    BY <1>12 DEF FinaliseMeshRefinementAndReinitialisation, Enter, Successor, RequestsAreMade
  <2>2. flags[s].change \in { "Regular", "Irregular" }
    BY <2>1, NoGlobalRecomputation DEF TypeOK, Flags, LimiterDomainChange
  <2>3. CASE flags[s].change = "Regular"
    <3>1. time'[s] = time[s] /\ solution'[s][c] = solution[s][c]
      BY <1>12, <2>3, RolledBackData
         DEF FinaliseMeshRefinementAndReinitialisation, RolledBack
    <3> QED
      BY <2>1, <2>3, <3>1, SolutionIsKept DEF BeforeRollback, LocallyRecomputing
  <2>4. CASE flags[s].change = "Irregular"
    <3>1. s \in Limiting /\ s \in LocallyRecomputing
      BY <2>4 DEF FlagsInv, RequestsFit, LocallyRecomputing
    <3>2. /\ time'[s].correctorStamp = time[s].previousStamp
          /\ time'[s].predictorStamp = time[s].correctorStamp
      BY <1>12, <2>4, RolledBackData, DataIsTyped, RollbackFields
    <3>3. solution'[s][c].now = IF c = "limited" THEN solution[s][c].before
                                                 ELSE solution[s][c].now
      BY <1>12, <2>4, <3>1 DEF FinaliseMeshRefinementAndReinitialisation, RolledBack
    <3>4. s \in LocallyRecomputing'
      BY <2>1, <3>1 DEF LocallyRecomputing
    <3> QED
      BY <2>1, <3>2, <3>3, <3>4 DEF SolutionFits, BeforeRollback
  <2> QED
    BY <2>2, <2>3, <2>4
<1>13. CASE LocalRecomputationAndTimeStepSizeComputation
  <2> DEFINE comp == Computing(LocalRecomputationSection)
  <2>1. PICK size \in [Solver -> StepSizes] : ComputeTimeStepSizes(comp, size)
    BY <1>13 DEF LocalRecomputationAndTimeStepSizeComputation
  <2>2. /\ phase = "LocalRecomputation" /\ phase' = "Prediction"
        /\ ~isInitialMeshRefinement
        /\ LocalRecomputationSection \in { "MeshRefinementOrLocalOrGlobalRecomputation",
                                           "LocalRecomputationAllSend" }
    BY <1>13 DEF LocalRecomputationAndTimeStepSizeComputation, Enter, Successor, Needed,
                 RequestsAreMade, SectionFits, LocalRecomputationSection
  <2>3. /\ s \in LocallyRecomputing => s \in comp
        /\ s \in comp /\ s \notin LocallyRecomputing => flags[s].mesh /\ flags[s].change = "Regular"
    <3>1. flags[s].change \in { "Regular", "Irregular" }
      BY <2>2, NoGlobalRecomputation DEF TypeOK, Flags, LimiterDomainChange
    <3>2. flags[s].change # "Regular" => s \in Limiting
      BY DEF FlagsInv, RequestsFit
    <3> QED
      BY <2>2, <3>1, <3>2, WhoComputes DEF LocallyRecomputing
  <2>4. solution'[s][c] = IF s \in LocallyRecomputing /\ c = "limited"
                          THEN [ now    |-> solution[s][c].now + time[s].correctorSize,
                                 before |-> solution[s][c].now ]
                          ELSE solution[s][c]
    BY <1>13 DEF LocalRecomputationAndTimeStepSizeComputation
  <2>5. s \in comp => time'[s].correctorStamp = time[s].predictorStamp
    BY <2>1, DataAfterComputation
  <2>6. CASE s \in LocallyRecomputing
    BY <2>2, <2>3, <2>4, <2>5, <2>6 DEF SolutionFits, BeforeRollback, CorrectorJoinsPredictor
  <2>7. CASE s \in comp /\ s \notin LocallyRecomputing
    <3>1. time[s].correctorSize = 0
      BY <2>2, <2>3, <2>7 DEF TimeInv, StandsStill
    <3>2. time[s].predictorStamp = time[s].correctorStamp
      BY <3>1, DataIsTyped DEF CorrectorJoinsPredictor
    <3> QED
      BY <2>2, <2>4, <2>5, <2>7, <3>2 DEF SolutionFits, BeforeRollback
  <2>8. CASE s \notin comp
    <3>1. time'[s] = time[s]
      BY <2>1, <2>8, ComputedSteps
    <3> QED
      BY <2>2, <2>3, <2>4, <2>8, <3>1 DEF SolutionFits, BeforeRollback
  <2> QED
    BY <2>6, <2>7, <2>8
<1>14. CASE PredictionAfterMeshUpdate
  <2>1. /\ phase = "Prediction" /\ phase' = "GlobalRecomputation" /\ UNCHANGED solution
        /\ PredictAndInitialiseFused(PredictionSection)
    BY <1>14 DEF PredictionAfterMeshUpdate, PredictAndInitialiseFused, Enter, Successor
  <2> QED
    BY <2>1, DataAfterPrediction, SolutionIsKept DEF BeforeRollback
<1>15. CASE GlobalRecomputation
  <2>1. PICK size \in [Solver -> StepSizes] : AdvanceSolvers("GlobalRecomputationAllSend", size)
    BY <1>15 DEF GlobalRecomputation
  <2>2. phase = "GlobalRecomputation" /\ phase' = "Rerun" /\ ~isInitialMeshRefinement
    BY <1>15 DEF GlobalRecomputation, Enter, Successor, RequestsAreMade
  <2>3. s \notin Computing("GlobalRecomputationAllSend")
    BY <2>2, NoGlobalRecomputation, WhoComputes
  <2>4. time'[s] = time[s] /\ solution'[s] = solution[s]
    BY <2>1, <2>3, ComputedSteps DEF AdvanceSolvers, UpdateSolution
  <2> QED
    BY <2>2, <2>4, SolutionIsKept DEF BeforeRollback
<1>16. CASE PredictionRerun \/ EndSimulation
  <2>1. /\ phase \in { "Rerun", "Barrier" } /\ phase' \in { "Barrier", "Terminated" }
        /\ UNCHANGED << time, solution >>
    BY <1>16 DEF PredictionRerun, EndSimulation, Enter, Successor, cellVars
  <2> QED
    BY <2>1, SolutionIsKept DEF BeforeRollback
<1>18. CASE Terminating \/ UNCHANGED vars
  BY <1>18 DEF Terminating, vars, cellVars, SolutionFits, BeforeRollback, LocallyRecomputing
<1> QED
  BY <1>1, <1>2, <1>5, <1>6, <1>7, <1>8, <1>9, <1>12, <1>13,
     <1>14, <1>15, <1>16, <1>18 DEF Next

THEOREM SolutionInvariant ==
  ASSUME NoneIsDisturbed, NoneRecomputesGlobally
  PROVE  Spec => []SolutionInv
<1>1. Init => SolutionInv
  <2>1. ASSUME Init, NEW s \in ADER, NEW c \in CellClass PROVE SolutionFits(s, c)
    <3>1. time[s] = InitialADERDG(0) /\ solution[s][c] = [ now |-> 0, before |-> 0 ]
      BY <2>1 DEF Init, ADER
    <3> QED
      BY <2>1, <3>1 DEF InitialADERDG, Init, SolutionFits
  <2>2. ASSUME Init, NEW s \in Solver PROVE flags[s].change = "Regular"
    BY <2>2 DEF Init
  <2> QED
    BY <2>1, <2>2 DEF SolutionInv, ReportsFit
<1>2. TypeOK /\ FlagsInv /\ TimeInv /\ SolutionInv /\ [Next]_vars => SolutionInv'
  <2> SUFFICES ASSUME TypeOK, FlagsInv, TimeInv, SolutionInv, [Next]_vars PROVE SolutionInv'
    OBVIOUS
  <2>1. \A s \in ADER, c \in CellClass : SolutionFits(s, c)'
    BY SolutionNext
  <2>2. ReportsFit'
    BY ReportsFitNext DEF SolutionInv
  <2> QED
    BY <2>1, <2>2 DEF SolutionInv
<1> QED
  BY <1>1, <1>2, TypeCorrect, FlagsInvariant, TimeInvariant, PTL DEF Spec

(***************************************************************************)
(* At the barrier, the solution in every cell is that of the corrector's   *)
(* time stamp: a local recomputation brings the cells it rolled back to    *)
(* where the others stayed.  (For a global one see the run                 *)
(* GlobalRecomputationTime.)                                               *)
(***************************************************************************)
THEOREM SolutionStaysWithCorrector ==
  ASSUME NoneIsDisturbed, NoneRecomputesGlobally
  PROVE  Spec => []SolutionIsAtCorrectorStamp
<1>1. SolutionInv => SolutionIsAtCorrectorStamp
  BY DEF SolutionInv, SolutionFits, SolutionIsAtCorrectorStamp
<1> QED
  BY <1>1, SolutionInvariant, PTL

=============================================================================
