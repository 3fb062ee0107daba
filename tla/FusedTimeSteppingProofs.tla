----------------------- MODULE FusedTimeSteppingProofs -----------------------
(***************************************************************************)
(* Proofs about FusedTimeStepping for any set of solvers of any type and   *)
(* time stepping scheme, any step sizes and any end time.                  *)
(***************************************************************************)
EXTENDS FusedTimeStepping, TLAPS

-----------------------------------------------------------------------------
(***************************************************************************)
(* The operators on time step data keep their types.                       *)
(***************************************************************************)
LEMMA ArithmeticType ==
  ASSUME NEW a \in Nat, NEW b \in Nat
  PROVE  /\ Weighted(a) \in Nat
         /\ Average(a, b) \in Nat
         /\ Smaller(a, b) \in Nat
<1>1. WeightInTenths * a + 9 \in Nat
  BY TimeStepDataAssumption
<1>2. Weighted(a) \in Nat
  BY <1>1 DEF Weighted
<1>3. Average(a, b) \in Nat
  BY DEF Average
<1> QED
  BY <1>2, <1>3 DEF Smaller

LEMMA TimeStepDataType ==
  ASSUME NEW d \in ADERDGTimeStepData, NEW t \in Nat, NEW scheme
  PROVE  /\ NextTimeStep(d, t, scheme) \in ADERDGTimeStepData
         /\ ZeroTimeStepSizes(d) \in ADERDGTimeStepData
         /\ RollbackToPreviousTimeStep(d, scheme) \in ADERDGTimeStepData
         /\ InitialiseFusedTimeStepping(d) \in ADERDGTimeStepData
         /\ WasInstable(d, t, scheme) \in BOOLEAN
<1>1. ASSUME NEW e \in ADERDGTimeStepData, NEW u \in Nat
      PROVE  UpdateMinNextPredictorTimeStepSize(e, u, scheme) \in ADERDGTimeStepData
  BY <1>1 DEF UpdateMinNextPredictorTimeStepSize, ADERDGTimeStepData, Smaller
<1>2. ASSUME NEW e \in ADERDGTimeStepData
      PROVE  ReinitialiseIfInstable(e, scheme) \in ADERDGTimeStepData
  <2> DEFINE stable == e.nextPredictorSize
             used   == IF e.predictorSize = 0 THEN stable ELSE e.predictorSize
  <2>1. stable \in Nat /\ used \in Nat
    BY <1>2 DEF ADERDGTimeStepData
  <2>2. Weighted(stable) \in Nat /\ Average(used, Weighted(stable)) \in Nat
    BY <2>1, ArithmeticType
  <2>3. /\ UpdateMinNextPredictorTimeStepSize(e, Weighted(stable), scheme)
             \in ADERDGTimeStepData
        /\ UpdateMinNextPredictorTimeStepSize(e, Average(used, Weighted(stable)), scheme)
             \in ADERDGTimeStepData
    BY <1>1, <1>2, <2>2
  <2>4. [ UpdateMinNextPredictorTimeStepSize(e, Weighted(stable), scheme)
          EXCEPT !.predictorSize = Weighted(stable) ] \in ADERDGTimeStepData
    BY <2>2, <2>3 DEF ADERDGTimeStepData
  <2> QED
    BY <2>3, <2>4 DEF ReinitialiseIfInstable
<1>3. ASSUME NEW e \in ADERDGTimeStepData
      PROVE  StartNewTimeStep(e, scheme) \in ADERDGTimeStepData
  BY <1>3, TimeStepDataAssumption DEF StartNewTimeStep, ADERDGTimeStepData
<1>4. NextTimeStep(d, t, scheme) \in ADERDGTimeStepData
  BY <1>1, <1>2, <1>3 DEF NextTimeStep, WithStableSize
<1>5. ZeroTimeStepSizes(d) \in ADERDGTimeStepData
  BY DEF ZeroTimeStepSizes, ADERDGTimeStepData
<1>6. RollbackToPreviousTimeStep(d, scheme) \in ADERDGTimeStepData
  BY TimeStepDataAssumption DEF RollbackToPreviousTimeStep, ADERDGTimeStepData
<1>7. InitialiseFusedTimeStepping(d) \in ADERDGTimeStepData
  <2>1. /\ d.predictorSize \in Nat
        /\ d.predictorStamp + d.predictorSize \in Nat
    BY DEF ADERDGTimeStepData
  <2> QED
    BY <2>1 DEF InitialiseFusedTimeStepping, ADERDGTimeStepData
<1>8. WasInstable(d, t, scheme) \in BOOLEAN
  BY DEF WasInstable, UsedTimeStepSizeWasInstable
<1> QED
  BY <1>4, <1>5, <1>6, <1>7, <1>8

LEMMA InitFusedType ==
  ASSUME NEW d \in ADERDGTimeStepData
  PROVE  InitFusedSolverTimeStepSizes(d) \in ADERDGTimeStepData
BY DEF InitFusedSolverTimeStepSizes, ADERDGTimeStepData

LEMMA FiniteVolumesTimeStepDataType ==
  ASSUME NEW d \in FiniteVolumesTimeStepData, NEW t \in Nat, NEW scheme
  PROVE  /\ NextFiniteVolumesTimeStep(d, t, scheme) \in FiniteVolumesTimeStepData
         /\ [ d EXCEPT !.size = 0 ] \in FiniteVolumesTimeStepData
  BY TimeStepDataAssumption
     DEF NextFiniteVolumesTimeStep, StartNewFiniteVolumesTimeStep,
         FiniteVolumesTimeStepData, Smaller

(***************************************************************************)
(* The operators on the request flags keep their types.                    *)
(***************************************************************************)
LEMMA SetNextType ==
  ASSUME NEW f \in Flags
  PROVE  SetNext(f) \in Flags
  BY DEF Flags, SetNext, LimiterDomainChange

LEMMA MemoriseType ==
  ASSUME NEW f \in Flags
  PROVE  Memorise(f) \in Flags
<1> DEFINE mesh == f.nextMesh \/ f.mesh
<1>1. mesh \in BOOLEAN
  OBVIOUS
<1>2. Worst(f.nextChange, f.change) \in LimiterDomainChange
  BY DEF Flags, Worst, LimiterDomainChange
<1> HIDE DEF mesh
<1>3. [ f EXCEPT !.nextMesh = mesh, !.nextChange = Worst(f.nextChange, f.change) ] \in Flags
  BY <1>1, <1>2 DEF Flags
<1> QED
  BY <1>3 DEF mesh, Memorise

LEMMA UpdateNextType ==
  ASSUME NEW f \in Flags, NEW mesh \in BOOLEAN, NEW c \in LimiterDomainChange
  PROVE  UpdateNext(f, mesh, c) \in Flags
<1> DEFINE asked == f.nextMesh \/ mesh
           stable == f.nextStable /\ ~(f.nextMesh \/ mesh)
<1>1. asked \in BOOLEAN /\ stable \in BOOLEAN
  OBVIOUS
<1>2. Worst(f.nextChange, c) \in LimiterDomainChange
  BY DEF Flags, Worst, LimiterDomainChange
<1> HIDE DEF asked, stable
<1>3. [ f EXCEPT !.nextMesh = asked, !.nextStable = stable,
                 !.nextChange = Worst(f.nextChange, c) ] \in Flags
  BY <1>1, <1>2 DEF Flags
<1> QED
  BY <1>3 DEF asked, stable, UpdateNext

(* The runner's phases. *)
LEMMA SuccessorType ==
  /\ DOMAIN Successor =
       { "Drop", "Spreading", "MeshUpdate", "Reinitialisation", "LocalRecomputation",
         "Prediction", "GlobalRecomputation", "Rerun" }
  /\ \A p \in DOMAIN Successor : Successor[p] \in Phase
  BY DEF Successor, Phase

LEMMA EnterType ==
  ASSUME NEW p \in DOMAIN Successor, Enter(p)
  PROVE  phase' \in Phase
  BY SuccessorType DEF Enter

(* No Finite Volumes solver reruns its predictor. *)
LEMMA OnlyADERDGReruns == Computing("PredictionRerunAllSend") \subseteq ADER
  BY FusedTimeSteppingAssumption
     DEF Computing, IsComputing, FiniteVolumesIsComputing, ADER
-----------------------------------------------------------------------------
(***************************************************************************)
(* The parts actions are built from keep the types of what they change.    *)
(***************************************************************************)
LEMMA MinTimeStepSizeType ==
  ASSUME TypeOK, NEW s \in Solver
  PROVE  MinTimeStepSize(s) \in Nat
  BY DEF TypeOK, TimeData, MinTimeStepSize, ADERDGTimeStepData,
         FiniteVolumesTimeStepData

LEMMA ComputeTimeStepSizesType ==
  ASSUME TypeOK, NEW comp, NEW size \in [Solver -> StepSizes],
         ComputeTimeStepSizes(comp, size)
  PROVE  /\ DOMAIN time' = Solver
         /\ \A s \in Solver : time'[s] \in TimeData(s)
         /\ stabilityConditionWasViolated' \in [Solver -> BOOLEAN]
<1>1. \A s \in Solver : size[s] \in Nat
  <2>1. StepSizes \subseteq Nat
    BY FusedTimeSteppingAssumption, TimeStepDataAssumption
  <2> QED
    BY <2>1
<1>2. DOMAIN time' = Solver
  BY DEF ComputeTimeStepSizes
<1>3. ASSUME NEW s \in Solver PROVE time'[s] \in TimeData(s)
  <2>1. CASE s \notin comp
    BY <2>1 DEF ComputeTimeStepSizes, TypeOK
  <2>2. CASE s \in comp /\ s \in ADER
    <3>1. time'[s] = NextTimeStep(time[s], size[s], TimeStepping[s])
      BY <2>2 DEF ComputeTimeStepSizes
    <3>2. time[s] \in ADERDGTimeStepData
      BY <2>2 DEF TypeOK, TimeData
    <3> QED
      BY <2>2, <3>1, <3>2, <1>1, TimeStepDataType DEF TimeData
  <2>3. CASE s \in comp /\ s \notin ADER
    <3>1. time'[s] = NextFiniteVolumesTimeStep(time[s], size[s], TimeStepping[s])
      BY <2>3 DEF ComputeTimeStepSizes
    <3>2. time[s] \in FiniteVolumesTimeStepData
      BY <2>3 DEF TypeOK, TimeData
    <3> QED
      BY <2>3, <3>1, <3>2, <1>1, FiniteVolumesTimeStepDataType DEF TimeData
  <2> QED
    BY <2>1, <2>2, <2>3
<1>4. stabilityConditionWasViolated' \in [Solver -> BOOLEAN]
  <2>1. \A s \in Solver : WasInstable(time[s], size[s], TimeStepping[s]) \in BOOLEAN
    BY DEF WasInstable, UsedTimeStepSizeWasInstable
  <2> QED
    BY <2>1 DEF ComputeTimeStepSizes, TypeOK
<1> QED
  BY <1>2, <1>3, <1>4

LEMMA ExchangeType ==
  ASSUME TypeOK, NEW send, NEW sends \in BOOLEAN, Exchange(send, sends)
  PROVE  /\ faceData' \in [Solver -> Nat]
         /\ metadata' \in Nat
<1>1. ASSUME NEW s \in Solver
      PROVE  faceData[s] - Count(s \in Receivers) + Count(s \in send) \in Nat
  BY DEF Exchange, Arrived, Count, TypeOK
<1>2. faceData' \in [Solver -> Nat]
  BY <1>1 DEF Exchange
<1>3. metadata' \in Nat
  BY DEF Exchange, Arrived, Count, TypeOK
<1> QED
  BY <1>2, <1>3

LEMMA AdvanceSolversType ==
  ASSUME TypeOK, NEW sec, NEW size \in [Solver -> StepSizes], AdvanceSolvers(sec, size)
  PROVE  /\ DOMAIN time' = Solver
         /\ \A s \in Solver : time'[s] \in TimeData(s)
         /\ stabilityConditionWasViolated' \in [Solver -> BOOLEAN]
         /\ faceData' \in [Solver -> Nat]
         /\ metadata' \in Nat
         /\ predictedWith' \in [Solver -> SUBSET Nat]
         /\ solution' \in [Solver -> [CellClass -> [ now : Nat, before : Nat ]]]
<1>1. /\ DOMAIN time' = Solver
      /\ \A s \in Solver : time'[s] \in TimeData(s)
      /\ stabilityConditionWasViolated' \in [Solver -> BOOLEAN]
  BY ComputeTimeStepSizesType DEF AdvanceSolvers
<1>2. /\ faceData' \in [Solver -> Nat]
      /\ metadata' \in Nat
  BY ExchangeType DEF AdvanceSolvers
<1>3. \A s \in ADER : time[s].predictorSize \in Nat
  BY DEF TypeOK, TimeData, ADERDGTimeStepData, ADER
<1>4. predictedWith' \in [Solver -> SUBSET Nat]
  BY <1>3 DEF AdvanceSolvers, TypeOK
<1>5. ASSUME NEW s \in Solver, NEW c \in CellClass
      PROVE  [ now    |-> solution[s][c].now + MinTimeStepSize(s),
               before |-> solution[s][c].now ] \in [ now : Nat, before : Nat ]
  BY MinTimeStepSizeType DEF TypeOK
<1>6. solution' \in [Solver -> [CellClass -> [ now : Nat, before : Nat ]]]
  BY <1>5 DEF AdvanceSolvers, UpdateSolution, TypeOK
<1> QED
  BY <1>1, <1>2, <1>4, <1>6

LEMMA MeshRefinementSweepType ==
  ASSUME TypeOK, MeshRefinementSweep
  PROVE  /\ flags' \in [Solver -> Flags]
         /\ DOMAIN time' = Solver
         /\ \A s \in Solver : time'[s] \in TimeData(s)
         /\ faceData' \in [Solver -> Nat]
         /\ metadata' \in Nat
         /\ isFirstIteration' \in [ spreading : BOOLEAN, refinement : BOOLEAN ]
         /\ continueToConstructGrid' \in BOOLEAN
         /\ unstableIterations' \in 0..MaxUnstable
<1>1. /\ flags' \in [Solver -> Flags]
      /\ continueToConstructGrid' \in BOOLEAN
      /\ unstableIterations' \in 0..MaxUnstable
  <2>1. PICK stable \in [Solver -> BOOLEAN], continue \in BOOLEAN :
          /\ \/ unstableIterations < MaxUnstable
             \/ ~continue /\ \A s \in Solver : stable[s]
          /\ flags' = [ s \in Solver |->
               IF flags[s].mesh
               THEN [ flags[s] EXCEPT !.stable = flags[s].nextStable /\ stable[s],
                                      !.nextStable = TRUE ]
               ELSE flags[s] ]
          /\ continueToConstructGrid' = continue
          /\ unstableIterations' =
               IF continue \/ \E s \in Solver : ~stable[s]
               THEN unstableIterations + 1 ELSE unstableIterations
    BY DEF MeshRefinementSweep
  <2>2. flags' \in [Solver -> Flags]
    <3>1. ASSUME NEW s \in Solver
          PROVE  [ flags[s] EXCEPT !.stable = flags[s].nextStable /\ stable[s],
                                   !.nextStable = TRUE ] \in Flags
      <4> DEFINE b == flags[s].nextStable /\ stable[s]
      <4>1. b \in BOOLEAN
        OBVIOUS
      <4>2. flags[s] \in Flags
        BY DEF TypeOK
      <4> HIDE DEF b
      <4>3. [ flags[s] EXCEPT !.stable = b, !.nextStable = TRUE ] \in Flags
        BY <4>1, <4>2 DEF Flags
      <4> QED
        BY <4>3 DEF b
    <3> QED
      BY <2>1, <3>1 DEF TypeOK
  <2>3. unstableIterations' \in 0..MaxUnstable
    <3> DEFINE unstable == continue \/ \E s \in Solver : ~stable[s]
    <3>1. unstableIterations \in 0..MaxUnstable
      BY DEF TypeOK
    <3>2. CASE unstable
      <4>1. unstableIterations < MaxUnstable
        BY <2>1, <3>2
      <4>2. unstableIterations' = unstableIterations + 1
        BY <2>1, <3>2
      <4> QED
        BY <3>1, <4>1, <4>2, FusedTimeSteppingAssumption
    <3>3. CASE ~unstable
      BY <2>1, <3>1, <3>3
    <3> QED
      BY <3>2, <3>3
  <2> QED
    BY <2>1, <2>2, <2>3
<1>2. ASSUME NEW s \in Solver PROVE time'[s] \in TimeData(s)
  <2>1. CASE ~flags[s].mesh
    BY <2>1 DEF MeshRefinementSweep, TypeOK
  <2>2. CASE flags[s].mesh /\ s \in ADER
    BY <2>2, TimeStepDataType, 0 \in Nat DEF MeshRefinementSweep, TypeOK, TimeData
  <2>3. CASE flags[s].mesh /\ s \notin ADER
    BY <2>3, FiniteVolumesTimeStepDataType, 0 \in Nat
       DEF MeshRefinementSweep, TypeOK, TimeData
  <2> QED
    BY <2>1, <2>2, <2>3
<1>3. DOMAIN time' = Solver
  BY DEF MeshRefinementSweep
<1>4. /\ faceData' \in [Solver -> Nat]
      /\ metadata' \in Nat
  BY ExchangeType DEF MeshRefinementSweep
<1>5. isFirstIteration' \in [ spreading : BOOLEAN, refinement : BOOLEAN ]
  BY DEF MeshRefinementSweep, TypeOK
<1> QED
  BY <1>1, <1>2, <1>3, <1>4, <1>5

LEMMA PredictAndInitialiseFusedType ==
  ASSUME TypeOK, NEW sec, PredictAndInitialiseFused(sec)
  PROVE  /\ DOMAIN time' = Solver
         /\ \A s \in Solver : time'[s] \in TimeData(s)
         /\ faceData' \in [Solver -> Nat]
         /\ metadata' \in Nat
         /\ predictedWith' \in [Solver -> SUBSET Nat]
<1>1. ASSUME NEW s \in Solver PROVE time'[s] \in TimeData(s)
  <2> DEFINE ahead == IF s \in Computing(sec) \cap ADER
                      THEN InitialiseFusedTimeStepping(time[s]) ELSE time[s]
  <2>1. time'[s] = IF s \in Limiting THEN InitFusedSolverTimeStepSizes(ahead) ELSE ahead
    BY DEF PredictAndInitialiseFused
  <2>2. time[s] \in TimeData(s)
    BY DEF TypeOK
  <2>3. ahead \in TimeData(s)
    BY <2>2, TimeStepDataType, 0 \in Nat DEF TimeData
  <2>4. CASE s \in Limiting
    <3>1. ahead \in ADERDGTimeStepData /\ s \in ADER
      BY <2>3, <2>4 DEF TimeData, Limiting, ADER
    <3> QED
      BY <2>1, <2>4, <3>1, InitFusedType DEF TimeData
  <2>5. CASE s \notin Limiting
    BY <2>1, <2>3, <2>5
  <2> QED
    BY <2>4, <2>5
<1>2. /\ faceData' \in [Solver -> Nat]
      /\ metadata' \in Nat
  BY ExchangeType DEF PredictAndInitialiseFused
<1>3. \A s \in ADER : time[s].predictorSize \in Nat
  BY DEF TypeOK, TimeData, ADERDGTimeStepData, ADER
<1>4. predictedWith' \in [Solver -> SUBSET Nat]
  BY <1>3 DEF PredictAndInitialiseFused, TypeOK
<1>5. DOMAIN time' = Solver
  BY DEF PredictAndInitialiseFused
<1> QED
  BY <1>1, <1>2, <1>4, <1>5

(* Every limiter domain change a cell reports is one. *)
LEMMA ReportType ==
  ASSUME NEW report \in CellReports, NEW s \in Solver
  PROVE  /\ report.mesh[s] \in BOOLEAN
         /\ report.change[s] \in LimiterDomainChange
  BY FusedTimeSteppingAssumption DEF CellReports
-----------------------------------------------------------------------------
(***************************************************************************)
(* Type correctness.                                                       *)
(***************************************************************************)
LEMMA InitTypeOK == Init => TypeOK
<1> SUFFICES ASSUME Init PROVE TypeOK
  OBVIOUS
<1>1. InitialADERDG(0) \in ADERDGTimeStepData
  BY TimeStepDataAssumption DEF InitialADERDG, ADERDGTimeStepData
<1>2. InitialFiniteVolumes(0) \in FiniteVolumesTimeStepData
  BY TimeStepDataAssumption DEF InitialFiniteVolumes, FiniteVolumesTimeStepData
<1>3. \A s \in Solver : time[s] \in TimeData(s)
  BY <1>1, <1>2 DEF Init, TimeData
<1>4. flags \in [Solver -> Flags]
  BY DEF Init, Flags, LimiterDomainChange
<1>5. solution \in [Solver -> [CellClass -> [ now : Nat, before : Nat ]]]
  BY DEF Init
<1>6. unstableIterations \in 0..MaxUnstable
  BY FusedTimeSteppingAssumption DEF Init
<1> QED
  BY <1>3, <1>4, <1>5, <1>6 DEF Init, TypeOK, Phase, Section

LEMMA NextTypeOK == TypeOK /\ [Next]_vars => TypeOK'
<1> SUFFICES ASSUME TypeOK, [Next]_vars PROVE TypeOK'
  OBVIOUS
<1>1. CASE CreateMeshIterate
  <2>1. MeshRefinementSweep
    BY <1>1 DEF CreateMeshIterate
  <2>2. UNCHANGED << extraIterations, algorithmSection, isInitialMeshRefinement,
                     stabilityConditionWasViolated, predictedWith, solution >>
    BY <1>1 DEF CreateMeshIterate, MeshRefinementSweep, cellVars
  <2>3. phase' \in Phase
    BY <1>1 DEF CreateMeshIterate, Phase
  <2> QED
    BY <2>1, <2>2, <2>3, MeshRefinementSweepType DEF TypeOK, TimeData
<1>2. CASE StartExtraIterations
  BY <1>2 DEF StartExtraIterations, cellVars, mailVars, TypeOK, TimeData, Phase
<1>3. CASE CreateMeshExtraIterate
  <2>1. MeshRefinementSweep
    BY <1>3 DEF CreateMeshExtraIterate
  <2>2. UNCHANGED << phase, algorithmSection, isInitialMeshRefinement,
                     stabilityConditionWasViolated, predictedWith, solution >>
    BY <1>3 DEF CreateMeshExtraIterate, MeshRefinementSweep, cellVars
  <2>3. extraIterations' \in 0..5
    BY <1>3 DEF CreateMeshExtraIterate, TypeOK
  <2> QED
    BY <2>1, <2>2, <2>3, MeshRefinementSweepType DEF TypeOK, TimeData
<1>4. CASE FinishMesh
  BY <1>4 DEF FinishMesh, cellVars, mailVars, gridVars, TypeOK, TimeData, Phase
<1>5. CASE InitialTimeStepSizeComputation
  <2>1. PICK size \in [Solver -> StepSizes] :
          ComputeTimeStepSizes(Computing(algorithmSection), size)
    BY <1>5 DEF InitialTimeStepSizeComputation
  <2>2. flags' \in [Solver -> Flags]
    BY <1>5, SetNextType DEF InitialTimeStepSizeComputation, TypeOK
  <2>3. /\ faceData' \in [Solver -> Nat]
        /\ metadata' \in Nat
    BY <1>5, ExchangeType DEF InitialTimeStepSizeComputation
  <2> QED
    BY <1>5, <2>1, <2>2, <2>3, ComputeTimeStepSizesType
       DEF InitialTimeStepSizeComputation, TypeOK, TimeData, Phase, Section, gridVars,
           cellVars
<1>6. CASE InitialPrediction
  BY <1>6, PredictAndInitialiseFusedType
     DEF InitialPrediction, PredictAndInitialiseFused, TypeOK, TimeData, Phase, gridVars
<1>7. CASE ADERDGTimeStep
  <2>1. PICK size \in [Solver -> StepSizes] : AdvanceSolvers("TimeStepping", size)
    BY <1>7 DEF ADERDGTimeStep
  <2>2. flags' \in [Solver -> Flags]
    <3>1. PICK report \in CellReports :
            flags' = [ s \in Solver |->
              SetNext(UpdateNext(SetNext(flags[s]), report.mesh[s], report.change[s])) ]
      BY <1>7 DEF ADERDGTimeStep
    <3>2. ASSUME NEW s \in Solver
          PROVE  SetNext(UpdateNext(SetNext(flags[s]), report.mesh[s], report.change[s]))
                   \in Flags
      <4>1. SetNext(flags[s]) \in Flags
        BY SetNextType DEF TypeOK
      <4> QED
        BY <4>1, ReportType, SetNextType, UpdateNextType
    <3> QED
      BY <3>1, <3>2
  <2> QED
    BY <1>7, <2>1, <2>2, AdvanceSolversType
       DEF ADERDGTimeStep, TypeOK, TimeData, Phase, Section, gridVars
<1>8. CASE SkipPhase
  BY <1>8, SuccessorType
     DEF SkipPhase, TypeOK, TimeData, gridVars, cellVars, mailVars
<1>9. CASE DropNeighbourData
  <2>1. phase' \in Phase
    BY <1>9, EnterType, SuccessorType DEF DropNeighbourData
  <2> QED
    BY <1>9, <2>1, ExchangeType DEF DropNeighbourData, TypeOK, TimeData, gridVars, cellVars
<1>10. CASE LimiterStatusSpreading
  <2>1. phase' \in Phase
    BY <1>10, EnterType, SuccessorType DEF LimiterStatusSpreading
  <2>2. flags' \in [Solver -> Flags]
    <3>1. PICK request \in SUBSET (Limiting \cap MeshRequesters) :
            flags' = [ s \in Solver |->
              IF s \notin Limiting \/ flags[s].change = "Regular" THEN flags[s]
              ELSE SetNext(
                     UpdateNext(Memorise(flags[s]), s \in request,
                                IF s \in request THEN "IrregularRequiringMeshUpdate"
                                                 ELSE "Regular")) ]
      BY <1>10 DEF LimiterStatusSpreading
    <3>2. ASSUME NEW s \in Solver
          PROVE  SetNext(UpdateNext(Memorise(flags[s]), s \in request,
                           IF s \in request THEN "IrregularRequiringMeshUpdate"
                                            ELSE "Regular")) \in Flags
      <4> DEFINE asked  == s \in request
                 change == IF asked THEN "IrregularRequiringMeshUpdate" ELSE "Regular"
      <4>1. Memorise(flags[s]) \in Flags
        BY MemoriseType DEF TypeOK
      <4>2. change \in LimiterDomainChange
        BY DEF LimiterDomainChange
      <4>3. asked \in BOOLEAN
        OBVIOUS
      <4> HIDE DEF asked, change
      <4>4. SetNext(UpdateNext(Memorise(flags[s]), asked, change)) \in Flags
        BY <4>1, <4>2, <4>3, UpdateNextType, SetNextType
      <4> QED
        BY <4>4 DEF asked, change
    <3> QED
      BY <3>1, <3>2 DEF TypeOK
  <2> QED
    BY <1>10, <2>1, <2>2, ExchangeType
       DEF LimiterStatusSpreading, TypeOK, TimeData, Section, gridVars, cellVars
<1>11. CASE StartMeshUpdate
  <2>1. unstableIterations' \in 0..MaxUnstable
    BY <1>11, FusedTimeSteppingAssumption DEF StartMeshUpdate
  <2> QED
    BY <1>11, <2>1
       DEF StartMeshUpdate, TypeOK, TimeData, Phase, Section, mailVars, cellVars
<1>12. CASE FinaliseMeshRefinementAndReinitialisation
  <2>1. phase' \in Phase
    BY <1>12, EnterType, SuccessorType DEF FinaliseMeshRefinementAndReinitialisation
  <2>2. DOMAIN time' = Solver
    BY <1>12 DEF FinaliseMeshRefinementAndReinitialisation
  <2>3. ASSUME NEW s \in Solver PROVE time'[s] \in TimeData(s)
    <3>1. CASE s \in Limiting /\ flags[s].change # "Regular"
      BY <1>12, <3>1, TimeStepDataType, 0 \in Nat
         DEF FinaliseMeshRefinementAndReinitialisation, TypeOK, TimeData, Limiting, ADER
    <3>2. CASE ~(s \in Limiting /\ flags[s].change # "Regular")
      BY <1>12, <3>2 DEF FinaliseMeshRefinementAndReinitialisation, TypeOK
    <3> QED
      BY <3>1, <3>2
  <2>4. solution' \in [Solver -> [CellClass -> [ now : Nat, before : Nat ]]]
    BY <1>12 DEF FinaliseMeshRefinementAndReinitialisation, TypeOK
  <2>5. /\ faceData' \in [Solver -> Nat]
        /\ metadata' \in Nat
    BY <1>12, ExchangeType DEF FinaliseMeshRefinementAndReinitialisation
  <2> QED
    BY <1>12, <2>1, <2>2, <2>3, <2>4, <2>5
       DEF FinaliseMeshRefinementAndReinitialisation, TypeOK, TimeData, Section, gridVars
<1>13. CASE LocalRecomputationAndTimeStepSizeComputation
  <2>1. phase' \in Phase
    BY <1>13, EnterType, SuccessorType DEF LocalRecomputationAndTimeStepSizeComputation
  <2>2. algorithmSection' \in Section
    BY <1>13 DEF LocalRecomputationAndTimeStepSizeComputation, LocalRecomputationSection,
                 TypeOK, Section
  <2>3. /\ DOMAIN time' = Solver
        /\ \A s \in Solver : time'[s] \in TimeData(s)
        /\ stabilityConditionWasViolated' \in [Solver -> BOOLEAN]
    BY <1>13, ComputeTimeStepSizesType DEF LocalRecomputationAndTimeStepSizeComputation
  <2>4. /\ faceData' \in [Solver -> Nat]
        /\ metadata' \in Nat
    BY <1>13, ExchangeType DEF LocalRecomputationAndTimeStepSizeComputation
  <2>5. \A s \in LocallyRecomputing : /\ time[s].correctorSize \in Nat
                                      /\ time[s].predictorSize \in Nat
    BY DEF TypeOK, TimeData, ADERDGTimeStepData, LocallyRecomputing, Limiting, ADER
  <2>6. solution' \in [Solver -> [CellClass -> [ now : Nat, before : Nat ]]]
    <3>1. ASSUME NEW s \in LocallyRecomputing, NEW c \in CellClass
          PROVE  [ now    |-> solution[s][c].now + time[s].correctorSize,
                   before |-> solution[s][c].now ] \in [ now : Nat, before : Nat ]
      BY <2>5 DEF TypeOK, LocallyRecomputing, Limiting
    <3> QED
      BY <1>13, <3>1 DEF LocalRecomputationAndTimeStepSizeComputation, TypeOK
  <2>7. predictedWith' \in [Solver -> SUBSET Nat]
    BY <1>13, <2>5 DEF LocalRecomputationAndTimeStepSizeComputation, TypeOK
  <2> QED
    BY <1>13, <2>1, <2>2, <2>3, <2>4, <2>6, <2>7
       DEF LocalRecomputationAndTimeStepSizeComputation, TypeOK, TimeData, gridVars
<1>14. CASE PredictionAfterMeshUpdate
  <2>1. phase' \in Phase
    BY <1>14, EnterType, SuccessorType DEF PredictionAfterMeshUpdate
  <2> QED
    BY <1>14, <2>1, PredictAndInitialiseFusedType
       DEF PredictionAfterMeshUpdate, PredictAndInitialiseFused, PredictionSection,
           TypeOK, TimeData, Section, gridVars
<1>15. CASE GlobalRecomputation
  <2>1. phase' \in Phase
    BY <1>15, EnterType, SuccessorType DEF GlobalRecomputation
  <2>2. PICK size \in [Solver -> StepSizes] :
          AdvanceSolvers("GlobalRecomputationAllSend", size)
    BY <1>15 DEF GlobalRecomputation
  <2>3. \A s \in Solver : UpdateNext(flags[s], FALSE, "Regular") \in Flags
    BY UpdateNextType DEF TypeOK, LimiterDomainChange
  <2>4. flags' \in [Solver -> Flags]
    BY <1>15, <2>3 DEF GlobalRecomputation, TypeOK
  <2> QED
    BY <1>15, <2>1, <2>2, <2>4, AdvanceSolversType
       DEF GlobalRecomputation, TypeOK, TimeData, Section, gridVars
<1>16. CASE PredictionRerun
  <2>1. phase' \in Phase
    BY <1>16, EnterType, SuccessorType DEF PredictionRerun
  <2>2. /\ faceData' \in [Solver -> Nat]
        /\ metadata' \in Nat
    BY <1>16, ExchangeType DEF PredictionRerun
  <2>3. \A s \in Computing("PredictionRerunAllSend") : time[s].predictorSize \in Nat
    BY OnlyADERDGReruns DEF TypeOK, TimeData, ADERDGTimeStepData, ADER
  <2>4. predictedWith' \in [Solver -> SUBSET Nat]
    BY <1>16, <2>3 DEF PredictionRerun, TypeOK
  <2> QED
    BY <1>16, <2>1, <2>2, <2>4 DEF PredictionRerun, TypeOK, TimeData, Section, gridVars
<1>17. CASE EndSimulation
  BY <1>17 DEF EndSimulation, TypeOK, TimeData, Phase, gridVars, cellVars, mailVars
<1>18. CASE Terminating \/ UNCHANGED vars
  BY <1>18 DEF Terminating, vars, TypeOK, TimeData
<1> QED
  BY <1>1, <1>2, <1>3, <1>4, <1>5, <1>6, <1>7, <1>8, <1>9, <1>10, <1>11, <1>12, <1>13,
     <1>14, <1>15, <1>16, <1>17, <1>18 DEF Next

(* Whatever the solvers ask for, the variables keep their types. *)
THEOREM TypeCorrect == Spec => []TypeOK
<1> QED
  BY InitTypeOK, NextTypeOK, PTL DEF Spec
=============================================================================
