--------------------- MODULE FusedTimeSteppingMailProofs ---------------------
(***************************************************************************)
(* No grid sweep waits for face data or metadata that was never sent.      *)
(***************************************************************************)
EXTENDS FusedTimeSteppingProofs

(***************************************************************************)
(* The inductive invariant: what is at least under way in each phase.      *)
(* Once the neighbours' data is dropped, there is a request, and as long   *)
(* as there is one, no step of the mesh update is skipped that sends the   *)
(* data again before another one receives it.                              *)
(***************************************************************************)
AllFaceData == \A s \in Solver : faceData[s] >= 1

IsFirst == isFirstIteration.spreading /\ isFirstIteration.refinement

FaceDataUnderWay ==
  /\ phase \in { "Barrier", "Drop", "Rerun" } => AllFaceData
  /\ phase \in { "Spreading", "MeshUpdate", "Reinitialisation" } =>
       MeshUpdateOrRecomputation \/ (AllFaceData /\ IsFirst)
  /\ phase \in { "FirstGrid", "Grid", "ExtraGrid" } =>
       isInitialMeshRefinement \/ MeshUpdateOrRecomputation
  /\ phase = "LocalRecomputation" =>
       /\ MeshUpdateOrRecomputation \/ AllFaceData
       /\ \A s \in LocallyRecomputing : faceData[s] >= 1
  /\ phase = "Prediction" => MeshUpdateOrGlobalRecomputation \/ AllFaceData
  /\ phase = "GlobalRecomputation" =>
       /\ OneSolverRequestedGlobalRecomputation \/ AllFaceData
       /\ \A s \in Computing("GlobalRecomputationAllSend") : faceData[s] >= 1

MetadataUnderWay ==
  /\ phase \in { "InitialTimeStepSize", "Barrier", "Drop", "Reinitialisation",
                 "LocalRecomputation", "Prediction", "GlobalRecomputation", "Rerun" }
       => metadata >= 1
  /\ phase = "Spreading" => MeshUpdateOrRecomputation \/ metadata >= 1
  /\ phase = "MeshUpdate" => OneSolverRequestedMeshUpdate \/ metadata >= 1
  /\ phase = "Grid" => isFirstIteration.refinement \/ metadata >= 1
  /\ phase = "ExtraGrid" =>
       (isFirstIteration.refinement /\ extraIterations > 0) \/ metadata >= 1

FirstIterationsAreNext ==
  /\ phase \in { "InitialPrediction", "Barrier", "Drop", "Spreading",
                 "LocalRecomputation", "Prediction", "GlobalRecomputation", "Rerun" }
       => IsFirst
  /\ phase = "MeshUpdate" => isFirstIteration.refinement
  /\ phase = "InitialPrediction" => algorithmSection = "TimeStepping"

MailInv == FaceDataUnderWay /\ MetadataUnderWay /\ FirstIterationsAreNext
-----------------------------------------------------------------------------
(* In the sections named AllSend every solver sends, of whatever type. *)
LEMMA EveryoneSends ==
  ASSUME NEW sec \in AllSend
  PROVE  Sending(sec) = Solver
  BY FusedTimeSteppingAssumption
     DEF Sending, IsSending, ADERDGIsSending, LimitingIsSending,
         FiniteVolumesIsSending, Type

(* The solvers that will recompute globally sent with the new mesh. *)
LEMMA GloballyRecomputingSend ==
  /\ Computing("GlobalRecomputationAllSend")
       \subseteq Sending("MeshRefinementOrGlobalRecomputation")
  /\ Computing("GlobalRecomputationAllSend") # {}
       => OneSolverRequestedGlobalRecomputation
  BY DEF Computing, Sending, IsComputing, IsSending, ADERDGIsComputing,
         LimitingIsComputing, FiniteVolumesIsComputing, LimitingIsSending,
         OneSolverRequestedGlobalRecomputation, Limiting

(* What is under way after a sweep that could receive. *)
LEMMA Exchanged ==
  ASSUME TypeOK, NEW send, NEW sends \in BOOLEAN, Exchange(send, sends)
  PROVE  /\ \A s \in Solver : s \in send => faceData'[s] >= 1
         /\ \A s \in Solver : s \notin Receivers => faceData'[s] >= faceData[s]
         /\ sends => metadata' >= 1
         /\ ~ReceivesMetadata => metadata' >= metadata
<1>1. \A s \in Solver : faceData[s] \in Nat
  BY DEF TypeOK
<1>2. metadata \in Nat
  BY DEF TypeOK
<1>3. \A s \in Receivers : faceData[s] > 0
  BY DEF Exchange, Arrived
<1>4. ReceivesMetadata => metadata > 0
  BY DEF Exchange, Arrived
<1>5. ASSUME NEW s \in Solver
      PROVE  /\ s \in send => faceData'[s] >= 1
             /\ s \notin Receivers => faceData'[s] >= faceData[s]
  <2>1. faceData'[s] = faceData[s] - Count(s \in Receivers) + Count(s \in send)
    BY DEF Exchange
  <2> QED
    BY <1>1, <1>3, <2>1 DEF Count
<1>6. metadata' = metadata - Count(ReceivesMetadata) + Count(sends)
  BY DEF Exchange
<1> QED
  BY <1>2, <1>4, <1>5, <1>6 DEF Count

(* Who receives in which phase. *)
LEMMA ReceiversOfPhase ==
  /\ phase \in { "FirstGrid", "Grid", "ExtraGrid", "InitialTimeStepSize",
                 "InitialPrediction", "Spreading", "MeshUpdate", "Reinitialisation", "Prediction" }
       => Receivers = {}
  /\ phase = "LocalRecomputation" => Receivers = LocallyRecomputing
  /\ phase = "GlobalRecomputation" =>
       Receivers = Computing("GlobalRecomputationAllSend")
  BY DEF Receivers

(***************************************************************************)
(* A sweep of createMesh leaves the requests for mesh updates and          *)
(* recomputations alone.                                                   *)
(***************************************************************************)
LEMMA RequestsAfterMeshRefinement ==
  ASSUME TypeOK, MeshRefinementSweep, MeshUpdateOrRecomputation
  PROVE  MeshUpdateOrRecomputation'
<1>1. PICK stable \in [Solver -> BOOLEAN] :
        flags' = [ s \in Solver |->
          IF flags[s].mesh
          THEN [ flags[s] EXCEPT !.stable = flags[s].nextStable /\ stable[s],
                                 !.nextStable = TRUE ]
          ELSE flags[s] ]
  BY DEF MeshRefinementSweep
<1>2. ASSUME NEW s \in Solver
      PROVE  flags'[s].mesh = flags[s].mesh /\ flags'[s].change = flags[s].change
  <2>1. flags[s] \in Flags
    BY DEF TypeOK
  <2> QED
    BY <1>1, <2>1 DEF Flags
<1> QED
  BY <1>2 DEF MeshUpdateOrRecomputation, OneSolverRequestedMeshUpdate,
              OneSolverRequestedLocalOrGlobalRecomputation, Limiting

(* The spreading loses no request. *)
LEMMA RequestsAfterSpreading ==
  ASSUME TypeOK, LimiterStatusSpreading
  PROVE  MeshUpdateOrRecomputation'
<1>1. PICK request \in SUBSET (Limiting \cap MeshRequesters) :
        flags' = [ s \in Solver |->
          IF s \notin Limiting \/ flags[s].change = "Regular" THEN flags[s]
          ELSE SetNext(
                 UpdateNext(Memorise(flags[s]), s \in request,
                            IF s \in request THEN "IrregularRequiringMeshUpdate"
                                             ELSE "Regular")) ]
  BY DEF LimiterStatusSpreading
<1>2. PICK s \in Limiting : flags[s].change # "Regular" \/ flags[s].mesh
  BY DEF LimiterStatusSpreading, Enter, Needed, OneSolverRequestedLimiterStatusSpreading
<1>3. s \in Solver
  BY <1>2 DEF Limiting
<1>4. CASE flags[s].change = "Regular"
  BY <1>1, <1>2, <1>3, <1>4
     DEF MeshUpdateOrRecomputation, OneSolverRequestedMeshUpdate
<1>5. CASE flags[s].change # "Regular"
  <2> DEFINE asked  == s \in request
             change == IF asked THEN "IrregularRequiringMeshUpdate" ELSE "Regular"
  <2>1. flags[s] \in Flags /\ asked \in BOOLEAN /\ change \in LimiterDomainChange
    BY <1>3 DEF TypeOK, LimiterDomainChange
  <2>2. flags'[s] = SetNext(UpdateNext(Memorise(flags[s]), asked, change))
    BY <1>1, <1>2, <1>3, <1>5
  <2> HIDE DEF asked, change
  <2>3. Memorise(flags[s]).nextChange # "Regular"
    BY <1>5, <2>1 DEF Memorise, Flags, Worst, LimiterDomainChange
  <2>4. Memorise(flags[s]) \in Flags
    BY <2>1, MemoriseType
  <2>5. UpdateNext(Memorise(flags[s]), asked, change).nextChange # "Regular"
    BY <2>1, <2>3, <2>4 DEF UpdateNext, Flags, Worst, LimiterDomainChange
  <2>6. flags'[s].change # "Regular"
    BY <2>2, <2>5 DEF SetNext
  <2> QED
    BY <1>2, <2>6 DEF MeshUpdateOrRecomputation,
                      OneSolverRequestedLocalOrGlobalRecomputation, Limiting
<1> QED
  BY <1>4, <1>5
-----------------------------------------------------------------------------
(***************************************************************************)
(* The invariant holds initially, and every action preserves it.           *)
(***************************************************************************)
LEMMA MailInit == Init => MailInv
<1> SUFFICES ASSUME Init PROVE MailInv
  OBVIOUS
<1>1. phase = "FirstGrid" /\ isInitialMeshRefinement
  BY DEF Init
<1> QED
  BY <1>1 DEF MailInv, FaceDataUnderWay, MetadataUnderWay, FirstIterationsAreNext

(* A sweep of createMesh sends metadata and keeps the requests. *)
LEMMA MailAfterMeshRefinement ==
  ASSUME TypeOK, MailInv, MeshRefinementSweep,
         phase \in { "FirstGrid", "Grid", "ExtraGrid" }, phase' \in { "Grid", "ExtraGrid" }
  PROVE  MailInv'
<1>1. metadata' >= 1
  BY Exchanged DEF MeshRefinementSweep
<1>2. isInitialMeshRefinement \/ MeshUpdateOrRecomputation
  BY DEF MailInv, FaceDataUnderWay
<1>3. (isInitialMeshRefinement \/ MeshUpdateOrRecomputation)'
  BY <1>2, RequestsAfterMeshRefinement DEF MeshRefinementSweep
<1>4. FaceDataUnderWay'
  BY <1>3 DEF FaceDataUnderWay
<1>5. MetadataUnderWay'
  BY <1>1 DEF MetadataUnderWay
<1>6. FirstIterationsAreNext'
  BY DEF FirstIterationsAreNext
<1> QED
  BY <1>4, <1>5, <1>6 DEF MailInv

(* The runner goes on without a sweep. *)
LEMMA MailAfterSkip ==
  ASSUME TypeOK, MailInv, SkipPhase
  PROVE  MailInv'
<1>1. /\ phase \in DOMAIN Successor
      /\ ~Needed(phase)
      /\ phase' = Successor[phase]
      /\ UNCHANGED << faceData, metadata, flags, isFirstIteration, IsFirst, AllFaceData,
                      stabilityConditionWasViolated >>
  BY DEF SkipPhase, mailVars, IsFirst, AllFaceData
<1>2. UNCHANGED << MeshUpdateOrRecomputation, MeshUpdateOrGlobalRecomputation,
                   OneSolverRequestedMeshUpdate, OneSolverRequestedGlobalRecomputation,
                   LocallyRecomputing, Computing("GlobalRecomputationAllSend") >>
  BY <1>1 DEF MeshUpdateOrRecomputation, MeshUpdateOrGlobalRecomputation,
              OneSolverRequestedMeshUpdate, OneSolverRequestedGlobalRecomputation,
              OneSolverRequestedLocalOrGlobalRecomputation, LocallyRecomputing, Computing
<1>3. MailInv
  OBVIOUS
<1>4. CASE phase = "Drop"
  <2>1. phase' = "Spreading"
    BY <1>1, <1>4 DEF Successor
  <2> QED
    BY <1>1, <1>2, <1>3, <1>4, <2>1
       DEF MailInv, FaceDataUnderWay, MetadataUnderWay, FirstIterationsAreNext
<1>5. CASE phase = "Spreading"
  <2>1. phase' = "MeshUpdate"
    BY <1>1, <1>5 DEF Successor
  <2>2. MeshUpdateOrRecomputation => OneSolverRequestedMeshUpdate
    BY <1>1, <1>5 DEF Needed, OneSolverRequestedLimiterStatusSpreading,
                      MeshUpdateOrRecomputation,
                      OneSolverRequestedLocalOrGlobalRecomputation
  <2> QED
    BY <1>1, <1>2, <1>3, <1>5, <2>1, <2>2
       DEF MailInv, FaceDataUnderWay, MetadataUnderWay, FirstIterationsAreNext, IsFirst
<1>6. CASE phase = "MeshUpdate"
  <2>1. phase' = "Reinitialisation"
    BY <1>1, <1>6 DEF Successor
  <2>2. ~OneSolverRequestedMeshUpdate
    BY <1>1, <1>6 DEF Needed
  <2> QED
    BY <1>1, <1>2, <1>3, <1>6, <2>1, <2>2
       DEF MailInv, FaceDataUnderWay, MetadataUnderWay, FirstIterationsAreNext
<1>7. CASE phase = "Reinitialisation"
  <2>1. phase' = "LocalRecomputation"
    BY <1>1, <1>7 DEF Successor
  <2>2. ~MeshUpdateOrRecomputation
    BY <1>1, <1>7 DEF Needed
  <2>3. AllFaceData /\ IsFirst
    BY <1>7, <2>2 DEF MailInv, FaceDataUnderWay
  <2> QED
    BY <1>1, <1>2, <1>3, <1>7, <2>1, <2>3
       DEF MailInv, FaceDataUnderWay, MetadataUnderWay, FirstIterationsAreNext,
           AllFaceData, LocallyRecomputing, Limiting
<1>8. CASE phase = "LocalRecomputation"
  <2>1. phase' = "Prediction"
    BY <1>1, <1>8 DEF Successor
  <2>2. ~MeshUpdateOrRecomputation
    BY <1>1, <1>8 DEF Needed
  <2> QED
    BY <1>1, <1>2, <1>3, <1>8, <2>1, <2>2
       DEF MailInv, FaceDataUnderWay, MetadataUnderWay, FirstIterationsAreNext
<1>9. CASE phase = "Prediction"
  <2>1. phase' = "GlobalRecomputation"
    BY <1>1, <1>9 DEF Successor
  <2>2. ~MeshUpdateOrGlobalRecomputation
    BY <1>1, <1>9 DEF Needed
  <2> QED
    BY <1>1, <1>2, <1>3, <1>9, <2>1, <2>2
       DEF MailInv, FaceDataUnderWay, MetadataUnderWay, FirstIterationsAreNext,
           AllFaceData, Computing
<1>10. CASE phase = "GlobalRecomputation"
  <2>1. phase' = "Rerun"
    BY <1>1, <1>10 DEF Successor
  <2>2. ~OneSolverRequestedGlobalRecomputation
    BY <1>1, <1>10 DEF Needed
  <2> QED
    BY <1>1, <1>2, <1>3, <1>10, <2>1, <2>2
       DEF MailInv, FaceDataUnderWay, MetadataUnderWay, FirstIterationsAreNext
<1>11. CASE phase = "Rerun"
  <2>1. phase' = "Barrier"
    BY <1>1, <1>11 DEF Successor
  <2> QED
    BY <1>1, <1>2, <1>3, <1>11, <2>1
       DEF MailInv, FaceDataUnderWay, MetadataUnderWay, FirstIterationsAreNext
<1> QED
  BY <1>1, <1>4, <1>5, <1>6, <1>7, <1>8, <1>9, <1>10, <1>11, SuccessorType

(* Recomputing and predicting again, every solver sends again. *)
LEMMA MailAfterLocalRecomputation ==
  ASSUME TypeOK, MailInv, LocalRecomputationAndTimeStepSizeComputation
  PROVE  MailInv'
<1>1. /\ phase = "LocalRecomputation" /\ phase' = "Prediction"
      /\ UNCHANGED << flags, isFirstIteration >>
      /\ Exchange(Sending(LocalRecomputationSection), TRUE)
  BY DEF LocalRecomputationAndTimeStepSizeComputation, Enter, Successor
<1>2. metadata' >= 1 /\ \A s \in Sending(LocalRecomputationSection) : faceData'[s] >= 1
  BY <1>1, Exchanged DEF Sending
<1>3. IsFirst'
  BY <1>1 DEF MailInv, FirstIterationsAreNext, IsFirst
<1>4. (MeshUpdateOrGlobalRecomputation \/ AllFaceData)'
  <2>1. CASE MeshUpdateOrGlobalRecomputation
    BY <1>1, <2>1 DEF MeshUpdateOrGlobalRecomputation, OneSolverRequestedMeshUpdate,
                      OneSolverRequestedGlobalRecomputation
  <2>2. CASE ~MeshUpdateOrGlobalRecomputation
    <3>1. LocalRecomputationSection \in AllSend
      BY <2>2 DEF LocalRecomputationSection, AllSend
    <3>2. Sending(LocalRecomputationSection) = Solver
      BY <3>1, EveryoneSends
    <3> QED
      BY <1>2, <3>2 DEF AllFaceData
  <2> QED
    BY <2>1, <2>2
<1> QED
  BY <1>1, <1>2, <1>3, <1>4
     DEF MailInv, FaceDataUnderWay, MetadataUnderWay, FirstIterationsAreNext

(* With the new mesh, at least the solvers that recompute globally send. *)
LEMMA MailAfterPrediction ==
  ASSUME TypeOK, MailInv, PredictionAfterMeshUpdate
  PROVE  MailInv'
<1>1. /\ phase = "Prediction" /\ phase' = "GlobalRecomputation"
      /\ UNCHANGED << flags, stabilityConditionWasViolated, isFirstIteration >>
      /\ Exchange(Sending(PredictionSection), TRUE)
  BY DEF PredictionAfterMeshUpdate, PredictAndInitialiseFused, Enter, Successor
<1>2. metadata' >= 1 /\ \A s \in Sending(PredictionSection) : faceData'[s] >= 1
  BY <1>1, Exchanged DEF Sending
<1>3. IsFirst'
  BY <1>1 DEF MailInv, FirstIterationsAreNext, IsFirst
<1>4. /\ OneSolverRequestedGlobalRecomputation' = OneSolverRequestedGlobalRecomputation
      /\ Computing("GlobalRecomputationAllSend")' = Computing("GlobalRecomputationAllSend")
  BY <1>1 DEF OneSolverRequestedGlobalRecomputation, Computing
<1>5. /\ (OneSolverRequestedGlobalRecomputation \/ AllFaceData)'
      /\ \A s \in Computing("GlobalRecomputationAllSend") : faceData'[s] >= 1
  <2>1. CASE OneSolverRequestedGlobalRecomputation
    BY <1>2, <1>4, <2>1, GloballyRecomputingSend DEF PredictionSection
  <2>2. CASE ~OneSolverRequestedGlobalRecomputation
    <3>1. PredictionSection \in AllSend
      BY <2>2 DEF PredictionSection, AllSend
    <3>2. Sending(PredictionSection) = Solver
      BY <3>1, EveryoneSends
    <3> QED
      BY <1>2, <3>2 DEF AllFaceData, Computing
  <2> QED
    BY <2>1, <2>2
<1> QED
  BY <1>1, <1>2, <1>3, <1>4, <1>5
     DEF MailInv, FaceDataUnderWay, MetadataUnderWay, FirstIterationsAreNext

(***************************************************************************)
(* The sweeps after which the face data and metadata of every solver are   *)
(* under way: the time step, the global recomputation, the predictor rerun *)
(* and the first prediction.                                               *)
(***************************************************************************)
LEMMA MailAfterAllSend ==
  ASSUME TypeOK, MailInv, NEW sec \in AllSend, Exchange(Sending(sec), TRUE),
         phase' \in { "Drop", "Rerun", "Barrier" }, IsFirst'
  PROVE  MailInv'
<1>1. Sending(sec) = Solver
  BY EveryoneSends
<1>2. metadata' >= 1 /\ AllFaceData'
  BY <1>1, Exchanged DEF AllFaceData
<1> QED
  BY <1>2 DEF MailInv, FaceDataUnderWay, MetadataUnderWay, FirstIterationsAreNext

LEMMA MailNext == TypeOK /\ MailInv /\ [Next]_vars => MailInv'
<1> SUFFICES ASSUME TypeOK, MailInv, [Next]_vars PROVE MailInv'
  OBVIOUS
<1> USE DEF MailInv
<1>1. CASE CreateMeshIterate
  BY <1>1, MailAfterMeshRefinement DEF CreateMeshIterate
<1>2. CASE StartExtraIterations
  <2>1. /\ phase = "Grid" /\ phase' = "ExtraGrid" /\ extraIterations' > 0
        /\ UNCHANGED << flags, metadata, isFirstIteration, isInitialMeshRefinement >>
    BY <1>2 DEF StartExtraIterations, mailVars
  <2>2. MeshUpdateOrRecomputation' = MeshUpdateOrRecomputation
    BY <2>1 DEF MeshUpdateOrRecomputation, OneSolverRequestedMeshUpdate,
                OneSolverRequestedLocalOrGlobalRecomputation
  <2> QED
    BY <2>1, <2>2 DEF FaceDataUnderWay, MetadataUnderWay, FirstIterationsAreNext
<1>3. CASE CreateMeshExtraIterate
  BY <1>3, MailAfterMeshRefinement DEF CreateMeshExtraIterate
<1>4. CASE FinishMesh
  <2>1. /\ phase = "ExtraGrid" /\ extraIterations = 0
        /\ phase' = IF isInitialMeshRefinement THEN "InitialTimeStepSize"
                                               ELSE "Reinitialisation"
        /\ UNCHANGED << flags, metadata >>
    BY <1>4 DEF FinishMesh, mailVars
  <2>2. MeshUpdateOrRecomputation' = MeshUpdateOrRecomputation
    BY <2>1 DEF MeshUpdateOrRecomputation, OneSolverRequestedMeshUpdate,
                OneSolverRequestedLocalOrGlobalRecomputation
  <2>3. metadata >= 1
    BY <2>1 DEF MetadataUnderWay
  <2> QED
    BY <2>1, <2>2, <2>3 DEF FaceDataUnderWay, MetadataUnderWay, FirstIterationsAreNext
<1>5. CASE InitialTimeStepSizeComputation
  <2>1. /\ phase' = "InitialPrediction" /\ algorithmSection' = "TimeStepping"
        /\ IsFirst'
    BY <1>5 DEF InitialTimeStepSizeComputation, IsFirst
  <2> QED
    BY <2>1 DEF FaceDataUnderWay, MetadataUnderWay, FirstIterationsAreNext
<1>6. CASE InitialPrediction
  <2>1. /\ phase = "InitialPrediction" /\ phase' = "Barrier"
        /\ Exchange(Sending(algorithmSection), TRUE) /\ UNCHANGED isFirstIteration
    BY <1>6 DEF InitialPrediction, PredictAndInitialiseFused
  <2>2. algorithmSection \in AllSend /\ IsFirst'
    BY <2>1 DEF FirstIterationsAreNext, AllSend, IsFirst
  <2> QED
    BY <2>1, <2>2, MailAfterAllSend
<1>7. CASE ADERDGTimeStep
  <2>1. /\ phase = "Barrier" /\ phase' = "Drop" /\ UNCHANGED isFirstIteration
        /\ Exchange(Sending("TimeStepping"), TRUE)
    BY <1>7 DEF ADERDGTimeStep, AdvanceSolvers
  <2>2. IsFirst'
    BY <2>1 DEF FirstIterationsAreNext, IsFirst
  <2> QED
    BY <2>1, <2>2, MailAfterAllSend, "TimeStepping" \in AllSend DEF AllSend
<1>8. CASE SkipPhase
  BY <1>8, MailAfterSkip
<1>9. CASE DropNeighbourData
  <2>1. /\ phase = "Drop" /\ phase' = "Spreading" /\ MeshUpdateOrRecomputation
        /\ UNCHANGED << flags, isFirstIteration >>
    BY <1>9 DEF DropNeighbourData, Enter, Successor, Needed
  <2>2. MeshUpdateOrRecomputation'
    BY <2>1 DEF MeshUpdateOrRecomputation, OneSolverRequestedMeshUpdate,
                OneSolverRequestedLocalOrGlobalRecomputation
  <2> QED
    BY <2>1, <2>2 DEF FaceDataUnderWay, MetadataUnderWay, FirstIterationsAreNext, IsFirst
<1>10. CASE LimiterStatusSpreading
  <2>1. /\ phase = "Spreading" /\ phase' = "MeshUpdate"
        /\ isFirstIteration' = [ isFirstIteration EXCEPT !.spreading = FALSE ]
        /\ Exchange({}, TRUE)
    BY <1>10 DEF LimiterStatusSpreading, Enter, Successor
  <2>2. metadata' >= 1
    BY <2>1, Exchanged
  <2>3. isFirstIteration'.refinement
    BY <2>1 DEF FirstIterationsAreNext, IsFirst, TypeOK
  <2> QED
    BY <1>10, <2>1, <2>2, <2>3, RequestsAfterSpreading
       DEF FaceDataUnderWay, MetadataUnderWay, FirstIterationsAreNext
<1>11. CASE StartMeshUpdate
  <2>1. /\ phase = "MeshUpdate" /\ phase' = "Grid" /\ OneSolverRequestedMeshUpdate
        /\ UNCHANGED << flags, isFirstIteration >>
    BY <1>11 DEF StartMeshUpdate, Needed
  <2>2. MeshUpdateOrRecomputation'
    BY <2>1 DEF MeshUpdateOrRecomputation, OneSolverRequestedMeshUpdate
  <2> QED
    BY <2>1, <2>2 DEF FaceDataUnderWay, MetadataUnderWay, FirstIterationsAreNext
<1>12. CASE FinaliseMeshRefinementAndReinitialisation
  <2>1. /\ phase = "Reinitialisation" /\ phase' = "LocalRecomputation"
        /\ MeshUpdateOrRecomputation /\ UNCHANGED flags /\ IsFirst'
        /\ Exchange(LocallyRecomputing, TRUE)
    BY <1>12 DEF FinaliseMeshRefinementAndReinitialisation, Enter, Successor, Needed,
                 IsFirst
  <2>2. metadata' >= 1 /\ \A s \in LocallyRecomputing : faceData'[s] >= 1
    BY <2>1, Exchanged DEF LocallyRecomputing, Limiting
  <2>3. MeshUpdateOrRecomputation' /\ LocallyRecomputing' = LocallyRecomputing
    BY <2>1 DEF MeshUpdateOrRecomputation, OneSolverRequestedMeshUpdate,
                OneSolverRequestedLocalOrGlobalRecomputation, LocallyRecomputing
  <2> QED
    BY <2>1, <2>2, <2>3 DEF FaceDataUnderWay, MetadataUnderWay, FirstIterationsAreNext
<1>13. CASE LocalRecomputationAndTimeStepSizeComputation
  BY <1>13, MailAfterLocalRecomputation
<1>14. CASE PredictionAfterMeshUpdate
  BY <1>14, MailAfterPrediction
<1>15. CASE GlobalRecomputation
  <2>1. /\ phase = "GlobalRecomputation" /\ phase' = "Rerun" /\ UNCHANGED isFirstIteration
        /\ Exchange(Sending("GlobalRecomputationAllSend"), TRUE)
    BY <1>15 DEF GlobalRecomputation, AdvanceSolvers, Enter, Successor
  <2>2. IsFirst'
    BY <2>1 DEF FirstIterationsAreNext, IsFirst
  <2> QED
    BY <2>1, <2>2, MailAfterAllSend, "GlobalRecomputationAllSend" \in AllSend DEF AllSend
<1>16. CASE PredictionRerun
  <2>1. /\ phase = "Rerun" /\ phase' = "Barrier" /\ UNCHANGED isFirstIteration
        /\ Exchange(Sending("PredictionRerunAllSend"), TRUE)
    BY <1>16 DEF PredictionRerun, Enter, Successor
  <2>2. IsFirst'
    BY <2>1 DEF FirstIterationsAreNext, IsFirst
  <2> QED
    BY <2>1, <2>2, MailAfterAllSend, "PredictionRerunAllSend" \in AllSend DEF AllSend
<1>17. CASE EndSimulation
  <2>1. phase' = "Terminated"
    BY <1>17 DEF EndSimulation
  <2> QED
    BY <2>1 DEF FaceDataUnderWay, MetadataUnderWay, FirstIterationsAreNext
<1>18. CASE Terminating \/ UNCHANGED vars
  <2>1. UNCHANGED vars
    BY <1>18 DEF Terminating
  <2> QED
    BY <2>1 DEF vars, mailVars, gridVars, FaceDataUnderWay, MetadataUnderWay,
       FirstIterationsAreNext, AllFaceData, IsFirst, MeshUpdateOrRecomputation,
       MeshUpdateOrGlobalRecomputation, OneSolverRequestedMeshUpdate,
       OneSolverRequestedGlobalRecomputation, LocallyRecomputing, Computing,
       OneSolverRequestedLocalOrGlobalRecomputation
<1> QED
  BY <1>1, <1>2, <1>3, <1>4, <1>5, <1>6, <1>7, <1>8, <1>9, <1>10, <1>11, <1>12, <1>13,
     <1>14, <1>15, <1>16, <1>17, <1>18 DEF Next

(* In every reachable state, what the next sweep receives is under way. *)
THEOREM MailInvariant == Spec => []MailInv
<1> QED
  BY MailInit, MailNext, TypeCorrect, PTL DEF Spec

(***************************************************************************)
(* No sweep of the runner waits for a message that its neighbours did not  *)
(* send: for any set of solvers of any types, any sequence of requests and *)
(* any results of the cells, the receives match the sends before them.     *)
(***************************************************************************)
THEOREM NoSweepWaitsInVain == Spec => []NeverReceivesUnsent
<1>1. TypeOK /\ MailInv => NeverReceivesUnsent
  <2> SUFFICES ASSUME TypeOK, MailInv, SweepTakesPlace PROVE Arrived
    BY DEF NeverReceivesUnsent
  <2>1. \A s \in Receivers : faceData[s] > 0
    <3>1. CASE phase \in { "Barrier", "Drop", "Rerun" }
      <4>1. Receivers \subseteq Solver
        BY <3>1 DEF Receivers, Computing
      <4> QED
        BY <3>1, <4>1 DEF MailInv, FaceDataUnderWay, AllFaceData, TypeOK
    <3>2. CASE phase \in { "LocalRecomputation", "GlobalRecomputation" }
      <4>1. \A s \in Receivers : s \in Solver /\ faceData[s] >= 1
        BY <3>2, ReceiversOfPhase
           DEF MailInv, FaceDataUnderWay, LocallyRecomputing, Limiting, Computing
      <4> QED
        BY <4>1 DEF TypeOK
    <3>3. CASE phase \notin { "Barrier", "Drop", "Rerun", "LocalRecomputation",
                              "GlobalRecomputation" }
      BY <3>3 DEF Receivers
    <3> QED
      BY <3>1, <3>2, <3>3
  <2>2. ReceivesMetadata => metadata > 0
    BY DEF ReceivesMetadata, MailInv, MetadataUnderWay, FirstIterationsAreNext, IsFirst,
           TypeOK
  <2> QED
    BY <2>1, <2>2 DEF Arrived
<1> QED
  BY <1>1, MailInvariant, TypeCorrect, PTL
=============================================================================
