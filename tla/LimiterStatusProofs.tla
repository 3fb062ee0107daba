------------------------ MODULE LimiterStatusProofs ------------------------
(***************************************************************************)
(* Proofs about LimiterStatus for any mesh: any set of cells with a        *)
(* symmetric neighbour relation, any sets of cells that fail the criteria  *)
(* together and any number of iterations to cure a troubled cell.          *)
(***************************************************************************)
EXTENDS LimiterStatus, TLAPS

Statuses == Ok..Troubled

-----------------------------------------------------------------------------
(***************************************************************************)
(* What the status of a cell becomes from those of its neighbours.         *)
(***************************************************************************)

\* A set of statuses has a largest element.
LEMMA LargestStatus ==
  ASSUME NEW S \in SUBSET (0..4), S # {}
  PROVE  \E v \in S : \A w \in S : w <= v
<1>1. CASE 4 \in S
  BY <1>1
<1>2. CASE 4 \notin S /\ 3 \in S
  BY <1>2
<1>3. CASE 4 \notin S /\ 3 \notin S /\ 2 \in S
  BY <1>3
<1>4. CASE 4 \notin S /\ 3 \notin S /\ 2 \notin S /\ 1 \in S
  BY <1>4
<1>5. CASE 4 \notin S /\ 3 \notin S /\ 2 \notin S /\ 1 \notin S
  <2>1. \A w \in S : w = 0
    BY <1>5
  <2>2. PICK v \in S : v = 0
    BY <2>1
  <2> QED
    BY <2>1, <2>2
<1> QED
  BY <1>1, <1>2, <1>3, <1>4, <1>5

\* The merged status of a cell is the largest status at its faces less one: no
\* face asks for more, and one face asks for it unless it is Ok.
LEMMA MergedStatusIsLargest ==
  ASSUME NEW status \in [Cells -> Statuses], NEW c \in Cells
  PROVE  /\ MergedStatus(status, c) \in Ok..NeighbourOfTroubled1
         /\ \A n \in Neighbours[c] :
              /\ status[c] - 1 <= MergedStatus(status, c)
              /\ status[n] - 1 <= MergedStatus(status, c)
         /\ MergedStatus(status, c) # Ok =>
              \E n \in Neighbours[c] :
                MergedStatus(status, c) = Larger(status[c], status[n]) - 1
<1> DEFINE faces == {Larger(status[c], status[n]) : n \in Neighbours[c]}
           values == {Ok} \cup {f - 1 : f \in faces \ {Ok}}
<1>1. Neighbours[c] \subseteq Cells
  BY LimiterStatusAssumption
<1>2. \A n \in Neighbours[c] :
        /\ status[c] \in 0..5 /\ status[n] \in 0..5
        /\ Larger(status[c], status[n]) \in 0..5
        /\ status[c] <= Larger(status[c], status[n])
        /\ status[n] <= Larger(status[c], status[n])
  BY <1>1 DEF Larger, Statuses, Ok, Troubled
<1>3. values \in SUBSET (0..4) /\ values # {}
  BY <1>2 DEF Ok
<1>4. /\ MergedStatus(status, c) \in values
      /\ \A w \in values : w <= MergedStatus(status, c)
  <2>1. \E v \in values : \A w \in values : w <= v
    BY <1>3, LargestStatus
  <2>2. MergedStatus(status, c) = CHOOSE v \in values : \A w \in values : w <= v
    BY DEF MergedStatus
  <2> HIDE DEF values
  <2> QED
    BY <2>1, <2>2
<1>5. MergedStatus(status, c) \in 0..4
  BY <1>3, <1>4
<1>6. ASSUME NEW n \in Neighbours[c]
      PROVE  /\ status[c] - 1 <= MergedStatus(status, c)
             /\ status[n] - 1 <= MergedStatus(status, c)
  <2> DEFINE f == Larger(status[c], status[n])
  <2>1. f \in 0..5 /\ status[c] <= f /\ status[n] <= f
        /\ status[c] \in 0..5 /\ status[n] \in 0..5
    BY <1>2
  <2>2. CASE f = 0
    BY <2>1, <2>2, <1>5
  <2>3. CASE f # 0
    <3>1. f - 1 \in values
      BY <2>3 DEF Ok
    <3>2. f - 1 <= MergedStatus(status, c)
      BY <3>1, <1>4
    <3> HIDE DEF f
    <3> QED
      BY <3>2, <2>1, <1>5
  <2> QED
    BY <2>2, <2>3
<1>7. MergedStatus(status, c) # Ok =>
        \E n \in Neighbours[c] :
          MergedStatus(status, c) = Larger(status[c], status[n]) - 1
  BY <1>4
<1> QED
  BY <1>5, <1>6, <1>7 DEF Ok, NeighbourOfTroubled1

-----------------------------------------------------------------------------
(***************************************************************************)
(* The status by distance: it is what the merged statuses settle at.       *)
(***************************************************************************)

\* It falls by at most one from a cell to the next, only the cells of T are
\* Troubled, and every other cell that is not Ok has a neighbour one above.
LEMMA StatusAroundFallsByOne ==
  ASSUME NEW T \in SUBSET Cells
  PROVE  /\ StatusAround(T) \in [Cells -> Statuses]
         /\ \A c \in Cells : StatusAround(T)[c] = Troubled <=> c \in T
         /\ \A c \in Cells : \A n \in Neighbours[c] :
              StatusAround(T)[n] - 1 <= StatusAround(T)[c]
         /\ \A c \in Cells \ T : StatusAround(T)[c] # Ok =>
              \E n \in Neighbours[c] :
                StatusAround(T)[n] = StatusAround(T)[c] + 1
<1> DEFINE ring1 == Around(T)
           ring2 == Around(ring1)
           ring3 == Around(ring2)
           ring4 == Around(ring3)
           D == StatusAround(T)
<1>1. \A c \in Cells : Neighbours[c] \subseteq Cells
  BY LimiterStatusAssumption
<1>2. ASSUME NEW S \in SUBSET Cells, NEW c \in Cells
      PROVE  /\ Around(S) \in SUBSET Cells
             /\ c \in Around(S) <=> c \in S \/ \E n \in Neighbours[c] : n \in S
  BY DEF Around
<1>3. /\ ring1 \in SUBSET Cells /\ ring2 \in SUBSET Cells
      /\ ring3 \in SUBSET Cells /\ ring4 \in SUBSET Cells
  BY DEF Around
<1>4. D = [c \in Cells |->
            IF c \in T THEN 5 ELSE IF c \in ring1 THEN 4
            ELSE IF c \in ring2 THEN 3 ELSE IF c \in ring3 THEN 2
            ELSE IF c \in ring4 THEN 1 ELSE 0]
  BY DEF StatusAround, Ok, NeighbourOfTroubled4, NeighbourOfTroubled3,
         NeighbourOfTroubled2, NeighbourOfTroubled1, Troubled
<1>5. \A c \in Cells :
        /\ c \in ring1 <=> c \in T \/ \E n \in Neighbours[c] : n \in T
        /\ c \in ring2 <=> c \in ring1 \/ \E n \in Neighbours[c] : n \in ring1
        /\ c \in ring3 <=> c \in ring2 \/ \E n \in Neighbours[c] : n \in ring2
        /\ c \in ring4 <=> c \in ring3 \/ \E n \in Neighbours[c] : n \in ring3
  BY <1>2, <1>3
<1> HIDE DEF ring1, ring2, ring3, ring4, D
<1>6. ASSUME NEW c \in Cells
      PROVE  /\ D[c] \in 0..5
             /\ D[c] >= 5 <=> c \in T
             /\ D[c] >= 4 <=> c \in ring1
             /\ D[c] >= 3 <=> c \in ring2
             /\ D[c] >= 2 <=> c \in ring3
             /\ D[c] >= 1 <=> c \in ring4
  <2>1. /\ c \in T => c \in ring1
        /\ c \in ring1 => c \in ring2
        /\ c \in ring2 => c \in ring3
        /\ c \in ring3 => c \in ring4
    BY <1>5
  <2>2. D[c] = IF c \in T THEN 5 ELSE IF c \in ring1 THEN 4
            ELSE IF c \in ring2 THEN 3 ELSE IF c \in ring3 THEN 2
            ELSE IF c \in ring4 THEN 1 ELSE 0
    BY <1>4
  <2> QED
    BY <2>1, <2>2
<1>7. D \in [Cells -> Statuses]
  BY <1>4 DEF Statuses, Ok, Troubled
<1>8. \A c \in Cells : D[c] = Troubled <=> c \in T
  BY <1>6 DEF Troubled
<1>9. ASSUME NEW c \in Cells, NEW n \in Neighbours[c]
      PROVE  D[n] - 1 <= D[c]
  <2>1. n \in Cells
    BY <1>1
  <2>2. /\ n \in T => c \in ring1
        /\ n \in ring1 => c \in ring2
        /\ n \in ring2 => c \in ring3
        /\ n \in ring3 => c \in ring4
    BY <1>5
  <2> QED
    BY <2>1, <2>2, <1>6
<1>10. ASSUME NEW c \in Cells \ T, D[c] # Ok
       PROVE  \E n \in Neighbours[c] : D[n] = D[c] + 1
  <2>1. D[c] \in 1..4
    BY <1>6, <1>10 DEF Ok
  <2>2. CASE D[c] = 4
    <3>1. PICK n \in Neighbours[c] : n \in T
      BY <1>5, <1>6, <2>2
    <3> QED
      BY <3>1, <1>1, <1>6, <2>2
  <2>3. CASE D[c] = 3
    <3>1. PICK n \in Neighbours[c] : n \in ring1
      BY <1>5, <1>6, <2>3
    <3> QED
      BY <3>1, <1>1, <1>6, <1>9, <2>3
  <2>4. CASE D[c] = 2
    <3>1. PICK n \in Neighbours[c] : n \in ring2
      BY <1>5, <1>6, <2>4
    <3> QED
      BY <3>1, <1>1, <1>6, <1>9, <2>4
  <2>5. CASE D[c] = 1
    <3>1. PICK n \in Neighbours[c] : n \in ring3
      BY <1>5, <1>6, <2>5
    <3> QED
      BY <3>1, <1>1, <1>6, <1>9, <2>5
  <2> QED
    BY <2>1, <2>2, <2>3, <2>4, <2>5
<1> QED
  BY <1>7, <1>8, <1>9, <1>10 DEF D

-----------------------------------------------------------------------------
(***************************************************************************)
(* The inductive invariant.                                                *)
(***************************************************************************)

TroubledCells == {c \in Cells : limiterStatus[c] = Troubled}

\* A troubled cell has iterations left, so the counter never falls below zero.
TroubledCellsCount ==
  \A c \in Cells : limiterStatus[c] = Troubled => iterationsToCure[c] > 0

\* A predictor is missing in troubled cells only.
UntroubledCellsPredict ==
  \A c \in Cells : limiterStatus[c] # Troubled => c \in predicted

\* A cell whose status asks for a limiter patch has one; between the step and
\* the rollback, so has every cell that had one when the step began.
NoPatchIsMissing ==
  /\ \A c \in Cells : limiterStatus[c] # Ok => c \in limiterPatches
  /\ phase \in {"LimiterStatusSpreading", "Reinitialisation"} =>
       \A c \in Cells : previousLimiterStatus[c] # Ok => c \in limiterPatches

\* From cell to cell the status changes by two at the most while steps are
\* regular.  After k sweeps of the spreading it is right in the k outermost of
\* the layers it should have, or has; after five it is right everywhere.
StatusSpreads ==
  /\ phase = "TimeStepping" =>
       \A c \in Cells : \A n \in Neighbours[c] :
         limiterStatus[c] <= limiterStatus[n] + 2
  /\ phase = "LimiterStatusSpreading" =>
       /\ spreadings \in 1..Spreadings
       /\ \A c \in Cells :
            \/ limiterStatus[c] > spreadings
            \/ StatusAround(TroubledCells)[c] > spreadings
            => limiterStatus[c] = StatusAround(TroubledCells)[c]
  /\ StatusFollowsDistance

\* Between the failed step and the rollback: the arrays of the step before are
\* there to roll back to, and the new ones hold what was not in trouble.
ArraysOfFailedStep ==
  phase \in {"LimiterStatusSpreading", "Reinitialisation"} =>
    \A c \in Cells :
      /\ UsesSolver(previousLimiterStatus[c]) => previousSolution[c] = "before"
      /\ previousLimiterStatus[c] # Ok => previousLimiterSolution[c] = "before"
      /\ limiterStatus[c] # Troubled => solution[c] = "now"
      /\ UsesLimiter(previousLimiterStatus[c]) => limiterSolution[c] = "now"

\* After the rollback: where there is a patch it holds the step before, and the
\* outer layers can take back the new solution from where the swap put it.
ArraysAfterRollback ==
  phase = "LocalRecomputation" =>
    \A c \in Cells :
      /\ limiterStatus[c] # Ok => limiterSolution[c] = "before"
      /\ limiterStatus[c] = Ok => solution[c] = "now"
      /\ IsOuterLayer(c) /\ UsesSolver(previousLimiterStatus[c])
           => previousSolution[c] = "now"
      /\ IsOuterLayer(c) /\ UsesLimiter(previousLimiterStatus[c])
           => previousLimiterSolution[c] = "now"

LimiterInv ==
  /\ TypeOK
  /\ TroubledCellsCount
  /\ UntroubledCellsPredict
  /\ NoPatchIsMissing
  /\ StatusSpreads
  /\ SolutionsAreCurrent
  /\ ArraysOfFailedStep
  /\ ArraysAfterRollback

LEMMA InitEstablishesInv ==
  ASSUME Init
  PROVE  LimiterInv
<1>1. PICK T \in TroubledSets : limiterStatus = StatusAround(T)
  BY DEF Init
<1>2. T \in SUBSET Cells
  BY LimiterStatusAssumption
<1>3. /\ limiterStatus \in [Cells -> Statuses]
      /\ \A c \in Cells : \A n \in Neighbours[c] :
           limiterStatus[n] - 1 <= limiterStatus[c]
  BY <1>1, <1>2, StatusAroundFallsByOne
<1>4. TypeOK
  <2>1. IterationsToCure + 1 \in 0..(IterationsToCure + 1)
    BY LimiterStatusAssumption
  <2>2. 0 \in 0..(IterationsToCure + 1)
    BY LimiterStatusAssumption
  <2> QED
    BY <1>3, <2>1, <2>2
       DEF Init, TypeOK, Phases, Contents, Statuses, Ok, Troubled, Spreadings
<1>5. TroubledCellsCount
  BY LimiterStatusAssumption DEF Init, TroubledCellsCount
<1>6. UntroubledCellsPredict /\ NoPatchIsMissing
  BY DEF Init, UntroubledCellsPredict, NoPatchIsMissing
<1>7. StatusSpreads
  <2>1. ASSUME NEW c \in Cells, NEW n \in Neighbours[c]
        PROVE  limiterStatus[c] <= limiterStatus[n] + 2
    <3>1. n \in Cells /\ c \in Neighbours[n]
      BY LimiterStatusAssumption
    <3>2. limiterStatus[c] \in 0..5 /\ limiterStatus[n] \in 0..5
      BY <1>3, <3>1 DEF Statuses, Ok, Troubled
    <3> QED
      BY <1>3, <3>1, <3>2
  <2> QED
    BY <2>1 DEF Init, StatusSpreads, StatusFollowsDistance
<1>8. SolutionsAreCurrent /\ ArraysOfFailedStep /\ ArraysAfterRollback
  BY DEF Init, SolutionsAreCurrent, ArraysOfFailedStep, ArraysAfterRollback
<1> QED
  BY <1>4, <1>5, <1>6, <1>7, <1>8 DEF LimiterInv

-----------------------------------------------------------------------------
(***************************************************************************)
(* A time step.                                                            *)
(***************************************************************************)

\* What TimeStep makes of the status of a cell.
LEMMA StatusAfterStep ==
  ASSUME TypeOK, NEW T \in TroubledSets, NEW c \in Cells
  PROVE  /\ StatusAfterSolutionUpdate(T, c) \in Statuses
         /\ c \in T => StatusAfterSolutionUpdate(T, c) = Troubled
         /\ StatusAfterSolutionUpdate(T, c) = Troubled =>
              c \in T \/ (limiterStatus[c] = Troubled /\ iterationsToCure[c] # 1)
         /\ c \notin T =>
              \/ /\ limiterStatus[c] = Troubled
                 /\ StatusAfterSolutionUpdate(T, c) >= NeighbourOfTroubled1
              \/ /\ limiterStatus[c] # Troubled
                 /\ StatusAfterSolutionUpdate(T, c) = MergedStatus(limiterStatus, c)
<1>1. MergedStatus(limiterStatus, c) \in 0..4
  BY MergedStatusIsLargest DEF TypeOK, Statuses, Ok, NeighbourOfTroubled1
<1> QED
  BY <1>1 DEF StatusAfterSolutionUpdate, IsCured, Statuses, Ok, Troubled,
              NeighbourOfTroubled1

\* A regular step leaves at most two layers between neighbours.
LEMMA RegularStepKeepsLayers ==
  ASSUME TypeOK, StatusSpreads, phase = "TimeStepping",
         NEW T \in TroubledSets, ~IsIrregular(T),
         NEW c \in Cells, NEW n \in Neighbours[c]
  PROVE  StatusAfterSolutionUpdate(T, c) <= StatusAfterSolutionUpdate(T, n) + 2
<1> DEFINE new(x) == StatusAfterSolutionUpdate(T, x)
           old(x) == limiterStatus[x]
<1>1. n \in Cells /\ c \in Neighbours[n]
  BY LimiterStatusAssumption
<1>2. \A x \in Cells : old(x) \in 0..5
  BY DEF TypeOK, Ok, Troubled
<1>3. new(c) \in 0..5 /\ new(n) \in 0..5
  BY <1>1, StatusAfterStep DEF Statuses, Ok, Troubled
<1>4. \A x \in Cells : \A y \in Neighbours[x] : old(x) <= old(y) + 2
  BY DEF StatusSpreads
<1>5. n \notin T => new(n) >= old(c) - 1
  <2>1. n \notin T /\ old(n) # 5 => new(n) = MergedStatus(limiterStatus, n)
    BY <1>1, StatusAfterStep DEF Troubled
  <2>2. MergedStatus(limiterStatus, n) >= old(c) - 1
        /\ MergedStatus(limiterStatus, n) \in 0..4
    BY <1>1, MergedStatusIsLargest DEF TypeOK, Statuses, Ok, NeighbourOfTroubled1
  <2>3. n \notin T /\ old(n) = 5 => new(n) >= 4
    BY <1>1, StatusAfterStep DEF Troubled, NeighbourOfTroubled1
  <2> QED
    BY <2>1, <2>2, <2>3, <1>1, <1>2, <1>3
<1>6. n \in T => new(n) = 5
  BY <1>1, StatusAfterStep DEF Troubled
<1>7. CASE c \in T
  <2>1. old(c) >= 4
    BY <1>2, <1>7 DEF IsIrregular, NeighbourOfTroubled1
  <2> QED
    BY <2>1, <1>2, <1>3, <1>5, <1>6
<1>8. CASE c \notin T /\ old(c) = 5
  BY <1>3, <1>5, <1>6, <1>8
<1>9. CASE c \notin T /\ old(c) # 5
  <2>1. new(c) = MergedStatus(limiterStatus, c)
    BY <1>9, StatusAfterStep DEF Troubled
  <2>2. CASE new(c) = 0
    BY <2>2, <1>3
  <2>3. CASE new(c) # 0
    <3>1. PICK x \in Neighbours[c] : new(c) = Larger(old(c), old(x)) - 1
      BY <2>1, <2>3, MergedStatusIsLargest DEF TypeOK, Statuses, Ok
    <3>2. x \in Cells /\ c \in Neighbours[x]
      BY LimiterStatusAssumption
    <3>3. old(x) <= old(c) + 2
      BY <3>2, <1>4
    <3>4. new(c) <= old(c) + 1
      BY <3>1, <3>2, <3>3, <1>2 DEF Larger
    <3> QED
      BY <3>4, <1>2, <1>3, <1>5, <1>6
  <2> QED
    BY <2>2, <2>3
<1> QED
  BY <1>7, <1>8, <1>9

LEMMA IterationsStayInRange ==
  ASSUME TypeOK, TroubledCellsCount, NEW T \in TroubledSets, NEW c \in Cells
  PROVE  /\ IterationsAfterSolutionUpdate(T, c) \in 0..(IterationsToCure + 1)
         /\ StatusAfterSolutionUpdate(T, c) = Troubled =>
              IterationsAfterSolutionUpdate(T, c) > 0
<1>1. /\ IterationsToCure \in Nat
      /\ iterationsToCure[c] \in 0..(IterationsToCure + 1)
      /\ limiterStatus[c] = Troubled => iterationsToCure[c] > 0
  BY LimiterStatusAssumption DEF TypeOK, TroubledCellsCount
<1>2. StatusAfterSolutionUpdate(T, c) = Troubled =>
        c \in T \/ (limiterStatus[c] = Troubled /\ iterationsToCure[c] # 1)
  BY StatusAfterStep
<1> QED
  BY <1>1, <1>2 DEF IterationsAfterSolutionUpdate

LEMMA TimeStepPreservesInv ==
  ASSUME LimiterInv, NEW T \in TroubledSets, TimeStep(T)
  PROVE  LimiterInv'
<1> DEFINE new(c) == StatusAfterSolutionUpdate(T, c)
           updated(c) == IF c \in T /\ UsesSolver(limiterStatus[c])
                         THEN "useless" ELSE "now"
           patches == {c \in limiterPatches : limiterStatus[c] # Ok}
                        \cup {c \in Cells : new(c) # Ok}
<1>1. TypeOK /\ phase = "TimeStepping"
  BY DEF LimiterInv, TimeStep
<1>2. \A c \in Cells :
        /\ limiterStatus[c] \in Ok..Troubled
        /\ solution[c] = "now"
        /\ limiterStatus[c] # Ok => c \in limiterPatches /\ limiterSolution[c] = "now"
  BY <1>1 DEF LimiterInv, TypeOK, SolutionsAreCurrent, NoPatchIsMissing
<1>3. \A c \in Cells : new(c) \in Ok..Troubled
  BY <1>1, StatusAfterStep DEF Statuses
<1>4. limiterStatus' = [c \in Cells |-> new(c)]
  BY DEF TimeStep
<1>5. limiterPatches' = patches
  <2>1. PatchesAfterSolutionUpdate([c \in Cells |-> new(c)]) = patches
    BY DEF PatchesAfterSolutionUpdate
  <2> QED
    BY <2>1 DEF TimeStep
<1>6. /\ previousLimiterStatus' = limiterStatus
      /\ iterationsToCure' = [c \in Cells |-> IterationsAfterSolutionUpdate(T, c)]
      /\ solution' = [c \in Cells |-> updated(c)]
      /\ previousSolution' =
           [c \in Cells |-> IF UsesSolver(limiterStatus[c]) THEN Aged[solution[c]]
                                                    ELSE Aged[previousSolution[c]]]
      /\ limiterSolution' =
           [c \in Cells |->
             IF c \in limiterPatches' /\ (limiterStatus[c] # Ok \/ UsesSolver(new(c)))
             THEN updated(c) ELSE "useless"]
      /\ previousLimiterSolution' =
           [c \in Cells |-> IF c \in limiterPatches' /\ limiterStatus[c] # Ok
                            THEN Aged[limiterSolution[c]] ELSE "useless"]
      /\ predicted' = {c \in Cells : new(c) # Troubled}
  BY DEF TimeStep
<1>7. /\ phase' = IF IsIrregular(T) THEN "LimiterStatusSpreading" ELSE "TimeStepping"
      /\ spreadings' = IF IsIrregular(T) THEN 5 ELSE 0
  BY <1>1 DEF TimeStep, Spreadings
<1>8. /\ \A x \in Contents : Aged[x] \in Contents
      /\ Aged["now"] = "before"
  BY DEF Contents, Aged
<1> HIDE DEF new
<1>9. TypeOK'
  <2>1. phase' \in Phases /\ spreadings' \in 0..Spreadings
    BY <1>7 DEF Phases, Spreadings
  <2>2. /\ limiterStatus' \in [Cells -> Ok..Troubled]
        /\ previousLimiterStatus' \in [Cells -> Ok..Troubled]
    BY <1>1, <1>3, <1>4, <1>6 DEF TypeOK
  <2>3. iterationsToCure' \in [Cells -> 0..(IterationsToCure + 1)]
    BY <1>6, IterationsStayInRange DEF LimiterInv
  <2>4. limiterPatches' \subseteq Cells /\ predicted' \subseteq Cells
    BY <1>1, <1>5, <1>6 DEF TypeOK
  <2>5. solution' \in [Cells -> Contents]
    BY <1>6 DEF Contents
  <2>6. /\ previousSolution' \in [Cells -> Contents]
        /\ previousLimiterSolution' \in [Cells -> Contents]
    <3>1. \A c \in Cells : /\ Aged[solution[c]] \in Contents
                           /\ Aged[previousSolution[c]] \in Contents
                           /\ Aged[limiterSolution[c]] \in Contents
      BY <1>1, <1>8 DEF TypeOK
    <3>2. "useless" \in Contents
      BY DEF Contents
    <3> QED
      BY <3>1, <3>2, <1>6
  <2>7. limiterSolution' \in [Cells -> Contents]
    BY <1>6 DEF Contents
  <2>8. \A c \in Cells \ limiterPatches' :
          limiterSolution'[c] = "useless" /\ previousLimiterSolution'[c] = "useless"
    BY <1>6
  <2> QED
    BY <2>1, <2>2, <2>3, <2>4, <2>5, <2>6, <2>7, <2>8 DEF TypeOK
<1>10. TroubledCellsCount'
  BY <1>1, <1>4, <1>6, IterationsStayInRange DEF LimiterInv, TroubledCellsCount, new
<1>11. UntroubledCellsPredict'
  BY <1>4, <1>6 DEF UntroubledCellsPredict
<1>12. NoPatchIsMissing'
  BY <1>2, <1>4, <1>5, <1>6 DEF NoPatchIsMissing
<1>13. StatusSpreads'
  <2>1. CASE IsIrregular(T)
    <3>1. phase' = "LimiterStatusSpreading" /\ spreadings' = 5
      BY <2>1, <1>7
    <3>2. TroubledCells' \in SUBSET Cells
      BY DEF TroubledCells
    <3>3. \A c \in Cells : /\ limiterStatus'[c] \in 0..5
                           /\ StatusAround(TroubledCells')[c] \in 0..5
      BY <3>2, <1>3, <1>4, StatusAroundFallsByOne DEF Statuses, Ok, Troubled
    <3> QED
      BY <3>1, <3>3 DEF StatusSpreads, StatusFollowsDistance, Spreadings
  <2>2. CASE ~IsIrregular(T)
    <3>1. phase' = "TimeStepping"
      BY <2>2, <1>7
    <3>2. \A c \in Cells : \A n \in Neighbours[c] : new(c) <= new(n) + 2
      BY <2>2, <1>1, RegularStepKeepsLayers DEF LimiterInv, new
    <3>3. \A c \in Cells : Neighbours[c] \subseteq Cells
      BY LimiterStatusAssumption
    <3> QED
      BY <3>1, <3>2, <3>3, <1>4 DEF StatusSpreads, StatusFollowsDistance
  <2> QED
    BY <2>1, <2>2
<1>14. SolutionsAreCurrent'
  <2>1. SUFFICES ASSUME ~IsIrregular(T), NEW c \in Cells
                 PROVE  /\ solution'[c] = "now"
                        /\ limiterStatus'[c] # Ok => limiterSolution'[c] = "now"
    BY <1>7 DEF SolutionsAreCurrent
  <2>2. updated(c) = "now"
    BY <1>2, <2>1 DEF IsIrregular, UsesSolver, NeighbourOfTroubled1,
                      NeighbourOfTroubled3, Ok, Troubled
  <2>3. CASE limiterStatus[c] # Ok
    BY <2>2, <2>3, <1>2, <1>4, <1>5, <1>6
  <2>4. CASE limiterStatus[c] = Ok
    <3>1. c \notin T
      BY <2>1, <2>4 DEF IsIrregular, Ok, NeighbourOfTroubled1
    <3>2. new(c) = MergedStatus(limiterStatus, c)
      BY <3>1, <2>4, <1>1, StatusAfterStep DEF new, Ok, Troubled
    <3>3. \A n \in Neighbours[c] : n \in Cells /\ c \in Neighbours[n]
      BY LimiterStatusAssumption
    <3>4. \A n \in Neighbours[c] : limiterStatus[n] <= 2
      BY <3>3, <2>4, <1>1 DEF LimiterInv, StatusSpreads, Ok
    <3>5. \A n \in Neighbours[c] : Larger(limiterStatus[c], limiterStatus[n]) - 1 <= 1
      BY <3>3, <3>4, <2>4, <1>2 DEF Larger, Ok, Troubled
    <3>6. new(c) # Ok => new(c) <= 1
      BY <3>2, <3>5, <1>1, MergedStatusIsLargest DEF TypeOK, Statuses
    <3>7. UsesSolver(new(c))
      BY <3>6, <1>3 DEF UsesSolver, Ok, Troubled, NeighbourOfTroubled3
    <3> QED
      BY <3>7, <2>2, <1>4, <1>5, <1>6
  <2> QED
    BY <2>3, <2>4
<1>15. ArraysOfFailedStep'
  <2>1. SUFFICES ASSUME IsIrregular(T), NEW c \in Cells
                 PROVE  /\ UsesSolver(limiterStatus[c]) => previousSolution'[c] = "before"
                        /\ limiterStatus[c] # Ok => previousLimiterSolution'[c] = "before"
                        /\ limiterStatus'[c] # Troubled => solution'[c] = "now"
                        /\ UsesLimiter(limiterStatus[c]) => limiterSolution'[c] = "now"
    BY <1>6, <1>7 DEF ArraysOfFailedStep
  <2>2. UsesSolver(limiterStatus[c]) => previousSolution'[c] = "before"
    BY <1>2, <1>6, <1>8
  <2>3. limiterStatus[c] # Ok => previousLimiterSolution'[c] = "before"
    BY <1>2, <1>5, <1>6, <1>8
  <2>4. limiterStatus'[c] # Troubled => solution'[c] = "now"
    BY <1>1, <1>4, <1>6, StatusAfterStep DEF new
  <2>5. UsesLimiter(limiterStatus[c]) => limiterSolution'[c] = "now"
    BY <1>2, <1>5, <1>6 DEF UsesLimiter, UsesSolver, Ok, Troubled,
                            NeighbourOfTroubled2, NeighbourOfTroubled3
  <2> QED
    BY <2>2, <2>3, <2>4, <2>5
<1>16. ArraysAfterRollback'
  BY <1>7 DEF ArraysAfterRollback
<1> QED
  BY <1>9, <1>10, <1>11, <1>12, <1>13, <1>14, <1>15, <1>16 DEF LimiterInv

-----------------------------------------------------------------------------
(***************************************************************************)
(* The spreading of the status.                                            *)
(***************************************************************************)

\* A sweep gets one layer more right.
LEMMA SpreadingReachesOneLayer ==
  ASSUME TypeOK, NEW k \in 1..Spreadings,
         \A x \in Cells :
           limiterStatus[x] > k \/ StatusAround(TroubledCells)[x] > k
             => limiterStatus[x] = StatusAround(TroubledCells)[x],
         NEW c \in Cells,
         SpreadStatus(c) >= k \/ StatusAround(TroubledCells)[c] >= k
  PROVE  SpreadStatus(c) = StatusAround(TroubledCells)[c]
<1> DEFINE old(x) == limiterStatus[x]
           right(x) == StatusAround(TroubledCells)[x]
<1>1. TroubledCells \in SUBSET Cells /\ (c \in TroubledCells <=> old(c) = Troubled)
  BY DEF TroubledCells
<1>2. \A x \in Cells : old(x) \in 0..5 /\ right(x) \in 0..5
  BY <1>1, StatusAroundFallsByOne DEF TypeOK, Statuses, Ok, Troubled
<1>3. CASE c \in TroubledCells
  BY <1>1, <1>3, StatusAroundFallsByOne DEF SpreadStatus
<1>4. CASE c \notin TroubledCells
  <2> DEFINE merged == MergedStatus(limiterStatus, c)
  <2>1. SpreadStatus(c) = merged
    BY <1>1, <1>4 DEF SpreadStatus
  <2>2. merged \in 0..4
    BY MergedStatusIsLargest DEF TypeOK, Statuses, Ok, NeighbourOfTroubled1
  <2>3. \A n \in Neighbours[c] : n \in Cells
    BY LimiterStatusAssumption
  <2>4. k \in 1..5
    BY DEF Spreadings
  <2>5. right(c) >= k => merged >= right(c)
    <3>1. SUFFICES ASSUME right(c) >= k PROVE merged >= right(c)
      OBVIOUS
    <3>2. PICK n \in Neighbours[c] : right(n) = right(c) + 1
      BY <3>1, <1>1, <1>2, <1>4, <2>4, StatusAroundFallsByOne DEF Ok
    <3>3. old(n) = right(n)
      BY <3>1, <3>2, <1>2, <2>3, <2>4
    <3>4. old(n) - 1 <= merged
      BY MergedStatusIsLargest DEF TypeOK, Statuses
    <3> QED
      BY <3>2, <3>3, <3>4, <1>2, <2>2, <2>3
  <2>6. merged >= k => right(c) >= merged
    <3>1. SUFFICES ASSUME merged >= k PROVE right(c) >= merged
      OBVIOUS
    <3>2. PICK n \in Neighbours[c] : merged = Larger(old(c), old(n)) - 1
      BY <3>1, <2>2, <2>4, MergedStatusIsLargest DEF TypeOK, Statuses, Ok
    <3>3. CASE old(c) >= old(n)
      BY <3>1, <3>2, <3>3, <1>2, <2>2, <2>3, <2>4 DEF Larger
    <3>4. CASE ~(old(c) >= old(n))
      <4>1. old(n) = merged + 1 /\ old(n) > k
        BY <3>1, <3>2, <3>4, <1>2, <2>2, <2>3, <2>4 DEF Larger
      <4>2. right(n) = merged + 1
        BY <4>1, <2>3
      <4>3. right(n) - 1 <= right(c)
        BY <1>1, StatusAroundFallsByOne
      <4> QED
        BY <4>2, <4>3, <1>2, <2>2, <2>3
    <3> QED
      BY <3>3, <3>4
  <2> QED
    BY <2>1, <2>2, <2>4, <2>5, <2>6, <1>2
<1> QED
  BY <1>3, <1>4

LEMMA SpreadPreservesInv ==
  ASSUME LimiterInv, Spread
  PROVE  LimiterInv'
<1>1. TypeOK /\ phase = "LimiterStatusSpreading"
  BY DEF LimiterInv, Spread
<1>2. /\ spreadings \in 1..5
      /\ \A x \in Cells :
           limiterStatus[x] > spreadings \/ StatusAround(TroubledCells)[x] > spreadings
             => limiterStatus[x] = StatusAround(TroubledCells)[x]
  BY <1>1 DEF LimiterInv, StatusSpreads, Spreadings
<1>3. /\ limiterStatus' = [c \in Cells |-> SpreadStatus(c)]
      /\ limiterPatches' =
           limiterPatches \cup {c \in Cells : SpreadStatus(c) # Ok}
      /\ phase' = IF spreadings = 1 THEN "Reinitialisation"
                                    ELSE "LimiterStatusSpreading"
      /\ spreadings' = spreadings - 1
      /\ UNCHANGED <<previousLimiterStatus, iterationsToCure, solution,
                     previousSolution, limiterSolution, previousLimiterSolution,
                     predicted>>
  <2>1. {c \in Cells : [x \in Cells |-> SpreadStatus(x)][c] # Ok}
          = {c \in Cells : SpreadStatus(c) # Ok}
    OBVIOUS
  <2> QED
    BY <1>1, <2>1 DEF Spread, arrays
<1>4. \A c \in Cells :
        /\ SpreadStatus(c) \in 0..5
        /\ SpreadStatus(c) = Troubled <=> limiterStatus[c] = Troubled
  <2>1. \A c \in Cells : MergedStatus(limiterStatus, c) \in 0..4
    BY <1>1, MergedStatusIsLargest DEF TypeOK, Statuses, Ok, NeighbourOfTroubled1
  <2> QED
    BY <2>1 DEF SpreadStatus, Troubled
<1>5. TroubledCells' = TroubledCells
  BY <1>3, <1>4 DEF TroubledCells
<1>6. TypeOK'
  <2>1. limiterStatus' \in [Cells -> Ok..Troubled]
    BY <1>3, <1>4 DEF Ok, Troubled
  <2>2. phase' \in Phases /\ spreadings' \in 0..Spreadings
    BY <1>2, <1>3 DEF Phases, Spreadings
  <2> QED
    BY <2>1, <2>2, <1>1, <1>3 DEF TypeOK
<1>7. TroubledCellsCount' /\ UntroubledCellsPredict'
  BY <1>3, <1>4 DEF LimiterInv, TroubledCellsCount, UntroubledCellsPredict
<1>8. NoPatchIsMissing'
  BY <1>1, <1>3 DEF LimiterInv, NoPatchIsMissing
<1>9. StatusSpreads'
  <2>1. \A c \in Cells :
          SpreadStatus(c) >= spreadings \/ StatusAround(TroubledCells)[c] >= spreadings
            => SpreadStatus(c) = StatusAround(TroubledCells)[c]
    BY <1>1, <1>2, SpreadingReachesOneLayer DEF Spreadings
  <2>2. /\ StatusAround(TroubledCells) \in [Cells -> Statuses]
        /\ \A c \in Cells : StatusAround(TroubledCells)[c] \in 0..5
    BY StatusAroundFallsByOne DEF TroubledCells, Statuses, Ok, Troubled
  <2>3. \A c \in Cells : limiterStatus'[c] = SpreadStatus(c)
    BY <1>3
  <2>4. CASE spreadings = 1
    <3>1. \A c \in Cells : SpreadStatus(c) = StatusAround(TroubledCells)[c]
      BY <2>1, <2>2, <2>4, <1>4
    <3>2. limiterStatus' = StatusAround(TroubledCells)
      BY <3>1, <2>2, <1>3
    <3>3. limiterStatus' = StatusAround(TroubledCells')
      BY <3>2, <1>5
    <3>4. limiterStatus' =
            StatusAround({c \in Cells : limiterStatus'[c] = Troubled})
      BY <3>3 DEF TroubledCells
    <3> QED
      BY <3>4, <2>4, <1>3 DEF StatusSpreads, StatusFollowsDistance
  <2>5. CASE spreadings # 1
    <3>1. spreadings' \in 1..5 /\ spreadings' = spreadings - 1
      BY <2>5, <1>2, <1>3
    <3>2. \A c \in Cells :
            \/ limiterStatus'[c] > spreadings'
            \/ StatusAround(TroubledCells')[c] > spreadings'
            => limiterStatus'[c] = StatusAround(TroubledCells')[c]
      BY <3>1, <2>1, <2>2, <2>3, <1>2, <1>4, <1>5
    <3> QED
      BY <3>1, <3>2, <2>5, <1>3 DEF StatusSpreads, StatusFollowsDistance, Spreadings
  <2> QED
    BY <2>4, <2>5
<1>10. SolutionsAreCurrent' /\ ArraysAfterRollback'
  BY <1>3 DEF SolutionsAreCurrent, ArraysAfterRollback
<1>11. ArraysOfFailedStep'
  BY <1>1, <1>3, <1>4 DEF LimiterInv, ArraysOfFailedStep
<1> QED
  BY <1>6, <1>7, <1>8, <1>9, <1>10, <1>11 DEF LimiterInv

-----------------------------------------------------------------------------
(***************************************************************************)
(* The rollback and the second computation of the step.                    *)
(***************************************************************************)

\* A status tells which solvers a cell uses.
LEMMA SolverOrLimiter ==
  ASSUME NEW status \in Statuses
  PROVE  /\ UsesLimiter(status) <=> ~UsesSolver(status)
         /\ status = Ok => UsesSolver(status)
         /\ status = Troubled => UsesLimiter(status)
  BY DEF Statuses, UsesLimiter, UsesSolver, Ok, NeighbourOfTroubled3,
         NeighbourOfTroubled2, Troubled

LEMMA ReinitialisePreservesInv ==
  ASSUME LimiterInv, Reinitialise
  PROVE  LimiterInv'
<1> DEFINE rolledBack(c) == IF RollsBackSolver(c) THEN previousSolution[c]
                                                  ELSE solution[c]
<1>1. TypeOK /\ phase = "Reinitialisation" /\ phase' = "LocalRecomputation"
  BY DEF LimiterInv, Reinitialise
<1>2. /\ limiterPatches' = {c \in Cells : limiterStatus[c] # Ok}
      /\ solution' = [c \in Cells |-> rolledBack(c)]
      /\ previousSolution' =
           [c \in Cells |-> IF RollsBackSolver(c) THEN solution[c]
                                                  ELSE previousSolution[c]]
      /\ limiterSolution' =
           [c \in Cells |->
             IF limiterStatus[c] = Ok THEN "useless"
             ELSE IF RollsBackLimiter(c) THEN previousLimiterSolution[c]
             ELSE rolledBack(c)]
      /\ previousLimiterSolution' =
           [c \in Cells |->
             IF limiterStatus[c] = Ok THEN "useless"
             ELSE IF RollsBackLimiter(c) THEN limiterSolution[c]
             ELSE previousLimiterSolution[c]]
      /\ iterationsToCure' =
           [c \in Cells |-> IF limiterStatus[c] = Troubled
                            THEN IterationsToCure + 1 ELSE iterationsToCure[c]]
      /\ UNCHANGED <<spreadings, limiterStatus, previousLimiterStatus, predicted>>
  BY DEF Reinitialise
<1>3. \A c \in Cells :
        /\ UsesSolver(previousLimiterStatus[c]) => previousSolution[c] = "before"
        /\ previousLimiterStatus[c] # Ok => previousLimiterSolution[c] = "before"
        /\ limiterStatus[c] # Troubled => solution[c] = "now"
        /\ UsesLimiter(previousLimiterStatus[c]) => limiterSolution[c] = "now"
  BY <1>1 DEF LimiterInv, ArraysOfFailedStep
<1>4. \A c \in Cells : previousLimiterStatus[c] \in Statuses
                       /\ limiterStatus[c] \in Statuses
  BY <1>1 DEF TypeOK, Statuses
<1>5. TypeOK'
  <2>1. /\ \A c \in Cells : /\ solution[c] \in Contents
                            /\ previousSolution[c] \in Contents
                            /\ limiterSolution[c] \in Contents
                            /\ previousLimiterSolution[c] \in Contents
                            /\ rolledBack(c) \in Contents
        /\ "useless" \in Contents
    BY <1>1 DEF TypeOK, Contents
  <2>2. /\ solution' \in [Cells -> Contents]
        /\ previousSolution' \in [Cells -> Contents]
        /\ limiterSolution' \in [Cells -> Contents]
        /\ previousLimiterSolution' \in [Cells -> Contents]
    BY <1>2, <2>1
  <2>3. iterationsToCure' \in [Cells -> 0..(IterationsToCure + 1)]
    BY <1>1, <1>2, LimiterStatusAssumption DEF TypeOK
  <2>4. \A c \in Cells \ limiterPatches' :
          limiterSolution'[c] = "useless" /\ previousLimiterSolution'[c] = "useless"
    BY <1>2
  <2>5. phase' \in Phases
    BY <1>1 DEF Phases
  <2> QED
    BY <2>2, <2>3, <2>4, <2>5, <1>1, <1>2 DEF TypeOK
<1>6. TroubledCellsCount' /\ UntroubledCellsPredict'
  BY <1>2, LimiterStatusAssumption
     DEF LimiterInv, TroubledCellsCount, UntroubledCellsPredict
<1>7. NoPatchIsMissing' /\ SolutionsAreCurrent' /\ ArraysOfFailedStep'
  BY <1>1, <1>2 DEF NoPatchIsMissing, SolutionsAreCurrent, ArraysOfFailedStep
<1>8. StatusSpreads'
  <2>1. limiterStatus = StatusAround({c \in Cells : limiterStatus[c] = Troubled})
    BY <1>1 DEF LimiterInv, StatusSpreads, StatusFollowsDistance
  <2> QED
    BY <2>1, <1>1, <1>2 DEF StatusSpreads, StatusFollowsDistance
<1>9. ArraysAfterRollback'
  <2>1. SUFFICES ASSUME NEW c \in Cells
                 PROVE  /\ limiterStatus[c] # Ok => limiterSolution'[c] = "before"
                        /\ limiterStatus[c] = Ok => solution'[c] = "now"
                        /\ IsOuterLayer(c) /\ UsesSolver(previousLimiterStatus[c])
                             => previousSolution'[c] = "now"
                        /\ IsOuterLayer(c) /\ UsesLimiter(previousLimiterStatus[c])
                             => previousLimiterSolution'[c] = "now"
    BY <1>2 DEF ArraysAfterRollback, IsOuterLayer
  <2>2. limiterStatus[c] # Ok => limiterSolution'[c] = "before"
    BY <1>2, <1>3, <1>4, SolverOrLimiter DEF RollsBackSolver, RollsBackLimiter
  <2>3. limiterStatus[c] = Ok => solution'[c] = "now"
    BY <1>2, <1>3 DEF RollsBackSolver, Ok, Troubled
  <2>4. IsOuterLayer(c) /\ UsesSolver(previousLimiterStatus[c])
          => previousSolution'[c] = "now"
    BY <1>2, <1>3, <1>4, SolverOrLimiter DEF IsOuterLayer, RollsBackSolver
  <2>5. IsOuterLayer(c) /\ UsesLimiter(previousLimiterStatus[c])
          => previousLimiterSolution'[c] = "now"
    BY <1>2, <1>3, <1>4, SolverOrLimiter DEF IsOuterLayer, RollsBackLimiter
  <2> QED
    BY <2>2, <2>3, <2>4, <2>5
<1> QED
  BY <1>5, <1>6, <1>7, <1>8, <1>9 DEF LimiterInv

LEMMA RecomputePreservesInv ==
  ASSUME LimiterInv, Recompute
  PROVE  LimiterInv'
<1>1. TypeOK /\ phase = "LocalRecomputation" /\ phase' = "TimeStepping"
  BY DEF LimiterInv, Recompute
<1>2. /\ solution' =
           [c \in Cells |->
             IF UsesLimiter(limiterStatus[c]) THEN "now"
             ELSE IF RestoresSolver(c) THEN previousSolution[c]
             ELSE IF RestoresLimiter(c) THEN previousLimiterSolution[c]
             ELSE solution[c]]
      /\ previousSolution' =
           [c \in Cells |-> IF RestoresSolver(c) THEN solution[c]
                                                ELSE previousSolution[c]]
      /\ limiterSolution' =
           [c \in Cells |->
             IF UsesLimiter(limiterStatus[c]) THEN "now"
             ELSE IF RestoresSolver(c) THEN previousSolution[c]
             ELSE IF RestoresLimiter(c) THEN previousLimiterSolution[c]
             ELSE limiterSolution[c]]
      /\ previousLimiterSolution' =
           [c \in Cells |->
             IF UsesLimiter(limiterStatus[c]) \/ RestoresLimiter(c)
             THEN limiterSolution[c] ELSE previousLimiterSolution[c]]
      /\ predicted' = (predicted \ {c \in Cells : UsesLimiter(limiterStatus[c])})
                        \cup {c \in Cells : RecomputesPredictor(c)}
      /\ UNCHANGED <<spreadings, limiterStatus, previousLimiterStatus,
                     iterationsToCure, limiterPatches>>
  BY DEF Recompute, statuses
<1>3. \A c \in Cells :
        /\ limiterStatus[c] = Ok => solution[c] = "now"
        /\ IsOuterLayer(c) /\ UsesSolver(previousLimiterStatus[c])
             => previousSolution[c] = "now"
        /\ IsOuterLayer(c) /\ UsesLimiter(previousLimiterStatus[c])
             => previousLimiterSolution[c] = "now"
  BY <1>1 DEF LimiterInv, ArraysAfterRollback
<1>4. \A c \in Cells : previousLimiterStatus[c] \in Statuses
                       /\ limiterStatus[c] \in Statuses
  BY <1>1 DEF TypeOK, Statuses
<1>5. TypeOK'
  <2>1. /\ \A c \in Cells : /\ solution[c] \in Contents
                            /\ previousSolution[c] \in Contents
                            /\ limiterSolution[c] \in Contents
                            /\ previousLimiterSolution[c] \in Contents
        /\ "now" \in Contents
    BY <1>1 DEF TypeOK, Contents
  <2>2. /\ solution' \in [Cells -> Contents]
        /\ previousSolution' \in [Cells -> Contents]
        /\ limiterSolution' \in [Cells -> Contents]
        /\ previousLimiterSolution' \in [Cells -> Contents]
    BY <1>2, <2>1
  <2>3. ASSUME NEW c \in Cells \ limiterPatches'
        PROVE  limiterSolution'[c] = "useless" /\ previousLimiterSolution'[c] = "useless"
    <3>1. limiterStatus[c] = Ok
      BY <1>2 DEF LimiterInv, NoPatchIsMissing
    <3>2. ~UsesLimiter(limiterStatus[c]) /\ ~RestoresSolver(c) /\ ~RestoresLimiter(c)
      BY <3>1, <1>4, SolverOrLimiter DEF RestoresSolver, RestoresLimiter, IsOuterLayer
    <3> QED
      BY <3>2, <1>1, <1>2 DEF TypeOK
  <2>4. phase' \in Phases
    BY <1>1 DEF Phases
  <2>5. predicted' \subseteq Cells
    BY <1>1, <1>2 DEF TypeOK
  <2> QED
    BY <2>2, <2>3, <2>4, <2>5, <1>1, <1>2 DEF TypeOK
<1>6. TroubledCellsCount' /\ NoPatchIsMissing'
  BY <1>1, <1>2 DEF LimiterInv, TroubledCellsCount, NoPatchIsMissing
<1>7. UntroubledCellsPredict'
  <2>1. SUFFICES ASSUME NEW c \in Cells, limiterStatus[c] # Troubled
                 PROVE  c \in predicted'
    BY <1>2 DEF UntroubledCellsPredict
  <2>2. c \in predicted
    BY <2>1 DEF LimiterInv, UntroubledCellsPredict
  <2>3. UsesLimiter(limiterStatus[c]) => RecomputesPredictor(c)
    BY <2>1, <1>4 DEF UsesLimiter, RecomputesPredictor, Statuses, Ok, Troubled,
                      NeighbourOfTroubled1, NeighbourOfTroubled2
  <2> QED
    BY <2>2, <2>3, <1>2
<1>8. StatusSpreads'
  <2>1. limiterStatus = StatusAround(TroubledCells)
    BY <1>1 DEF LimiterInv, StatusSpreads, StatusFollowsDistance, TroubledCells
  <2>2. TroubledCells \in SUBSET Cells
    BY DEF TroubledCells
  <2>3. ASSUME NEW c \in Cells, NEW n \in Neighbours[c]
        PROVE  limiterStatus[c] <= limiterStatus[n] + 2
    <3>1. n \in Cells /\ c \in Neighbours[n]
      BY LimiterStatusAssumption
    <3>2. limiterStatus[c] \in 0..5 /\ limiterStatus[n] \in 0..5
      BY <3>1, <1>4 DEF Statuses, Ok, Troubled
    <3>3. limiterStatus[c] - 1 <= limiterStatus[n]
      BY <2>1, <2>2, <3>1, StatusAroundFallsByOne
    <3> QED
      BY <3>2, <3>3
  <2> QED
    BY <2>3, <1>1, <1>2 DEF StatusSpreads, StatusFollowsDistance
<1>9. SolutionsAreCurrent'
  <2>1. SUFFICES ASSUME NEW c \in Cells
                 PROVE  /\ solution'[c] = "now"
                        /\ limiterStatus[c] # Ok => limiterSolution'[c] = "now"
    BY <1>2 DEF SolutionsAreCurrent
  <2>2. CASE UsesLimiter(limiterStatus[c])
    BY <2>2, <1>2
  <2>3. CASE limiterStatus[c] = Ok
    BY <2>3, <1>2, <1>3, <1>4, SolverOrLimiter
       DEF RestoresSolver, RestoresLimiter, IsOuterLayer
  <2>4. CASE ~UsesLimiter(limiterStatus[c]) /\ limiterStatus[c] # Ok
    <3>1. IsOuterLayer(c)
      BY <2>4, <1>4, SolverOrLimiter DEF IsOuterLayer
    <3> QED
      BY <2>4, <3>1, <1>2, <1>3, <1>4, SolverOrLimiter DEF RestoresSolver, RestoresLimiter
  <2> QED
    BY <2>2, <2>3, <2>4
<1>10. ArraysOfFailedStep' /\ ArraysAfterRollback'
  BY <1>1 DEF ArraysOfFailedStep, ArraysAfterRollback
<1> QED
  BY <1>5, <1>6, <1>7, <1>8, <1>9, <1>10 DEF LimiterInv

LEMMA StutteringPreservesInv ==
  ASSUME LimiterInv, UNCHANGED vars
  PROVE  LimiterInv'
<1> USE DEF vars, statuses, arrays
<1>1. TypeOK'
  BY DEF LimiterInv, TypeOK
<1>2. TroubledCellsCount' /\ UntroubledCellsPredict' /\ NoPatchIsMissing'
  BY DEF LimiterInv, TroubledCellsCount, UntroubledCellsPredict, NoPatchIsMissing
<1>3. StatusSpreads'
  BY DEF LimiterInv, StatusSpreads, StatusFollowsDistance, TroubledCells
<1>4. SolutionsAreCurrent' /\ ArraysOfFailedStep' /\ ArraysAfterRollback'
  BY DEF LimiterInv, SolutionsAreCurrent, ArraysOfFailedStep, ArraysAfterRollback,
         IsOuterLayer
<1> QED
  BY <1>1, <1>2, <1>3, <1>4 DEF LimiterInv

LEMMA NextPreservesInv == LimiterInv /\ [Next]_vars => LimiterInv'
<1> SUFFICES ASSUME LimiterInv, [Next]_vars PROVE LimiterInv'
  OBVIOUS
<1>1. CASE \E T \in TroubledSets : TimeStep(T)
  BY <1>1, TimeStepPreservesInv
<1>2. CASE Spread
  BY <1>2, SpreadPreservesInv
<1>3. CASE Reinitialise
  BY <1>3, ReinitialisePreservesInv
<1>4. CASE Recompute
  BY <1>4, RecomputePreservesInv
<1>5. CASE UNCHANGED vars
  BY <1>5, StutteringPreservesInv
<1> QED
  BY <1>1, <1>2, <1>3, <1>4, <1>5 DEF Next

LEMMA SpecInv == Spec => []LimiterInv
<1>1. Init => LimiterInv
  BY InitEstablishesInv
<1> QED
  BY <1>1, NextPreservesInv, PTL DEF Spec

-----------------------------------------------------------------------------
(***************************************************************************)
(* Theorems.                                                               *)
(***************************************************************************)

\* The statuses, counters and contents stay in their ranges; a cell without a
\* patch has no limiter solution (LimitingADERDGSolver::updateSolution).
THEOREM LimiterTypeCorrect == Spec => []TypeOK
<1>1. LimiterInv => TypeOK
  BY DEF LimiterInv
<1> QED
  BY <1>1, SpecInv, PTL

\* Layers two apart still share a solver that merges their face, so that
\* mergeNeighboursBasedOnLimiterStatus leaves no face of a cell without data.
THEOREM FacesAreMerged == Spec => []EveryFaceIsMerged
<1>1. ASSUME LimiterInv PROVE EveryFaceIsMerged
  <2>1. SUFFICES ASSUME phase \in {"TimeStepping", "LocalRecomputation"},
                        NEW c \in Cells, NEW n \in Neighbours[c]
                 PROVE  LET s1 == limiterStatus[c]
                            s2 == limiterStatus[n]
                        IN /\ NeighboursCanCommunicate(s1, s2)
                           /\ UsesLimiter(s1) => LimiterMerges(s1, s2)
                           /\ UsesSolver(s1) /\ phase = "TimeStepping"
                                => SolverMerges(s1, s2)
    BY DEF EveryFaceIsMerged
  <2>2. n \in Cells /\ c \in Neighbours[n]
    BY LimiterStatusAssumption
  <2>3. limiterStatus[c] \in 0..5 /\ limiterStatus[n] \in 0..5
    BY <1>1, <2>2 DEF LimiterInv, TypeOK, Ok, Troubled
  <2>4. /\ limiterStatus[c] <= limiterStatus[n] + 2
        /\ limiterStatus[n] <= limiterStatus[c] + 2
    <3>1. CASE phase = "TimeStepping"
      BY <1>1, <2>2, <3>1 DEF LimiterInv, StatusSpreads
    <3>2. CASE phase = "LocalRecomputation"
      <4>1. limiterStatus = StatusAround(TroubledCells)
        BY <1>1, <3>2 DEF LimiterInv, StatusSpreads, StatusFollowsDistance, TroubledCells
      <4>2. TroubledCells \in SUBSET Cells
        BY DEF TroubledCells
      <4>3. /\ limiterStatus[c] - 1 <= limiterStatus[n]
            /\ limiterStatus[n] - 1 <= limiterStatus[c]
        BY <4>1, <4>2, <2>2, StatusAroundFallsByOne
      <4> QED
        BY <4>3, <2>3
    <3> QED
      BY <2>1, <3>1, <3>2
  <2> QED
    BY <2>3, <2>4
       DEF NeighboursCanCommunicate, LimiterMerges, SolverMerges, Overlap, UsesLimiter,
           UsesSolver, Ok, NeighbourOfTroubled4, NeighbourOfTroubled3,
           NeighbourOfTroubled2, NeighbourOfTroubled1
<1> QED
  BY <1>1, SpecInv, PTL

\* A step starts from the solution at the present time stamp in every cell and
\* in every limiter patch, also after a rollback and a second computation
\* (recomputeSolution swaps back what reinitialiseSolvers swapped).
THEOREM StepsStartFromTheSolution == Spec => []SolutionsAreCurrent
<1>1. LimiterInv => SolutionsAreCurrent
  BY DEF LimiterInv
<1> QED
  BY <1>1, SpecInv, PTL

\* Five sweeps of updateLimiterStatusDuringLimiterStatusSpreading settle the
\* status of every cell at the value its distance asks for.
THEOREM SpreadingSettles == Spec => []StatusFollowsDistance
<1>1. LimiterInv => StatusFollowsDistance
  BY DEF LimiterInv, StatusSpreads
<1> QED
  BY <1>1, SpecInv, PTL

\* A cell the limiter recomputes, and each neighbour it reads, was rolled back
\* to the step before (LimitingADERDGSolver::reinitialiseSolvers).
THEOREM RecomputationStartsBefore == Spec => []RecomputesFromTheStepBefore
<1>1. ASSUME LimiterInv PROVE RecomputesFromTheStepBefore
  <2>1. SUFFICES ASSUME phase = "LocalRecomputation", NEW c \in Cells,
                        UsesLimiter(limiterStatus[c]),
                        NEW n \in Neighbours[c] \cup {c}
                 PROVE  limiterSolution[n] = "before"
    BY DEF RecomputesFromTheStepBefore
  <2>2. n \in Cells
    BY LimiterStatusAssumption
  <2>3. limiterStatus[c] \in 0..5 /\ limiterStatus[n] \in 0..5
    BY <1>1, <2>2 DEF LimiterInv, TypeOK, Ok, Troubled
  <2>4. TroubledCells \in SUBSET Cells /\ limiterStatus = StatusAround(TroubledCells)
    BY <1>1, <2>1
       DEF LimiterInv, StatusSpreads, StatusFollowsDistance, TroubledCells
  <2>5. limiterStatus[c] - 1 <= limiterStatus[n]
    <3>1. CASE n = c
      BY <3>1, <2>3
    <3>2. CASE n # c
      <4>1. c \in Neighbours[n]
        BY <3>2, LimiterStatusAssumption
      <4> QED
        BY <4>1, <2>2, <2>4, StatusAroundFallsByOne
    <3> QED
      BY <3>1, <3>2
  <2>6. limiterStatus[n] # Ok
    BY <2>1, <2>3, <2>5 DEF UsesLimiter, Ok, NeighbourOfTroubled2
  <2> QED
    BY <1>1, <2>1, <2>2, <2>6 DEF LimiterInv, ArraysAfterRollback
<1> QED
  BY <1>1, SpecInv, PTL

\* A cell whose predictor enters a Riemann problem has predicted since its
\* solution last changed (LimitingADERDGSolver::recomputePredictor).
THEOREM PredictorsAreFresh == Spec => []PredictorsAreCurrent
<1>1. ASSUME LimiterInv PROVE PredictorsAreCurrent
  <2>1. SUFFICES ASSUME NEW c \in Cells, NEW n \in Neighbours[c],
                        SolverMerges(limiterStatus[c], limiterStatus[n])
                 PROVE  c \in predicted
    BY DEF PredictorsAreCurrent
  <2>2. limiterStatus[c] # Troubled
    BY <2>1 DEF SolverMerges, Overlap, UsesSolver, Troubled, NeighbourOfTroubled4,
                NeighbourOfTroubled3, NeighbourOfTroubled2, NeighbourOfTroubled1
  <2> QED
    BY <1>1, <2>2 DEF LimiterInv, UntroubledCellsPredict
<1> QED
  BY <1>1, SpecInv, PTL

\* ensureRequiredLimiterPatchIsAllocated only ever finds cells without a patch
\* that were Ok in the step before, as it asserts.
THEOREM PatchesStartInOkCells == Spec => PatchesAreAllocatedInOkCells
<1>1. ASSUME LimiterInv, [Next]_vars, NEW c \in limiterPatches' \ limiterPatches
      PROVE  previousLimiterStatus'[c] = Ok
  <2>1. CASE \E T \in TroubledSets : TimeStep(T)
    <3>1. PICK T \in TroubledSets : TimeStep(T)
      BY <2>1
    <3>2. /\ previousLimiterStatus' = limiterStatus
          /\ limiterPatches' = PatchesAfterSolutionUpdate(
                 [x \in Cells |-> StatusAfterSolutionUpdate(T, x)])
      BY <3>1 DEF TimeStep
    <3>3. c \in Cells
      BY <1>1, <3>2 DEF PatchesAfterSolutionUpdate
    <3> QED
      BY <1>1, <3>2, <3>3 DEF LimiterInv, NoPatchIsMissing
  <2>2. CASE Spread
    <3>1. /\ phase = "LimiterStatusSpreading"
          /\ UNCHANGED previousLimiterStatus
          /\ c \in Cells
      BY <1>1, <2>2 DEF Spread
    <3> QED
      BY <1>1, <3>1 DEF LimiterInv, NoPatchIsMissing
  <2>3. CASE Reinitialise
    BY <1>1, <2>3 DEF Reinitialise, LimiterInv, NoPatchIsMissing
  <2>4. CASE Recompute \/ UNCHANGED vars
    BY <1>1, <2>4 DEF Recompute, vars
  <2> QED
    BY <1>1, <2>1, <2>2, <2>3, <2>4 DEF Next
<1>2. LimiterInv /\ [Next]_vars =>
        [\A c \in limiterPatches' \ limiterPatches : previousLimiterStatus'[c] = Ok]_vars
  BY <1>1
<1> QED
  BY <1>2, SpecInv, PTL DEF Spec, PatchesAreAllocatedInOkCells
=============================================================================
