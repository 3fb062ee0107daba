-------------------------- MODULE RefinementEvents ---------------------------
(***************************************************************************)
(* Adaptive mesh refinement of an ADER-DG solver: the types and refinement *)
(* events of the cell descriptions while Runner::createMesh sweeps over    *)
(* the spacetree until the mesh is stable.                                 *)
(*                                                                         *)
(* The spacetree is one-dimensional: Cells base cells, each refined into   *)
(* Children cells, down to MaxLevel.  One action is one callback of the    *)
(* traversal, enterCell or leaveCell, in depth-first order; the traversal  *)
(* turns round from one sweep to the next.  touchVertexFirstTime, which    *)
(* merges the metadata of two cells at a face, belongs to the enterCell of *)
(* the first of the two.  The grid itself, its vertices and their          *)
(* refinement, are Peano's.                                                *)
(***************************************************************************)
EXTENDS Integers, FiniteSets, FiniteSetsExt

CONSTANTS
  Cells,          \* number of cells of the uniform base grid
  Children,       \* cells a cell is refined into (3 in Peano)
  MaxLevel,       \* getMaximumAdaptiveMeshLevel, the base grid being level 0
  Criteria,       \* the refinement criteria the solution may lead to
  MaxUpdates,     \* mesh updates
  MaxInconsistent, \* visits in which the adjacency indices are inconsistent
  ExtraIterations, \* createMesh's sweeps after the mesh was stable (3 or 5)
  NotFound        \* Solver::NotFound: the cell has no description

ASSUME RefinementEventsAssumption ==
  /\ Cells \in Nat \ {0}
  /\ Children \in Nat \ {0, 1}
  /\ MaxLevel \in Nat
  /\ MaxUpdates \in Nat \ {0}
  /\ MaxInconsistent \in Nat
  /\ ExtraIterations \in Nat \ {0}

(* The number of cells of a level that is refined everywhere. *)
Width[l \in 0..MaxLevel] == IF l = 0 THEN Cells ELSE Children * Width[l - 1]

Cell == UNION { {l} \X (0..(Width[l] - 1)) : l \in 0..MaxLevel }

Level(c)    == c[1]
Base        == { c \in Cell : Level(c) = 0 }
Parent(c)   == << c[1] - 1, c[2] \div Children >>
Offspring(c)  == { f \in Cell : Level(f) = Level(c) + 1 /\ Parent(f) = c }

Side == { "left", "right" }
Opposite(s)     == IF s = "left" THEN "right" ELSE "left"
Neighbour(c, s) == << c[1], IF s = "left" THEN c[2] - 1 ELSE c[2] + 1 >>
AtBoundary(c, s) == Neighbour(c, s) \notin Cell

(* The vertex of a cell at one of its sides. *)
VertexOf(c, s) == << c[1], IF s = "left" THEN c[2] ELSE c[2] + 1 >>
Vertices(c)    == { VertexOf(c, s) : s \in Side }

Type  == { "Erased", "Ancestor", "Cell", "Descendant" }
RefinementEvent ==
  { "None", "ErasingChildrenRequested", "ErasingChildren",
    "ChangeChildrenToDescendantsRequested", "ChangeChildrenToDescendants",
    "RefiningRequested", "Refining", "DeaugmentingChildrenRequestedTriggered",
    "DeaugmentingChildrenRequested", "DeaugmentingChildren",
    "AugmentingRequested", "Augmenting" }
RefinementControl == { "Refine", "Keep", "Erase" }

ASSUME CriteriaAssumption == Criteria \subseteq [Cell -> RefinementControl]

MaximumHelperStatus       == 2
MaximumAugmentationStatus == 2
Status == 0..2

(***************************************************************************)
(* A cell description.  The arrays are those of the cell (the solution,    *)
(* its update, the previous solution and their averages) and those of its  *)
(* faces.  linked says that parentIndex is the index of the coarse cell.   *)
(***************************************************************************)
Description ==
  [ type : Type, event : RefinementEvent, isAugmented : BOOLEAN,
    augmentation : Status, faceAugmentation : [Side -> Status],
    helper : Status, faceHelper : [Side -> Status],
    newlyCreated : BOOLEAN, memory : SUBSET { "volume", "faces" },
    linked : BOOLEAN ]

ASSUME NotFoundAssumption == NotFound \notin Description

VARIABLES
  description,   \* of each cell, or NotFound
  refined,       \* vertices that are refined
  triggered,     \* vertices that are refined from the next sweep on
  phase,         \* of createMesh
  at,            \* the next callback of the traversal
  forward,       \* the direction of the traversal
  stable,        \* next value of the solver's attainedStableState
  fresh,         \* vertices that were refined at the beginning of this sweep
  extra,         \* extraIterations left
  criterion,     \* what refinementCriterion says of each cell
  updates,       \* mesh updates still to come
  inconsistent   \* visits with inconsistent adjacency indices so far

vars == << description, refined, triggered, phase, at, forward, stable,
           fresh, extra, criterion, updates, inconsistent >>

runnerVars == << phase, forward, extra, criterion, updates >>
-----------------------------------------------------------------------------
(* The grid: a cell is refined if one of its vertices is. *)
InGrid(c) == Level(c) = 0 \/ Vertices(Parent(c)) \cap refined # {}

HasOffspring(c) == Level(c) < MaxLevel /\ Vertices(c) \cap refined # {}

(* A vertex on a coarse vertex that is not refined hangs. *)
IsHanging(c, s) ==
  /\ Level(c) > 0
  /\ VertexOf(c, s)[2] % Children = 0
  /\ << c[1] - 1, VertexOf(c, s)[2] \div Children >> \notin refined

(* The order of the cells with the same parent, and of the base cells. *)
Siblings(c) == IF Level(c) = 0 THEN Base ELSE Offspring(Parent(c))

Entry == IF forward THEN "left" ELSE "right"
Exit  == Opposite(Entry)

First(cells) == CHOOSE c \in cells : Neighbour(c, Entry) \notin cells
-----------------------------------------------------------------------------
Found(D, c) == c \in Cell /\ D[c] # NotFound

(* tryGetElement with the parent index of the cell description. *)
HasParent(D, c) == Level(c) > 0 /\ D[c].linked /\ Found(D, Parent(c))

AllSides(v) == [ s \in Side |-> v ]

(* addNewCellDescription *)
NewDescription(type, linked) ==
  LET helper == IF type = "Cell" THEN MaximumHelperStatus ELSE 0
  IN  [ type |-> type, event |-> "None", isAugmented |-> FALSE,
        augmentation |-> 0, faceAugmentation |-> AllSides(0),
        helper |-> helper, faceHelper |-> AllSides(helper),
        newlyCreated |-> FALSE, memory |-> {}, linked |-> linked ]

EnsureNecessaryMemoryIsAllocated(d) ==
  [ d EXCEPT !.memory = @ \cup (IF d.type = "Cell" THEN {"volume"} ELSE {})
                          \cup (IF d.helper >= 1 THEN {"faces"} ELSE {}) ]

EnsureNoUnnecessaryMemoryIsAllocated(d) ==
  [ d EXCEPT !.memory =
      (@ \ (IF d.type # "Cell" THEN {"volume"} ELSE {}))
         \ (IF d.type = "Erased" \/ d.helper < 1 THEN {"faces"} ELSE {}) ]

AddNewCell(D, c, linked) ==
  [ D EXCEPT ![c] =
      EnsureNecessaryMemoryIsAllocated(NewDescription("Cell", linked)) ]
-----------------------------------------------------------------------------
(***************************************************************************)
(* Merging at a face: the status of a face is one less than the greater of *)
(* the cell's own and what the neighbour holds at the face; next to the    *)
(* boundary and to an empty cell at a hanging vertex it is zero.           *)
(***************************************************************************)
(* A faulty form, which lets the status of a face drop below zero. *)
SpreadBelowZero(own, other) == Max({own, other}) - 1

Spread(own, other) == IF Max({own, other}) = 0 THEN 0 ELSE Max({own, other}) - 1

MergedWith(d, s, n) ==
  [ d EXCEPT
      !.faceAugmentation[s] = Spread(d.augmentation, n.faceAugmentation[Opposite(s)]),
      !.faceHelper[s]       = Spread(d.helper, n.faceHelper[Opposite(s)]) ]

MergedWithBoundaryOrEmptyCell(d, s) ==
  [ d EXCEPT !.faceAugmentation[s] = 0, !.faceHelper[s] = 0 ]

(* Whether the face is inside the domain is inherited from the base cell. *)
IsInside(c, s) == ~AtBoundary(<< 0, c[2] \div Children^Level(c) >>, s)

MergesWithEmpty(c, s) ==
  AtBoundary(c, s) \/ (IsHanging(c, s) /\ IsInside(c, s))

(* touchVertexFirstTime or createHangingVertex for the vertex of c at s. *)
Touch(D, c, s) ==
  LET n == Neighbour(c, s)
      o == Opposite(s)
  IN  CASE Found(D, c) /\ Found(D, n) /\ ~IsHanging(c, s) ->
             [ D EXCEPT ![c] = MergedWith(D[c], s, D[n]),
                        ![n] = MergedWith(D[n], o, D[c]) ]
        [] Found(D, c) /\ ~Found(D, n) /\ MergesWithEmpty(c, s) ->
             [ D EXCEPT ![c] = MergedWithBoundaryOrEmptyCell(@, s) ]
        [] ~Found(D, c) /\ Found(D, n) /\ MergesWithEmpty(n, o) ->
             [ D EXCEPT ![n] = MergedWithBoundaryOrEmptyCell(@, o) ]
        [] OTHER -> D

(* A vertex is touched first by the first of its cells the sweep enters. *)
TouchVertices(D, c) ==
  LET n == Neighbour(c, Entry)
      E == IF n \in Cell /\ InGrid(n) THEN D ELSE Touch(D, c, Entry)
  IN  Touch(E, c, Exit)

(* updateHelperStatus and updateAugmentationStatus *)
UpdateHelperStatus(d) ==
  LET h == IF d.type = "Cell" THEN MaximumHelperStatus
           ELSE Max({ d.faceHelper[s] : s \in Side })
  IN  [ d EXCEPT !.helper = h, !.faceHelper = AllSides(h) ]

UpdateAugmentationStatus(d) ==
  LET a == IF d.type = "Ancestor" THEN MaximumAugmentationStatus
           ELSE Max({ d.faceAugmentation[s] : s \in Side })
  IN  [ d EXCEPT !.augmentation = a, !.faceAugmentation = AllSides(a) ]
-----------------------------------------------------------------------------
(* markForRefinement: the user's criterion, and the veto of the parent. *)
(* A faulty form, which does not ask in a cell that is augmented. *)
AsksCriterionOutsideAugmentation(d) ==
  d.type = "Cell" /\ d.event = "None" /\ ~d.isAugmented

AsksCriterion(d) == d.type = "Cell" /\ d.event \in { "None", "AugmentingRequested" }

SetParentEvent(D, c, from, to) ==
  IF HasParent(D, c) /\ D[Parent(c)].event \in from
  THEN [ D EXCEPT ![Parent(c)].event = to ]
  ELSE D

(* A faulty form, in which a cell that is to be refined does not veto. *)
MarkForRefinementWithoutVeto(D, c) ==
  LET d == D[c]
  IN  [ D EXCEPT ![c].event =
          CASE AsksCriterion(d) /\ criterion[c] = "Refine" /\ Level(c) < MaxLevel ->
                 "RefiningRequested"
            [] d.type = "Ancestor" /\ d.event = "None" /\ ~d.newlyCreated ->
                 "ErasingChildrenRequested"
            [] OTHER -> d.event ]

MarkForRefinement(D, c) ==
  LET d == D[c]
      event ==
        CASE AsksCriterion(d) /\ criterion[c] = "Refine" /\ Level(c) < MaxLevel ->
               "RefiningRequested"
          [] d.type = "Ancestor" /\ d.event = "None" /\ ~d.newlyCreated ->
               "ErasingChildrenRequested"
          [] OTHER -> d.event
      marked == [ D EXCEPT ![c].event = event ]
  IN  IF AsksCriterion(d) /\ criterion[c] = "Erase" THEN marked
      ELSE SetParentEvent(marked, c,
             { "ErasingChildrenRequested", "ChangeChildrenToDescendantsRequested" },
             "None")

(* markForAugmentation *)
AugmentationEvent(d) ==
  IF d.event # "None" \/ d.type \notin { "Cell", "Descendant" } THEN d.event
  ELSE CASE d.augmentation = 0 -> "DeaugmentingChildrenRequestedTriggered"
         [] d.augmentation > 0 /\ ~d.isAugmented -> "AugmentingRequested"
         [] OTHER -> d.event

MarkForAugmentation(D, c) ==
  LET requested ==
        SetParentEvent(D, c, { "DeaugmentingChildrenRequestedTriggered" },
                       "DeaugmentingChildrenRequested")
      marked == [ requested EXCEPT ![c].event = AugmentationEvent(D[c]) ]
  IN  IF D[c].isAugmented \/ D[c].augmentation > 0
      THEN SetParentEvent(marked, c, { "DeaugmentingChildrenRequested" }, "None")
      ELSE marked
-----------------------------------------------------------------------------
(***************************************************************************)
(* What the cell c does to the coarse cell's description as it is entered. *)
(***************************************************************************)
(* A faulty form, which vetoes deaugmenting only. *)
VetoDeaugmentingOnly(D, c) ==
  IF /\ Found(D, c) /\ D[Parent(c)].event = "DeaugmentingChildrenRequested"
     /\ D[c].isAugmented \/ D[c].event \in { "Augmenting", "AugmentingRequested" }
  THEN [ D EXCEPT ![Parent(c)].event = "None" ]
  ELSE D

VetoErasingOrDeaugmentingChildrenRequest(D, c) ==
  LET p == Parent(c)
  IN  IF /\ Found(D, c)
         /\ D[c].isAugmented \/ D[c].event \in { "Augmenting", "AugmentingRequested" }
      THEN CASE D[p].event = "DeaugmentingChildrenRequested" ->
                  [ D EXCEPT ![p].event = "None" ]
             [] D[p].event = "ErasingChildrenRequested" ->
                  [ D EXCEPT ![p].event = "ChangeChildrenToDescendantsRequested" ]
             [] OTHER -> D
      ELSE D

AddNewDescendantIfAugmentingRequested(D, c) ==
  LET p == Parent(c)
  IN  IF D[p].event \notin { "AugmentingRequested", "Augmenting" } THEN D
      ELSE IF Found(D, c) THEN [ D EXCEPT ![p].event = "None" ]
      ELSE [ D EXCEPT ![p].event = "Augmenting",
                      ![c] = NewDescription("Descendant", TRUE) ]

BecomesCell(d) ==
  EnsureNecessaryMemoryIsAllocated(
    [ d EXCEPT !.type = "Cell", !.event = "None",
               !.helper = MaximumHelperStatus,
               !.faceHelper = AllSides(MaximumHelperStatus) ])

AddNewCellIfRefinementRequested(D, c) ==
  LET p == Parent(c)
      refining == [ D EXCEPT ![p].event = "Refining" ]
  IN  IF D[p].event \notin { "RefiningRequested", "Refining" } THEN D
      ELSE IF Found(D, c) THEN [ refining EXCEPT ![c] = BecomesCell(@) ]
      ELSE AddNewCell(refining, c, TRUE)

(* updateStateInEnterCell, first for the cell, then for the coarse cell. *)
UpdateStateOfCell(D, c, consistent) ==
  CASE ~Found(D, c) /\ Level(c) = 0 -> AddNewCell(D, c, FALSE)
    [] Found(D, c) /\ consistent ->
         MarkForAugmentation(
           [ D EXCEPT ![c] =
               UpdateAugmentationStatus(EnsureNoUnnecessaryMemoryIsAllocated(
                 EnsureNecessaryMemoryIsAllocated(UpdateHelperStatus(@)))) ], c)
    [] OTHER -> D

Marked(D, c) ==
  LET T == TouchVertices(D, c)
  IN  IF Found(T, c) THEN MarkForRefinement(T, c) ELSE T

UpdateStateInEnterCell(D, c) ==
  IF Level(c) > 0 /\ Found(D, Parent(c))
  THEN AddNewCellIfRefinementRequested(AddNewDescendantIfAugmentingRequested(
         VetoErasingOrDeaugmentingChildrenRequest(D, c), c), c)
  ELSE D
-----------------------------------------------------------------------------
(* startOrFinishCollectiveRefinementOperations *)
(* A faulty form, which keeps the refinement event. *)
BecomesAncestorKeepingEvent(d) ==
  EnsureNoUnnecessaryMemoryIsAllocated(
    [ d EXCEPT !.type = "Ancestor",
               !.augmentation = MaximumAugmentationStatus,
               !.faceAugmentation = AllSides(MaximumAugmentationStatus),
               !.helper = 0, !.faceHelper = AllSides(0),
               !.isAugmented = FALSE, !.newlyCreated = TRUE ])

BecomesAncestor(d) ==
  EnsureNoUnnecessaryMemoryIsAllocated(
    [ d EXCEPT !.type = "Ancestor", !.event = "None",
               !.augmentation = MaximumAugmentationStatus,
               !.faceAugmentation = AllSides(MaximumAugmentationStatus),
               !.helper = 0, !.faceHelper = AllSides(0),
               !.isAugmented = FALSE, !.newlyCreated = TRUE ])

(* A faulty form, which takes the children's removal for granted. *)
TakesOverAtOnce(d, event) ==
  BecomesCell([ d EXCEPT !.augmentation = 0, !.faceAugmentation = AllSides(0) ])

TakesOverFromChildren(d, event) ==
  [ BecomesCell([ d EXCEPT !.augmentation = 0, !.faceAugmentation = AllSides(0) ])
    EXCEPT !.event = event ]

StartOrFinish(d) ==
  CASE d.event = "Refining" -> BecomesAncestor(d)
    [] d.event = "ChangeChildrenToDescendantsRequested" ->
         TakesOverFromChildren(d, "ChangeChildrenToDescendants")
    [] d.event = "ErasingChildrenRequested" ->
         TakesOverFromChildren(d, "ErasingChildren")
    [] d.event = "DeaugmentingChildrenRequested" ->
         [ d EXCEPT !.event = "DeaugmentingChildren" ]
    [] d.event \in { "ChangeChildrenToDescendants", "Augmenting" } ->
         [ d EXCEPT !.isAugmented = TRUE, !.event = "None" ]
    [] d.event = "DeaugmentingChildren" ->
         [ d EXCEPT !.isAugmented = FALSE, !.event = "None" ]
    [] d.event \in { "ErasingChildren", "DeaugmentingChildrenRequestedTriggered" } ->
         [ d EXCEPT !.event = "None" ]
    [] OTHER -> d

(***************************************************************************)
(* eraseCellDescriptionIfNecessary: the coarse cell's event decides        *)
(* whether this cell turns into a descendant or vanishes.  With the cell's *)
(* index gone, its own children are no longer linked to it.                *)
(***************************************************************************)
ErasesChildren == { "ErasingChildren", "DeaugmentingChildren" }

BecomesDescendant(d) ==
  EnsureNoUnnecessaryMemoryIsAllocated(
    [ d EXCEPT !.type = "Descendant", !.helper = 0, !.faceHelper = AllSides(0) ])

Erase(D, c) ==
  [ f \in Cell |->
      IF f = c THEN NotFound
      ELSE IF f \in Offspring(c) /\ Found(D, f) THEN [ D[f] EXCEPT !.linked = FALSE ]
      ELSE D[f] ]

EraseCellDescriptionIfNecessary(D, c) ==
  IF Level(c) = 0 \/ ~Found(D, Parent(c)) THEN D
  ELSE CASE D[Parent(c)].event \in ErasesChildren -> Erase(D, c)
         [] D[Parent(c)].event = "ChangeChildrenToDescendants" ->
              [ D EXCEPT ![c] = BecomesDescendant(@) ]
         [] OTHER -> D

UpdateStateInLeaveCell(D, c) ==
  IF Found(D, c)
  THEN EraseCellDescriptionIfNecessary([ D EXCEPT ![c] = StartOrFinish(@) ], c)
  ELSE D

(* A faulty form, which looks at cells and ancestors only. *)
AttainedStableStateOfSpacetree(D, c, consistent) ==
  Found(D, c) =>
    /\ D[c].event \in { "None", "ErasingChildren", "ChangeChildrenToDescendants" }
    /\ consistent

(* A faulty form, which waits for a flag that is reset only after the sweeps. *)
AttainedStableStateOfOldCells(D, c, consistent) ==
  Found(D, c) => D[c].event = "None" /\ ~D[c].newlyCreated /\ consistent

AttainedStableState(D, c, consistent) ==
  Found(D, c) => D[c].event = "None" /\ consistent
-----------------------------------------------------------------------------
(* The callbacks of a depth-first traversal. *)
Enter(c) == << "enter", c >>
Leave(c) == << "leave", c >>
NoCallback == << "between" >>

AfterEntering(c) ==
  IF HasOffspring(c) THEN Enter(First(Offspring(c))) ELSE Leave(c)

AfterLeaving(c) ==
  IF Neighbour(c, Exit) \in Siblings(c) THEN Enter(Neighbour(c, Exit))
  ELSE IF Level(c) > 0 THEN Leave(Parent(c))
  ELSE NoCallback

(* The mapping refines neither a vertex on the boundary nor one that hangs. *)
RefinableVertices(c) ==
  { VertexOf(c, s) : s \in { r \in Side : ~AtBoundary(c, r) /\ ~IsHanging(c, r) } }
    \ refined

RefinesFineGridCell(D, c, consistent) ==
  /\ Found(D, c)
  /\ \/ D[c].event = "RefiningRequested"
     \/ consistent /\ D[c].event = "AugmentingRequested"

(***************************************************************************)
(* adjacencyInformationIsConsistent compares what the vertices of a face   *)
(* know of the cell behind it.  They differ, in two and three dimensions,  *)
(* as long as some of them are new; there are new vertices next to coarse  *)
(* vertices refined at the beginning of the sweep.                         *)
(***************************************************************************)
AdjacencyMayDiffer(c) == Level(c) > 0 /\ Vertices(Parent(c)) \cap fresh # {}

EnterCell(c) ==
  /\ at = Enter(c)
  /\ \E consistent \in BOOLEAN :
       /\ ~consistent => AdjacencyMayDiffer(c) /\ inconsistent < MaxInconsistent
       /\ inconsistent' = inconsistent + (IF consistent THEN 0 ELSE 1)
       /\ LET own == UpdateStateOfCell(Marked(description, c), c, consistent)
          IN  /\ description' = UpdateStateInEnterCell(own, c)
              /\ triggered' = triggered \cup
                   (IF RefinesFineGridCell(own, c, consistent)
                    THEN RefinableVertices(c) ELSE {})
  /\ at' = AfterEntering(c)
  /\ UNCHANGED << runnerVars, refined, stable, fresh >>

LeaveCell(c) ==
  /\ at = Leave(c)
  /\ description' = UpdateStateInLeaveCell(description, c)
  /\ \E consistent \in BOOLEAN :
       /\ ~consistent => AdjacencyMayDiffer(c)
       /\ stable' = (stable /\ AttainedStableState(description', c, consistent))
  /\ at' = AfterLeaving(c)
  /\ UNCHANGED << runnerVars, refined, triggered, fresh, inconsistent >>

(***************************************************************************)
(* createMesh.  A sweep starts in the direction opposite to the last one   *)
(* and refines the vertices triggered in it.                               *)
(***************************************************************************)
BeginIteration ==
  /\ phase \in { "Mesh", "ExtraIterations" } /\ at = NoCallback
  /\ at' = Enter(IF forward THEN << 0, Cells - 1 >> ELSE << 0, 0 >>)
  /\ forward' = ~forward
  /\ refined' = refined \cup triggered
  /\ fresh' = triggered
  /\ triggered' = {}
  /\ stable' = TRUE
  /\ extra' = IF phase = "Mesh" THEN extra ELSE extra - 1
  /\ phase' = "Iteration"
  /\ UNCHANGED << description, criterion, updates, inconsistent >>

OneMoreIteration == ~stable \/ fresh # {} \/ triggered # {}

EndIteration ==
  /\ phase = "Iteration" /\ at = NoCallback
  /\ phase' = IF extra = ExtraIterations /\ OneMoreIteration THEN "Mesh"
              ELSE IF extra > 0 \/ OneMoreIteration THEN "ExtraIterations"
              ELSE "FinaliseMeshRefinement"
  /\ UNCHANGED << description, refined, triggered, at, forward, stable,
                  fresh, extra, criterion, updates, inconsistent >>

(* finaliseStateUpdates for all cells; the solution then moves on. *)
FinaliseMeshRefinement ==
  /\ phase = "FinaliseMeshRefinement"
  /\ description' = [ c \in Cell |->
       IF Found(description, c)
       THEN [ description[c] EXCEPT !.newlyCreated = FALSE ] ELSE NotFound ]
  /\ phase' = "TimeSteps"
  /\ UNCHANGED << refined, triggered, at, forward, stable, fresh, extra,
                  criterion, updates, inconsistent >>

StartMeshUpdate ==
  /\ phase = "TimeSteps" /\ updates > 0
  /\ updates' = updates - 1
  /\ criterion' \in Criteria
  /\ forward' \in BOOLEAN
  /\ extra' = ExtraIterations
  /\ phase' = "Mesh"
  /\ UNCHANGED << description, refined, triggered, at, stable, fresh,
                  inconsistent >>

Terminating == phase = "TimeSteps" /\ updates = 0 /\ UNCHANGED vars

Init ==
  /\ description = [ c \in Cell |-> NotFound ]
  /\ refined = {} /\ triggered = {}
  /\ phase = "TimeSteps" /\ at = NoCallback /\ forward = TRUE
  /\ stable = FALSE /\ fresh = {}
  /\ extra = ExtraIterations /\ updates = MaxUpdates /\ inconsistent = 0
  /\ criterion = [ c \in Cell |-> "Keep" ]

Next ==
  \/ \E c \in Cell : EnterCell(c) \/ LeaveCell(c)
  \/ BeginIteration \/ EndIteration
  \/ FinaliseMeshRefinement \/ StartMeshUpdate \/ Terminating

Spec == Init /\ [][Next]_vars

(***************************************************************************)
(* Fairness: the runner always makes its next step.  In every state but    *)
(* the last exactly one callback or runner step is enabled and it changes  *)
(* at or phase, so that fairness of this coarse action is fairness of      *)
(* Next, and costs TLC nothing to evaluate.                                *)
(***************************************************************************)
Callback == { Enter(c) : c \in Cell } \cup { Leave(c) : c \in Cell } \cup {NoCallback}

Phase == { "Mesh", "Iteration", "ExtraIterations", "FinaliseMeshRefinement", "TimeSteps" }

Moves == /\ phase # "TimeSteps" \/ updates > 0
         /\ at' \in Callback /\ phase' \in Phase

FairSpec == Spec /\ WF_<< at, phase >>(Moves)
-----------------------------------------------------------------------------
TypeOK ==
  /\ description \in [Cell -> Description \cup {NotFound}]
  /\ triggered \cup refined \cup fresh \subseteq UNION { Vertices(c) : c \in Cell }
  /\ phase \in Phase /\ at \in Callback
  /\ forward \in BOOLEAN /\ stable \in BOOLEAN
  /\ extra \in Int /\ updates \in 0..MaxUpdates
  /\ inconsistent \in 0..MaxInconsistent
  /\ criterion \in [Cell -> RefinementControl]
-----------------------------------------------------------------------------
IsA(c, types) == Found(description, c) /\ description[c].type \in types

(***************************************************************************)
(* The assertions on types in the functions above: whatever requests and   *)
(* vetoes meet, a refinement event is one its type of cell description can *)
(* carry out.                                                              *)
(***************************************************************************)
EventFitsType ==
  \A c \in Cell : Found(description, c) =>
    LET d == description[c]
    IN  CASE d.event \in { "ErasingChildrenRequested",
                           "ChangeChildrenToDescendantsRequested" } -> d.type = "Ancestor"
          [] d.event \in { "RefiningRequested", "Refining", "ErasingChildren",
                           "ChangeChildrenToDescendants" } -> d.type = "Cell"
          [] d.event = "None" -> TRUE
          [] OTHER -> d.type \in { "Cell", "Descendant" }

(***************************************************************************)
(* addNewCellIfRefinementRequested and markForAugmentation assert that a   *)
(* cell which is about to be refined or deaugmented has no children but    *)
(* descendants.                                                            *)
(***************************************************************************)
OnlyDescendantsAreReplaced ==
  \A c \in Cell :
    /\ IsA(c, {"Cell", "Descendant"})
    /\ description[c].event \in { "RefiningRequested", "AugmentingRequested",
         "Augmenting", "DeaugmentingChildrenRequested", "DeaugmentingChildren" }
    => \A f \in Offspring(c) : Found(description, f) => IsA(f, {"Descendant"})

(***************************************************************************)
(* restrictVolumeData, called as a child is erased or turned into a        *)
(* descendant, finds the solution of both cells (its assertions).          *)
(***************************************************************************)
RestrictionFindsSolutions ==
  \A c \in Cell :
    LET p == Parent(c)
    IN  /\ at = Leave(c) /\ Level(c) > 0
        /\ Found(description, c) /\ Found(description, p)
        /\ description[p].event \in { "ErasingChildren", "ChangeChildrenToDescendants" }
        => "volume" \in StartOrFinish(description[c]).memory \cap description[p].memory

(***************************************************************************)
(* A cell description that is entered below a coarse cell description has  *)
(* that one's index as its parent index (updateStateInEnterCell).          *)
(***************************************************************************)
ParentIndexIsConsistent ==
  \A c \in Cell :
    at = Enter(c) /\ Found(description, c) /\ Level(c) > 0 /\ Found(description, Parent(c))
      => description[c].linked

(***************************************************************************)
(* No description remains below a cell that has none.                      *)
(***************************************************************************)
ChildrenHaveParents ==
  \A c \in Cell : Found(description, c) /\ Level(c) > 0 => Found(description, Parent(c))

MeshIsFinal == phase \in { "FinaliseMeshRefinement", "TimeSteps" }

(***************************************************************************)
(* A stable mesh is an augmented spacetree: an ancestor is refined into    *)
(* cells and ancestors, an augmented cell into descendants, and any other  *)
(* description has no children.                                            *)
(***************************************************************************)
StableMeshIsASpacetree ==
  MeshIsFinal => \A c \in Cell : Found(description, c) =>
    LET d == description[c]
    IN  \A f \in Offspring(c) :
          IF d.type = "Ancestor" THEN IsA(f, {"Ancestor", "Cell"})
          ELSE IF d.isAugmented THEN IsA(f, {"Descendant"})
          ELSE ~Found(description, f)

(***************************************************************************)
(* Where the solver computes, every face has two sides: next to a cell of  *)
(* a stable mesh there is a description that holds face data, a cell, or a *)
(* descendant or ancestor of one.                                          *)
(***************************************************************************)
FacesHaveTwoSides ==
  MeshIsFinal => \A c \in Cell, s \in Side :
    IsA(c, {"Cell"}) /\ ~AtBoundary(c, s) =>
      /\ Found(description, Neighbour(c, s))
      /\ "faces" \in description[Neighbour(c, s)].memory

(***************************************************************************)
(* A stable mesh is as fine as the criterion asks for.                     *)
(***************************************************************************)
RefinedWhereAsked ==
  MeshIsFinal /\ updates < MaxUpdates =>
    \A c \in Cell : IsA(c, {"Cell"}) /\ criterion[c] = "Refine" => Level(c) = MaxLevel

(***************************************************************************)
(* Every mesh update ends: requests and vetoes do not chase one another    *)
(* for ever.                                                               *)
(***************************************************************************)
MeshUpdateEnds == phase = "Mesh" ~> phase = "TimeSteps"
=============================================================================
