# A TLA+ model of ExaHyPE

ExaHyPE is an engine for hyperbolic PDEs: ADER-DG solvers, ADER-DG solvers with
a Finite Volumes limiter, and Finite Volumes solvers on an adaptive Cartesian
mesh, distributed over MPI ranks by the Peano framework. This directory holds a
TLA+ model of its control logic (fused time stepping, adaptive mesh refinement,
the exchange of face data, the limiter, background compression), TLC
configurations that check it on small instances, and proofs of some theorems for
all instances. Paths below are relative to `src/ExaHyPE/exahype` unless they
start with `Peano`.

## The system

| Component | State | Operations | Interacts with | Hard behaviour | What makes it correct |
|---|---|---|---|---|---|
| `runners/Runner` | none but the repository and solvers | `createMesh`, `initialiseMesh`, `updateMeshFusedTimeStepping`, `runOneTimeStep...`, the loop of `runAsMaster` | sets the State's section, runs adapters (grid sweeps), asks the solvers' static predicates | a long, branching sequence of sweeps | no sweep waits in vain; the simulation ends at its end time |
| `State` | algorithm section, merge and send mode, allowed refinement level | context switches, `endedGridConstructionIteration`, `mayRefine` | broadcast to all ranks | ends the grid construction from several counters | construction terminates |
| `solvers/Solver` | mesh update request, attained stable state, each with a next value | `update/setNext...`, the predicates over all solvers | mappings set them, the runner reads them | two-phase flags, overwritten by each sweep | a request is not lost |
| `solvers/ADERDGSolver` | three generations of time stamps and step sizes, stability flag; cell descriptions with type, refinement event, status fields; heap arrays | `startNewTimeStep`, `rollbackToPreviousTimeStep`, `zeroTimeStepSizes`, `isSending`, `isComputing`; marking, refining, erasing cells; compression | kernels, heaps, vertices | predictor runs ahead of the corrector; requests and vetoes over traversals; background tasks | generations join; every event is handled; arrays freed once |
| `solvers/LimitingADERDGSolver` | limiter domain change, limiter status per cell | spreading, reinitialisation, recomputation | an ADER-DG and a Finite Volumes solver | local and global recomputation | the recomputed solution is at the right time |
| `solvers/FiniteVolumesSolver` | stamp, step size | as above | | | |
| `mappings/*` | a local copy of the State, per-sweep reductions | `beginIteration`, `enterCell`, `endIteration`, `mergeWithNeighbour`, `prepareSend...` | solvers, heaps | what is sent must be received a sweep later | |
| `Vertex`, `Cell`, `VertexOperations` | cell description indices around a vertex; merge flags, exchange counters | merge and count faces | heaps | several vertices touch one face | each face merged and sent once |
| `amr/AdaptiveMeshRefinement` | none | helpers of the refinement events | `ADERDGSolver` | | |
| `plotters/Plotter` | next plot time | schedule | runner | | no plot skipped |
| `Parser` | configuration | queries | runner | none | |
| `Peano/mpibalancing` | idle and booked ranks | reserve, release, sort | node pool | requests in any order | a rank has one master |
| `Peano/sharedmemoryoracles` | grain size search | | traversals | measured times | search terminates |
| `Peano/multiscalelinkedcell` | maps of hanging vertices | create, destroy, look up | vertices | two traversals overlap | |

Not modelled, and not planned: `kernels` (floating-point numerics), `records`,
`repositories` and `adapters` (generated), the Java toolkit, profilers, plotter
file formats, demonstrators and unit tests. The Peano framework itself (grid,
heap, node pool) is not part of this repository.

### Interaction in the fused scheme

The runner alternates between *sections*: it sets the State's algorithm section
and runs one grid sweep. In the sweep each mapping asks every solver whether it
`isComputing` (its cells are worked on, its face data received) or `isSending`
in that section; the answers depend on the solver's request flags. A time step
(`ADERDGTimeStep`) merges face data, updates the solution, predicts the next
step with a step size that is only then found stable or not, and sends. Next,
`updateMeshFusedTimeStepping` drops the data just sent, spreads the limiter
status, refines the mesh, reinitialises, recomputes locally or globally, and
starts the scheme afresh; finally the predictor is rerun if its step size was
unstable.

## The modules

Each module models one part of the program with the other parts reduced to
inputs; what is an input of one is a state of another:

| Module | Part of the program | Granularity of a step | Inputs that stand for other parts |
|---|---|---|---|
| `AlgorithmSections` | who computes and sends in which section | operators | |
| `TimeStepData` | time stamps and step sizes of a solver | operators | |
| `FusedTimeStepping` | the runner and the flags of the solvers | one grid sweep | what cells report: stable sizes, trouble, refinement |
| `LimiterStatus` | the cells of one limiting solver | one grid sweep | which cells fail the criteria |
| `RefinementEvents` | cell descriptions in `createMesh` | one `enterCell` or `leaveCell` | the refinement criterion |
| `FaceMerging`, `FaceExchange` | merging and sending faces | one vertex or a rank's cells | which adapters run |
| `Compression` | heap arrays and background tasks | what happens under one lock | what refinement makes of a cell |

### Fused time stepping

* **`AlgorithmSections`** - `isSending` and `isComputing` of each solver type.
* **`TimeStepData`** - the time stamps and step sizes of a solver and every
  operation of the fused scheme on them. Times are natural numbers; a product
  with the rerun weight and an average are rounded up, which keeps positive
  sizes positive (floating point does too). `MaxDouble` stands for
  `numeric_limits<double>::max()`, `WeightInTenths` for the weight.
* **`FusedTimeStepping`** - the runner on one rank, one action per grid sweep:

  | Action | Code |
  |---|---|
  | `CreateMeshIterate`, `StartExtraIterations`, `CreateMeshExtraIterate`, `FinishMesh` | the two loops of `Runner::createMesh` with `MeshRefinement` |
  | `InitialTimeStepSizeComputation`, `InitialPrediction` | `initialiseMesh` and the first prediction |
  | `ADERDGTimeStep` | one time step: `Merging`, `SolutionUpdate`, `Prediction`, `TimeStepSizeComputation`, `Sending` |
  | `DropNeighbourData`, `LimiterStatusSpreading`, `StartMeshUpdate`, `FinaliseMeshRefinementAndReinitialisation`, `LocalRecomputationAndTimeStepSizeComputation`, `PredictionAfterMeshUpdate`, `GlobalRecomputation` | the steps of `updateMeshFusedTimeStepping`, entered under `Needed`, else `SkipPhase` |
  | `PredictionRerun` | the rerun at the end of `runOneTimeStepWithFusedAlgorithmicSteps` |
  | `EndSimulation`, `Terminating` | the loop condition |

  | Variable | Code |
  |---|---|
  | `phase` | the runner's place in its code |
  | `algorithmSection` | `State::_algorithmSection` |
  | `flags` | mesh update request, attained stable state, limiter domain change and their next values |
  | `stabilityConditionWasViolated`, `time` | the members of `ADERDGSolver` and `FiniteVolumesSolver` |
  | `faceData`, `metadata` | sets of messages from the neighbouring rank not yet received |
  | `isFirstIteration`, `isInitialMeshRefinement` | static members of `LimiterStatusSpreading` and `MeshRefinement` |
  | `extraIterations`, `continueToConstructGrid`, `unstableIterations` | locals of `createMesh`, the State's answer, and a bound |
  | `predictedWith`, `solution` | history: the step sizes the cells' predictors were computed with, and the time of the cells' solution, per class of cell |

  Abstractions: the cells' findings (stable step size, refinement criterion,
  troubled cells, stable mesh) are inputs chosen from constant sets. Cells are
  grouped in the three classes that `reinitialiseSolvers` tells apart. The
  neighbour runs the same sections and sends what this rank sends, so one
  counter of sets per solver stands for both directions. The five sweeps of
  the limiter status spreading are one action: memorising the requests is
  idempotent, so five give the flags that one does with the union of their
  requests. Fixed-step batches run one step at a time. In the first sweep of the
  run (phase `FirstGrid`) the grid is on one rank and there is no neighbour to
  receive from; `run` has reset the `isFirstIteration` switches before.
* **`MCFusedTimeStepping`** - solvers, types and schemes for TLC.
* **`FusedTimeSteppingProofs`** (types), **`FusedTimeSteppingFlagsProofs`** (request
  flags), **`FusedTimeSteppingMailProofs`** (messages), **`FusedTimeSteppingTimeProofs`**
  (time step data, predictors, solution) - theorems.

### The limiter, cell by cell

* **`LimiterStatus`** refines what `FusedTimeStepping` abstracts to three classes
  of cells. All cells are of type Cell and on the finest level; their neighbour
  relation is a constant. A sweep is one action, because every face of a cell is
  merged as its first vertex is touched, before either cell is entered: the cells
  of a sweep read each other only through the merged faces.

  | Action | Code |
  |---|---|
  | `TimeStep(T)` | `LimitingADERDGSolver::updateSolution`, `updateLimiterStatusAndMinAndMaxAfterSolutionUpdate`, `allocateLimiterPatchAfterSolutionUpdate` and the prediction; `T` are the cells that fail the discrete maximum principle or the physical criterion |
  | `Spread`, five times | `updateLimiterStatusDuringLimiterStatusSpreading` |
  | `Reinitialise` | `reinitialiseSolvers` |
  | `Recompute` | `recomputeSolution`, `recomputePredictor` |

  `limiterStatus`, `previousLimiterStatus` and `iterationsToCure` are the fields of
  the cell description (the facewise values are overwritten with the cell's after
  each sweep and need no variable; the counter is 0 in cells that are not Troubled,
  where it is never read). Of the four solution arrays the model keeps how old their
  contents are: the solution now, the one before, or something no step may start
  from - an older one, a candidate that failed, memory never written. `predicted`
  says which cells' predictor belongs to their solution.
* **`MCLimiterStatus`** - a row of cells.
* **`LimiterStatusProofs`** - theorems, for any mesh.

### Adaptive mesh refinement

* **`RefinementEvents`** - the cell descriptions of one ADER-DG solver while
  `createMesh` sweeps until the mesh is stable. The spacetree is one-dimensional;
  an action is one callback of the depth-first traversal, which turns round from
  sweep to sweep. `EnterCell` is `MeshRefinement::enterCell` with everything it
  calls in order (marking, augmentation, vetoes, new children), `LeaveCell` is
  `leaveCell` (collective operations, erasing); the merge of metadata at a vertex
  belongs to the first cell that is entered at it. `BeginIteration` and
  `EndIteration` are those of the mapping and `createMesh`'s two loops,
  `FinaliseMeshRefinement` the sweep after them, `StartMeshUpdate` the next request
  with a new `criterion`. Adjacency indices may be inconsistent where vertices are new
  (`AdjacencyMayDiffer`): then `EnterCell` does not mark the cell for augmentation and
  `LeaveCell` does not count it as stable. `description` maps a cell to its description or
  `NotFound`; `refined` and `triggered` are the grid's refinement; `phase`, `at`
  and `forward` the place of the traversal; `stable`, `fresh` and `extra` the loop's
  state; `updates` and `inconsistent` (of `EnterCell`) count against bounds.
* **`MCRefinementEvents`** - criteria: a refined region that moves, or wanted levels.
* **`RefinementEventsProofs`** - theorems, for any criteria and any size and depth of the mesh.

### Faces

* **`FaceMerging`** - the promise: in a sweep that merges, both cells of each face
  get it merged once, with data both sides sent in the sweep before, and not
  before that.
* **`FaceExchange`** - how it is kept, vertex by vertex: the flag
  `neighbourMergePerformed` per description and face, the counter
  `faceDataExchangeCounter` that finds the last vertex of a face between ranks,
  the heap that hands out first what was sent last, and the sequence of adapters
  with their merge and send modes. `TouchVertexFirstTime`, `EnterCells`,
  `TouchVertexLastTime` and `EndIteration` are the callbacks of one rank, and ranks
  interleave. `rest` holds the vertices a rank still has to touch, of which `IsNext` is
  the next by their order `Turn`; `mail` and `outbox` are the messages of the last sweep that sent and of this one.
  `Faces == INSTANCE FaceMerging` gives the refinement mapping.
* **`MCFaceExchange`** - nine cells on three ranks.
* **`FaceExchangeProofs`** - theorems, for any regular grid and any distribution of it.

### Background compression

* **`Compression`** - `enterCell` and `leaveCell` of the cells, in `at`, run in
  any order the traversal's threads allow; between them memory is allocated and
  freed (`EnsureNecessary...`, `EnsureNoUnnecessaryMemoryIsAllocated`), after
  `WaitUntilAll...` found `NumberOfTriggeredTasks` at zero. `PostProcess`,
  `CountTask`, `SpawnTask` are the parts of `compress`, `PutUnknownsIntoByteStream`
  and `CompressionTaskEnds` the task; `Uncompress`, `PullUnknownsFromByteStream`,
  `CreateData` and `GlueTogether` the way back; `NextSweep` the sweeps of
  `initialiseMesh`. `plain` and `bytes` count a cell's arrays in either heap,
  `recycledPlain` and `recycledBytes` the entries that lie ready. The order of the
  traversal (all cells of a level are entered before they are left; children lie
  between; mesh refinement is serial) is Peano's and an assumption.
* **`MCCompression`** - a coarse cell with two children.
* **`CompressionProofs`** - theorems, for any hierarchy of cells.

### Faulty forms

Operators called *faulty* in their comment are plausible wrong versions of a
definition: a dropped case, an off-by-one, a wrong order. No specification uses
them. Put in the place of the definition, each makes TLC find the property it is
meant for violated, which shows that the property notices such a mistake.

## What TLC checks

| Run | Instance | Shows |
|---|---|---|
| `local_recomputation` | an ADER-DG and a limiting solver, steps 1 and 2, end time 3, no mesh updates | `TypeOK`; `NeverReceivesUnsent`: no blocking receive without a matching send; `SolutionIsAtCorrectorStamp`: recomputed or not, every cell ends the step at its solver's time; `GenerationsJoin`: corrector and predictor, and before a rollback the previous step, are one step apart |
| `global_recomputation` | one solver of each type, ADER-DG in the `GlobalFixed` scheme, mesh updates and global recomputations of the limiting one, end time 2 | `NeverReceivesUnsent`, `OnlyUpdatingSolversAreUnstable`: `createMesh` waits only for solvers it can make stable; `GlobalRecomputationRefines` (the runner's assertions), `RestartsFromZeroedStep`, `GenerationsJoin`, `PredictorMatchesCorrector`, `BystandersAreLeftAlone` (action property), `ReachesEndTime` (liveness) |
| `limiter_status` | six cells in a row, any one, or the first and any other, fail in a step (`TroubledSets`), two iterations to cure | see below |
| `mesh_updates` | two base cells with two children each, two levels below, a moving region, two updates, one visit with inconsistent adjacency | see below |
| `face_exchange` | nine cells on three ranks, every sequence of adapters | `MessagesFit`: a receive finds a message sent for its vertex and face, with face data exactly where the receiver's own counter asks for some; `FacesMergedBeforeUpdate`: the assertion of `updateSolution`; `ImplementsFaceMerging`: the refinement |
| `compression` | a coarse cell and two children, one helper cell, sweeps up to `FinaliseMeshRefinement` | `HeapRestsWhileItChanges`: entries are inserted only while no task runs; `CellsInsideAreUncompressed`; `ByteEntriesSuffice`: a task never runs out of reserved byte entries; `EveryCellIsLeft` (liveness): no thread waits for ever |

`limiter_status`:
`EveryFaceIsMerged` - whatever cells fail, in whatever sequence of steps, two
neighbours always have a common solver that merges their face, and the one each is
updated with gets data from every side (the program aborts otherwise);
`RecomputesFromTheStepBefore` and `SolutionsAreCurrent` - the swaps of four arrays,
chosen by old and new status, lead every cell back to the step before and out
again; `PredictorsAreCurrent`; `StatusFollowsDistance` - the five sweeps give every
cell the status a reference definition by distance gives it;
`PatchesAreAllocatedInOkCells` - the assertion at allocation;
`TroubleIsCured` - once no cell fails, every patch is freed (liveness).

`mesh_updates`:
`EventFitsType` - no event a type has no transition for; `OnlyDescendantsAreReplaced`
- a solution is never overwritten without having been restricted or copied;
`RestrictionFindsSolutions`; `ChildrenHaveParents`; `StableMeshIsASpacetree` - when
`createMesh` stops, refined cells are Ancestors and no request is open;
`RefinedWhereAsked`; `MeshUpdateEnds` (liveness).

**Bounds.** Two solvers suffice for bystanders and for disagreement of sections,
since the sections decide for each solver separately and the runner only takes "one
solver" disjunctions and minima. Step sizes 1 and 2 make steps unstable, and weights
and averages matter; `MaxUnstable` = 1 iterates both loops of `createMesh`. Six cells
hold a full halo of four layers and an Ok cell, and two halos that overlap; a second
trouble in the same step may be of the regular and the irregular kind. Two levels
below the base grid are the least on which augmentation, refinement and erasing of
neighbours meet. Three ranks make a vertex list two ranks for faces of one cell, and
an L-shaped part gives faces with one and with two inside vertices. `MaxReserved`
bounds how many helper cells receive face data. No symmetry is used.

Deadlock is checked everywhere: a sweep whose messages never come is a deadlock of
the model as well, and where a behaviour ends there is a stuttering action.

**Fairness.** `FusedTimeStepping` and `LimiterStatus` add weak fairness of `Next` as
a whole: the runner is one thread that takes its next step whenever there is one.
`RefinementEvents` does the same by the fairness of moving on, written for the place
of the traversal only, which is all a step always changes. `Compression` has weak
fairness per cell for the traversal's threads and for the tasks: the shared-memory
library schedules every spawned task and every traversal thread. That the grid
becomes stationary is not fairness but an assumption on the input, expressed by
`MaxUnstable`: refinement is bounded by the maximum level. `TroubleIsCured` assumes
that trouble ceases, in its premise.

### Disagreements between the code and its documentation

Each is a run that TLC finds violated; the passing runs stay clear of exactly these
combinations, by their constants.

1. `global_recomputation_time`: a global recomputation is said to roll back and
   redo the step, so that the solution is at the anticipated time. The step
   size has been zeroed before the rollback and the generations are shifted
   once more by the step size computation; the time stamp ends one step beyond
   the solution. Coarser cells are not rolled back at all.
2. `local_recomputation_rerun`: the step size computation of the local
   recomputation overwrites `stabilityConditionWasViolated`; the runner then
   skips the rerun, and the cells that were not recomputed keep predictors of
   an unstable step size.
3. `parent_index`: a child augmented in the sweep that erases it leaves its
   descendants behind, with the index of a parent that is gone; `ADERDGSolver.cpp`
   asserts that the parent index is that of the coarser cell.
4. `faces_have_two_sides`: where the grid is already there, an augmentation starts
   and finishes within one sweep, which `attainedStableState` does not see; the
   mesh may be declared stable with a descendant beside a cell that holds no face
   data, against the assertions of the Riemann solve.
5. `face_exchange_finite_volumes`: the mapping `Prediction` resets the merge flags
   and counters of ADER-DG descriptions only. With a pure Finite Volumes solver
   beside them, the sweep after merges and sends no face of any solver.
6. `compression_prediction`: in the adapters with both `Sending` and
   `PostProcessing`, each cell is compressed twice as it is left, and a second task
   is spawned for the same arrays.

Found by reading, next to what the runs show:

* The predictor rerun drops the data of unstable solvers only, while `State.def`
  230-236 and `State.h` 171-176 let all solvers drop theirs.
* `FusedTimeSteppingInitialisation.cpp:315` sets the corrector's step size of every
  limiting solver, of those that had no part in the mesh update as well (by
  `ADERDGSolver.cpp` 838-842), so that its predictor is no longer one step ahead. The
  model does what the code does; the instances and theorems about joining generations
  exclude the case by their constants.
* `ADERDGSolver.cpp:213` resets the index of `previousSolution` without deleting the
  array (`ADERDGSolver.h` 945-946 promises it is freed).
* The empty messages of `Reinitialisation` and `LocalRecomputation` ignore the level,
  while the limiter's data is only sent on the finest one (`LimitingADERDGSolver.cpp`
  2232-2253 against 2008-2050).
* Without helper cells a cell reserves four byte entries and compresses five arrays
  (assertion at `ADERDGSolver.cpp:4421`); arrays that need seven bytes stay plain and
  are overwritten by fresh ones when the cell is entered.
* With a limiting solver, `FinaliseMeshRefinement.cpp` 150-157 reads solutions before
  `PreProcessing` uncompresses them.
* The heap semaphore is taken again by a thread that holds it
  (`ADERDGSolver.cpp` 3076-3166, `FiniteVolumesSolver.cpp` 807-878, 1140 and 1158).
* `LimitingADERDGSolver.cpp` 881-882 passes a solver number where the index of a cell
  description is expected; with one solver the two are equal.
* `LimitingADERDGSolver.h` 286-292 lists Ok, NT3 and NT4 as the statuses from which a
  trouble is irregular; the code counts NT2 among them, and has to:
  `EveryFaceIsMerged` fails otherwise.

## What is proved

For all values of the constants that satisfy the modules' assumptions; further
assumptions are part of a theorem's statement. Each inductive invariant was first
checked by TLC on small instances, and is preserved by one proof step per action.

### Fused time stepping

`FusedTimeSteppingProofs` proves `Spec => []TypeOK`. `TypeOK` is inductive; the work
lies in the operators: rounded products and averages stay natural numbers, so every
operation maps time step data to time step data, and a sweep that could receive
leaves non-negative numbers of messages.

`FusedTimeSteppingFlagsProofs` proves
`OnlyUpdatingSolversAreUnstable` and `GlobalRecomputationRefines`. Neither is
inductive: whether an unstable solver has a mesh request when the runner comes
to `createMesh` depends on the time step and on the spreading before. The
inductive invariant `FlagsInv` adds

* `NextValuesAreReset`: between two sweeps no request waits in the next values,
  so that a sweep that replaces the flags cannot bring old requests back;
* `RequestsFit`: only limiting solvers report a domain change, one that requires
  a mesh update comes with the request for it, and so does an unstable state;
* `RequestIsPending`: from the time step to the mesh update, a solver with a
  mesh request is not stable.

`FusedTimeSteppingMailProofs` proves `NeverReceivesUnsent`: for any solvers and
requests, no sweep of the runner waits for face data or metadata that its
neighbours did not send. The property speaks of one phase; what was sent is
decided several sections before, under flags that have changed since. The
inductive invariant `MailInv` says what is at least under way in each phase:

* `FaceDataUnderWay`: either every solver's data is under way, or there still is
  a request, which makes a later section send before the next one receives;
  before a local (global) recomputation the data of the solvers that redo the
  step is there. It needs that neither the spreading nor `MeshRefinement` loses
  a request (`RequestsAfterSpreading`, `RequestsAfterMeshRefinement`);
* `MetadataUnderWay`: metadata is there, or a sweep that sends some comes before
  the next one that receives. After `createMesh` this rests on its second loop,
  which iterates at least three times;
* `FirstIterationsAreNext`: the mappings' `isFirstIteration` switches are set
  wherever the next sweep of the mapping must not receive.

`FusedTimeSteppingTimeProofs` proves what the sequence of sweeps does to time. The
invariant `TimeInv`, on top of `FlagsInv` and `TypeOK`, says

* `RequestsAreMade`: outside the initial mesh, only solvers whose criterion or limiter
  may ask for a mesh update have one requested; in it, all have;
* `SectionFits`: the sections in which the recomputation and the first prediction
  run, on which `isComputing` depends;
* `StandsStill`: a solver with a new mesh has zeroed step sizes until the fused scheme
  starts afresh. This is what makes `RestartsFromZeroedStep` inductive: the rollback,
  the reinitialisation and the local recomputation in between must neither move its
  stamps nor give it a size too early;
* `NextSizeIsKnown`: the step size to come is positive, and known in the schemes that
  do not recompute it;
* `Joined`: the generations of each solver that no other solver disturbs join.

It yields `RestartsFromZeroedStep` without further assumptions. `GenerationsJoin` and
`BystandersAreLeftAlone` (an action property) hold under `NoneIsDisturbed`: no solver
requests mesh updates beside a limiting one, whose step size the code would overwrite
(`FusedTimeSteppingInitialisation.cpp:315`, above).

`PredictorInv` adds that a step size the scheme keeps fixed is never found unstable
(`SizeIsFixed`) and that the cells' predictors are those of the corrector's step size,
or the rerun that is still to come will use it (`Fresh`). It yields
`PredictorMatchesCorrector` under `NoneIsDisturbed` and `NoneRecomputesLocally`; the run
`local_recomputation_rerun` shows that the latter is needed.

`SolutionInv` says how old the solution of each class of cells is in each phase: that of
the corrector's time stamp, except before a local recomputation, when only the limited
cells have gone back with the solver's data (`SolutionFits`). It yields
`SolutionIsAtCorrectorStamp` under `NoneIsDisturbed` and `NoneRecomputesGlobally`; the
run `global_recomputation_time` shows that the latter is needed.

### The limiter

`LimiterStatusProofs` proves every safety property of `LimiterStatus` for any set of
cells with a symmetric neighbour relation. The invariant `LimiterInv` relates three
things that the properties state one by one:

* the status (`StatusSpreads`): while steps are regular, neighbours differ by two at the
  most; after the k-th sweep of the spreading every cell is right that has, or should
  have, a status above k, so that after five the statuses are those by distance
  (`StatusAround`: rings of neighbours around the troubled cells). Differences of two
  leave neighbours a common solver, differences of three would not;
* the arrays: which of the four hold the solution before and after the step, for every
  pair of old and new status, while a step is failed (`ArraysOfFailedStep`) and after
  the rollback (`ArraysAfterRollback`);
* the patches and predictors that cells of a status own (`NoPatchIsMissing`,
  `UntroubledCellsPredict`) and the counters to cure (`TroubledCellsCount`).

### Background compression

`CompressionProofs` proves `TypeOK`, `HeapRestsWhileItChanges`,
`CellsInsideAreUncompressed` and the assertion at the beginning of `compress`
(`CompressesUncompressed`) for any hierarchy of cells, any interleaving of threads and
tasks, up to the sweep `FinaliseMeshRefinement`; the next sweep is the one
`compression_prediction` is about. `CompressionInv` ties the program counter of each
cell to what its arrays hold (`ArraysFitPlace`: handed over to a task, plain, or in the
steps between) and the counter of triggered tasks to the cells whose task is counted
but not through (`Counted`). The latter is what a thread that waits for zero relies on:
no cell can be counted between its look at the counter and the change of the heap,
which needs the order of the traversal (`TraversalIsOrdered`).

`ByteEntriesSuffice` is about numbers. `EntriesAreKept` counts: recycled entries and
those in use (`Filled`) are at least two per helper cell and two per group of arrays
some cell holds, whatever tasks and threads do in between. A compressed cell uses five
entries and brought four, so that a task finds one as long as at most two cells per
helper cell are compressed at a time (`TwoCellsPerHelperHaveEntries`, whose hypothesis
holds in the run), and always in a mesh with half as many helper cells as cells
(`EnoughHelpersHaveEntries`).

### Adaptive mesh refinement

`RefinementEventsProofs` proves `Spec => []TypeOK`: no status of a cell or face leaves
its range and the traversal visits cells only, for any criteria.

`EventFitsType`, `OnlyDescendantsAreReplaced`, `RestrictionFindsSolutions`,
`ParentIndexIsConsistent` and `StableMeshIsASpacetree` are proved for every behaviour in
which no description is orphaned (hypothesis `[]ChildrenHaveParents`). The properties
speak of a cell in one callback, while its children were created, vetoed or marked in
others, some of them sweeps before. The invariant `MeshInvariant` makes the connection:

* `DescriptionFits`: the event is one its type can have, a Cell has a
  solution, an Ancestor no event but those that coarsen it;
* `ChildOK`: the event of a cell, and whether the traversal has entered or passed a
  child (`Entered`, `Passed`), decide which children it has. While it changes children
  to descendants, say, those passed are Descendants and the others Cells that are to be
  erased and have no request that would forbid it (`Demoted`);
* `Local`: events that begin and end within one sweep (`Busy`) are found only inside
  the cell; descriptions lie in the grid and are linked to the coarser one;
* as long as a sweep calls itself stable, the cells it is through with (`Past`) have no
  event. That is what makes the last sweep's mesh a spacetree.

`Chain`, the cells above a cell, makes up for the recursion of the traversal: `EnterMoves`
and `LeaveMoves` say how the cells entered and passed change with a callback, and
`EnterEffect` and `LeaveEffect` what the callbacks may do to which description. The
invariant itself was checked by TLC on an instance with free criteria, constrained to
states without orphans.

The hypothesis is true of the run `mesh_updates`, where TLC checks it, and not of all
criteria: where cells far apart ask for different levels, a child that is augmented in the
sweep that erases it orphans its descendants (run `parent_index`). Then the stable mesh
need not be a spacetree, and three levels deep `RestrictionFindsSolutions` and
`OnlyDescendantsAreReplaced` fail as well. With at most one level below the base grid the
hypothesis is proved too (`OneLevelHasNoOrphans`), and all five hold outright
(`OneLevelIsSound`).

### Faces

`FaceExchangeProofs` proves every property of the run `face_exchange`, the refinement
of `FaceMerging` included (`ExchangeImplementsFaceMerging`), for grids with any number
of columns and rows, any ranks and any owners of the cells, any order of the vertices
that sweeps follow forwards and backwards in turn, and any solvers but pure Finite
Volumes ones (`NoFiniteVolumes`; the run `face_exchange_finite_volumes` shows that the
assumption is needed). The invariant `ExchangeInv` says

* `SweepsFit`: whatever the solvers request, a sweep receives only what the sweep before
  it has sent, and the sequence ends in a time step;
* `RestFits`: the vertices a rank has touched come before those left;
* `CountersFit`, `FlagsFit`, `MergesFit`: before the cells are entered, flag, counter and
  number of merges of a side all say whether it has met its neighbour's data (`HasMet`:
  one of its vertices was touched); after that, the counter of a sweep that sends is the
  number of the face's inside vertices left, so that it reaches zero at the last one;
* `MailFits`, `OutboxFits`: what lies ready for a rank are exactly the messages for the
  vertices left, those of one face real at its last vertex only, stacked in the opposite
  of the order in which they will be asked for (`TopOfStack`, `StackGrows`).

Two facts carry the proof. The order of a sweep is the reverse of that before it,
so that the last vertex of a face becomes its first (`LastTouchIsNextFirst`: the sender
puts face data into the message at its last touch, the receiver wants it at its first,
each by a counter of its own); and the loops over the sides of a
vertex run in opposite orders where messages are sent and received, so that a stack
hands them out as expected. The geometry enters through the lemma `VerticesOfFaces`: a
face has a vertex, and one between two cells has one or two inside the grid.

### What is only model-checked

* Liveness (`ReachesEndTime`, `TroubleIsCured`, `MeshUpdateEnds`, `EveryCellIsLeft`):
  fairness is beyond the prover.
* `ByteEntriesSuffice` with more than two compressed cells per helper cell, where it
  depends on the memory of the mesh; see "Found by reading".
* `ChildrenHaveParents` with more than one level below the base grid: it depends on the
  criteria, see above.
* `RefinedWhereAsked`: whether the sweeps after the stable one (`ExtraIterations`) are
  enough depends on the levels and on how the criteria differ.

## Not modelled

* **Several ranks in the runner.** `FusedTimeStepping` has one rank, whose neighbour
  runs the same sections; the broadcast of the State and the reduction of flags over
  master-worker calls are not modelled. Forks and joins of ranks neither.
* **Batches** of `GlobalFixed` steps in one `iterate(n)` and the three-phase algorithm.
* **Grid construction** (`State::endedGridConstructionIteration`) and the **node pool**
  strategies decide on answers of Peano's node pool and grid statistics. Peano is not
  in the repository, so only the answer is an input.
* **`RefinementEvents`**: the relation of descendants to their top-most parent and
  refinement across ranks. One dimension has every kind of neighbour a cell can have
  across a face, but no vertex shared by more than two cells of a level.
* **`LimiterStatus`**: ancestors' and descendants' status and the mesh update they ask
  for, minima and maxima, data at rank boundaries. Without mesh updates no predictor
  step size is zero, so that `recomputePredictor`'s guard against it always holds;
  `FusedTimeStepping` has the guard.
* **`TimeStepData`**: `VetoFusedTimeSteppingTimeStepSizeReinitialisation`, which the
  code initialises and resets to false and never sets.
* **`FaceExchange`**: payloads per solver (`NeverReceivesUnsent` covers who sends) and
  the contents of metadata, the invalid sequence of an empty message included;
  levels and hanging vertices, sweeps with metadata only, periodic boundaries, message
  sets older than one sweep. The heap's last-in-first-out order is Peano's.
* **`Compression`**: uncompressing in the merge of neighbours (the prediction before it
  fails already, see `compression_prediction`), the variant without background threads,
  arrays that do not compress, erasing of cells.
* **Plotters, parser, load balancing, grain size oracles, hanging vertex maps**: start-up,
  output, or heuristics over measured times that do not touch the solvers' state.
* **Kernels, records, repositories, adapters, toolkit, demonstrators**: numerics and
  generated code. The generated records alone are the larger part of the
  repository's lines, so that the mapped share of all lines stays small.

## Plan

1. `DistributedFlags`: several ranks, broadcast of the State and reduction of flags and
   step sizes, to implement the single rank of `FusedTimeStepping`.
2. Batches of `GlobalFixed` steps and the three-phase algorithm.
3. `GridConstruction` and `NodePool` over an assumed node pool.
4. Small algorithms: `createRepository`'s bounding box, the plotters' schedule.
