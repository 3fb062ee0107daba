---------------------------- MODULE Compression ----------------------------
(***************************************************************************)
(* The arrays of the ADER-DG cells and their lossy compression.  As a cell *)
(* is left, a background task moves its five arrays from the DataHeap to   *)
(* the CompressedDataHeap; as it is entered again, the traversal moves     *)
(* them back.  Mesh refinement inserts and removes arrays meanwhile.  The  *)
(* semaphore of the heaps guards single heap operations only: who changes  *)
(* a heap waits until no background task is left, and locks it afterwards. *)
(*                                                                         *)
(* A step is what happens under one lock of the semaphore.  An entry that  *)
(* is deleted with recycling stays in the heap and is handed out again,    *)
(* which does not change the heap: tasks may do so.                        *)
(***************************************************************************)
EXTENDS Integers, FiniteSets, FiniteSetsExt

CONSTANTS Cells,
          NoCell,
          Parent,       \* the next coarser cell, or NoCell
          HelperCells,  \* the number of other cells, which hold face data only
          LastSweep,    \* where the behaviour ends
          MaxReserved   \* bound: above it, no more Helpers get face data

VARIABLES sweep,
          at,                \* how far the traversal is with each cell
          mayModifyHeap,     \* the cells whose thread found no background task
          postProcessed,     \* how often postProcess was called for the cell
          type,
          holds,             \* the groups of arrays that are allocated
          compressionState,
          plain, bytes,      \* how many of the cell's arrays lie in either heap
          recycledPlain, recycledBytes,
          NumberOfTriggeredTasks,
          tasks              \* the cells whose CompressionTask was spawned

memory == <<plain, bytes, recycledPlain, recycledBytes>>
vars == <<sweep, at, mayModifyHeap, postProcessed, type, holds, compressionState, memory,
          NumberOfTriggeredTasks, tasks>>

ASSUME CompressionAssumption ==
  /\ IsFiniteSet(Cells) /\ NoCell \notin Cells
  /\ Parent \in [Cells -> Cells \cup {NoCell}]
  /\ HelperCells \in Nat /\ MaxReserved \in Nat
  /\ LastSweep \in {"FinaliseMeshRefinement", "Prediction"}

Children(c) == {d \in Cells : Parent[d] = c}

\* previousSolution, solution and update; extrapolatedPredictor and fluctuation.
Groups == {"Volume", "Faces"}
Size(group) == IF group = "Volume" THEN 3 ELSE 2
AllArrays == Size("Volume") + Size("Faces")

(***************************************************************************)
(* What mesh refinement makes of a cell, as far as its arrays go: None has *)
(* none, a Helper is a Descendant or Ancestor with face data, and Refining *)
(* is a Cell whose children become Cells in this sweep.                    *)
(***************************************************************************)
Types == {"None", "Helper", "Cell", "Refining"}
IsCell(c) == type[c] \in {"Cell", "Refining"}
Wanted(c) == IF IsCell(c) THEN Groups ELSE IF type[c] = "Helper" THEN {"Faces"} ELSE {}

Reserved == recycledBytes + MapThenSumSet(LAMBDA c : bytes[c], Cells)

EnteredTypes(c) ==
  IF IsCell(c) \/ (Parent[c] = NoCell /\ \A d \in Children(c) : ~IsCell(d))
  THEN {"Cell"} \cup {t \in {"Refining"} : IsCell(c) /\ Children(c) # {}}
  ELSE IF Parent[c] # NoCell /\ type[Parent[c]] = "Refining" THEN {"Cell"}
  ELSE {"None"} \cup {t \in {"Helper"} : type[c] = t \/ Reserved < MaxReserved}
LeftType(c) == IF type[c] = "Refining" THEN "None" ELSE type[c]

\* The calls of postProcess: the mapping Sending makes one where it sends face data.
PostProcessCalls == IF sweep = "Prediction" THEN 2 ELSE 1
SweepAfter(s) == IF s = "MeshRefinement" THEN "FinaliseMeshRefinement" ELSE "Prediction"

At(c, place) == at' = [at EXCEPT ![c] = place]
SetState(c, state) == compressionState' = [compressionState EXCEPT ![c] = state]

\* What createData takes from a pool that may hold less than n entries.
Recycles(pool, n) == Min({pool, n})

Init ==
  /\ sweep = "MeshRefinement"
  /\ at = [c \in Cells |-> "outside"]
  /\ mayModifyHeap = {}
  /\ postProcessed = [c \in Cells |-> 0]
  /\ type = [c \in Cells |-> "None"]
  /\ holds = [c \in Cells |-> {}]
  /\ compressionState = [c \in Cells |-> "Uncompressed"]
  /\ plain = [c \in Cells |-> 0] /\ bytes = [c \in Cells |-> 0]
  /\ recycledPlain = 0 /\ recycledBytes = 2 * HelperCells
  /\ NumberOfTriggeredTasks = 0
  /\ tasks = {}

(***************************************************************************)
(* The order of the traversal.  The mapping MeshRefinement is Serial; the  *)
(* other sweeps enter all cells concurrently, and then leave them so.      *)
(***************************************************************************)
Rests(c) == at[c] \in {"outside", "inside", "left"}
IsSerial == sweep = "MeshRefinement"

MayEnter(c) ==
  /\ at[c] = "outside"
  /\ Parent[c] # NoCell => at[Parent[c]] = "inside"
  /\ IsSerial => \A d \in Cells : Rests(d)

EnterPhaseIsOver ==
  \A c \in Cells : at[c] \in {"inside", "resizingAtLeave", "postProcessing", "counting",
                               "spawning", "left"}
MayLeave(c) ==
  /\ at[c] = "inside"
  /\ \A d \in Children(c) : at[d] = "left"
  /\ IF IsSerial THEN \A d \in Cells : Rests(d) ELSE EnterPhaseIsOver

\* PreProcessing::enterCell, up to the call of uncompress.
EnterCell(c) ==
  /\ MayEnter(c)
  /\ At(c, IF IsCell(c) THEN "uncompressing" ELSE "entered")
  /\ postProcessed' = [postProcessed EXCEPT ![c] = 0]
  /\ UNCHANGED <<sweep, mayModifyHeap, type, holds, compressionState, memory,
                 NumberOfTriggeredTasks, tasks>>

(***************************************************************************)
(* Solver::waitUntilAllBackgroundTasksHaveTerminated polls the counter and *)
(* gives the semaphore back before its caller locks it.                    *)
(***************************************************************************)
WaitsToModifyHeap(c) ==
  \/ at[c] = "growing" /\ plain[c] < AllArrays
  \/ at[c] \in {"resizing", "resizingAtLeave"} /\ holds[c] # Wanted(c)

\* A faulty form, which does not wait.
SomeBackgroundTaskMayRun == TRUE
AllBackgroundTasksHaveTerminated == NumberOfTriggeredTasks = 0

WaitUntilAllBackgroundTasksHaveTerminated(c) ==
  /\ WaitsToModifyHeap(c) /\ c \notin mayModifyHeap
  /\ mayModifyHeap' = IF AllBackgroundTasksHaveTerminated
                      THEN mayModifyHeap \cup {c} ELSE mayModifyHeap
  /\ UNCHANGED <<sweep, at, postProcessed, type, holds, compressionState, memory,
                 NumberOfTriggeredTasks, tasks>>

\* A faulty form, which does not wait for the task of the cell.
TakesCellOnceTriggered(c) == TRUE
\* uncompress decides once the cell's task is through with it.
MadeDecision(c) == compressionState[c] # "CurrentlyProcessed"

Uncompress(c) ==
  /\ at[c] = "uncompressing"
  /\ IF ~MadeDecision(c) THEN UNCHANGED <<at, compressionState>>
     ELSE IF compressionState[c] = "Compressed"
     THEN At(c, "pulling") /\ SetState(c, "CurrentlyProcessed")
     ELSE At(c, "entered") /\ UNCHANGED compressionState
  /\ UNCHANGED <<sweep, mayModifyHeap, postProcessed, type, holds, memory,
                 NumberOfTriggeredTasks, tasks>>

\* pullUnknownsFromByteStream asks for five recycled entries under one lock, ...
PullUnknownsFromByteStream(c) ==
  /\ at[c] = "pulling"
  /\ At(c, "growing")
  /\ plain' = [plain EXCEPT ![c] = Recycles(recycledPlain, AllArrays)]
  /\ recycledPlain' = recycledPlain - plain'[c]
  /\ UNCHANGED <<sweep, mayModifyHeap, postProcessed, type, holds, compressionState, bytes,
                 recycledBytes, NumberOfTriggeredTasks, tasks>>

\* ... creates those it did not get one by one, ...
CreateData(c) ==
  /\ at[c] = "growing" /\ c \in mayModifyHeap
  /\ mayModifyHeap' = mayModifyHeap \ {c}
  /\ plain' = [plain EXCEPT ![c] = @ + 1]
  /\ recycledPlain' = recycledPlain - Recycles(recycledPlain, 1)
  /\ UNCHANGED <<sweep, at, postProcessed, type, holds, compressionState, bytes,
                 recycledBytes, NumberOfTriggeredTasks, tasks>>

\* ... and glues the arrays together, in any order, recycling their byte entries.
GlueTogether(c) ==
  /\ at[c] = "growing" /\ plain[c] = AllArrays
  /\ IF bytes[c] > 0
     THEN /\ bytes' = [bytes EXCEPT ![c] = @ - 1]
          /\ recycledBytes' = recycledBytes + 1
          /\ UNCHANGED <<at, compressionState>>
     ELSE /\ At(c, "entered") /\ SetState(c, "Uncompressed")
          /\ UNCHANGED <<bytes, recycledBytes>>
  /\ UNCHANGED <<sweep, mayModifyHeap, postProcessed, type, holds, plain, recycledPlain,
                 NumberOfTriggeredTasks, tasks>>

\* The other mappings' enterCell: mesh refinement may give the cell another type.
UpdateStateInEnterCell(c) ==
  /\ at[c] = "entered"
  /\ At(c, "resizing")
  /\ \E t \in IF IsSerial THEN EnteredTypes(c) ELSE {type[c]} : type' = [type EXCEPT ![c] = t]
  /\ UNCHANGED <<sweep, mayModifyHeap, postProcessed, holds, compressionState, memory,
                 NumberOfTriggeredTasks, tasks>>

UpdateStateInLeaveCell(c) ==
  /\ MayLeave(c)
  /\ At(c, "resizingAtLeave")
  /\ type' = [type EXCEPT ![c] = LeftType(c)]
  /\ UNCHANGED <<sweep, mayModifyHeap, postProcessed, holds, compressionState, memory,
                 NumberOfTriggeredTasks, tasks>>

\* A faulty form, which reserves once per cell.
ReservedForVolume(group) == IF group = "Volume" THEN 2 ELSE 0
ReservedEntries(group) == 2

(***************************************************************************)
(* Every array comes with one for its averages, which is never compressed. *)
(* The volume data goes first.                                             *)
(***************************************************************************)
EnsureNecessaryMemoryIsAllocated(c, group) ==
  /\ c \in mayModifyHeap
  /\ group \in Wanted(c) \ holds[c]
  /\ group = "Faces" => "Volume" \notin Wanted(c) \ holds[c]
  /\ mayModifyHeap' = mayModifyHeap \ {c}
  /\ holds' = [holds EXCEPT ![c] = @ \cup {group}]
  /\ plain' = [plain EXCEPT ![c] = @ + Size(group)]
  /\ recycledPlain' = recycledPlain - Recycles(recycledPlain, 2 * Size(group))
  /\ recycledBytes' = recycledBytes + ReservedEntries(group)
  /\ IF group = "Volume" THEN SetState(c, "Uncompressed") ELSE UNCHANGED compressionState
  /\ UNCHANGED <<sweep, at, postProcessed, type, bytes, NumberOfTriggeredTasks, tasks>>

\* Nothing is recycled here.
EnsureNoUnnecessaryMemoryIsAllocated(c, group) ==
  /\ c \in mayModifyHeap
  /\ group \in holds[c] \ Wanted(c)
  /\ group = "Faces" => "Volume" \notin holds[c] \ Wanted(c)
  /\ mayModifyHeap' = mayModifyHeap \ {c}
  /\ holds' = [holds EXCEPT ![c] = @ \ {group}]
  /\ plain' = [plain EXCEPT ![c] = @ - Size(group)]
  /\ UNCHANGED <<sweep, at, postProcessed, type, compressionState, bytes, recycledPlain,
                 recycledBytes, NumberOfTriggeredTasks, tasks>>

ResizingEnds(c) ==
  /\ at[c] \in {"resizing", "resizingAtLeave"} /\ holds[c] = Wanted(c)
  /\ At(c, IF at[c] = "resizing" THEN "inside" ELSE "postProcessing")
  /\ UNCHANGED <<sweep, mayModifyHeap, postProcessed, type, holds, compressionState, memory,
                 NumberOfTriggeredTasks, tasks>>

\* A faulty form, which counts a task after it was spawned.
SpawnFirst == <<"spawning", "counting">>
StepsOfCompress == <<"counting", "spawning">>
StepAfter(place) ==
  IF place = StepsOfCompress[1] THEN StepsOfCompress[2] ELSE "postProcessing"

PostProcess(c) ==
  /\ at[c] = "postProcessing"
  /\ IF postProcessed[c] = PostProcessCalls
     THEN At(c, "left") /\ UNCHANGED <<postProcessed, compressionState>>
     ELSE /\ postProcessed' = [postProcessed EXCEPT ![c] = @ + 1]
          /\ IF IsCell(c)
             THEN At(c, StepsOfCompress[1]) /\ SetState(c, "CurrentlyProcessed")
             ELSE UNCHANGED <<at, compressionState>>
  /\ UNCHANGED <<sweep, mayModifyHeap, type, holds, memory, NumberOfTriggeredTasks, tasks>>

CountTask(c) ==
  /\ at[c] = "counting"
  /\ At(c, StepAfter("counting"))
  /\ NumberOfTriggeredTasks' = NumberOfTriggeredTasks + 1
  /\ UNCHANGED <<sweep, mayModifyHeap, postProcessed, type, holds, compressionState, memory,
                 tasks>>

SpawnTask(c) ==
  /\ at[c] = "spawning"
  /\ At(c, StepAfter("spawning"))
  /\ tasks' = tasks \cup {c}
  /\ UNCHANGED <<sweep, mayModifyHeap, postProcessed, type, holds, compressionState, memory,
                 NumberOfTriggeredTasks>>

(***************************************************************************)
(* The background tasks.  Every array gets a recycled byte entry, is torn  *)
(* apart into it, and its own entry is recycled.                           *)
(***************************************************************************)
PutUnknownsIntoByteStream(c) ==
  /\ c \in tasks /\ plain[c] > 0 /\ recycledBytes > 0
  /\ bytes' = [bytes EXCEPT ![c] = @ + 1] /\ recycledBytes' = recycledBytes - 1
  /\ plain' = [plain EXCEPT ![c] = @ - 1] /\ recycledPlain' = recycledPlain + 1
  /\ UNCHANGED <<sweep, at, mayModifyHeap, postProcessed, type, holds, compressionState,
                 NumberOfTriggeredTasks, tasks>>

\* A faulty form, which never counts down the last task.
TasksButOneLess == NumberOfTriggeredTasks - (IF NumberOfTriggeredTasks > 1 THEN 1 ELSE 0)
OneTaskLess == NumberOfTriggeredTasks - 1

CompressionTaskEnds(c) ==
  /\ c \in tasks /\ plain[c] = 0
  /\ SetState(c, "Compressed")
  /\ NumberOfTriggeredTasks' = OneTaskLess
  /\ tasks' = tasks \ {c}
  /\ UNCHANGED <<sweep, at, mayModifyHeap, postProcessed, type, holds, memory>>

\* Runner::initialiseMesh: MeshRefinement as often as createMesh asks for it.
NextSweep ==
  /\ \A c \in Cells : at[c] = "left"
  /\ sweep # LastSweep
  /\ sweep' \in {SweepAfter(sweep)} \cup ({sweep} \cap {"MeshRefinement"})
  /\ at' = [c \in Cells |-> "outside"]
  /\ UNCHANGED <<mayModifyHeap, postProcessed, type, holds, compressionState, memory,
                 NumberOfTriggeredTasks, tasks>>

Terminating ==
  /\ sweep = LastSweep /\ \A c \in Cells : at[c] = "left" /\ c \notin tasks
  /\ UNCHANGED vars

Traverse(c) ==
  \/ EnterCell(c) \/ Uncompress(c) \/ PullUnknownsFromByteStream(c)
  \/ CreateData(c) \/ GlueTogether(c)
  \/ UpdateStateInEnterCell(c) \/ UpdateStateInLeaveCell(c)
  \/ WaitUntilAllBackgroundTasksHaveTerminated(c)
  \/ \E group \in Groups : \/ EnsureNecessaryMemoryIsAllocated(c, group)
                           \/ EnsureNoUnnecessaryMemoryIsAllocated(c, group)
  \/ ResizingEnds(c) \/ PostProcess(c) \/ CountTask(c) \/ SpawnTask(c)
CompressionTask(c) == PutUnknownsIntoByteStream(c) \/ CompressionTaskEnds(c)

Next == \/ \E c \in Cells : Traverse(c) \/ CompressionTask(c)
        \/ NextSweep \/ Terminating

Spec == Init /\ [][Next]_vars

\* The threads and the task queue are those of the multicore library.
FairSpec == /\ Spec
            /\ \A c \in Cells : WF_vars(Traverse(c)) /\ WF_vars(CompressionTask(c))

(***************************************************************************)
(* Type correctness, with what the code asserts of the counter: it is      *)
(* never negative (ADERDGSolver::CompressionTask).                         *)
(***************************************************************************)
TypeOK ==
  /\ sweep \in {"MeshRefinement", "FinaliseMeshRefinement", "Prediction"}
  /\ at \in [Cells -> {"outside", "uncompressing", "pulling", "growing", "entered",
                       "resizing", "inside", "resizingAtLeave", "postProcessing",
                       "counting", "spawning", "left"}]
  /\ mayModifyHeap \subseteq Cells /\ tasks \subseteq Cells
  /\ postProcessed \in [Cells -> 0..2]
  /\ type \in [Cells -> Types] /\ holds \in [Cells -> SUBSET Groups]
  /\ compressionState \in [Cells -> {"Uncompressed", "CurrentlyProcessed", "Compressed"}]
  /\ plain \in [Cells -> 0..AllArrays] /\ bytes \in [Cells -> 0..AllArrays]
  /\ recycledPlain \in Nat /\ recycledBytes \in Nat
  /\ NumberOfTriggeredTasks \in 0..Cardinality(Cells)

(***************************************************************************)
(* Whoever found no background task still finds none when it has locked    *)
(* the semaphore, so that the heaps rest while they grow or shrink.  The   *)
(* check and the lock are apart; it is the order of the traversal, and     *)
(* that a task is counted before it is spawned, that keeps tasks away.     *)
(***************************************************************************)
HeapRestsWhileItChanges == mayModifyHeap # {} => tasks = {}

(***************************************************************************)
(* The mappings between enterCell and leaveCell find all arrays of a Cell  *)
(* in the DataHeap, whatever its compression was at when it was entered,   *)
(* and no task has a hand in them (uncompress).  A Cell that is refined    *)
(* keeps them until its children were left.                                *)
(***************************************************************************)
CellsInsideAreUncompressed ==
  \A c \in Cells : at[c] = "inside" /\ IsCell(c) =>
    plain[c] = AllArrays /\ bytes[c] = 0 /\ compressionState[c] = "Uncompressed" /\ c \notin tasks

(***************************************************************************)
(* A task that asks for a recycled byte entry gets one.  Entries are never *)
(* created by tasks; two were reserved with each group of arrays, four per *)
(* Cell, and a Cell needs five: the fifth is one of a Helper's or of a     *)
(* Cell that was refined (asserted in putUnknownsIntoByteStream).          *)
(***************************************************************************)
ByteEntriesSuffice == \A c \in tasks : plain[c] > 0 => recycledBytes > 0

(***************************************************************************)
(* compress finds the cell uncompressed, as it asserts: it is called once  *)
(* per cell (its comment in ADERDGSolver.h).                               *)
(***************************************************************************)
CompressesUncompressed ==
  \A c \in Cells : at[c] = "postProcessing" /\ IsCell(c) /\ postProcessed[c] < PostProcessCalls
    => compressionState[c] = "Uncompressed"

(***************************************************************************)
(* The traversal gets through every cell it has entered: a thread that     *)
(* waits for the cell's task or for all tasks is not left waiting.         *)
(***************************************************************************)
EveryCellIsLeft == \A c \in Cells : at[c] = "uncompressing" ~> at[c] = "left"
=============================================================================
