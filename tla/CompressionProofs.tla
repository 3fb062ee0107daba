-------------------------- MODULE CompressionProofs --------------------------
(***************************************************************************)
(* Proofs about Compression for any hierarchy of cells, any number of      *)
(* helper cells and any bound on reserved entries, up to the sweep         *)
(* FinaliseMeshRefinement.  The sweep Prediction calls postProcess twice   *)
(* per cell, and does break the invariant.                                 *)
(***************************************************************************)
EXTENDS Compression, FiniteSetTheorems, TLAPS

\* The arrays that come with a set of groups.
SizeOf(groups) == (IF "Volume" \in groups THEN 3 ELSE 0) + (IF "Faces" \in groups THEN 2 ELSE 0)

EnterPlaces == {"uncompressing", "pulling", "growing", "entered", "resizing"}
LeavePlaces == {"resizingAtLeave", "postProcessing", "counting", "spawning", "left"}

\* No compression has been at the arrays of the cell, or none is any more.
LiesPlain(c) ==
  /\ plain[c] = SizeOf(holds[c]) /\ bytes[c] = 0
  /\ compressionState[c] = "Uncompressed" /\ c \notin tasks

\* The cell's task is under way, or through.
IsHandedOver(c) ==
  \/ /\ compressionState[c] = "CurrentlyProcessed" /\ c \in tasks
     /\ plain[c] + bytes[c] = AllArrays
  \/ /\ compressionState[c] = "Compressed" /\ c \notin tasks
     /\ plain[c] = 0 /\ bytes[c] = AllArrays

WaitsForTask(c) ==
  at[c] \in {"outside", "left"} \/ (at[c] = "postProcessing" /\ postProcessed[c] = 1)

\* What the place of the traversal says about the arrays of a cell.
ArraysFitPlace(c) ==
  /\ WaitsForTask(c) => IF IsCell(c) THEN IsHandedOver(c) ELSE LiesPlain(c)
  /\ at[c] = "uncompressing" => IsHandedOver(c)
  /\ at[c] = "pulling" =>
       /\ compressionState[c] = "CurrentlyProcessed" /\ c \notin tasks
       /\ plain[c] = 0 /\ bytes[c] = AllArrays
  /\ at[c] = "growing" =>
       /\ compressionState[c] = "CurrentlyProcessed" /\ c \notin tasks
       /\ plain[c] < AllArrays => bytes[c] = AllArrays
  /\ at[c] \in {"entered", "resizing", "inside", "resizingAtLeave"} => LiesPlain(c)
  /\ at[c] = "postProcessing" /\ postProcessed[c] = 0 => LiesPlain(c)
  /\ at[c] \in {"counting", "spawning"} =>
       /\ compressionState[c] = "CurrentlyProcessed" /\ c \notin tasks
       /\ plain[c] = AllArrays /\ bytes[c] = 0

\* What it says about the cell's type, its groups of arrays and its calls.
TypeFitsPlace(c) ==
  /\ at[c] \notin {"resizing", "resizingAtLeave"} => holds[c] = Wanted(c)
  /\ at[c] \in {"uncompressing", "pulling", "growing", "counting", "spawning"} => IsCell(c)
  /\ type[c] = "Refining" => at[c] \in {"resizing", "inside"}
  /\ at[c] \in EnterPlaces \cup {"inside", "resizingAtLeave"} => postProcessed[c] = 0
  /\ at[c] \in {"counting", "spawning", "left"} => postProcessed[c] = 1
  /\ postProcessed[c] \in 0..1
  /\ c \in mayModifyHeap => WaitsToModifyHeap(c)

\* The tasks the counter has counted.
Counted == {c \in Cells : at[c] = "spawning" \/ c \in tasks}

\* MeshRefinement works on one cell at a time; FinaliseMeshRefinement enters all
\* cells before it leaves one, and changes no type.
TraversalIsOrdered ==
  /\ sweep \in {"MeshRefinement", "FinaliseMeshRefinement"}
  /\ sweep = "MeshRefinement" =>
       \A c, d \in Cells : ~Rests(c) /\ ~Rests(d) => c = d
  /\ sweep = "FinaliseMeshRefinement" =>
       /\ \A c \in Cells : type[c] # "Refining" /\ holds[c] = Wanted(c)
       /\ \A c, d \in Cells : at[c] \in LeavePlaces => at[d] \in LeavePlaces \cup {"inside"}

\* The types of all variables but the counter, whose bound follows from Counted.
DataTypes ==
  /\ at \in [Cells -> EnterPlaces \cup LeavePlaces \cup {"outside", "inside"}]
  /\ mayModifyHeap \subseteq Cells /\ tasks \subseteq Cells
  /\ postProcessed \in [Cells -> 0..2]
  /\ type \in [Cells -> Types] /\ holds \in [Cells -> SUBSET Groups]
  /\ compressionState \in [Cells -> {"Uncompressed", "CurrentlyProcessed", "Compressed"}]
  /\ plain \in [Cells -> 0..AllArrays] /\ bytes \in [Cells -> 0..AllArrays]
  /\ recycledPlain \in Nat /\ recycledBytes \in Nat

CellInv(c) == ArraysFitPlace(c) /\ TypeFitsPlace(c)

CompressionInv ==
  /\ DataTypes
  /\ \A c \in Cells : CellInv(c)
  /\ NumberOfTriggeredTasks = Cardinality(Counted)
  /\ TraversalIsOrdered
  /\ HeapRestsWhileItChanges

-----------------------------------------------------------------------------
(***************************************************************************)
(* Helpers.                                                                *)
(***************************************************************************)

\* No more is taken from a pool than it holds.
LEMMA RecyclesAtMost ==
  ASSUME NEW pool \in Nat, NEW n \in Nat
  PROVE  Recycles(pool, n) = IF pool <= n THEN pool ELSE n
<1>1. Recycles(pool, n) = CHOOSE x \in {pool, n} : \A y \in {pool, n} : x <= y
  BY DEF Recycles, Min
<1>2. \E x \in {pool, n} : \A y \in {pool, n} : x <= y
  OBVIOUS
<1> QED
  BY <1>1, <1>2

\* A group adds its arrays to the others.
LEMMA SizeOfGroups ==
  ASSUME NEW groups \in SUBSET Groups, NEW group \in Groups
  PROVE  /\ SizeOf(groups) \in 0..AllArrays
         /\ Size(group) \in Nat
         /\ group \notin groups => SizeOf(groups \cup {group}) = SizeOf(groups) + Size(group)
         /\ group \in groups => SizeOf(groups \ {group}) = SizeOf(groups) - Size(group)
  BY DEF SizeOf, Size, Groups, AllArrays

LEMMA Sizes == SizeOf(Groups) = 5 /\ AllArrays = 5
  BY DEF SizeOf, Size, Groups, AllArrays

\* The next step of compress.
LEMMA StepsOfCompressInOrder ==
  /\ StepsOfCompress[1] = "counting"
  /\ StepAfter("counting") = "spawning"
  /\ StepAfter("spawning") = "postProcessing"
  BY DEF StepsOfCompress, StepAfter

\* An operation on a cell leaves the state of the other cells alone.
OthersUntouched(c) ==
  \A d \in Cells \ {c} :
    /\ at'[d] = at[d] /\ postProcessed'[d] = postProcessed[d] /\ type'[d] = type[d]
    /\ holds'[d] = holds[d] /\ compressionState'[d] = compressionState[d]
    /\ plain'[d] = plain[d] /\ bytes'[d] = bytes[d]
    /\ (d \in tasks') = (d \in tasks) /\ (d \in mayModifyHeap') = (d \in mayModifyHeap)

LEMMA OthersAreUntouched ==
  ASSUME DataTypes, NEW c \in Cells, Traverse(c) \/ CompressionTask(c)
  PROVE  OthersUntouched(c)
<1> USE DEF DataTypes, OthersUntouched, memory, At, SetState
<1>1. CASE EnterCell(c)
  BY <1>1 DEF EnterCell
<1>2. CASE Uncompress(c)
  BY <1>2 DEF Uncompress
<1>3. CASE PullUnknownsFromByteStream(c)
  BY <1>3 DEF PullUnknownsFromByteStream
<1>4. CASE CreateData(c)
  BY <1>4 DEF CreateData
<1>5. CASE GlueTogether(c)
  BY <1>5 DEF GlueTogether
<1>6. CASE UpdateStateInEnterCell(c)
  BY <1>6 DEF UpdateStateInEnterCell
<1>7. CASE UpdateStateInLeaveCell(c)
  BY <1>7 DEF UpdateStateInLeaveCell
<1>8. CASE WaitUntilAllBackgroundTasksHaveTerminated(c)
  BY <1>8 DEF WaitUntilAllBackgroundTasksHaveTerminated
<1>9. ASSUME NEW group \in Groups, EnsureNecessaryMemoryIsAllocated(c, group)
      PROVE  OthersUntouched(c)
  BY <1>9 DEF EnsureNecessaryMemoryIsAllocated
<1>10. ASSUME NEW group \in Groups, EnsureNoUnnecessaryMemoryIsAllocated(c, group)
       PROVE  OthersUntouched(c)
  BY <1>10 DEF EnsureNoUnnecessaryMemoryIsAllocated
<1>11. CASE ResizingEnds(c)
  BY <1>11 DEF ResizingEnds
<1>12. CASE PostProcess(c)
  BY <1>12 DEF PostProcess
<1>13. CASE CountTask(c)
  BY <1>13 DEF CountTask
<1>14. CASE SpawnTask(c)
  BY <1>14 DEF SpawnTask
<1>15. CASE PutUnknownsIntoByteStream(c)
  BY <1>15 DEF PutUnknownsIntoByteStream
<1>16. CASE CompressionTaskEnds(c)
  BY <1>16 DEF CompressionTaskEnds
<1> QED
  BY <1>1, <1>2, <1>3, <1>4, <1>5, <1>6, <1>7, <1>8,
     <1>9, <1>10, <1>11, <1>12, <1>13, <1>14, <1>15, <1>16
     DEF Traverse, CompressionTask

LEMMA UntouchedCellKeepsInv ==
  ASSUME NEW c \in Cells, OthersUntouched(c), NEW d \in Cells \ {c}, CellInv(d)
  PROVE  CellInv(d)'
<1>1. (IsCell(d)' <=> IsCell(d)) /\ Wanted(d)' = Wanted(d)
  BY DEF OthersUntouched, IsCell, Wanted
<1>2. ArraysFitPlace(d)'
  BY <1>1 DEF OthersUntouched, CellInv, ArraysFitPlace, WaitsForTask, IsHandedOver, LiesPlain
<1>3. TypeFitsPlace(d)'
  BY <1>1 DEF OthersUntouched, CellInv, TypeFitsPlace, WaitsToModifyHeap
<1> QED
  BY <1>2, <1>3 DEF CellInv

-----------------------------------------------------------------------------
(***************************************************************************)
(* The operations on a cell.                                               *)
(***************************************************************************)

\* How many arrays a cell has in either heap when a group is added or removed.
LEMMA ResizingFits ==
  ASSUME DataTypes, NEW c \in Cells, CellInv(c), c \in mayModifyHeap, NEW group \in Groups
  PROVE  /\ group \in Wanted(c) \ holds[c] \/ group \in holds[c] \ Wanted(c) =>
              /\ at[c] \in {"resizing", "resizingAtLeave"} /\ LiesPlain(c)
         /\ group \in Wanted(c) \ holds[c] =>
              /\ plain[c] + Size(group) = SizeOf(holds[c] \cup {group})
              /\ plain[c] + Size(group) \in 0..AllArrays
         /\ group \in holds[c] \ Wanted(c) =>
              /\ plain[c] - Size(group) = SizeOf(holds[c] \ {group})
              /\ plain[c] - Size(group) \in 0..AllArrays
<1>1. group \in Wanted(c) \ holds[c] \/ group \in holds[c] \ Wanted(c) =>
        /\ at[c] \in {"resizing", "resizingAtLeave"} /\ LiesPlain(c)
  BY DEF CellInv, TypeFitsPlace, ArraysFitPlace
<1>2. holds[c] \in SUBSET Groups
  BY DEF DataTypes
<1>3. /\ SizeOf(holds[c] \cup {group}) \in 0..AllArrays
      /\ SizeOf(holds[c] \ {group}) \in 0..AllArrays
  <2>1. holds[c] \cup {group} \in SUBSET Groups /\ holds[c] \ {group} \in SUBSET Groups
    BY <1>2
  <2> QED
    BY <2>1, SizeOfGroups
<1> QED
  BY <1>1, <1>2, <1>3, SizeOfGroups DEF LiesPlain

\* A cell with a task is one that the traversal has handed over.
LEMMA CellOfTask ==
  ASSUME DataTypes, NEW c \in tasks, CellInv(c)
  PROVE  /\ WaitsForTask(c) \/ at[c] = "uncompressing"
         /\ IsCell(c)
         /\ compressionState[c] = "CurrentlyProcessed" /\ plain[c] + bytes[c] = AllArrays
<1> USE DEF CellInv
<1>1. at[c] \in EnterPlaces \cup LeavePlaces \cup {"outside", "inside"}
  BY DEF DataTypes
<1>2. postProcessed[c] \in 0..1
  BY DEF TypeFitsPlace
<1>3. WaitsForTask(c) \/ at[c] = "uncompressing"
  <2>1. at[c] # "pulling" /\ at[c] # "growing"
    BY DEF ArraysFitPlace
  <2>2. at[c] \notin {"entered", "resizing", "inside", "resizingAtLeave", "counting", "spawning"}
    BY DEF ArraysFitPlace, LiesPlain
  <2>3. at[c] = "postProcessing" => postProcessed[c] = 1
    BY <1>2 DEF ArraysFitPlace, LiesPlain
  <2> QED
    BY <1>1, <2>1, <2>2, <2>3 DEF WaitsForTask, EnterPlaces, LeavePlaces
<1>4. IsCell(c) /\ IsHandedOver(c)
  BY <1>3 DEF ArraysFitPlace, TypeFitsPlace, LiesPlain
<1> QED
  BY <1>3, <1>4 DEF IsHandedOver

LEMMA TypesAreKept ==
  ASSUME DataTypes, NEW c \in Cells, CellInv(c), Traverse(c) \/ CompressionTask(c)
  PROVE  DataTypes'
<1> USE DEF DataTypes, EnterPlaces, LeavePlaces, memory, At, SetState
<1>1. CASE EnterCell(c)
  BY <1>1 DEF EnterCell
<1>2. CASE Uncompress(c)
  BY <1>2 DEF Uncompress
<1>3. CASE PullUnknownsFromByteStream(c)
  <2>1. Recycles(recycledPlain, AllArrays) \in 0..AllArrays
        /\ recycledPlain - Recycles(recycledPlain, AllArrays) \in Nat
    BY RecyclesAtMost, Sizes
  <2> QED
    BY <1>3, <2>1 DEF PullUnknownsFromByteStream
<1>4. CASE CreateData(c)
  <2>1. recycledPlain - Recycles(recycledPlain, 1) \in Nat
    BY RecyclesAtMost
  <2>2. plain[c] < AllArrays
    BY <1>4, Sizes DEF CreateData, CellInv, TypeFitsPlace, WaitsToModifyHeap
  <2>3. plain[c] + 1 \in 0..AllArrays
    BY <2>2, Sizes
  <2> QED
    BY <1>4, <2>1, <2>3 DEF CreateData
<1>5. CASE GlueTogether(c)
  BY <1>5, Sizes DEF GlueTogether
<1>6. CASE UpdateStateInEnterCell(c)
  <2>1. EnteredTypes(c) \cup {type[c]} \subseteq Types
    BY DEF EnteredTypes, Types
  <2> QED
    BY <1>6, <2>1 DEF UpdateStateInEnterCell
<1>7. CASE UpdateStateInLeaveCell(c)
  <2>1. LeftType(c) \in Types
    BY DEF LeftType, Types
  <2> QED
    BY <1>7, <2>1 DEF UpdateStateInLeaveCell
<1>8. CASE WaitUntilAllBackgroundTasksHaveTerminated(c)
  BY <1>8 DEF WaitUntilAllBackgroundTasksHaveTerminated
<1>9. ASSUME NEW group \in Groups, EnsureNecessaryMemoryIsAllocated(c, group)
      PROVE  DataTypes'
  <2>1. plain[c] + Size(group) \in 0..AllArrays
    BY <1>9, ResizingFits DEF EnsureNecessaryMemoryIsAllocated
  <2>2. recycledPlain - Recycles(recycledPlain, 2 * Size(group)) \in Nat
    <3>1. 2 * Size(group) \in Nat
      BY DEF Size
    <3> QED
      BY <3>1, RecyclesAtMost
  <2>3. recycledBytes + ReservedEntries(group) \in Nat
    BY DEF ReservedEntries
  <2>4. plain' \in [Cells -> 0..AllArrays]
    BY <1>9, <2>1 DEF EnsureNecessaryMemoryIsAllocated
  <2>5. holds' \in [Cells -> SUBSET Groups]
    BY <1>9 DEF EnsureNecessaryMemoryIsAllocated
  <2>6. compressionState' \in [Cells -> {"Uncompressed", "CurrentlyProcessed", "Compressed"}]
    BY <1>9 DEF EnsureNecessaryMemoryIsAllocated
  <2>7. mayModifyHeap' \subseteq Cells /\ recycledPlain' \in Nat /\ recycledBytes' \in Nat
    BY <1>9, <2>2, <2>3 DEF EnsureNecessaryMemoryIsAllocated
  <2>8. UNCHANGED <<at, postProcessed, type, bytes, tasks>>
    BY <1>9 DEF EnsureNecessaryMemoryIsAllocated
  <2> QED
    BY <2>4, <2>5, <2>6, <2>7, <2>8
<1>10. ASSUME NEW group \in Groups, EnsureNoUnnecessaryMemoryIsAllocated(c, group)
       PROVE  DataTypes'
  <2>1. plain[c] - Size(group) \in 0..AllArrays
    BY <1>10, ResizingFits DEF EnsureNoUnnecessaryMemoryIsAllocated
  <2>2. plain' \in [Cells -> 0..AllArrays]
    BY <1>10, <2>1 DEF EnsureNoUnnecessaryMemoryIsAllocated
  <2>3. holds' \in [Cells -> SUBSET Groups]
    BY <1>10 DEF EnsureNoUnnecessaryMemoryIsAllocated
  <2>4. mayModifyHeap' \subseteq Cells
    BY <1>10 DEF EnsureNoUnnecessaryMemoryIsAllocated
  <2>5. UNCHANGED <<at, postProcessed, type, compressionState, bytes, recycledPlain,
                    recycledBytes, tasks>>
    BY <1>10 DEF EnsureNoUnnecessaryMemoryIsAllocated
  <2> QED
    BY <2>2, <2>3, <2>4, <2>5
<1>11. CASE ResizingEnds(c)
  BY <1>11 DEF ResizingEnds
<1>12. CASE PostProcess(c)
  <2>1. postProcessed[c] + 1 \in 0..2
    BY DEF CellInv, TypeFitsPlace
  <2> QED
    BY <1>12, <2>1, StepsOfCompressInOrder DEF PostProcess
<1>13. CASE CountTask(c)
  BY <1>13, StepsOfCompressInOrder DEF CountTask
<1>14. CASE SpawnTask(c)
  BY <1>14, StepsOfCompressInOrder DEF SpawnTask
<1>15. CASE PutUnknownsIntoByteStream(c)
  <2>1. plain[c] + bytes[c] = AllArrays
    BY <1>15, CellOfTask DEF PutUnknownsIntoByteStream
  <2> QED
    BY <1>15, <2>1, Sizes DEF PutUnknownsIntoByteStream
<1>16. CASE CompressionTaskEnds(c)
  BY <1>16 DEF CompressionTaskEnds
<1> QED
  BY <1>1, <1>2, <1>3, <1>4, <1>5, <1>6, <1>7, <1>8,
     <1>9, <1>10, <1>11, <1>12, <1>13, <1>14, <1>15, <1>16
     DEF Traverse, CompressionTask

LEMMA CellIsKept ==
  ASSUME DataTypes, sweep # "Prediction",
         NEW c \in Cells, CellInv(c), Traverse(c) \/ CompressionTask(c)
  PROVE  CellInv(c)'
<1> USE Sizes DEF CellInv, memory, At, SetState
<1>0. DataTypes /\ DataTypes'
  BY TypesAreKept
<1>1. CASE EnterCell(c)
  <2>1. ArraysFitPlace(c)'
    BY <1>1, <1>0 DEF DataTypes, EnterCell, MayEnter, ArraysFitPlace, TypeFitsPlace, WaitsForTask, IsHandedOver, LiesPlain, IsCell, Wanted
  <2>2. TypeFitsPlace(c)'
    BY <1>1, <1>0 DEF DataTypes, EnterCell, MayEnter, TypeFitsPlace, WaitsToModifyHeap, IsCell, Wanted, EnterPlaces, LeavePlaces
  <2> QED
    BY <2>1, <2>2
<1>2. CASE Uncompress(c)
  <2>1. ArraysFitPlace(c)'
    BY <1>2, <1>0 DEF DataTypes, Uncompress, MadeDecision, ArraysFitPlace, TypeFitsPlace, WaitsForTask, IsHandedOver, LiesPlain, IsCell, Wanted
  <2>2. TypeFitsPlace(c)'
    BY <1>2, <1>0 DEF DataTypes, Uncompress, MadeDecision, TypeFitsPlace, WaitsToModifyHeap, IsCell, Wanted, EnterPlaces, LeavePlaces
  <2> QED
    BY <2>1, <2>2
<1>3. CASE PullUnknownsFromByteStream(c)
  <2>1. ArraysFitPlace(c)'
    BY <1>3, <1>0 DEF DataTypes, PullUnknownsFromByteStream, ArraysFitPlace, TypeFitsPlace, WaitsForTask, IsHandedOver, LiesPlain, IsCell, Wanted
  <2>2. TypeFitsPlace(c)'
    BY <1>3, <1>0 DEF DataTypes, PullUnknownsFromByteStream, TypeFitsPlace, WaitsToModifyHeap, IsCell, Wanted, EnterPlaces, LeavePlaces
  <2> QED
    BY <2>1, <2>2
<1>4. CASE CreateData(c)
  <2>1. ArraysFitPlace(c)'
    BY <1>4, <1>0 DEF DataTypes, CreateData, ArraysFitPlace, TypeFitsPlace, WaitsForTask, IsHandedOver, LiesPlain, IsCell, Wanted
  <2>2. TypeFitsPlace(c)'
    BY <1>4, <1>0 DEF DataTypes, CreateData, TypeFitsPlace, WaitsToModifyHeap, IsCell, Wanted, EnterPlaces, LeavePlaces
  <2> QED
    BY <2>1, <2>2
<1>5. CASE GlueTogether(c)
  <2>1. ArraysFitPlace(c)'
    BY <1>5, <1>0 DEF DataTypes, GlueTogether, ArraysFitPlace, TypeFitsPlace, WaitsForTask, IsHandedOver, LiesPlain, IsCell, Wanted
  <2>2. TypeFitsPlace(c)'
    BY <1>5, <1>0 DEF DataTypes, GlueTogether, TypeFitsPlace, WaitsToModifyHeap, IsCell, Wanted, EnterPlaces, LeavePlaces
  <2> QED
    BY <2>1, <2>2
<1>6. CASE UpdateStateInEnterCell(c)
  <2>1. ArraysFitPlace(c)'
    BY <1>6, <1>0 DEF DataTypes, UpdateStateInEnterCell, ArraysFitPlace, TypeFitsPlace, WaitsForTask, IsHandedOver, LiesPlain, IsCell, Wanted
  <2>2. TypeFitsPlace(c)'
    BY <1>6, <1>0 DEF DataTypes, UpdateStateInEnterCell, TypeFitsPlace, WaitsToModifyHeap, IsCell, Wanted, EnterPlaces, LeavePlaces
  <2> QED
    BY <2>1, <2>2
<1>7. CASE UpdateStateInLeaveCell(c)
  <2>1. ArraysFitPlace(c)'
    BY <1>7, <1>0 DEF DataTypes, UpdateStateInLeaveCell, MayLeave, LeftType, ArraysFitPlace, TypeFitsPlace, WaitsForTask, IsHandedOver, LiesPlain, IsCell, Wanted
  <2>2. TypeFitsPlace(c)'
    BY <1>7, <1>0 DEF DataTypes, UpdateStateInLeaveCell, MayLeave, LeftType, TypeFitsPlace, WaitsToModifyHeap, IsCell, Wanted, EnterPlaces, LeavePlaces
  <2> QED
    BY <2>1, <2>2
<1>8. CASE WaitUntilAllBackgroundTasksHaveTerminated(c)
  <2>1. ArraysFitPlace(c)'
    BY <1>8, <1>0 DEF DataTypes, WaitUntilAllBackgroundTasksHaveTerminated, ArraysFitPlace, TypeFitsPlace, WaitsForTask, IsHandedOver, LiesPlain, IsCell, Wanted
  <2>2. TypeFitsPlace(c)'
    BY <1>8, <1>0 DEF DataTypes, WaitUntilAllBackgroundTasksHaveTerminated, TypeFitsPlace, WaitsToModifyHeap, IsCell, Wanted, EnterPlaces, LeavePlaces
  <2> QED
    BY <2>1, <2>2
<1>9. ASSUME NEW group \in Groups, EnsureNecessaryMemoryIsAllocated(c, group)
      PROVE  CellInv(c)'
  <2>1. ArraysFitPlace(c)'
    BY <1>9, <1>0, ResizingFits DEF DataTypes, EnsureNecessaryMemoryIsAllocated, ArraysFitPlace, TypeFitsPlace, WaitsForTask, IsHandedOver, LiesPlain, IsCell, Wanted
  <2>2. TypeFitsPlace(c)'
    BY <1>9, <1>0, ResizingFits DEF DataTypes, EnsureNecessaryMemoryIsAllocated, TypeFitsPlace, WaitsToModifyHeap, IsCell, Wanted, EnterPlaces, LeavePlaces
  <2> QED
    BY <2>1, <2>2
<1>10. ASSUME NEW group \in Groups, EnsureNoUnnecessaryMemoryIsAllocated(c, group)
      PROVE  CellInv(c)'
  <2>1. ArraysFitPlace(c)'
    BY <1>10, <1>0, ResizingFits DEF DataTypes, EnsureNoUnnecessaryMemoryIsAllocated, ArraysFitPlace, TypeFitsPlace, WaitsForTask, IsHandedOver, LiesPlain, IsCell, Wanted
  <2>2. TypeFitsPlace(c)'
    BY <1>10, <1>0, ResizingFits DEF DataTypes, EnsureNoUnnecessaryMemoryIsAllocated, TypeFitsPlace, WaitsToModifyHeap, IsCell, Wanted, EnterPlaces, LeavePlaces
  <2> QED
    BY <2>1, <2>2
<1>11. CASE ResizingEnds(c)
  <2>1. ArraysFitPlace(c)'
    BY <1>11, <1>0 DEF DataTypes, ResizingEnds, ArraysFitPlace, TypeFitsPlace, WaitsForTask, IsHandedOver, LiesPlain, IsCell, Wanted
  <2>2. TypeFitsPlace(c)'
    BY <1>11, <1>0 DEF DataTypes, ResizingEnds, TypeFitsPlace, WaitsToModifyHeap, IsCell, Wanted, EnterPlaces, LeavePlaces
  <2> QED
    BY <2>1, <2>2
<1>12. CASE PostProcess(c)
  <2>1. ArraysFitPlace(c)'
    BY <1>12, <1>0, StepsOfCompressInOrder DEF DataTypes, PostProcess, PostProcessCalls, ArraysFitPlace, TypeFitsPlace, WaitsForTask, IsHandedOver, LiesPlain, IsCell, Wanted
  <2>2. TypeFitsPlace(c)'
    BY <1>12, <1>0, StepsOfCompressInOrder DEF DataTypes, PostProcess, PostProcessCalls, TypeFitsPlace, WaitsToModifyHeap, IsCell, Wanted, EnterPlaces, LeavePlaces
  <2> QED
    BY <2>1, <2>2
<1>13. CASE CountTask(c)
  <2>1. ArraysFitPlace(c)'
    BY <1>13, <1>0, StepsOfCompressInOrder DEF DataTypes, CountTask, ArraysFitPlace, TypeFitsPlace, WaitsForTask, IsHandedOver, LiesPlain, IsCell, Wanted
  <2>2. TypeFitsPlace(c)'
    BY <1>13, <1>0, StepsOfCompressInOrder DEF DataTypes, CountTask, TypeFitsPlace, WaitsToModifyHeap, IsCell, Wanted, EnterPlaces, LeavePlaces
  <2> QED
    BY <2>1, <2>2
<1>14. CASE SpawnTask(c)
  <2>1. ArraysFitPlace(c)'
    BY <1>14, <1>0, StepsOfCompressInOrder DEF DataTypes, SpawnTask, ArraysFitPlace, TypeFitsPlace, WaitsForTask, IsHandedOver, LiesPlain, IsCell, Wanted
  <2>2. TypeFitsPlace(c)'
    BY <1>14, <1>0, StepsOfCompressInOrder DEF DataTypes, SpawnTask, TypeFitsPlace, WaitsToModifyHeap, IsCell, Wanted, EnterPlaces, LeavePlaces
  <2> QED
    BY <2>1, <2>2
<1>15. CASE PutUnknownsIntoByteStream(c)
  <2>1. ArraysFitPlace(c)'
    BY <1>15, <1>0 DEF DataTypes, PutUnknownsIntoByteStream, ArraysFitPlace, TypeFitsPlace, WaitsForTask, IsHandedOver, LiesPlain, IsCell, Wanted
  <2>2. TypeFitsPlace(c)'
    BY <1>15, <1>0 DEF DataTypes, PutUnknownsIntoByteStream, TypeFitsPlace, WaitsToModifyHeap, IsCell, Wanted, EnterPlaces, LeavePlaces
  <2> QED
    BY <2>1, <2>2
<1>16. CASE CompressionTaskEnds(c)
  <2>1. ArraysFitPlace(c)'
    BY <1>16, <1>0 DEF DataTypes, CompressionTaskEnds, ArraysFitPlace, TypeFitsPlace, WaitsForTask, IsHandedOver, LiesPlain, IsCell, Wanted
  <2>2. TypeFitsPlace(c)'
    BY <1>16, <1>0 DEF DataTypes, CompressionTaskEnds, TypeFitsPlace, WaitsToModifyHeap, IsCell, Wanted, EnterPlaces, LeavePlaces
  <2> QED
    BY <2>1, <2>2
<1> QED
  BY <1>1, <1>2, <1>3, <1>4, <1>5, <1>6, <1>7, <1>8,
     <1>9, <1>10, <1>11, <1>12, <1>13, <1>14, <1>15, <1>16
     DEF Traverse, CompressionTask

-----------------------------------------------------------------------------
(***************************************************************************)
(* The order of the traversal, the counter and the heap.                   *)
(***************************************************************************)

\* How an operation moves a cell on.
MovesInOrder(c) ==
  /\ sweep' = sweep
  /\ at[c] \in LeavePlaces \cup {"inside"} => at'[c] \in LeavePlaces \cup {"inside"}
  /\ at'[c] \in LeavePlaces => at[c] \in LeavePlaces \/ IsSerial \/ EnterPhaseIsOver
  /\ IsSerial /\ at'[c] \notin {"outside", "inside", "left"} =>
       ~Rests(c) \/ \A d \in Cells : Rests(d)

LEMMA CellsMoveInOrder ==
  ASSUME DataTypes, NEW c \in Cells, Traverse(c) \/ CompressionTask(c)
  PROVE  MovesInOrder(c)
<1> USE DEF DataTypes, MovesInOrder, memory, At, IsSerial, Rests, LeavePlaces
<1>1. CASE EnterCell(c)
  BY <1>1 DEF EnterCell, MayEnter
<1>2. CASE Uncompress(c)
  BY <1>2 DEF Uncompress
<1>3. CASE PullUnknownsFromByteStream(c)
  BY <1>3 DEF PullUnknownsFromByteStream
<1>4. CASE CreateData(c)
  BY <1>4 DEF CreateData
<1>5. CASE GlueTogether(c)
  BY <1>5 DEF GlueTogether
<1>6. CASE UpdateStateInEnterCell(c)
  BY <1>6 DEF UpdateStateInEnterCell
<1>7. CASE UpdateStateInLeaveCell(c)
  BY <1>7 DEF UpdateStateInLeaveCell, MayLeave
<1>8. CASE WaitUntilAllBackgroundTasksHaveTerminated(c)
  BY <1>8 DEF WaitUntilAllBackgroundTasksHaveTerminated
<1>9. ASSUME NEW group \in Groups, EnsureNecessaryMemoryIsAllocated(c, group)
      PROVE  MovesInOrder(c)
  BY <1>9 DEF EnsureNecessaryMemoryIsAllocated
<1>10. ASSUME NEW group \in Groups, EnsureNoUnnecessaryMemoryIsAllocated(c, group)
      PROVE  MovesInOrder(c)
  BY <1>10 DEF EnsureNoUnnecessaryMemoryIsAllocated
<1>11. CASE ResizingEnds(c)
  BY <1>11 DEF ResizingEnds
<1>12. CASE PostProcess(c)
  BY <1>12, StepsOfCompressInOrder DEF PostProcess
<1>13. CASE CountTask(c)
  BY <1>13, StepsOfCompressInOrder DEF CountTask
<1>14. CASE SpawnTask(c)
  BY <1>14, StepsOfCompressInOrder DEF SpawnTask
<1>15. CASE PutUnknownsIntoByteStream(c)
  BY <1>15 DEF PutUnknownsIntoByteStream
<1>16. CASE CompressionTaskEnds(c)
  BY <1>16 DEF CompressionTaskEnds
<1> QED
  BY <1>1, <1>2, <1>3, <1>4, <1>5, <1>6, <1>7, <1>8,
     <1>9, <1>10, <1>11, <1>12, <1>13, <1>14, <1>15, <1>16
     DEF Traverse, CompressionTask

LEMMA OrderIsKept ==
  ASSUME CompressionInv, NEW c \in Cells, Traverse(c) \/ CompressionTask(c)
  PROVE  TraversalIsOrdered'
<1>1. MovesInOrder(c) /\ OthersUntouched(c)
  BY CellsMoveInOrder, OthersAreUntouched DEF CompressionInv
<1>2. sweep' \in {"MeshRefinement", "FinaliseMeshRefinement"} /\ sweep' = sweep
  BY <1>1 DEF MovesInOrder, CompressionInv, TraversalIsOrdered
<1>3. ASSUME sweep = "MeshRefinement", NEW d \in Cells, NEW e \in Cells,
             ~Rests(d)', ~Rests(e)'
      PROVE  d = e
  BY <1>1, <1>3 DEF MovesInOrder, OthersUntouched, CompressionInv, TraversalIsOrdered,
                    IsSerial, Rests
<1>4. ASSUME sweep = "FinaliseMeshRefinement"
      PROVE  type'[c] # "Refining" /\ holds'[c] = Wanted(c)'
  <2>1. type[c] # "Refining" /\ holds[c] = Wanted(c)
    BY <1>4 DEF CompressionInv, TraversalIsOrdered
  <2>2. type'[c] = type[c]
    <3>1. CASE UpdateStateInEnterCell(c)
      BY <3>1, <1>4 DEF UpdateStateInEnterCell, IsSerial, CompressionInv, DataTypes
    <3>2. CASE UpdateStateInLeaveCell(c)
      BY <3>2, <2>1 DEF UpdateStateInLeaveCell, LeftType, CompressionInv, DataTypes
    <3> QED
      BY <3>1, <3>2
         DEF Traverse, CompressionTask, EnterCell, Uncompress, PullUnknownsFromByteStream,
             CreateData, GlueTogether, WaitUntilAllBackgroundTasksHaveTerminated,
             EnsureNecessaryMemoryIsAllocated, EnsureNoUnnecessaryMemoryIsAllocated,
             ResizingEnds, PostProcess, CountTask, SpawnTask, PutUnknownsIntoByteStream,
             CompressionTaskEnds
  <2>3. holds' = holds
    BY <2>1
       DEF Traverse, CompressionTask, EnterCell, Uncompress, PullUnknownsFromByteStream,
           CreateData, GlueTogether, UpdateStateInEnterCell, UpdateStateInLeaveCell,
           WaitUntilAllBackgroundTasksHaveTerminated,
           EnsureNecessaryMemoryIsAllocated, EnsureNoUnnecessaryMemoryIsAllocated,
           ResizingEnds, PostProcess, CountTask, SpawnTask, PutUnknownsIntoByteStream,
           CompressionTaskEnds
  <2> QED
    BY <2>1, <2>2, <2>3 DEF Wanted, IsCell
<1>5. ASSUME sweep = "FinaliseMeshRefinement", NEW d \in Cells
      PROVE  type'[d] # "Refining" /\ holds'[d] = Wanted(d)'
  BY <1>1, <1>4, <1>5
     DEF OthersUntouched, CompressionInv, TraversalIsOrdered, Wanted, IsCell
<1>6. ASSUME sweep = "FinaliseMeshRefinement", NEW d \in Cells, NEW e \in Cells,
             at'[d] \in LeavePlaces
      PROVE  at'[e] \in LeavePlaces \cup {"inside"}
  <2>1. at[d] \in LeavePlaces \/ EnterPhaseIsOver
    BY <1>1, <1>6 DEF MovesInOrder, OthersUntouched, IsSerial
  <2>2. at[e] \in LeavePlaces \cup {"inside"}
    BY <1>6, <2>1 DEF CompressionInv, TraversalIsOrdered, EnterPhaseIsOver, LeavePlaces
  <2> QED
    BY <1>1, <2>2 DEF MovesInOrder, OthersUntouched
<1> QED
  BY <1>2, <1>3, <1>5, <1>6 DEF TraversalIsOrdered

LEMMA CountedIsFinite ==
  /\ IsFiniteSet(Counted) /\ Counted \subseteq Cells
  /\ Cardinality(Counted) \in 0..Cardinality(Cells)
<1>1. Counted \subseteq Cells
  BY DEF Counted
<1> QED
  BY <1>1, CompressionAssumption, FS_Subset, FS_CardinalityType DEF CompressionAssumption

LEMMA CountIsKept ==
  ASSUME CompressionInv, NEW c \in Cells, Traverse(c) \/ CompressionTask(c)
  PROVE  NumberOfTriggeredTasks' = Cardinality(Counted')
<1>1. OthersUntouched(c) /\ DataTypes /\ CellInv(c)
      /\ NumberOfTriggeredTasks = Cardinality(Counted)
  BY OthersAreUntouched DEF CompressionInv
<1>2. \A d \in Cells \ {c} : d \in Counted' <=> d \in Counted
  BY <1>1 DEF OthersUntouched, Counted
<1>3. CASE CountTask(c)
  <2>1. c \notin Counted
    BY <1>1, <1>3 DEF CountTask, Counted, CellInv, ArraysFitPlace
  <2>2. c \in Counted'
    BY <1>1, <1>3, StepsOfCompressInOrder DEF CountTask, Counted, At, DataTypes
  <2>3. Counted' = Counted \cup {c}
    BY <1>2, <2>2 DEF Counted
  <2> QED
    BY <1>1, <1>3, <2>1, <2>3, CountedIsFinite, FS_AddElement DEF CountTask
<1>4. CASE CompressionTaskEnds(c)
  <2>1. c \in Counted
    BY <1>4 DEF CompressionTaskEnds, Counted
  <2>2. c \notin Counted'
    BY <1>1, <1>4, CellOfTask DEF CompressionTaskEnds, Counted, WaitsForTask
  <2>3. Counted' = Counted \ {c}
    BY <1>2, <2>2 DEF Counted
  <2> QED
    BY <1>1, <1>4, <2>1, <2>3, CountedIsFinite, FS_RemoveElement
       DEF CompressionTaskEnds, OneTaskLess
<1>5. ASSUME ~CountTask(c), ~CompressionTaskEnds(c)
      PROVE  /\ NumberOfTriggeredTasks' = NumberOfTriggeredTasks
             /\ c \in Counted' <=> c \in Counted
  <2> USE <1>1, StepsOfCompressInOrder DEF DataTypes, Counted, At
  <2>1. CASE SpawnTask(c)
    BY <2>1 DEF SpawnTask
  <2>2. CASE PutUnknownsIntoByteStream(c)
    BY <2>2 DEF PutUnknownsIntoByteStream
  <2>3. CASE PostProcess(c)
    BY <2>3 DEF PostProcess
  <2>4. CASE ResizingEnds(c)
    BY <2>4 DEF ResizingEnds
  <2>5. CASE UpdateStateInLeaveCell(c)
    BY <2>5 DEF UpdateStateInLeaveCell, MayLeave
  <2>6. CASE EnterCell(c) \/ UpdateStateInEnterCell(c)
    BY <2>6 DEF EnterCell, MayEnter, UpdateStateInEnterCell
  <2>7. CASE Uncompress(c) \/ PullUnknownsFromByteStream(c)
    BY <2>7 DEF Uncompress, PullUnknownsFromByteStream
  <2>8. CASE CreateData(c) \/ GlueTogether(c)
    BY <2>8 DEF CreateData, GlueTogether
  <2>9. CASE WaitUntilAllBackgroundTasksHaveTerminated(c)
    BY <2>9 DEF WaitUntilAllBackgroundTasksHaveTerminated
  <2>10. CASE \E group \in Groups : \/ EnsureNecessaryMemoryIsAllocated(c, group)
                                    \/ EnsureNoUnnecessaryMemoryIsAllocated(c, group)
    BY <2>10 DEF EnsureNecessaryMemoryIsAllocated, EnsureNoUnnecessaryMemoryIsAllocated
  <2> QED
    BY <1>5, <2>1, <2>2, <2>3, <2>4, <2>5, <2>6, <2>7, <2>8, <2>9, <2>10
       DEF Traverse, CompressionTask
<1>6. ASSUME ~CountTask(c), ~CompressionTaskEnds(c)
      PROVE  Counted' = Counted
  BY <1>2, <1>5, <1>6 DEF Counted
<1> QED
  BY <1>1, <1>3, <1>4, <1>5, <1>6

LEMMA HeapIsKeptAtRest ==
  ASSUME CompressionInv, NEW c \in Cells, Traverse(c) \/ CompressionTask(c)
  PROVE  HeapRestsWhileItChanges'
<1> SUFFICES ASSUME mayModifyHeap' # {} PROVE tasks' = {}
  BY DEF HeapRestsWhileItChanges
<1>1. DataTypes /\ CompressionInv
  BY DEF CompressionInv
<1>2. CASE WaitUntilAllBackgroundTasksHaveTerminated(c) /\ NumberOfTriggeredTasks = 0
  <2>1. Counted = {}
    BY <1>1, <1>2, CountedIsFinite, FS_EmptySet DEF CompressionInv
  <2> QED
    BY <1>1, <1>2, <2>1 DEF WaitUntilAllBackgroundTasksHaveTerminated, Counted, DataTypes
<1>3. CASE SpawnTask(c)
  <2>1. PICK d \in mayModifyHeap : TRUE
    BY <1>3 DEF SpawnTask
  <2>2. d \in Cells /\ WaitsToModifyHeap(d)
    BY <1>1, <2>1 DEF CompressionInv, DataTypes, CellInv, TypeFitsPlace
  <2>3. sweep = "MeshRefinement" => d = c
    BY <1>1, <1>3, <2>2
       DEF CompressionInv, TraversalIsOrdered, WaitsToModifyHeap, SpawnTask, Rests
  <2>4. sweep = "FinaliseMeshRefinement" => at[d] # "growing" /\ holds[d] = Wanted(d)
    BY <1>1, <1>3, <2>2 DEF CompressionInv, TraversalIsOrdered, SpawnTask, LeavePlaces
  <2> QED
    BY <1>1, <1>3, <2>2, <2>3, <2>4
       DEF CompressionInv, TraversalIsOrdered, WaitsToModifyHeap, SpawnTask
<1>4. ASSUME ~SpawnTask(c),
             ~(WaitUntilAllBackgroundTasksHaveTerminated(c) /\ NumberOfTriggeredTasks = 0)
      PROVE  mayModifyHeap' \subseteq mayModifyHeap /\ tasks' \subseteq tasks
  BY <1>4
     DEF Traverse, CompressionTask, EnterCell, Uncompress, PullUnknownsFromByteStream,
         CreateData, GlueTogether, UpdateStateInEnterCell, UpdateStateInLeaveCell,
         WaitUntilAllBackgroundTasksHaveTerminated, AllBackgroundTasksHaveTerminated,
         EnsureNecessaryMemoryIsAllocated, EnsureNoUnnecessaryMemoryIsAllocated,
         ResizingEnds, PostProcess, CountTask, PutUnknownsIntoByteStream, CompressionTaskEnds
<1> QED
  BY <1>1, <1>2, <1>3, <1>4 DEF CompressionInv, HeapRestsWhileItChanges

-----------------------------------------------------------------------------
(***************************************************************************)
(* The invariant.                                                          *)
(***************************************************************************)

LEMMA InvHoldsInitially == Init => CompressionInv
<1> SUFFICES ASSUME Init PROVE CompressionInv
  OBVIOUS
<1> USE CompressionAssumption DEF Init, CompressionAssumption
<1>1. DataTypes
  BY Sizes DEF DataTypes, Types
<1>2. \A c \in Cells : CellInv(c)
  BY DEF CellInv, ArraysFitPlace, TypeFitsPlace, WaitsForTask, LiesPlain, IsCell, Wanted, SizeOf,
         EnterPlaces
<1>3. NumberOfTriggeredTasks = Cardinality(Counted)
  <2>1. Counted = {}
    BY DEF Counted
  <2> QED
    BY <2>1, FS_EmptySet
<1>4. TraversalIsOrdered /\ HeapRestsWhileItChanges
  BY DEF TraversalIsOrdered, Rests, HeapRestsWhileItChanges
<1> QED
  BY <1>1, <1>2, <1>3, <1>4 DEF CompressionInv

LEMMA OperationsKeepInv ==
  ASSUME CompressionInv, NEW c \in Cells, Traverse(c) \/ CompressionTask(c)
  PROVE  CompressionInv'
<1>1. DataTypes'
  BY TypesAreKept DEF CompressionInv
<1>2. ASSUME NEW d \in Cells
      PROVE  CellInv(d)'
  <2>1. CASE d = c
    BY <2>1, CellIsKept DEF CompressionInv, TraversalIsOrdered
  <2>2. CASE d # c
    BY <2>2, OthersAreUntouched, UntouchedCellKeepsInv DEF CompressionInv
  <2> QED
    BY <2>1, <2>2
<1> QED
  BY <1>1, <1>2, CountIsKept, OrderIsKept, HeapIsKeptAtRest DEF CompressionInv

\* With LastSweep = "Prediction" the next sweep may be one that breaks the order.
LEMMA NextSweepKeepsInv ==
  ASSUME LastSweep = "FinaliseMeshRefinement", CompressionInv, NextSweep
  PROVE  CompressionInv'
<1>1. sweep = "MeshRefinement" /\ sweep' \in {"MeshRefinement", "FinaliseMeshRefinement"}
  BY DEF CompressionInv, TraversalIsOrdered, NextSweep, SweepAfter
<1>2. DataTypes'
  BY DEF CompressionInv, DataTypes, NextSweep, memory
<1>3. ASSUME NEW c \in Cells
      PROVE  CellInv(c)' /\ type'[c] # "Refining" /\ holds'[c] = Wanted(c)' /\ at'[c] = "outside"
  <2>1. /\ at[c] = "left" /\ at'[c] = "outside" /\ CellInv(c)
        /\ UNCHANGED <<mayModifyHeap, postProcessed, type, holds, compressionState,
                       plain, bytes, tasks>>
    BY DEF CompressionInv, NextSweep, memory
  <2>2. type[c] # "Refining" /\ holds[c] = Wanted(c) /\ c \notin mayModifyHeap
    BY <2>1 DEF CellInv, TypeFitsPlace, WaitsToModifyHeap
  <2>3. ArraysFitPlace(c)'
    BY <2>1 DEF CellInv, ArraysFitPlace, WaitsForTask, IsCell, IsHandedOver, LiesPlain
  <2>4. TypeFitsPlace(c)'
    BY <2>1, <2>2 DEF CellInv, TypeFitsPlace, EnterPlaces, Wanted, IsCell
  <2> QED
    BY <2>1, <2>2, <2>3, <2>4 DEF CellInv, Wanted, IsCell
<1>4. NumberOfTriggeredTasks' = Cardinality(Counted')
  <2>1. Counted' = Counted
    BY DEF NextSweep, Counted
  <2> QED
    BY <2>1 DEF CompressionInv, NextSweep
<1>5. TraversalIsOrdered'
  BY <1>1, <1>3 DEF TraversalIsOrdered, Rests, LeavePlaces
<1>6. HeapRestsWhileItChanges'
  BY DEF CompressionInv, NextSweep, HeapRestsWhileItChanges
<1> QED
  BY <1>2, <1>3, <1>4, <1>5, <1>6 DEF CompressionInv

LEMMA StutteringKeepsInv == CompressionInv /\ UNCHANGED vars => CompressionInv'
<1> SUFFICES ASSUME CompressionInv, UNCHANGED vars PROVE CompressionInv'
  OBVIOUS
<1> USE DEF vars, memory
<1>1. DataTypes'
  BY DEF CompressionInv, DataTypes
<1>2. \A c \in Cells : CellInv(c)'
  BY DEF CompressionInv, CellInv, ArraysFitPlace, TypeFitsPlace, WaitsForTask, IsCell,
         IsHandedOver, LiesPlain, Wanted, WaitsToModifyHeap
<1>3. NumberOfTriggeredTasks' = Cardinality(Counted')
  BY DEF CompressionInv, Counted
<1>4. TraversalIsOrdered' /\ HeapRestsWhileItChanges'
  BY DEF CompressionInv, TraversalIsOrdered, HeapRestsWhileItChanges, Rests, Wanted, IsCell
<1> QED
  BY <1>1, <1>2, <1>3, <1>4 DEF CompressionInv

LEMMA InvIsKept ==
  ASSUME LastSweep = "FinaliseMeshRefinement"
  PROVE  CompressionInv /\ [Next]_vars => CompressionInv'
<1> SUFFICES ASSUME CompressionInv, [Next]_vars PROVE CompressionInv'
  OBVIOUS
<1>1. CASE \E c \in Cells : Traverse(c) \/ CompressionTask(c)
  BY <1>1, OperationsKeepInv
<1>2. CASE NextSweep
  BY <1>2, NextSweepKeepsInv
<1>3. CASE UNCHANGED vars
  BY <1>3, StutteringKeepsInv
<1> QED
  BY <1>1, <1>2, <1>3 DEF Next, Terminating

LEMMA CompressionInvHolds ==
  ASSUME LastSweep = "FinaliseMeshRefinement"
  PROVE  Spec => []CompressionInv
<1> QED
  BY InvHoldsInitially, InvIsKept, PTL DEF Spec

-----------------------------------------------------------------------------
(***************************************************************************)
(* Type correctness.  The counter of tasks never gets negative, which the  *)
(* code asserts, nor above the number of cells.                            *)
(***************************************************************************)
THEOREM CompressionTypeCorrect ==
  ASSUME LastSweep = "FinaliseMeshRefinement"
  PROVE  Spec => []TypeOK
<1>1. CompressionInv => TypeOK
  BY CountedIsFinite
     DEF CompressionInv, DataTypes, TraversalIsOrdered, TypeOK, EnterPlaces, LeavePlaces
<1> QED
  BY <1>1, CompressionInvHolds, PTL

(***************************************************************************)
(* The semaphore is locked by someone who may change a heap only while no  *)
(* background task is spawned (waitUntilAllBackgroundTasksHaveTerminated). *)
(***************************************************************************)
THEOREM TasksStayAway ==
  ASSUME LastSweep = "FinaliseMeshRefinement"
  PROVE  Spec => []HeapRestsWhileItChanges
<1>1. CompressionInv => HeapRestsWhileItChanges
  BY DEF CompressionInv
<1> QED
  BY <1>1, CompressionInvHolds, PTL

(***************************************************************************)
(* A cell that the traversal is in has all of its arrays uncompressed, and *)
(* no task works on them (uncompress).                                     *)
(***************************************************************************)
THEOREM MappingsFindUncompressedCells ==
  ASSUME LastSweep = "FinaliseMeshRefinement"
  PROVE  Spec => []CellsInsideAreUncompressed
<1>1. CompressionInv => CellsInsideAreUncompressed
  BY Sizes DEF CompressionInv, CellInv, ArraysFitPlace, TypeFitsPlace, LiesPlain, Wanted,
               CellsInsideAreUncompressed
<1> QED
  BY <1>1, CompressionInvHolds, PTL

(***************************************************************************)
(* No cell is compressed that is compressed already or being so, as        *)
(* compress asserts: postProcess reaches it once per sweep.                *)
(***************************************************************************)
THEOREM CompressFindsUncompressedCells ==
  ASSUME LastSweep = "FinaliseMeshRefinement"
  PROVE  Spec => []CompressesUncompressed
<1>1. CompressionInv => CompressesUncompressed
  BY DEF CompressionInv, CellInv, ArraysFitPlace, TypeFitsPlace, LiesPlain, TraversalIsOrdered,
         CompressesUncompressed, PostProcessCalls
<1> QED
  BY <1>1, CompressionInvHolds, PTL

-----------------------------------------------------------------------------
(***************************************************************************)
(* The byte entries.  Tasks take entries and create none; entries come     *)
(* with the groups of arrays, two each, and stay when a group goes.        *)
(***************************************************************************)
Filled == {e \in Cells \X (1..5) : e[2] <= bytes[e[1]]}
Held   == {e \in Cells \X Groups : e[2] \in holds[e[1]]}

EntriesAreKept ==
  recycledBytes + Cardinality(Filled) >= 2 * HelperCells + 2 * Cardinality(Held)

\* The cells that are compressed, or about to be.
Packed == {c \in Cells : bytes[c] > 0 \/ c \in tasks}

LEMMA Five == IsFiniteSet(1..5) /\ Cardinality(1..5) = 5
<1>1. \A b \in Nat : IsFiniteSet(1..b) /\ Cardinality(1..b) = (IF 1 > b THEN 0 ELSE b - 1 + 1)
  BY FS_Interval
<1>2. 5 \in Nat
  OBVIOUS
<1>3. IsFiniteSet(1..5) /\ Cardinality(1..5) = (IF 1 > 5 THEN 0 ELSE 5 - 1 + 1)
  BY <1>1, <1>2
<1> QED
  BY <1>3

LEMMA LedgerIsFinite ==
  /\ IsFiniteSet(Filled) /\ Cardinality(Filled) \in Nat
  /\ IsFiniteSet(Held) /\ Cardinality(Held) \in Nat
<1>1. IsFiniteSet(Cells \X (1..5)) /\ IsFiniteSet(Cells \X Groups)
  <2>1. IsFiniteSet(1..5)
    BY Five
  <2>2. IsFiniteSet({}) /\ IsFiniteSet({"Volume"}) /\ IsFiniteSet({"Volume"} \cup {"Faces"})
    BY FS_EmptySet, FS_Singleton, FS_AddElement
  <2>3. IsFiniteSet(Groups)
    <3>1. Groups = {"Volume"} \cup {"Faces"}
      BY DEF Groups
    <3> QED
      BY <2>2, <3>1
  <2> QED
    BY <2>1, <2>3, CompressionAssumption, FS_Product
<1>2. Filled \in SUBSET (Cells \X (1..5)) /\ Held \in SUBSET (Cells \X Groups)
  BY DEF Filled, Held
<1>3. IsFiniteSet(Filled) /\ IsFiniteSet(Held)
  BY <1>1, <1>2, FS_Subset
<1> QED
  BY <1>3, FS_CardinalityType

\* A step that moves one entry, reserves two, or gives up a group.
LEMMA LedgerSteps ==
  ASSUME DataTypes, NEW c \in Cells, EntriesAreKept
  PROVE  /\ /\ bytes[c] < 5 /\ holds' = holds
            /\ bytes' = [bytes EXCEPT ![c] = @ + 1] /\ recycledBytes' = recycledBytes - 1
            => EntriesAreKept'
         /\ /\ bytes[c] > 0 /\ holds' = holds
            /\ bytes' = [bytes EXCEPT ![c] = @ - 1] /\ recycledBytes' = recycledBytes + 1
            => EntriesAreKept'
         /\ \A group \in Groups :
              /\ group \notin holds[c] /\ bytes' = bytes
              /\ holds' = [holds EXCEPT ![c] = @ \cup {group}]
              /\ recycledBytes' = recycledBytes + 2
              => EntriesAreKept'
         /\ \A group \in Groups :
              /\ group \in holds[c] /\ bytes' = bytes
              /\ holds' = [holds EXCEPT ![c] = @ \ {group}] /\ recycledBytes' = recycledBytes
              => EntriesAreKept'
<1>1. /\ bytes \in [Cells -> 0..5] /\ holds \in [Cells -> SUBSET Groups] /\ recycledBytes \in Nat
      /\ HelperCells \in Nat
  BY Sizes, CompressionAssumption DEF DataTypes
<1>2. bytes[c] \in 0..5 /\ Cardinality(Filled) \in Nat /\ Cardinality(Held) \in Nat
  BY <1>1, LedgerIsFinite
<1>3. ASSUME bytes[c] < 5, holds' = holds, bytes' = [bytes EXCEPT ![c] = @ + 1],
             recycledBytes' = recycledBytes - 1
      PROVE  EntriesAreKept'
  <2> DEFINE x == <<c, bytes[c] + 1>>
  <2>1. x \in Cells \X (1..5) /\ x \notin Filled
    BY <1>2, <1>3 DEF Filled
  <2>2. Filled' = Filled \cup {x}
    <3>1. ASSUME NEW e \in Cells \X (1..5) PROVE e \in Filled' <=> e \in Filled \/ e = x
      <4>1. e = <<e[1], e[2]>> /\ e[1] \in Cells /\ e[2] \in 1..5
        BY <3>1
      <4>2. CASE e[1] = c
        <5>1. bytes'[e[1]] = bytes[c] + 1
          BY <1>1, <1>3, <4>2
        <5>2. e = x <=> e[2] = bytes[c] + 1
          BY <4>1, <4>2
        <5> QED
          BY <1>2, <4>1, <4>2, <5>1, <5>2 DEF Filled
      <4>3. CASE e[1] # c
        <5>1. bytes'[e[1]] = bytes[e[1]] /\ e # x
          BY <1>1, <1>3, <4>1, <4>3
        <5> QED
          BY <5>1 DEF Filled
      <4> QED
        BY <4>2, <4>3
    <3> QED
      BY <2>1, <3>1 DEF Filled
  <2>3. Cardinality(Filled') = Cardinality(Filled) + 1
    BY <2>1, <2>2, LedgerIsFinite, FS_AddElement
  <2>4. Held' = Held
    BY <1>3 DEF Held
  <2> QED
    BY <1>1, <1>2, <1>3, <2>3, <2>4 DEF EntriesAreKept
<1>4. ASSUME bytes[c] > 0, holds' = holds, bytes' = [bytes EXCEPT ![c] = @ - 1],
             recycledBytes' = recycledBytes + 1
      PROVE  EntriesAreKept'
  <2> DEFINE x == <<c, bytes[c]>>
  <2>1. x \in Filled
    BY <1>2, <1>4 DEF Filled
  <2>2. Filled' = Filled \ {x}
    <3>1. ASSUME NEW e \in Cells \X (1..5) PROVE e \in Filled' <=> e \in Filled /\ e # x
      <4>1. e = <<e[1], e[2]>> /\ e[1] \in Cells /\ e[2] \in 1..5
        BY <3>1
      <4>2. CASE e[1] = c
        <5>1. bytes'[e[1]] = bytes[c] - 1
          BY <1>1, <1>4, <4>2
        <5>2. e = x <=> e[2] = bytes[c]
          BY <4>1, <4>2
        <5> QED
          BY <1>2, <4>1, <4>2, <5>1, <5>2 DEF Filled
      <4>3. CASE e[1] # c
        <5>1. bytes'[e[1]] = bytes[e[1]] /\ e # x
          BY <1>1, <1>4, <4>1, <4>3
        <5> QED
          BY <5>1 DEF Filled
      <4> QED
        BY <4>2, <4>3
    <3> QED
      BY <3>1 DEF Filled
  <2>3. Cardinality(Filled') = Cardinality(Filled) - 1
    BY <2>1, <2>2, LedgerIsFinite, FS_RemoveElement
  <2>4. Held' = Held
    BY <1>4 DEF Held
  <2> QED
    BY <1>1, <1>2, <1>4, <2>3, <2>4 DEF EntriesAreKept
<1>5. ASSUME NEW group \in Groups, group \notin holds[c], bytes' = bytes,
             holds' = [holds EXCEPT ![c] = @ \cup {group}], recycledBytes' = recycledBytes + 2
      PROVE  EntriesAreKept'
  <2> DEFINE x == <<c, group>>
  <2>1. x \in Cells \X Groups /\ x \notin Held
    BY <1>5 DEF Held
  <2>2. Held' = Held \cup {x}
    <3>1. ASSUME NEW e \in Cells \X Groups PROVE e \in Held' <=> e \in Held \/ e = x
      BY <1>1, <1>5 DEF Held
    <3> QED
      BY <2>1, <3>1 DEF Held
  <2>3. Cardinality(Held') = Cardinality(Held) + 1
    BY <2>1, <2>2, LedgerIsFinite, FS_AddElement
  <2>4. Filled' = Filled
    BY <1>5 DEF Filled
  <2> QED
    BY <1>1, <1>2, <1>5, <2>3, <2>4 DEF EntriesAreKept
<1>6. ASSUME NEW group \in Groups, group \in holds[c], bytes' = bytes,
             holds' = [holds EXCEPT ![c] = @ \ {group}], recycledBytes' = recycledBytes
      PROVE  EntriesAreKept'
  <2> DEFINE x == <<c, group>>
  <2>1. x \in Held
    BY <1>6 DEF Held
  <2>2. Held' = Held \ {x}
    <3>1. ASSUME NEW e \in Cells \X Groups PROVE e \in Held' <=> e \in Held /\ e # x
      BY <1>1, <1>6 DEF Held
    <3> QED
      BY <3>1 DEF Held
  <2>3. Cardinality(Held') = Cardinality(Held) - 1
    BY <2>1, <2>2, LedgerIsFinite, FS_RemoveElement
  <2>4. Filled' = Filled
    BY <1>6 DEF Filled
  <2> QED
    BY <1>1, <1>2, <1>6, <2>3, <2>4 DEF EntriesAreKept
<1> QED
  BY <1>3, <1>4, <1>5, <1>6

LEMMA UntouchedLedger ==
  EntriesAreKept /\ UNCHANGED <<bytes, holds, recycledBytes>> => EntriesAreKept'
  BY DEF EntriesAreKept, Filled, Held

LEMMA OperationsKeepEntries ==
  ASSUME CompressionInv, EntriesAreKept, NEW c \in Cells, Traverse(c) \/ CompressionTask(c)
  PROVE  EntriesAreKept'
<1>1. DataTypes
  BY DEF CompressionInv
<1>2. CASE GlueTogether(c)
  <2>1. CASE bytes[c] > 0
    BY <1>1, <1>2, <2>1, LedgerSteps DEF GlueTogether
  <2>2. CASE ~(bytes[c] > 0)
    BY <1>2, <2>2, UntouchedLedger DEF GlueTogether
  <2> QED
    BY <2>1, <2>2
<1>3. CASE PutUnknownsIntoByteStream(c)
  <2>1. plain[c] + bytes[c] = AllArrays /\ plain[c] \in 0..5 /\ bytes[c] \in 0..5 /\ plain[c] > 0
    BY <1>1, <1>3, CellOfTask, Sizes DEF PutUnknownsIntoByteStream, CompressionInv, DataTypes
  <2>2. bytes[c] < 5
    BY <2>1, Sizes
  <2> QED
    BY <1>1, <1>3, <2>2, LedgerSteps DEF PutUnknownsIntoByteStream
<1>4. ASSUME NEW group \in Groups, EnsureNecessaryMemoryIsAllocated(c, group)
      PROVE  EntriesAreKept'
  <2>1. recycledBytes' = recycledBytes + 2 /\ group \notin holds[c] /\ bytes' = bytes
        /\ holds' = [holds EXCEPT ![c] = @ \cup {group}]
    BY <1>4 DEF EnsureNecessaryMemoryIsAllocated, ReservedEntries
  <2> QED
    BY <1>1, <2>1, LedgerSteps
<1>5. ASSUME NEW group \in Groups, EnsureNoUnnecessaryMemoryIsAllocated(c, group)
      PROVE  EntriesAreKept'
  BY <1>1, <1>5, LedgerSteps DEF EnsureNoUnnecessaryMemoryIsAllocated
<1>6. CASE EnterCell(c) \/ Uncompress(c) \/ UpdateStateInEnterCell(c) \/ UpdateStateInLeaveCell(c)
           \/ WaitUntilAllBackgroundTasksHaveTerminated(c)
  BY <1>6, UntouchedLedger DEF EnterCell, Uncompress, UpdateStateInEnterCell,
     UpdateStateInLeaveCell, WaitUntilAllBackgroundTasksHaveTerminated, memory
<1>7. CASE ResizingEnds(c) \/ PostProcess(c) \/ CountTask(c) \/ SpawnTask(c)
           \/ CompressionTaskEnds(c)
  BY <1>7, UntouchedLedger DEF ResizingEnds, PostProcess, CountTask, SpawnTask,
     CompressionTaskEnds, memory
<1>8. CASE PullUnknownsFromByteStream(c) \/ CreateData(c)
  BY <1>8, UntouchedLedger DEF PullUnknownsFromByteStream, CreateData
<1> QED
  BY <1>2, <1>3, <1>4, <1>5, <1>6, <1>7, <1>8 DEF Traverse, CompressionTask

LEMMA EntriesStay ==
  /\ Init => EntriesAreKept
  /\ CompressionInv /\ EntriesAreKept /\ [Next]_vars => EntriesAreKept'
<1>1. ASSUME Init PROVE EntriesAreKept
  <2>1. Held = {} /\ Filled = {}
    BY <1>1 DEF Init, Held, Filled
  <2>2. recycledBytes = 2 * HelperCells /\ HelperCells \in Nat /\ Cardinality({}) = 0
    BY <1>1, CompressionAssumption, FS_EmptySet DEF Init
  <2> QED
    BY <2>1, <2>2 DEF EntriesAreKept
<1>2. ASSUME CompressionInv, EntriesAreKept, [Next]_vars PROVE EntriesAreKept'
  <2>1. CASE \E c \in Cells : Traverse(c) \/ CompressionTask(c)
    BY <1>2, <2>1, OperationsKeepEntries
  <2>2. CASE NextSweep \/ UNCHANGED vars
    BY <1>2, <2>2, UntouchedLedger DEF NextSweep, vars, memory
  <2> QED
    BY <1>2, <2>1, <2>2 DEF Next, Terminating
<1> QED
  BY <1>1, <1>2

\* A packed cell holds both groups: its five entries are more than the four that came with them.
LEMMA EntriesSuffice ==
  CompressionInv /\ EntriesAreKept /\ Cardinality(Packed) <= 2 * HelperCells
    => ByteEntriesSuffice
<1> SUFFICES ASSUME CompressionInv, EntriesAreKept, Cardinality(Packed) <= 2 * HelperCells,
                    NEW c \in tasks, plain[c] > 0
             PROVE  recycledBytes > 0
  BY DEF ByteEntriesSuffice
<1>1. c \in Cells /\ plain \in [Cells -> 0..5] /\ bytes \in [Cells -> 0..5] /\ recycledBytes \in Nat
  BY Sizes DEF CompressionInv, DataTypes
<1>2. bytes[c] < 5
  <2>1. plain[c] + bytes[c] = AllArrays
    BY <1>1, CellOfTask DEF CompressionInv
  <2> QED
    BY <1>1, <2>1, Sizes
<1>3. Packed \subseteq Cells /\ c \in Packed /\ IsFiniteSet(Packed) /\ Cardinality(Packed) \in Nat
  <2>1. Packed \in SUBSET Cells
    BY DEF Packed
  <2> QED
    BY <1>1, <2>1, CompressionAssumption, FS_Subset, FS_CardinalityType DEF Packed
<1>4. ASSUME NEW d \in Packed PROVE holds[d] = Groups
  <2>1. d \in Cells /\ CellInv(d) /\ (bytes[d] > 0 \/ d \in tasks)
    BY <1>4 DEF Packed, CompressionInv
  <2>2. CASE d \in tasks
    <3>1. IsCell(d) /\ (WaitsForTask(d) \/ at[d] = "uncompressing")
      BY <2>1, <2>2, CellOfTask DEF CompressionInv
    <3> QED
      BY <2>1, <3>1 DEF CellInv, TypeFitsPlace, WaitsForTask, Wanted
  <2>3. CASE bytes[d] > 0
    <3>1. at[d] \in EnterPlaces \cup LeavePlaces \cup {"outside", "inside"}
      BY <2>1 DEF CompressionInv, DataTypes
    <3>2. bytes[d] # 0
      BY <1>1, <2>1, <2>3
    <3>3. postProcessed[d] \in 0..1
      BY <2>1 DEF CellInv, TypeFitsPlace
    <3>4. at[d] \in {"uncompressing", "pulling", "growing"} \/ (WaitsForTask(d) /\ IsCell(d))
      BY <2>1, <3>1, <3>2, <3>3
         DEF CellInv, ArraysFitPlace, LiesPlain, WaitsForTask, EnterPlaces, LeavePlaces
    <3> QED
      BY <2>1, <3>4 DEF CellInv, TypeFitsPlace, WaitsForTask, Wanted
  <2> QED
    BY <2>1, <2>2, <2>3
<1>5. Cardinality(Filled) <= 5 * Cardinality(Packed) - 1
  <2> DEFINE S == Packed \X (1..5)
             x == <<c, 5>>
  <2>1. IsFiniteSet(1..5) /\ Cardinality(1..5) = 5
    BY Five
  <2>2. IsFiniteSet(S) /\ Cardinality(S) = Cardinality(Packed) * 5
    BY <1>3, <2>1, FS_Product
  <2>3. x \in S
    BY <1>3
  <2>4. Filled \in SUBSET (S \ {x})
    <3>1. ASSUME NEW e \in Filled PROVE e \in S /\ e # x
      <4>1. e = <<e[1], e[2]>> /\ e[1] \in Cells /\ e[2] \in 1..5 /\ e[2] <= bytes[e[1]]
        BY <3>1 DEF Filled
      <4>2. bytes[e[1]] > 0
        BY <1>1, <4>1
      <4>3. e[1] \in Packed
        BY <4>1, <4>2 DEF Packed
      <4>4. e # x
        BY <1>1, <1>2, <4>1
      <4> QED
        BY <4>1, <4>3, <4>4
    <3> QED
      BY <3>1
  <2> HIDE DEF S, x
  <2>5. IsFiniteSet(S \ {x}) /\ Cardinality(S \ {x}) = Cardinality(S) - 1
    BY <2>2, <2>3, FS_RemoveElement
  <2>6. Cardinality(Filled) <= Cardinality(S \ {x})
    BY <2>4, <2>5, FS_Subset
  <2> QED
    BY <1>3, <2>2, <2>5, <2>6
<1>6. Cardinality(Held) >= 2 * Cardinality(Packed)
  <2>1. IsFiniteSet(Groups) /\ Cardinality(Groups) = 2
    <3>1. Groups = {"Volume"} \cup {"Faces"} /\ "Faces" \notin {"Volume"}
      BY DEF Groups
    <3>2. IsFiniteSet({"Volume"}) /\ Cardinality({"Volume"}) = 1
      BY FS_Singleton
    <3> QED
      BY <3>1, <3>2, FS_AddElement
  <2>2. Cardinality(Packed \X Groups) = Cardinality(Packed) * 2
    BY <1>3, <2>1, FS_Product
  <2>3. Packed \X Groups \in SUBSET Held
    BY <1>3, <1>4 DEF Held
  <2>4. Cardinality(Packed \X Groups) <= Cardinality(Held)
    BY <2>3, LedgerIsFinite, FS_Subset
  <2> QED
    BY <1>3, <2>2, <2>4, LedgerIsFinite
<1> QED
  <2>1. HelperCells \in Nat /\ Cardinality(Filled) \in Nat /\ Cardinality(Held) \in Nat
    BY CompressionAssumption, LedgerIsFinite
  <2> QED
    BY <1>1, <1>3, <1>5, <1>6, <2>1 DEF EntriesAreKept

(***************************************************************************)
(* A task that asks for a recycled byte entry gets one                     *)
(* (putUnknownsIntoByteStream), as long as at most two cells per helper    *)
(* cell are compressed at the same time: each needs one entry more than    *)
(* the four its arrays came with, and a helper cell leaves two.            *)
(***************************************************************************)
THEOREM TwoCellsPerHelperHaveEntries ==
  ASSUME LastSweep = "FinaliseMeshRefinement"
  PROVE  Spec /\ [](Cardinality(Packed) <= 2 * HelperCells) => []ByteEntriesSuffice
<1>1. Spec => []EntriesAreKept
  BY EntriesStay, CompressionInvHolds, PTL DEF Spec
<1> QED
  BY <1>1, EntriesSuffice, CompressionInvHolds, PTL

(***************************************************************************)
(* So entries never run out in a mesh with half as many helper cells as    *)
(* cells that are ever compressed.                                         *)
(***************************************************************************)
THEOREM EnoughHelpersHaveEntries ==
  ASSUME LastSweep = "FinaliseMeshRefinement", Cardinality(Cells) <= 2 * HelperCells
  PROVE  Spec => []ByteEntriesSuffice
<1>1. Cardinality(Packed) <= 2 * HelperCells
  <2>1. Packed \in SUBSET Cells
    BY DEF Packed
  <2>2. /\ IsFiniteSet(Packed) /\ Cardinality(Packed) \in Nat /\ Cardinality(Cells) \in Nat
        /\ Cardinality(Packed) <= Cardinality(Cells) /\ HelperCells \in Nat
    BY <2>1, CompressionAssumption, FS_Subset, FS_CardinalityType
  <2> QED
    BY <2>2
<1> QED
  BY <1>1, TwoCellsPerHelperHaveEntries, PTL

=============================================================================
