---------------------------- MODULE FaceExchange ----------------------------
(***************************************************************************)
(* Merging each face once per sweep, and sending its data over a rank      *)
(* boundary once per sweep.  Both are done vertex by vertex, although a    *)
(* face has several vertices.  Inside a rank a flag per cell description   *)
(* and face (neighbourMergePerformed) tells that a face was merged.        *)
(* Across ranks a counter per description and face (faceDataExchange-      *)
(* Counter) tells at which vertex the face is touched for the last time:   *)
(* there its data is sent, at all other vertices an empty message.  The    *)
(* next sweep runs backwards, touches that vertex first and finds the      *)
(* counter at zero.  The heap hands out first what was sent last.          *)
(*                                                                         *)
(* The grid is a regular one of one level in two dimensions; a position    *)
(* outside of Cells lies behind the domain boundary.  Vertex <<x,y>> is    *)
(* the upper right corner of the cell <<x,y>>.  Only inside vertices are   *)
(* exchanged between ranks.                                                *)
(***************************************************************************)
EXTENDS Integers, Sequences, FiniteSets, SequencesExt

CONSTANTS Columns, Rows,
          Ranks,
          Owner,        \* the rank of each cell
          Turn,         \* Turn[v]: a forward sweep touches the vertices by turns
          Solvers,      \* the solvers with a description in every cell, by type
          Requests      \* what they may ask for after a time step

Cells     == (1..Columns) \X (1..Rows)
Positions == (0..Columns + 1) \X (0..Rows + 1)
Vertices  == (0..Columns) \X (0..Rows)
TwoPowerD == 4

\* Peano cuts a cell into three per dimension: no grid is one cell wide.
ASSUME FaceExchangeAssumption ==
  /\ Columns \in Nat \ {0, 1} /\ Rows \in Nat \ {0, 1}
  /\ Owner \in [Cells -> Ranks]
  /\ Turn \in [Vertices -> Nat] /\ IsInjective(Turn)
  /\ Solvers \subseteq {"ADERDG", "LimitingADERDG", "FiniteVolumes"} /\ Solvers # {}
  /\ Requests \subseteq {"Local", "Mesh", "MeshAndLocal", "Global"}

Around(v) == {v[1], v[1] + 1} \X {v[2], v[2] + 1}
IsInside(v) == Around(v) \subseteq Cells

ShareFace(p, q) == \/ p[1] = q[1] /\ p[2] - q[2] \in {-1, 1}
                   \/ p[2] = q[2] /\ p[1] - q[1] \in {-1, 1}

\* The side of a cell towards a neighbouring position.
Sides       == {s \in Cells \X Positions : ShareFace(s[1], s[2])}
RemoteSides == {s \in Sides : s[2] \in Cells /\ Owner[s[1]] # Owner[s[2]]}
Opposite(s) == <<s[2], s[1]>>
SidesAt(v)  == {s \in Sides : s[1] \in Around(v) /\ s[2] \in Around(v)}

(***************************************************************************)
(* The sweeps, named for the adapters that run them, and what the State's  *)
(* merge and send modes and the mappings' own code make each do with face  *)
(* data.                                                                   *)
(***************************************************************************)
MergingSweeps == {"ADERDGTimeStep", "LocalRecomputation", "GlobalRecomputation"}
ReceivingSweeps == MergingSweeps \cup {"NeighbourDataDropping", "PredictionRerun"}
SendingSweeps == MergingSweeps \cup {"Reinitialisation", "Prediction", "PredictionRerun"}
Sweeps == ReceivingSweeps \cup SendingSweeps \cup {"LimiterStatusSpreading", "MeshRefinement"}

SweepsFor(request) ==
  CASE request = "Nothing" -> <<>>
    [] request = "Local" ->
         <<"NeighbourDataDropping", "LimiterStatusSpreading", "Reinitialisation",
           "LocalRecomputation">>
    [] request = "Mesh" ->
         <<"NeighbourDataDropping", "MeshRefinement", "Reinitialisation",
           "LocalRecomputation", "Prediction">>
    [] request = "MeshAndLocal" ->
         <<"NeighbourDataDropping", "LimiterStatusSpreading", "MeshRefinement",
           "Reinitialisation", "LocalRecomputation", "Prediction">>
    [] request = "Global" ->
         <<"NeighbourDataDropping", "LimiterStatusSpreading", "MeshRefinement",
           "Reinitialisation", "LocalRecomputation", "Prediction",
           "GlobalRecomputation">>

\* A faulty form, of a mapping Prediction that resets nothing.
ResetsButPrediction(kind) ==
  IF kind \in {"NeighbourDataDropping", "Prediction"} THEN {} ELSE Solvers

\* Whose descriptions enterCell resets: the mapping Prediction visits the
\* ADER-DG descriptions and their limiter patches, SolutionUpdate those of
\* computing solvers, the others all.
Resets(kind) ==
  CASE kind = "NeighbourDataDropping" -> {}
    [] kind \in {"Prediction", "PredictionRerun", "GlobalRecomputation"} ->
         Solvers \ {"FiniteVolumes"}
    [] OTHER -> Solvers

-----------------------------------------------------------------------------
VARIABLES sweep, todo,          \* the current sweep, those that follow by now
          forward,              \* direction of the traversal
          stage, rest,          \* of each rank: where it is in its traversal,
                                \*   and the vertices it still has to touch
          mergePerformed,       \* pairs <<side, solver>> with the flag set
          counter,              \* faceDataExchangeCounter
          mail, outbox,         \* per pair of ranks: messages sent in the last
                                \*   sweep that sent, and in this one
          merges                \* history: merges of each side in this sweep

vars == <<sweep, todo, forward, stage, rest, mergePerformed, counter, mail,
          outbox, merges>>

Channels == {p \in Ranks \X Ranks : p[1] # p[2]}

\* A faulty form that also counts vertices at the domain boundary.
ListingsAtAllVertices(s) ==
  Cardinality({v \in Vertices : s \in SidesAt(v)})

\* The vertices at which the data of a face may be exchanged.
InsideVertices(s) == {v \in Vertices : IsInside(v) /\ s \in SidesAt(v)}

\* How often the vertices of a face list the remote rank: the value that
\* resetNeighbourMergeHelperVariables gives the counter, TwoPowerD for none.
Listings(s) ==
  LET n == Cardinality(InsideVertices(s))
  IN  IF n = 0 THEN TwoPowerD ELSE n

\* The vertices that rank r touches, and which of those left is the next.
Touches(r) == {v \in Vertices : \E c \in Around(v) \cap Cells : Owner[c] = r}

TouchedBefore(isForward, v, w) ==
  IF isForward THEN Turn[v] < Turn[w] ELSE Turn[w] < Turn[v]

IsNext(v, r) == v \in rest[r] /\ \A w \in rest[r] \ {v} : TouchedBefore(forward, v, w)

\* The sides of rank `to` that get a message from rank `from` at vertex v:
\* hasToSendMetadata and hasToReceiveMetadata.
ExchangedAt(v, from, to) ==
  IF IsInside(v)
  THEN {s \in SidesAt(v) : Owner[s[1]] = to /\ Owner[s[2]] = from} ELSE {}

\* dfor2 visits the positions around a vertex in this order, and two nested
\* dfor2, for dest and src, the sides.
Before(p, q) == p[2] < q[2] \/ (p[2] = q[2] /\ p[1] < q[1])
SideBefore(s, t) == Before(s[1], t[1]) \/ (s[1] = t[1] /\ Before(s[2], t[2]))

SendOrder(v, from, to) ==
  CHOOSE q \in SetToSeqs(ExchangedAt(v, from, to)) :
    \A i, j \in DOMAIN q : i < j => SideBefore(q[i], q[j])

\* A faulty form that visits dest and src instead.
ReceiveOrderOfSends(v, from, to) == SendOrder(v, from, to)

\* mergeWithNeighbour visits 1-dest and 1-src.
ReceiveOrder(v, from, to) ==
  CHOOSE q \in SetToSeqs(ExchangedAt(v, from, to)) :
    \A i, j \in DOMAIN q : i < j => SideBefore(q[j], q[i])

\* A message is face data, or empty if not real.
AllMessages == [vertex : Vertices, side : RemoteSides, real : BOOLEAN]

NoMail == [p \in Channels |-> <<>>]

\* The counters stay between zero and the value of a face that exchanges
\* nothing (asserted in Vertex::tryDecrementFaceDataExchangeCountersOfSource),
\* whatever the order of the sweeps.
TypeOK ==
  /\ sweep \in Sweeps /\ todo \in Seq(Sweeps)
  /\ forward \in BOOLEAN
  /\ stage \in [Ranks -> {"FirstTouches", "LastTouches"}]
  /\ rest \in [Ranks -> SUBSET Vertices]
  /\ mergePerformed \subseteq Sides \X Solvers
  /\ counter \in [RemoteSides \X Solvers -> 0..TwoPowerD]
  /\ {mail, outbox} \subseteq [Channels -> Seq(AllMessages)]
  /\ merges \in [Sides -> Nat]

-----------------------------------------------------------------------------
\* The initial mesh is finished and all descriptions were reset.
Init ==
  /\ sweep = "Prediction" /\ todo = <<"ADERDGTimeStep">>
  /\ forward = TRUE
  /\ stage = [r \in Ranks |-> "FirstTouches"]
  /\ rest = [r \in Ranks |-> Touches(r)]
  /\ mergePerformed = {}
  /\ counter = [x \in RemoteSides \X Solvers |-> Listings(x[1])]
  /\ mail = NoMail /\ outbox = NoMail
  /\ merges = [s \in Sides |-> 0]

\* hasToMergeNeighbours, hasToMergeWithBoundaryData
HasToMerge(r, s) ==
  /\ Owner[s[1]] = r
  /\ IF s[2] \in Cells
     THEN /\ Owner[s[2]] = r
          /\ \A x \in Solvers : {<<s, x>>, <<Opposite(s), x>>} \cap mergePerformed = {}
     ELSE \E x \in Solvers : <<s, x>> \notin mergePerformed

HasToMergeWithNeighbourData(s) == \A x \in Solvers : counter[<<s, x>>] = 0

Count(S) == [s \in Sides |-> IF s \in S THEN merges[s] + 1 ELSE merges[s]]

\* A faulty form that leaves the counters of a merged face alone.
SetNoCounters(S) == counter

\* setFaceDataExchangeCountersOfDestination(src,dest,TWO_POWER_D)
SetCountersOfDestination(S) ==
  [x \in DOMAIN counter |-> IF x[1] \in S THEN TwoPowerD ELSE counter[x]]

\* mergeWithNeighbour, then touchVertexFirstTime, at the next vertex of rank
\* r.  A receive waits until there is a message for it.
TouchVertexFirstTime(r, v) ==
  /\ stage[r] = "FirstTouches" /\ IsNext(v, r)
  /\ rest' = [rest EXCEPT ![r] = @ \ {v}]
  /\ LET expected(q) == IF sweep \in ReceivingSweeps THEN ReceiveOrder(v, q, r) ELSE <<>>
         senders == Ranks \ {r}
         remote == UNION {Range(expected(q)) : q \in senders}
         exchanged == {s \in remote : HasToMergeWithNeighbourData(s)}
         local == IF sweep \in MergingSweeps THEN {s \in SidesAt(v) : HasToMerge(r, s)} ELSE {}
     IN  /\ \A q \in senders : Len(mail[<<q, r>>]) >= Len(expected(q))
         /\ mail' = [p \in Channels |->
              IF p[2] = r
              THEN SubSeq(mail[p], 1, Len(mail[p]) - Len(expected(p[1]))) ELSE mail[p]]
         /\ counter' = SetCountersOfDestination(exchanged)
         /\ mergePerformed' = mergePerformed \cup ((exchanged \cup local) \X Solvers)
         /\ merges' = IF sweep \in MergingSweeps THEN Count(exchanged \cup local) ELSE merges
  /\ UNCHANGED <<sweep, todo, forward, stage, outbox>>

\* enterCell of all cells of rank r: resetNeighbourMergeHelperVariables.
\* A vertex is touched first before the cells around it are entered and last
\* after they were left, so the cells of a rank may be taken together.
EnterCells(r) ==
  /\ stage[r] = "FirstTouches" /\ rest[r] = {}
  /\ stage' = [stage EXCEPT ![r] = "LastTouches"]
  /\ rest' = [rest EXCEPT ![r] = Touches(r)]
  /\ counter' = [x \in DOMAIN counter |->
       IF Owner[x[1][1]] = r /\ x[2] \in Resets(sweep) THEN Listings(x[1]) ELSE counter[x]]
  /\ mergePerformed' =
       {y \in mergePerformed : Owner[y[1][1]] # r \/ y[2] \notin Resets(sweep)}
  /\ UNCHANGED <<sweep, todo, forward, mail, outbox, merges>>

\* tryDecrementFaceDataExchangeCountersOfSource; the message is named after
\* the side that receives it, the counter after the one that sends it.
Decremented(sides) ==
  [x \in DOMAIN counter |-> IF Opposite(x[1]) \in sides THEN counter[x] - 1 ELSE counter[x]]

\* hasToSendDataToNeighbour decides between face data and an empty message.
Message(v, side) ==
  [vertex |-> v, side |-> side,
   real |-> \A x \in Solvers : Decremented({side})[<<Opposite(side), x>>] = 0]

\* prepareSendToNeighbour at the next vertex of rank r.
TouchVertexLastTime(r, v) ==
  /\ stage[r] = "LastTouches" /\ IsNext(v, r)
  /\ rest' = [rest EXCEPT ![r] = @ \ {v}]
  /\ LET sides(to) == IF sweep \in SendingSweeps THEN SendOrder(v, r, to) ELSE <<>>
         messages(to) == [i \in DOMAIN sides(to) |-> Message(v, sides(to)[i])]
     IN  /\ counter' = Decremented(UNION {Range(sides(to)) : to \in Ranks \ {r}})
         /\ outbox' = [p \in Channels |->
              IF p[1] = r THEN outbox[p] \o messages(p[2]) ELSE outbox[p]]
  /\ UNCHANGED <<sweep, todo, forward, stage, mergePerformed, mail, merges>>

\* The sweeps the runner runs after a time step: those for the request, the
\* rerun of the predictor if its step size was unstable, and the next step.
Plans == {SweepsFor(request) \o rerun \o <<"ADERDGTimeStep">> :
            request \in Requests \cup {"Nothing"}, rerun \in {<<>>, <<"PredictionRerun">>}}

\* All ranks are through; the runner iterates again, in the other direction.
EndIteration ==
  /\ \A r \in Ranks : stage[r] = "LastTouches" /\ rest[r] = {}
  /\ \E plan \in IF todo = <<>> THEN Plans ELSE {todo} :
       sweep' = Head(plan) /\ todo' = Tail(plan)
  /\ forward' = ~forward
  /\ stage' = [r \in Ranks |-> "FirstTouches"]
  /\ rest' = [r \in Ranks |-> Touches(r)]
  /\ mail' = IF sweep \in SendingSweeps THEN outbox ELSE mail
  /\ outbox' = NoMail
  /\ merges' = [s \in Sides |-> 0]
  /\ UNCHANGED <<mergePerformed, counter>>

Next == \/ \E r \in Ranks :
             \/ \E v \in Vertices : TouchVertexFirstTime(r, v) \/ TouchVertexLastTime(r, v)
             \/ EnterCells(r)
        \/ EndIteration

Spec == Init /\ [][Next]_vars

-----------------------------------------------------------------------------
\* What a rank is about to receive is there and was sent from the vertex and
\* for the face it expects, although sender and receiver visit vertices and
\* faces of a vertex in opposite orders (the heap compares positions); and it
\* is face data where the rank's own counter asks for some (the receiver calls
\* mergeWithNeighbourData) and empty where not, although the sender decided so
\* by a counter of its own.
MessagesFit ==
  \A r \in Ranks, v \in Vertices : \A q \in Ranks \ {r} :
    sweep \in ReceivingSweeps /\ stage[r] = "FirstTouches" /\ IsNext(v, r) =>
      LET expected == ReceiveOrder(v, q, r)
          box == mail[<<q, r>>]
      IN  /\ Len(box) >= Len(expected)
          /\ \A i \in DOMAIN expected :
               LET m == box[Len(box) + 1 - i]
               IN  /\ m.vertex = v /\ m.side = expected[i]
                   /\ m.real <=> HasToMergeWithNeighbourData(m.side)

\* When a time step updates a cell, all its faces have been merged: asserted
\* in ADERDGSolver::updateSolution.
FacesMergedBeforeUpdate ==
  \A r \in Ranks :
    sweep = "ADERDGTimeStep" /\ stage[r] = "FirstTouches" /\ rest[r] = {} =>
      \A s \in Sides : Owner[s[1]] = r => {s} \X Solvers \subseteq mergePerformed

\* The sides whose face data is under way, and how often data was sent for each.
RealIn(box) == {i \in DOMAIN box : box[i].real}
RealSides(box) == {box[i].side : i \in RealIn(box)}
Offered == UNION {RealSides(mail[p]) : p \in Channels}
Sent == [s \in RemoteSides |->
           LET box == outbox[<<Owner[s[2]], Owner[s[1]]>>]
           IN  Cardinality({i \in RealIn(box) : box[i].side = s})]

\* The face data under way is merged once into every face, in the sweep after
\* it was sent; no face of a cell is merged twice, none is forgotten, and
\* nothing is sent before its cell has merged.
Faces == INSTANCE FaceMerging WITH
  Merging <- MergingSweeps, Receiving <- ReceivingSweeps, Sending <- SendingSweeps,
  offered <- Offered, sent <- Sent

ImplementsFaceMerging == Faces!Spec
=============================================================================
