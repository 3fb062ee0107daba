-------------------------- MODULE FaceExchangeProofs --------------------------
(***************************************************************************)
(* Proofs about FaceExchange for grids of any size, any number of ranks    *)
(* and any distribution of the cells among them, any order of the          *)
(* vertices, and any solvers but a pure Finite Volumes one.                *)
(***************************************************************************)
EXTENDS FaceExchange, FiniteSetTheorems, TLAPS

\* The sweeps that follow the mapping Prediction without a pure Finite Volumes
\* solver find all merge flags and counters reset (see Resets).
NoFiniteVolumes == "FiniteVolumes" \notin Solvers

\* The runner drops or merges face data only in the sweep after it was sent.
SentBeforeReceived(sweeps) ==
  \A i \in 2..Len(sweeps) : sweeps[i] \in ReceivingSweeps => sweeps[i - 1] \in SendingSweeps

SweepsFit ==
  /\ SentBeforeReceived(<<sweep>> \o todo)
  /\ todo = <<>> => sweep = "ADERDGTimeStep"
  /\ todo # <<>> => todo[Len(todo)] = "ADERDGTimeStep"

\* A rank has touched the vertices that come before those left.
RestFits ==
  \A r \in Ranks :
    /\ rest[r] \subseteq Touches(r)
    /\ \A v \in rest[r], w \in Touches(r) \ rest[r] : TouchedBefore(forward, w, v)

\* Where a side meets its neighbour's data, and whether it was there.
MeetingPlaces(s) ==
  IF s \in RemoteSides THEN InsideVertices(s) ELSE {v \in Vertices : s \in SidesAt(v)}

HasMet(s) == ~ (MeetingPlaces(s) \subseteq rest[Owner[s[1]]])

\* The counter is zero until the side has met its neighbour's data, and then
\* counts the vertices left.
CountersFit ==
  \A s \in RemoteSides, x \in Solvers :
    LET r == Owner[s[1]] IN
    /\ stage[r] = "FirstTouches" /\ sweep \in ReceivingSweeps =>
         counter[<<s, x>>] = IF HasMet(s) THEN TwoPowerD ELSE 0
    /\ stage[r] = "LastTouches" /\ sweep \in SendingSweeps =>
         counter[<<s, x>>] = Cardinality(InsideVertices(s) \cap rest[r])

\* The flag says whether the side has met its neighbour's data in this sweep.
FlagsFit ==
  \A s \in Sides, x \in Solvers :
    LET r == Owner[s[1]] IN
    /\ stage[r] = "FirstTouches" /\ sweep \in MergingSweeps =>
         (<<s, x>> \in mergePerformed <=> HasMet(s))
    /\ stage[r] = "LastTouches" /\ sweep # "NeighbourDataDropping" =>
         <<s, x>> \notin mergePerformed

MergesFit ==
  \A s \in Sides :
    merges[s] = IF sweep \in MergingSweeps /\ (stage[Owner[s[1]]] = "LastTouches" \/ HasMet(s))
                THEN 1 ELSE 0

\* The messages for the touches of the vertices V in a sweep in the given
\* direction: the data goes with the last of them.
IsLastTouch(v, s, isForward) ==
  \A w \in InsideVertices(s) \ {v} : TouchedBefore(isForward, w, v)

Messages(p, V, isForward) ==
  {m \in AllMessages :
     /\ m.vertex \in V /\ m.side \in ExchangedAt(m.vertex, p[1], p[2])
     /\ m.real = IsLastTouch(m.vertex, m.side, isForward)}

\* They lie in the order they were sent in.
IsStacked(box, isForward) ==
  \A i, j \in DOMAIN box : i < j =>
    \/ TouchedBefore(isForward, box[i].vertex, box[j].vertex)
    \/ box[i].vertex = box[j].vertex /\ SideBefore(box[i].side, box[j].side)

MailFits ==
  sweep \in ReceivingSweeps => \A p \in Channels :
    /\ IsStacked(mail[p], ~forward)
    /\ Range(mail[p]) = IF stage[p[2]] = "FirstTouches"
                        THEN Messages(p, rest[p[2]], ~forward) ELSE {}

OutboxFits ==
  \A p \in Channels :
    /\ IsStacked(outbox[p], forward)
    /\ Range(outbox[p]) = IF sweep \in SendingSweeps /\ stage[p[1]] = "LastTouches"
                          THEN Messages(p, Touches(p[1]) \ rest[p[1]], forward) ELSE {}

ExchangeInv ==
  /\ TypeOK /\ SweepsFit /\ RestFits
  /\ CountersFit /\ FlagsFit /\ MergesFit
  /\ MailFits /\ OutboxFits
-----------------------------------------------------------------------------
(***************************************************************************)
(* The grid.                                                               *)
(***************************************************************************)

\* A side and the vertices of its face, in coordinates.
LEMMA CoordinatesOfSides ==
  ASSUME NEW s \in Sides
  PROVE  \E a \in 1..Columns, b \in 1..Rows, c \in 0..Columns + 1, d \in 0..Rows + 1 :
           /\ s = <<<<a, b>>, <<c, d>>>>
           /\ (a = c /\ b - d \in {-1, 1}) \/ (b = d /\ a - c \in {-1, 1})
           /\ \A x \in 0..Columns, y \in 0..Rows :
                s \in SidesAt(<<x, y>>) <=>
                  /\ a \in {x, x + 1} /\ b \in {y, y + 1}
                  /\ c \in {x, x + 1} /\ d \in {y, y + 1}
<1>1. s \in Cells \X Positions /\ ShareFace(s[1], s[2])
  BY DEF Sides
<1>2. PICK a \in 1..Columns, b \in 1..Rows, c \in 0..Columns + 1, d \in 0..Rows + 1 :
        s = <<<<a, b>>, <<c, d>>>>
  BY <1>1 DEF Cells, Positions
<1>3. (a = c /\ b - d \in {-1, 1}) \/ (b = d /\ a - c \in {-1, 1})
  BY <1>1, <1>2 DEF ShareFace
<1>4. ASSUME NEW x \in 0..Columns, NEW y \in 0..Rows
      PROVE  s \in SidesAt(<<x, y>>) <=>
                  /\ a \in {x, x + 1} /\ b \in {y, y + 1}
                  /\ c \in {x, x + 1} /\ d \in {y, y + 1}
  BY <1>2 DEF SidesAt, Around
<1> QED
  BY <1>2, <1>3, <1>4

\* The vertices around which all cells lie in the grid.
LEMMA InsideInCoordinates ==
  ASSUME NEW x \in 0..Columns, NEW y \in 0..Rows
  PROVE  IsInside(<<x, y>>) <=> x \in 1..Columns - 1 /\ y \in 1..Rows - 1
<1>1. Columns \in Nat /\ Rows \in Nat
  BY FaceExchangeAssumption
<1>2. Around(<<x, y>>) = {x, x + 1} \X {y, y + 1}
  BY DEF Around
<1>3. x \in {x, x + 1} /\ x + 1 \in {x, x + 1} /\ y \in {y, y + 1} /\ y + 1 \in {y, y + 1}
  OBVIOUS
<1>4. <<x, y>> \in Around(<<x, y>>) /\ <<x + 1, y + 1>> \in Around(<<x, y>>)
  BY <1>2, <1>3
<1>5. ASSUME Around(<<x, y>>) \subseteq Cells
      PROVE  x \in 1..Columns - 1 /\ y \in 1..Rows - 1
  <2>1. <<x, y>> \in (1..Columns) \X (1..Rows) /\ <<x + 1, y + 1>> \in (1..Columns) \X (1..Rows)
    BY <1>4, <1>5 DEF Cells
  <2> QED
    BY <2>1, <1>1
<1>6. ASSUME x \in 1..Columns - 1, y \in 1..Rows - 1
      PROVE  Around(<<x, y>>) \subseteq Cells
  <2>1. {x, x + 1} \subseteq 1..Columns /\ {y, y + 1} \subseteq 1..Rows
    BY <1>6, <1>1
  <2> QED
    BY <2>1, <1>2 DEF Cells
<1> QED
  BY <1>5, <1>6 DEF IsInside

\* A face has a vertex, at most two, and between two cells one inside the grid.
LEMMA VerticesOfFaces ==
  ASSUME NEW s \in Sides
  PROVE  /\ {v \in Vertices : s \in SidesAt(v)} # {}
         /\ s[2] \in Cells => InsideVertices(s) # {}
         /\ IsFiniteSet(InsideVertices(s)) /\ Cardinality(InsideVertices(s)) <= 2
<1>1. PICK a \in 1..Columns, b \in 1..Rows, c \in 0..Columns + 1, d \in 0..Rows + 1 :
        /\ s = <<<<a, b>>, <<c, d>>>>
        /\ (a = c /\ b - d \in {-1, 1}) \/ (b = d /\ a - c \in {-1, 1})
        /\ \A x \in 0..Columns, y \in 0..Rows :
             s \in SidesAt(<<x, y>>) <=>
               /\ a \in {x, x + 1} /\ b \in {y, y + 1}
               /\ c \in {x, x + 1} /\ d \in {y, y + 1}
  BY CoordinatesOfSides
<1>2. Columns \in Nat \ {0, 1} /\ Rows \in Nat \ {0, 1}
  BY FaceExchangeAssumption
<1> DEFINE x0 == IF a = c THEN a ELSE IF a < c THEN a ELSE c
           y0 == IF b = d THEN b ELSE IF b < d THEN b ELSE d
           x1 == IF a = c THEN a - 1 ELSE x0
           y1 == IF b = d THEN b - 1 ELSE y0
<1>3. /\ x0 \in 0..Columns /\ y0 \in 0..Rows /\ x1 \in 0..Columns /\ y1 \in 0..Rows
      /\ a \in {x0, x0 + 1} /\ b \in {y0, y0 + 1} /\ c \in {x0, x0 + 1} /\ d \in {y0, y0 + 1}
      /\ a \in {x1, x1 + 1} /\ b \in {y1, y1 + 1} /\ c \in {x1, x1 + 1} /\ d \in {y1, y1 + 1}
  BY <1>1, <1>2
<1>4. /\ <<x0, y0>> \in Vertices /\ s \in SidesAt(<<x0, y0>>)
      /\ <<x1, y1>> \in Vertices /\ s \in SidesAt(<<x1, y1>>)
  <2> HIDE DEF x0, y0, x1, y1
  <2> QED
    BY <1>1, <1>3 DEF Vertices
<1>5. s[2] \in Cells =>
        (x0 \in 1..Columns - 1 /\ y0 \in 1..Rows - 1) \/ (x1 \in 1..Columns - 1 /\ y1 \in 1..Rows - 1)
  <2>1. s[2] \in Cells => c \in 1..Columns /\ d \in 1..Rows
    BY <1>1 DEF Cells
  <2> QED
    BY <2>1, <1>1, <1>2
<1>6. s[2] \in Cells => <<x0, y0>> \in InsideVertices(s) \/ <<x1, y1>> \in InsideVertices(s)
  <2> HIDE DEF x0, y0, x1, y1
  <2> QED
    BY <1>3, <1>4, <1>5, InsideInCoordinates DEF InsideVertices
<1>7. ASSUME NEW x \in 0..Columns, NEW y \in 0..Rows,
             a \in {x, x + 1} /\ b \in {y, y + 1} /\ c \in {x, x + 1} /\ d \in {y, y + 1}
      PROVE  (x = x0 /\ y = y0) \/ (x = x1 /\ y = y1)
  BY <1>1, <1>7
<1>8. InsideVertices(s) \subseteq {<<x0, y0>>, <<x1, y1>>}
  <2> HIDE DEF x0, y0, x1, y1
  <2> SUFFICES ASSUME NEW v \in InsideVertices(s)
               PROVE  v \in {<<x0, y0>>, <<x1, y1>>}
    OBVIOUS
  <2>1. PICK x \in 0..Columns, y \in 0..Rows : v = <<x, y>>
    BY DEF InsideVertices, Vertices
  <2>2. s \in SidesAt(<<x, y>>)
    BY <2>1 DEF InsideVertices
  <2> QED
    BY <2>1, <2>2, <1>1, <1>7
<1>9. IsFiniteSet({<<x0, y0>>, <<x1, y1>>}) /\ Cardinality({<<x0, y0>>, <<x1, y1>>}) <= 2
  <2>1. IsFiniteSet({<<x0, y0>>}) /\ Cardinality({<<x0, y0>>}) = 1
    BY FS_Singleton
  <2>2. {<<x0, y0>>, <<x1, y1>>} = {<<x0, y0>>} \cup {<<x1, y1>>}
    OBVIOUS
  <2> HIDE DEF x0, y0, x1, y1
  <2> QED
    BY <2>1, <2>2, FS_AddElement
<1> QED
  <2> HIDE DEF x0, y0, x1, y1
  <2>1. IsFiniteSet(InsideVertices(s)) /\ Cardinality(InsideVertices(s)) <= 2
    <3>1. Cardinality(InsideVertices(s)) <= Cardinality({<<x0, y0>>, <<x1, y1>>})
          /\ IsFiniteSet(InsideVertices(s))
      BY <1>8, <1>9, FS_Subset
    <3>2. Cardinality(InsideVertices(s)) \in Nat /\ Cardinality({<<x0, y0>>, <<x1, y1>>}) \in Nat
      BY <3>1, <1>9, FS_CardinalityType
    <3> QED
      BY <3>1, <3>2, <1>9
  <2> QED
    BY <2>1, <1>4, <1>6

\* The opposite side has the same face.
LEMMA OppositeSides ==
  ASSUME NEW s \in Sides, s[2] \in Cells
  PROVE  /\ Opposite(s) \in Sides /\ Opposite(Opposite(s)) = s
         /\ Opposite(s)[1] = s[2] /\ Opposite(s)[2] = s[1]
         /\ s \in RemoteSides => Opposite(s) \in RemoteSides
         /\ \A v : s \in SidesAt(v) <=> Opposite(s) \in SidesAt(v)
         /\ InsideVertices(Opposite(s)) = InsideVertices(s)
<1>1. PICK a \in 1..Columns, b \in 1..Rows, c \in 0..Columns + 1, d \in 0..Rows + 1 :
        /\ s = <<<<a, b>>, <<c, d>>>>
        /\ (a = c /\ b - d \in {-1, 1}) \/ (b = d /\ a - c \in {-1, 1})
  BY CoordinatesOfSides
<1>2. c \in 1..Columns /\ d \in 1..Rows
  BY <1>1 DEF Cells
<1>3. Opposite(s) = <<<<c, d>>, <<a, b>>>>
  BY <1>1 DEF Opposite
<1>4. <<c, d>> \in Cells /\ <<a, b>> \in Positions /\ <<a, b>> \in Cells
  BY <1>2, FaceExchangeAssumption DEF Cells, Positions
<1>5. ShareFace(<<c, d>>, <<a, b>>)
  BY <1>1 DEF ShareFace
<1>6. Opposite(s) \in Sides /\ Opposite(Opposite(s)) = s
      /\ Opposite(s)[1] = s[2] /\ Opposite(s)[2] = s[1]
  BY <1>1, <1>3, <1>4, <1>5 DEF Sides, Opposite
<1>7. s \in RemoteSides => Opposite(s) \in RemoteSides
  BY <1>1, <1>4, <1>6 DEF RemoteSides
<1>8. \A v : s \in SidesAt(v) <=> Opposite(s) \in SidesAt(v)
  BY <1>6 DEF SidesAt
<1> QED
  BY <1>6, <1>7, <1>8 DEF InsideVertices

\* The owner of a cell touches its vertices.
LEMMA OwnersTouch ==
  ASSUME NEW s \in Sides, NEW v \in Vertices, s \in SidesAt(v)
  PROVE  /\ v \in Touches(Owner[s[1]]) /\ Owner[s[1]] \in Ranks
         /\ s[2] \in Cells => v \in Touches(Owner[s[2]]) /\ Owner[s[2]] \in Ranks
<1>1. s[1] \in Cells
  BY DEF Sides
<1> QED
  BY <1>1, FaceExchangeAssumption DEF SidesAt, Touches

-----------------------------------------------------------------------------
(***************************************************************************)
(* The orders: of the vertices, of the sides at a vertex, and of the       *)
(* messages that wait for a rank.                                          *)
(***************************************************************************)

LEMMA TouchesAreOrdered ==
  ASSUME NEW d \in BOOLEAN, NEW u \in Vertices, NEW v \in Vertices, NEW w \in Vertices
  PROVE  /\ ~ TouchedBefore(d, u, u)
         /\ ~ (TouchedBefore(d, u, v) /\ TouchedBefore(d, v, u))
         /\ u # v => TouchedBefore(d, u, v) \/ TouchedBefore(d, v, u)
         /\ TouchedBefore(d, u, v) /\ TouchedBefore(d, v, w) => TouchedBefore(d, u, w)
         /\ TouchedBefore(~d, u, v) <=> TouchedBefore(d, v, u)
<1>1. Turn[u] \in Nat /\ Turn[v] \in Nat /\ Turn[w] \in Nat
  BY FaceExchangeAssumption
<1>2. u # v => Turn[u] # Turn[v]
  BY FaceExchangeAssumption DEF IsInjective
<1> QED
  BY <1>1, <1>2 DEF TouchedBefore

LEMMA SidesAreOrdered ==
  ASSUME NEW s \in Sides, NEW t \in Sides, NEW u \in Sides
  PROVE  /\ ~ SideBefore(s, s)
         /\ ~ (SideBefore(s, t) /\ SideBefore(t, s))
         /\ s # t => SideBefore(s, t) \/ SideBefore(t, s)
         /\ SideBefore(s, t) /\ SideBefore(t, u) => SideBefore(s, u)
<1>1. PICK a1 \in 1..Columns, b1 \in 1..Rows, c1 \in 0..Columns + 1, d1 \in 0..Rows + 1 :
        s = <<<<a1, b1>>, <<c1, d1>>>>
  BY CoordinatesOfSides
<1>2. PICK a2 \in 1..Columns, b2 \in 1..Rows, c2 \in 0..Columns + 1, d2 \in 0..Rows + 1 :
        t = <<<<a2, b2>>, <<c2, d2>>>>
  BY CoordinatesOfSides
<1>3. PICK a3 \in 1..Columns, b3 \in 1..Rows, c3 \in 0..Columns + 1, d3 \in 0..Rows + 1 :
        u = <<<<a3, b3>>, <<c3, d3>>>>
  BY CoordinatesOfSides
<1>4. SideBefore(s, t) <=>
        \/ b1 < b2 \/ (b1 = b2 /\ a1 < a2)
        \/ (a1 = a2 /\ b1 = b2 /\ (d1 < d2 \/ (d1 = d2 /\ c1 < c2)))
  BY <1>1, <1>2 DEF SideBefore, Before
<1>5. SideBefore(t, s) <=>
        \/ b2 < b1 \/ (b1 = b2 /\ a2 < a1)
        \/ (a1 = a2 /\ b1 = b2 /\ (d2 < d1 \/ (d1 = d2 /\ c2 < c1)))
  BY <1>1, <1>2 DEF SideBefore, Before
<1>6. SideBefore(t, u) <=>
        \/ b2 < b3 \/ (b2 = b3 /\ a2 < a3)
        \/ (a2 = a3 /\ b2 = b3 /\ (d2 < d3 \/ (d2 = d3 /\ c2 < c3)))
  BY <1>2, <1>3 DEF SideBefore, Before
<1>7. SideBefore(s, u) <=>
        \/ b1 < b3 \/ (b1 = b3 /\ a1 < a3)
        \/ (a1 = a3 /\ b1 = b3 /\ (d1 < d3 \/ (d1 = d3 /\ c1 < c3)))
  BY <1>1, <1>3 DEF SideBefore, Before
<1>8. SideBefore(s, s) <=>
        \/ b1 < b1 \/ (b1 = b1 /\ a1 < a1)
        \/ (a1 = a1 /\ b1 = b1 /\ (d1 < d1 \/ (d1 = d1 /\ c1 < c1)))
  BY <1>1 DEF SideBefore, Before
<1>9. s # t <=> (a1 # a2 \/ b1 # b2 \/ c1 # c2 \/ d1 # d2)
  BY <1>1, <1>2
<1>10. ~ SideBefore(s, s) /\ ~ (SideBefore(s, t) /\ SideBefore(t, s))
  BY <1>4, <1>5, <1>8
<1>11. s # t => SideBefore(s, t) \/ SideBefore(t, s)
  BY <1>4, <1>5, <1>9
<1>12. SideBefore(s, t) /\ SideBefore(t, u) => SideBefore(s, u)
  BY <1>4, <1>6, <1>7
<1> QED
  BY <1>10, <1>11, <1>12

\* A finite set of sides can be put in order: the place of a side is the number
\* of those before it.
LEMMA SidesCanBeSorted ==
  ASSUME NEW S \in SUBSET Sides, IsFiniteSet(S)
  PROVE  \E q \in SetToSeqs(S) : \A i, j \in DOMAIN q : i < j => SideBefore(q[i], q[j])
<1> DEFINE n == Cardinality(S)
           before(s) == {t \in S : SideBefore(t, s)}
           place == [s \in S |-> Cardinality(before(s)) + 1]
<1>1. n \in Nat
  BY FS_CardinalityType
<1>2. ASSUME NEW s \in S
      PROVE  /\ IsFiniteSet(before(s)) /\ Cardinality(before(s)) \in Nat
             /\ Cardinality(before(s)) + 1 <= n
  <2>1. before(s) \subseteq S \ {s}
    BY SidesAreOrdered
  <2>2. IsFiniteSet(S \ {s}) /\ Cardinality(S \ {s}) = n - 1
    BY FS_RemoveElement
  <2>3. IsFiniteSet(before(s)) /\ Cardinality(before(s)) <= Cardinality(S \ {s})
    BY <2>1, <2>2, FS_Subset
  <2>4. Cardinality(before(s)) \in Nat
    BY <2>3, FS_CardinalityType
  <2> QED
    BY <2>2, <2>3, <2>4, <1>1
<1>3. place \in [S -> 1..n]
  BY <1>1, <1>2
<1>4. ASSUME NEW s \in S, NEW t \in S, SideBefore(s, t)
      PROVE  place[s] < place[t]
  <2>1. before(s) \cup {s} \subseteq before(t)
    BY <1>4, SidesAreOrdered
  <2>2. s \notin before(s)
    BY SidesAreOrdered
  <2>3. IsFiniteSet(before(s) \cup {s})
        /\ Cardinality(before(s) \cup {s}) = Cardinality(before(s)) + 1
    BY <2>2, <1>2, FS_AddElement
  <2>4. Cardinality(before(s) \cup {s}) <= Cardinality(before(t))
    BY <2>1, <1>2, FS_Subset
  <2> HIDE DEF before
  <2> QED
    BY <2>3, <2>4, <1>2
<1>5. place \in Injection(S, 1..n)
  <2>1. ASSUME NEW s \in S, NEW t \in S, place[s] = place[t]
        PROVE  s = t
    <3>1. place[s] \in Nat /\ place[t] \in Nat
      BY <1>3
    <3> HIDE DEF place
    <3> QED
      BY <2>1, <3>1, <1>4, SidesAreOrdered
  <2> HIDE DEF place
  <2> QED
    BY <1>3, <2>1 DEF Injection, IsInjective
<1>6. place \in Surjection(S, 1..n)
  <2>1. IsFiniteSet(1..n) /\ Cardinality(1..n) = n
    BY <1>1, FS_Interval
  <2> HIDE DEF place
  <2> QED
    BY <1>5, <2>1, FS_Injection
<1> DEFINE q == [i \in 1..n |-> CHOOSE s \in S : place[s] = i]
<1> HIDE DEF place
<1>7. \A i \in 1..n : q[i] \in S /\ place[q[i]] = i
  BY <1>6 DEF Surjection
<1>8. q \in SetToSeqs(S)
  <2>1. q \in [1..n -> S]
    BY <1>7
  <2>2. \A i, j \in 1..n : i # j => q[i] # q[j]
    BY <1>7
  <2> HIDE DEF q
  <2> QED
    BY <2>1, <2>2 DEF SetToSeqs
<1>9. ASSUME NEW i \in 1..n, NEW j \in 1..n, i < j
      PROVE  SideBefore(q[i], q[j])
  <2>1. q[i] \in S /\ q[j] \in S /\ place[q[i]] = i /\ place[q[j]] = j
    BY <1>7
  <2>2. q[i] # q[j] /\ ~ SideBefore(q[j], q[i])
    BY <2>1, <1>9, <1>4, <1>1
  <2> HIDE DEF q
  <2> QED
    BY <2>1, <2>2, SidesAreOrdered
<1>10. DOMAIN q = 1..n
  OBVIOUS
<1> HIDE DEF q
<1> QED
  BY <1>8, <1>9, <1>10

LEMMA SidesAtVertices ==
  ASSUME NEW v \in Vertices, NEW from \in Ranks, NEW to \in Ranks, from # to
  PROVE  /\ ExchangedAt(v, from, to) \subseteq RemoteSides
         /\ \A s \in RemoteSides : s \in ExchangedAt(v, from, to) <=>
              v \in InsideVertices(s) /\ Owner[s[1]] = to /\ Owner[s[2]] = from
         /\ IsFiniteSet(ExchangedAt(v, from, to))
<1>1. ASSUME NEW s \in ExchangedAt(v, from, to)
      PROVE  s \in RemoteSides
  <2>1. IsInside(v) /\ s \in SidesAt(v) /\ Owner[s[1]] = to /\ Owner[s[2]] = from
    BY DEF ExchangedAt
  <2>2. s \in Sides /\ s[2] \in Cells
    BY <2>1 DEF SidesAt, IsInside
  <2> QED
    BY <2>1, <2>2 DEF RemoteSides
<1>2. ASSUME NEW s \in RemoteSides
      PROVE  s \in ExchangedAt(v, from, to) <=>
              v \in InsideVertices(s) /\ Owner[s[1]] = to /\ Owner[s[2]] = from
  BY DEF ExchangedAt, InsideVertices
<1>3. IsFiniteSet(ExchangedAt(v, from, to))
  <2>1. \A a, b : IsFiniteSet({a, b})
    <3> SUFFICES ASSUME NEW a, NEW b
                 PROVE  IsFiniteSet({a, b})
      OBVIOUS
    <3>1. {a, b} = {a} \cup {b} /\ IsFiniteSet({a})
      BY FS_Singleton
    <3> QED
      BY <3>1, FS_AddElement
  <2>2. IsFiniteSet({v[1], v[1] + 1} \X {v[2], v[2] + 1})
    BY <2>1, FS_Product
  <2>3. IsFiniteSet(Around(v) \X Around(v))
    BY <2>2, FS_Product DEF Around
  <2>4. ExchangedAt(v, from, to) \subseteq Around(v) \X Around(v)
    BY DEF ExchangedAt, SidesAt, Sides
  <2> QED
    BY <2>3, <2>4, FS_Subset
<1> QED
  BY <1>1, <1>2, <1>3

\* Both sequences hold the sides that are exchanged, the one in the order of the
\* loops, the other in the opposite order.
LEMMA OrdersAtVertices ==
  ASSUME NEW v \in Vertices, NEW from \in Ranks, NEW to \in Ranks, from # to
  PROVE  /\ SendOrder(v, from, to) \in Seq(RemoteSides)
         /\ Range(SendOrder(v, from, to)) = ExchangedAt(v, from, to)
         /\ \A i, j \in DOMAIN SendOrder(v, from, to) :
              i < j => SideBefore(SendOrder(v, from, to)[i], SendOrder(v, from, to)[j])
         /\ ReceiveOrder(v, from, to) \in Seq(RemoteSides)
         /\ Range(ReceiveOrder(v, from, to)) = ExchangedAt(v, from, to)
         /\ \A i, j \in DOMAIN ReceiveOrder(v, from, to) :
              i < j => SideBefore(ReceiveOrder(v, from, to)[j], ReceiveOrder(v, from, to)[i])
<1> DEFINE S == ExchangedAt(v, from, to)
           n == Cardinality(S)
<1>1. S \subseteq RemoteSides /\ IsFiniteSet(S) /\ n \in Nat
  BY SidesAtVertices, FS_CardinalityType
<1>2. S \in SUBSET Sides
  BY <1>1 DEF RemoteSides
<1>3. PICK q \in SetToSeqs(S) : \A i, j \in DOMAIN q : i < j => SideBefore(q[i], q[j])
  BY <1>1, <1>2, SidesCanBeSorted
<1> DEFINE p == [i \in 1..n |-> q[n + 1 - i]]
<1>4. q \in [1..n -> S] /\ \A i, j \in 1..n : i # j => q[i] # q[j]
  BY DEF SetToSeqs
<1>5. p \in SetToSeqs(S) /\ \A i, j \in DOMAIN p : i < j => SideBefore(p[j], p[i])
  <2>1. p \in [1..n -> S] /\ \A i, j \in 1..n : i # j => p[i] # p[j]
    BY <1>1, <1>4
  <2>2. \A i, j \in 1..n : i < j => SideBefore(p[j], p[i])
    BY <1>1, <1>3, <1>4
  <2> HIDE DEF p
  <2> QED
    BY <2>1, <2>2 DEF SetToSeqs
<1>6. ASSUME NEW z \in SetToSeqs(S)
      PROVE  z \in Seq(RemoteSides) /\ Range(z) = S
  <2>1. z \in [1..n -> S] /\ \A i, j \in 1..n : i # j => z[i] # z[j]
    BY DEF SetToSeqs
  <2>2. z \in Injection(1..n, S)
    BY <2>1 DEF Injection, IsInjective
  <2>3. IsFiniteSet(1..n) /\ Cardinality(1..n) = n
    BY <1>1, FS_Interval
  <2>4. z \in Surjection(1..n, S)
    BY <1>1, <2>2, <2>3, FS_Injection
  <2>5. z \in Seq(RemoteSides)
    BY <1>1, <2>1
  <2> QED
    BY <2>1, <2>4, <2>5 DEF Surjection, Range
<1>7. /\ SendOrder(v, from, to) \in SetToSeqs(S)
      /\ \A i, j \in DOMAIN SendOrder(v, from, to) :
           i < j => SideBefore(SendOrder(v, from, to)[i], SendOrder(v, from, to)[j])
  <2>1. \E z : z \in SetToSeqs(S) /\ \A i, j \in DOMAIN z : i < j => SideBefore(z[i], z[j])
    BY <1>3
  <2> QED
    BY <2>1 DEF SendOrder
<1>8. /\ ReceiveOrder(v, from, to) \in SetToSeqs(S)
      /\ \A i, j \in DOMAIN ReceiveOrder(v, from, to) :
           i < j => SideBefore(ReceiveOrder(v, from, to)[j], ReceiveOrder(v, from, to)[i])
  <2> HIDE DEF p
  <2>1. \E z : z \in SetToSeqs(S) /\ \A i, j \in DOMAIN z : i < j => SideBefore(z[j], z[i])
    BY <1>5
  <2> QED
    BY <2>1 DEF ReceiveOrder
<1> QED
  BY <1>6, <1>7, <1>8

-----------------------------------------------------------------------------
(***************************************************************************)
(* The stack of messages.                                                  *)
(***************************************************************************)

\* On top of the stack lie the messages for the vertex that the receiver touches
\* next, in the opposite order; without them it is the stack for the other ones.
TopFits(box, p, R, d, v) ==
  LET expected == ReceiveOrder(v, p[1], p[2])
      below == SubSeq(box, 1, Len(box) - Len(expected))
  IN  /\ Len(expected) \in Nat /\ Len(box) >= Len(expected)
      /\ \A i \in DOMAIN expected :
           /\ box[Len(box) + 1 - i].vertex = v
           /\ box[Len(box) + 1 - i].side = expected[i]
      /\ below \in Seq(AllMessages) /\ IsStacked(below, d)
      /\ Range(below) = Messages(p, R \ {v}, d)

LEMMA TopOfStack ==
  ASSUME NEW p \in Channels, NEW R \in SUBSET Vertices, NEW d \in BOOLEAN, NEW v \in R,
         \A w \in R \ {v} : TouchedBefore(d, w, v),
         NEW box \in Seq(AllMessages), IsStacked(box, d), Range(box) = Messages(p, R, d)
  PROVE  TopFits(box, p, R, d, v)
<1> DEFINE e == ReceiveOrder(v, p[1], p[2])
           k == Len(e)
           L == Len(box)
<1>1. p[1] \in Ranks /\ p[2] \in Ranks /\ p[1] # p[2]
  BY DEF Channels
<1>2. /\ e \in Seq(RemoteSides) /\ Range(e) = ExchangedAt(v, p[1], p[2])
      /\ \A i, j \in DOMAIN e : i < j => SideBefore(e[j], e[i])
  BY <1>1, OrdersAtVertices
<1>3. k \in Nat /\ DOMAIN e = 1..k /\ L \in Nat /\ DOMAIN box = 1..L
      /\ \A i \in 1..k : e[i] \in RemoteSides /\ e[i] \in Sides
      /\ \A j \in 1..L : box[j] \in AllMessages
  BY <1>2 DEF RemoteSides
<1> HIDE DEF e
<1>4. ASSUME NEW j \in 1..L
      PROVE  /\ box[j] \in Messages(p, R, d)
             /\ box[j].vertex \in R /\ box[j].side \in Sides
             /\ box[j].side \in ExchangedAt(box[j].vertex, p[1], p[2])
             /\ box[j].vertex = v => \E i \in 1..k : e[i] = box[j].side
  <2>1. box[j] \in Messages(p, R, d)
    BY <1>3 DEF Range
  <2>2. box[j].vertex \in R /\ box[j].side \in ExchangedAt(box[j].vertex, p[1], p[2])
        /\ box[j].side \in Sides
    BY <2>1 DEF Messages, AllMessages, RemoteSides
  <2>3. ASSUME box[j].vertex = v
        PROVE  \E i \in 1..k : e[i] = box[j].side
    BY <2>2, <2>3, <1>2, <1>3 DEF Range
  <2> QED
    BY <2>1, <2>2, <2>3
<1>5. ASSUME NEW i \in 1..k
      PROVE  \E j \in 1..L : box[j].vertex = v /\ box[j].side = e[i]
  <2> DEFINE m == [vertex |-> v, side |-> e[i], real |-> IsLastTouch(v, e[i], d)]
  <2>1. e[i] \in ExchangedAt(v, p[1], p[2])
    BY <1>2, <1>3 DEF Range
  <2>2. IsLastTouch(v, e[i], d) \in BOOLEAN
    BY DEF IsLastTouch
  <2>3. m \in Messages(p, R, d)
    BY <2>1, <2>2, <1>3 DEF Messages, AllMessages
  <2>4. PICK j \in DOMAIN box : box[j] = m
    BY <2>3 DEF Range
  <2> QED
    BY <2>4, <1>3
<1> DEFINE h == [i \in 1..k |-> CHOOSE j \in 1..L : box[j].vertex = v /\ box[j].side = e[i]]
<1>6. \A i \in 1..k : h[i] \in 1..L /\ box[h[i]].vertex = v /\ box[h[i]].side = e[i]
  BY <1>5
<1> HIDE DEF h
\* Of two places, the one further up is that of a later message.
<1>7. ASSUME NEW i \in 1..L, NEW j \in 1..L
      PROVE  /\ i < j /\ box[i].vertex = v =>
                  box[j].vertex = v /\ SideBefore(box[i].side, box[j].side)
             /\ box[i].vertex = box[j].vertex /\ box[i].side = box[j].side => i = j
  <2>1. /\ box[i].vertex \in Vertices /\ box[j].vertex \in Vertices
        /\ box[i].side \in Sides /\ box[j].side \in Sides
    BY <1>4
  <2>2. \A a, b \in 1..L : a < b =>
          \/ TouchedBefore(d, box[a].vertex, box[b].vertex)
          \/ box[a].vertex = box[b].vertex /\ SideBefore(box[a].side, box[b].side)
    BY <1>3 DEF IsStacked
  <2>3. ~ TouchedBefore(d, box[i].vertex, box[i].vertex) /\ ~ SideBefore(box[i].side, box[i].side)
    BY <2>1, TouchesAreOrdered, SidesAreOrdered
  <2>4. ASSUME i < j, box[i].vertex = v
        PROVE  box[j].vertex = v /\ SideBefore(box[i].side, box[j].side)
    <3>1. ~ TouchedBefore(d, v, box[j].vertex)
      BY <1>4, <2>1, TouchesAreOrdered
    <3> QED
      BY <2>2, <2>4, <3>1
  <2>5. ASSUME box[i].vertex = box[j].vertex, box[i].side = box[j].side
        PROVE  i = j
    <3>1. ~ i < j /\ ~ j < i
      BY <2>2, <2>3, <2>5
    <3> QED
      BY <3>1, <1>3
  <2> QED
    BY <2>4, <2>5
<1>8. ASSUME NEW i \in 1..k, NEW j \in 1..k
      PROVE  h[i] < h[j] <=> j < i
  <2>1. h[i] < h[j] => SideBefore(e[i], e[j])
    BY <1>6, <1>7
  <2>2. j < i => SideBefore(e[i], e[j])
    BY <1>2, <1>3
  <2>3. i < j => SideBefore(e[j], e[i])
    BY <1>2, <1>3
  <2>4. ~ SideBefore(e[i], e[i]) /\ ~ (SideBefore(e[i], e[j]) /\ SideBefore(e[j], e[i]))
    BY <1>3, SidesAreOrdered
  <2>5. h[j] < h[i] => SideBefore(e[j], e[i])
    BY <1>6, <1>7
  <2>6. h[i] \in Int /\ h[j] \in Int
    BY <1>6
  <2>7. h[i] = h[j] => e[i] = e[j]
    BY <1>6
  <2>8. CASE i = j
    BY <2>1, <2>4, <2>8
  <2>9. CASE i < j
    BY <2>1, <2>3, <2>4, <2>9
  <2>10. CASE j < i
    BY <2>2, <2>4, <2>5, <2>6, <2>7, <2>10
  <2> QED
    BY <2>8, <2>9, <2>10
<1>9. ASSUME NEW j \in 1..L, box[j].vertex = v
      PROVE  \E i \in 1..k : h[i] = j
  <2>1. PICK i \in 1..k : e[i] = box[j].side
    BY <1>4, <1>9
  <2>2. h[i] = j
    BY <2>1, <1>6, <1>7, <1>9
  <2> QED
    BY <2>2
\* The place of the i-th expected message: above it lie those before.
<1>10. ASSUME NEW i \in 1..k
       PROVE  h[i] = L + 1 - i
  <2> DEFINE above == [m \in 1..(i - 1) |-> h[m]]
             S == 1..(i - 1)
             T == (h[i] + 1)..L
  <2>1. h[i] \in 1..L /\ i \in Nat /\ \A m \in S : m \in 1..k
    BY <1>3, <1>6
  <2>2. \A m \in S : h[m] \in T
    <3> SUFFICES ASSUME NEW m \in S
                 PROVE  h[m] \in T
      OBVIOUS
    <3>1. m \in 1..k /\ m < i
      BY <2>1
    <3>2. h[i] < h[m] /\ h[m] \in 1..L /\ h[i] \in 1..L
      BY <3>1, <1>6, <1>8
    <3> QED
      BY <3>2, <1>3
  <2>3. \A m, o \in S : h[m] = h[o] => m = o
    BY <2>1, <1>8, <1>6
  <2>4. ASSUME NEW j \in T
        PROVE  \E m \in S : h[m] = j
    <3>1. j \in 1..L /\ h[i] < j
      BY <2>1
    <3>2. box[j].vertex = v
      BY <3>1, <2>1, <1>6, <1>7
    <3>3. PICK m \in 1..k : h[m] = j
      BY <3>1, <3>2, <1>9
    <3>4. m < i
      BY <3>1, <3>3, <1>8
    <3> QED
      BY <3>3, <3>4
  <2>5. above \in [S -> T] /\ above \in Bijection(S, T)
    BY <2>2, <2>3, <2>4 DEF Bijection, Injection, Surjection, IsInjective
  <2>6. IsFiniteSet(S) /\ Cardinality(S) = i - 1 /\ Cardinality(T) = L - h[i]
    <3>1. Cardinality(T) = IF h[i] + 1 > L THEN 0 ELSE L - (h[i] + 1) + 1
      <4>1. h[i] + 1 \in Int /\ L \in Int
        BY <2>1, <1>3
      <4> HIDE DEF L
      <4> QED
        BY <4>1, FS_Interval
    <3>2. IsFiniteSet(S) /\ Cardinality(S) = IF 1 > i - 1 THEN 0 ELSE (i - 1) - 1 + 1
      BY <2>1, FS_Interval
    <3> QED
      BY <3>1, <3>2, <2>1, <1>3
  <2>7. ExistsBijection(S, T)
    BY <2>5 DEF ExistsBijection
  <2>8. Cardinality(T) = Cardinality(S)
    BY <2>6, <2>7, FS_Bijection
  <2> QED
    BY <2>1, <2>6, <2>8, <1>3
<1>11. L >= k
  <2>1. CASE k = 0
    BY <2>1, <1>3
  <2>2. CASE k > 0
    <3>1. h[k] = L + 1 - k /\ h[k] \in 1..L
      BY <2>2, <1>3, <1>6, <1>10
    <3> QED
      BY <3>1, <1>3
  <2> QED
    BY <2>1, <2>2, <1>3
<1>12. \A i \in 1..k : box[L + 1 - i].vertex = v /\ box[L + 1 - i].side = e[i]
  BY <1>6, <1>10
<1> DEFINE below == SubSeq(box, 1, L - k)
<1>13. below \in Seq(AllMessages) /\ Len(below) = L - k
       /\ DOMAIN below = 1..(L - k) /\ \A j \in 1..(L - k) : below[j] = box[j] /\ j \in 1..L
  <2>1. L - k \in Nat /\ L - k <= L
    BY <1>3, <1>11
  <2>2. below = [j \in 1..(L - k) |-> box[j]]
    BY <2>1
  <2>3. \A j \in 1..(L - k) : box[j] \in AllMessages
    BY <2>1, <1>3
  <2>4. below \in [1..(L - k) -> AllMessages]
    <3> HIDE DEF below, L, k
    <3> QED
      BY <2>2, <2>3
  <2> HIDE DEF below
  <2> QED
    BY <2>1, <2>2, <2>4, <1>3
<1> HIDE DEF below
<1>14. IsStacked(below, d)
  BY <1>3, <1>13 DEF IsStacked
<1>15. ASSUME NEW j \in 1..L
       PROVE  j \in 1..(L - k) <=> box[j].vertex # v
  <2>1. ASSUME j \in 1..(L - k), box[j].vertex = v
        PROVE  FALSE
    <3>1. PICK i \in 1..k : h[i] = j
      BY <2>1, <1>9
    <3> QED
      BY <3>1, <2>1, <1>3, <1>10
  <2>2. ASSUME j \notin 1..(L - k)
        PROVE  box[j].vertex = v
    <3>1. L + 1 - j \in 1..k /\ L + 1 - (L + 1 - j) = j
      BY <2>2, <1>3, <1>11
    <3> QED
      BY <3>1, <1>12
  <2> QED
    BY <2>1, <2>2
<1>16. Range(below) = Messages(p, R \ {v}, d)
  <2>1. ASSUME NEW j \in 1..(L - k)
        PROVE  below[j] \in Messages(p, R \ {v}, d)
    <3>1. box[j] \in Messages(p, R, d) /\ box[j].vertex # v
      BY <1>4, <1>13, <1>15
    <3> QED
      BY <3>1, <1>13 DEF Messages
  <2>2. ASSUME NEW m \in Messages(p, R \ {v}, d)
        PROVE  \E j \in 1..(L - k) : below[j] = m
    <3>1. m \in Messages(p, R, d) /\ m.vertex # v
      BY DEF Messages
    <3>2. PICK j \in 1..L : box[j] = m
      BY <3>1, <1>3 DEF Range
    <3> QED
      BY <3>1, <3>2, <1>13, <1>15
  <2> QED
    BY <2>1, <2>2, <1>13 DEF Range
<1> QED
  BY <1>3, <1>11, <1>12, <1>13, <1>14, <1>16 DEF e, below, TopFits

\* The messages of one more vertex go on top.
Batch(p, v, d) ==
  LET sides == SendOrder(v, p[1], p[2])
  IN  [i \in DOMAIN sides |->
         [vertex |-> v, side |-> sides[i], real |-> IsLastTouch(v, sides[i], d)]]

LEMMA StackGrows ==
  ASSUME NEW p \in Channels, NEW V \in SUBSET Vertices, NEW d \in BOOLEAN,
         NEW v \in Vertices \ V, \A w \in V : TouchedBefore(d, w, v),
         NEW box \in Seq(AllMessages), IsStacked(box, d), Range(box) = Messages(p, V, d),
         NEW batch, batch = Batch(p, v, d)
  PROVE  /\ box \o batch \in Seq(AllMessages) /\ IsStacked(box \o batch, d)
         /\ Range(box \o batch) = Messages(p, V \cup {v}, d)
<1> DEFINE e == SendOrder(v, p[1], p[2])
           k == Len(e)
           L == Len(box)
<1>1. p[1] \in Ranks /\ p[2] \in Ranks /\ p[1] # p[2]
  BY DEF Channels
<1>2. /\ e \in Seq(RemoteSides) /\ Range(e) = ExchangedAt(v, p[1], p[2])
      /\ \A i, j \in DOMAIN e : i < j => SideBefore(e[i], e[j])
  BY <1>1, OrdersAtVertices
<1>3. k \in Nat /\ DOMAIN e = 1..k /\ L \in Nat /\ DOMAIN box = 1..L
      /\ \A i \in 1..k : e[i] \in RemoteSides
      /\ \A j \in 1..L : box[j] \in AllMessages
  BY <1>2
<1>4. /\ batch \in [1..k -> AllMessages]
      /\ \A i \in 1..k : batch[i] = [vertex |-> v, side |-> e[i], real |-> IsLastTouch(v, e[i], d)]
  <2> HIDE DEF e
  <2>1. batch = [i \in 1..k |-> [vertex |-> v, side |-> e[i], real |-> IsLastTouch(v, e[i], d)]]
    BY <1>3 DEF e, Batch
  <2>2. \A i \in 1..k : IsLastTouch(v, e[i], d) \in BOOLEAN
    BY DEF IsLastTouch
  <2>3. \A i \in 1..k : [vertex |-> v, side |-> e[i], real |-> IsLastTouch(v, e[i], d)] \in AllMessages
    BY <1>3, <2>2 DEF AllMessages
  <2> HIDE DEF k
  <2> QED
    BY <2>1, <2>3
<1> HIDE DEF e, k, L
<1>5. batch \in Seq(AllMessages) /\ Len(batch) = k
  BY <1>3, <1>4
<1> DEFINE all == box \o batch
<1>6. /\ all \in Seq(AllMessages) /\ DOMAIN all = 1..(L + k)
      /\ \A j \in 1..L : all[j] = box[j]
      /\ \A i \in 1..k : all[L + i] = batch[i]
  <2>1. box \in Seq(AllMessages) /\ Len(box) = L
    BY DEF L
  <2> QED
    BY <2>1, <1>3, <1>5
<1> HIDE DEF all
<1>7. ASSUME NEW j \in 1..(L + k), j \notin 1..L
      PROVE  j - L \in 1..k /\ all[j] = batch[j - L] /\ all[j].vertex = v /\ all[j].side = e[j - L]
  <2>1. PICK i \in 1..k : i = j - L /\ j = L + i
    BY <1>3, <1>7
  <2>2. all[L + i] = batch[i] /\ batch[i].vertex = v /\ batch[i].side = e[i]
    BY <1>4, <1>6
  <2> QED
    BY <2>1, <2>2
<1>8. ASSUME NEW j \in 1..L
      PROVE  all[j] \in Messages(p, V, d) /\ all[j].vertex \in V
  <2>1. box[j] \in Range(box)
    BY <1>3 DEF Range
  <2> QED
    BY <2>1, <1>6 DEF Messages
<1>9. ASSUME NEW i \in 1..(L + k), NEW j \in 1..(L + k), i < j
      PROVE  \/ TouchedBefore(d, all[i].vertex, all[j].vertex)
             \/ all[i].vertex = all[j].vertex /\ SideBefore(all[i].side, all[j].side)
  <2>1. CASE j \in 1..L
    <3>1. i \in 1..L
      BY <1>3, <1>9, <2>1
    <3> QED
      BY <3>1, <2>1, <1>3, <1>6, <1>9 DEF IsStacked
  <2>2. CASE i \in 1..L /\ j \notin 1..L
    BY <2>2, <1>7, <1>8
  <2>3. CASE i \notin 1..L /\ j \notin 1..L
    <3>1. i - L \in DOMAIN e /\ j - L \in DOMAIN e /\ i - L < j - L
      BY <2>3, <1>3, <1>7, <1>9
    <3> QED
      BY <3>1, <2>3, <1>2, <1>7
  <2>4. CASE i \notin 1..L /\ j \in 1..L
    BY <2>4, <1>3, <1>9
  <2> QED
    BY <2>1, <2>2, <2>3, <2>4
<1>10. IsStacked(all, d)
  BY <1>6, <1>9 DEF IsStacked
<1>11. ASSUME NEW j \in 1..(L + k)
       PROVE  all[j] \in Messages(p, V \cup {v}, d)
  <2>1. CASE j \in 1..L
    BY <2>1, <1>8 DEF Messages
  <2>2. CASE j \notin 1..L
    <3>1. e[j - L] \in ExchangedAt(v, p[1], p[2])
      BY <2>2, <1>2, <1>3, <1>7 DEF Range
    <3>2. all[j] = [vertex |-> v, side |-> e[j - L], real |-> IsLastTouch(v, e[j - L], d)]
          /\ all[j] \in AllMessages
      BY <2>2, <1>4, <1>6, <1>7
    <3>3. all[j].vertex = v /\ all[j].side = e[j - L]
          /\ all[j].real = IsLastTouch(v, e[j - L], d)
      BY <3>2
    <3>4. all[j] \in [vertex : V \cup {v}, side : RemoteSides, real : BOOLEAN]
      BY <3>2, <3>3 DEF AllMessages
    <3> QED
      BY <3>1, <3>3, <3>4 DEF Messages, AllMessages
  <2> QED
    BY <2>1, <2>2
<1>12. ASSUME NEW m \in Messages(p, V \cup {v}, d)
       PROVE  \E j \in 1..(L + k) : all[j] = m
  <2>1. CASE m.vertex \in V
    <3>1. m \in Range(box)
      BY <2>1 DEF Messages
    <3>2. PICK j \in 1..L : box[j] = m
      BY <3>1, <1>3 DEF Range
    <3> QED
      BY <3>2, <1>3, <1>6
  <2>2. CASE m.vertex = v
    <3>1. m.side \in Range(e) /\ m = [vertex |-> v, side |-> m.side, real |-> IsLastTouch(v, m.side, d)]
      BY <2>2, <1>2 DEF Messages, AllMessages
    <3>2. PICK i \in 1..k : e[i] = m.side
      BY <3>1, <1>3 DEF Range
    <3>3. L + i \in 1..(L + k) /\ all[L + i] = batch[i]
      <4>1. all[L + i] = batch[i]
        BY <1>3, <1>6, <3>2
      <4>2. i \in 1..k /\ k \in Nat /\ L \in Nat
        BY <1>3, <3>2
      <4>3. L + i \in 1..(L + k)
        BY <4>2
      <4> QED
        BY <4>1, <4>3
    <3>4. batch[i] = m
      BY <3>1, <3>2, <1>4
    <3> QED
      BY <3>3, <3>4
  <2> QED
    BY <2>1, <2>2 DEF Messages
<1>13. Range(all) = Messages(p, V \cup {v}, d)
  BY <1>6, <1>11, <1>12 DEF Range
<1> QED
  BY <1>6, <1>10, <1>13 DEF all

LEMMA NothingIsStacked ==
  ASSUME NEW p \in Channels, NEW d \in BOOLEAN
  PROVE  /\ <<>> \in Seq(AllMessages) /\ IsStacked(<<>>, d)
         /\ Range(<<>>) = {} /\ Messages(p, {}, d) = {}
  BY DEF IsStacked, Range, Messages

\* What lies ready for a rank after the sweep is what it expects in the next one.
LEMMA SentIsExpected ==
  ASSUME NEW p \in Channels, NEW d \in BOOLEAN
  PROVE  Messages(p, Touches(p[1]), d) = Messages(p, Touches(p[2]), d)
<1>1. Touches(p[1]) \subseteq Vertices /\ Touches(p[2]) \subseteq Vertices
      /\ p[1] \in Ranks /\ p[2] \in Ranks /\ p[1] # p[2]
  BY DEF Touches, Channels
<1>2. ASSUME NEW v \in Vertices, NEW s \in ExchangedAt(v, p[1], p[2])
      PROVE  v \in Touches(p[1]) /\ v \in Touches(p[2])
  <2>1. s \in RemoteSides /\ v \in InsideVertices(s) /\ Owner[s[1]] = p[2] /\ Owner[s[2]] = p[1]
    BY <1>1, SidesAtVertices
  <2>2. s \in Sides /\ s[2] \in Cells /\ s \in SidesAt(v)
    BY <2>1 DEF RemoteSides, InsideVertices
  <2> QED
    BY <2>1, <2>2, OwnersTouch
<1> QED
  BY <1>1, <1>2 DEF Messages

-----------------------------------------------------------------------------
(***************************************************************************)
(* The runner's sweeps.                                                    *)
(***************************************************************************)

LEMMA RerunsFit ==
  ASSUME NEW s \in Seq(Sweeps), NEW rerun \in {<<>>, <<"PredictionRerun">>},
         SentBeforeReceived(s), s # <<>> => s[Len(s)] \in SendingSweeps
  PROVE  LET plan == s \o rerun \o <<"ADERDGTimeStep">>
         IN  /\ plan \in Seq(Sweeps) /\ plan # <<>>
             /\ SentBeforeReceived(plan) /\ plan[Len(plan)] = "ADERDGTimeStep"
<1> USE DEF Sweeps, SendingSweeps, MergingSweeps, ReceivingSweeps
<1> DEFINE n == Len(s)
           plan == s \o rerun \o <<"ADERDGTimeStep">>
<1>1. n \in Nat /\ \A i \in 1..n : s[i] \in Sweeps
  OBVIOUS
<1>2. \A i \in 2..n : s[i] \in ReceivingSweeps => s[i - 1] \in SendingSweeps
  BY DEF SentBeforeReceived
<1>3. CASE rerun = <<>>
  <2>1. plan = s \o <<"ADERDGTimeStep">>
    BY <1>3
  <2>2. plan \in Seq(Sweeps) /\ Len(plan) = n + 1 /\ plan[n + 1] = "ADERDGTimeStep"
        /\ \A i \in 1..n : plan[i] = s[i]
    <3> HIDE DEF plan
    <3> QED
      BY <2>1
  <2> HIDE DEF plan
  <2>3. ASSUME NEW i \in 2..(n + 1), plan[i] \in ReceivingSweeps
        PROVE  plan[i - 1] \in SendingSweeps
    <3>1. CASE i = n + 1
      BY <3>1, <2>2, <1>1
    <3>2. CASE i \in 2..n
      BY <3>2, <2>2, <2>3, <1>1, <1>2
    <3> QED
      BY <3>1, <3>2, <1>1
  <2> QED
    BY <2>2, <2>3, <1>1 DEF SentBeforeReceived, plan
<1>4. CASE rerun = <<"PredictionRerun">>
  <2>1. plan = s \o <<"PredictionRerun">> \o <<"ADERDGTimeStep">>
    BY <1>4
  <2>2. plan \in Seq(Sweeps) /\ Len(plan) = n + 2
        /\ plan[n + 1] = "PredictionRerun" /\ plan[n + 2] = "ADERDGTimeStep"
        /\ \A i \in 1..n : plan[i] = s[i]
    <3>1. s \o <<"PredictionRerun">> \in Seq(Sweeps) /\ Len(s \o <<"PredictionRerun">>) = n + 1
          /\ (s \o <<"PredictionRerun">>)[n + 1] = "PredictionRerun"
          /\ \A i \in 1..n : (s \o <<"PredictionRerun">>)[i] = s[i]
      OBVIOUS
    <3> DEFINE t == s \o <<"PredictionRerun">>
    <3>2. plan = t \o <<"ADERDGTimeStep">> /\ t \in Seq(Sweeps)
      BY <2>1, <3>1
    <3> HIDE DEF plan, t, n
    <3>3. plan \in Seq(Sweeps) /\ Len(plan) = Len(t) + 1
          /\ plan[Len(t) + 1] = "ADERDGTimeStep" /\ \A i \in 1..Len(t) : plan[i] = t[i]
      BY <3>2
    <3> QED
      BY <3>1, <3>3, <1>1 DEF t
  <2> HIDE DEF plan
  <2>3. ASSUME NEW i \in 2..(n + 2), plan[i] \in ReceivingSweeps
        PROVE  plan[i - 1] \in SendingSweeps
    <3>1. CASE i = n + 2
      <4>1. plan[i - 1] = "PredictionRerun"
        BY <3>1, <2>2, <1>1
      <4> QED
        BY <4>1
    <3>2. CASE i = n + 1
      BY <3>2, <2>2, <1>1
    <3>3. CASE i \in 2..n
      BY <3>3, <2>2, <2>3, <1>1, <1>2
    <3> QED
      BY <3>1, <3>2, <3>3, <1>1
  <2> QED
    BY <2>2, <2>3, <1>1 DEF SentBeforeReceived, plan
<1> QED
  BY <1>3, <1>4

LEMMA PlansFit ==
  ASSUME NEW plan \in Plans
  PROVE  /\ plan \in Seq(Sweeps) /\ plan # <<>>
         /\ SentBeforeReceived(plan) /\ plan[Len(plan)] = "ADERDGTimeStep"
<1>1. PICK request \in Requests \cup {"Nothing"}, rerun \in {<<>>, <<"PredictionRerun">>} :
        plan = SweepsFor(request) \o rerun \o <<"ADERDGTimeStep">>
  BY DEF Plans
<1>2. request \in {"Nothing", "Local", "Mesh", "MeshAndLocal", "Global"}
  BY FaceExchangeAssumption
<1> DEFINE s == SweepsFor(request)
<1>3. s \in Seq(Sweeps) /\ SentBeforeReceived(s) /\ (s # <<>> => s[Len(s)] \in SendingSweeps)
  <2> USE DEF SweepsFor, Sweeps, SendingSweeps, MergingSweeps, ReceivingSweeps, SentBeforeReceived
  <2>1. CASE request = "Nothing"
    BY <2>1
  <2>2. CASE request = "Local"
    BY <2>2
  <2>3. CASE request = "Mesh"
    BY <2>3
  <2>4. CASE request = "MeshAndLocal"
    BY <2>4
  <2>5. CASE request = "Global"
    BY <2>5
  <2> QED
    BY <1>2, <2>1, <2>2, <2>3, <2>4, <2>5
<1> HIDE DEF s
<1> QED
  BY <1>1, <1>3, RerunsFit DEF s

-----------------------------------------------------------------------------
(***************************************************************************)
(* The invariant.                                                          *)
(***************************************************************************)

LEMMA MeetingPlacesAreTouched ==
  ASSUME NEW s \in Sides
  PROVE  /\ Owner[s[1]] \in Ranks /\ s[1] \in Cells
         /\ MeetingPlaces(s) # {} /\ MeetingPlaces(s) \subseteq Touches(Owner[s[1]])
         /\ MeetingPlaces(s) \subseteq Vertices
         /\ s \in RemoteSides =>
              /\ MeetingPlaces(s) = InsideVertices(s)
              /\ IsFiniteSet(InsideVertices(s))
              /\ Listings(s) = Cardinality(InsideVertices(s))
              /\ Listings(s) \in 1..2
              /\ Owner[s[2]] \in Ranks \ {Owner[s[1]]}
<1>1. s[1] \in Cells /\ Owner[s[1]] \in Ranks
  BY FaceExchangeAssumption DEF Sides
<1>2. MeetingPlaces(s) \subseteq {v \in Vertices : s \in SidesAt(v)}
  BY DEF MeetingPlaces, InsideVertices
<1>3. MeetingPlaces(s) # {}
  BY VerticesOfFaces DEF MeetingPlaces, RemoteSides
<1>4. MeetingPlaces(s) \subseteq Touches(Owner[s[1]])
  BY <1>2, OwnersTouch
<1>5. ASSUME s \in RemoteSides
      PROVE  /\ MeetingPlaces(s) = InsideVertices(s)
             /\ IsFiniteSet(InsideVertices(s))
             /\ Listings(s) = Cardinality(InsideVertices(s))
             /\ Listings(s) \in 1..2
             /\ Owner[s[2]] \in Ranks \ {Owner[s[1]]}
  <2>1. s[2] \in Cells /\ Owner[s[2]] \in Ranks \ {Owner[s[1]]}
    BY <1>5, FaceExchangeAssumption DEF RemoteSides
  <2>2. IsFiniteSet(InsideVertices(s)) /\ Cardinality(InsideVertices(s)) <= 2
        /\ InsideVertices(s) # {}
    BY <2>1, VerticesOfFaces
  <2>3. Cardinality(InsideVertices(s)) \in Nat /\ Cardinality(InsideVertices(s)) # 0
    BY <2>2, FS_CardinalityType, FS_EmptySet
  <2>4. Listings(s) = Cardinality(InsideVertices(s))
    BY <2>3 DEF Listings
  <2> QED
    BY <1>5, <2>1, <2>2, <2>3, <2>4 DEF MeetingPlaces
<1> QED
  BY <1>1, <1>2, <1>3, <1>4, <1>5

\* Both sides of a face inside a rank meet at the same vertices.
LEMMA OppositeSidesMeet ==
  ASSUME NEW s \in Sides, s[2] \in Cells
  PROVE  /\ Opposite(s) \in Sides
         /\ s \in RemoteSides <=> Opposite(s) \in RemoteSides
         /\ MeetingPlaces(Opposite(s)) = MeetingPlaces(s)
<1>1. /\ Opposite(s) \in Sides /\ Opposite(s)[1] = s[2] /\ Opposite(s)[2] = s[1]
      /\ s \in RemoteSides => Opposite(s) \in RemoteSides
      /\ \A v : s \in SidesAt(v) <=> Opposite(s) \in SidesAt(v)
      /\ InsideVertices(Opposite(s)) = InsideVertices(s)
  BY OppositeSides
<1>2. s[1] \in Cells
  BY DEF Sides
<1>3. Opposite(s) \in RemoteSides => s \in RemoteSides
  BY <1>1, <1>2 DEF RemoteSides
<1> QED
  BY <1>1, <1>3 DEF MeetingPlaces

LEMMA SweepKinds ==
  /\ "ADERDGTimeStep" \in MergingSweeps /\ "ADERDGTimeStep" \in SendingSweeps
  /\ MergingSweeps \subseteq ReceivingSweeps /\ MergingSweeps \subseteq SendingSweeps
  /\ SendingSweeps \subseteq Sweeps /\ ReceivingSweeps \subseteq Sweeps
  /\ "Prediction" \in SendingSweeps \ ReceivingSweeps
  /\ "NeighbourDataDropping" \notin SendingSweeps
  BY DEF MergingSweeps, ReceivingSweeps, SendingSweeps, Sweeps

\* Every sweep but the one that drops resets the flags and counters.
LEMMA AllAreReset ==
  ASSUME NoFiniteVolumes, NEW kind \in Sweeps, kind # "NeighbourDataDropping"
  PROVE  Resets(kind) = Solvers
  BY DEF NoFiniteVolumes, Resets

LEMMA InitEstablishesInv ==
  ASSUME Init
  PROVE  ExchangeInv
<1> USE DEF Init
<1>1. ASSUME NEW s \in Sides
      PROVE  ~ HasMet(s)
  BY MeetingPlacesAreTouched DEF HasMet
<1>2. TypeOK
  <2>1. \A s \in RemoteSides : Listings(s) \in 0..TwoPowerD
    BY MeetingPlacesAreTouched DEF RemoteSides, TwoPowerD
  <2>2. counter \in [RemoteSides \X Solvers -> 0..TwoPowerD]
    BY <2>1
  <2>3. mail \in [Channels -> Seq(AllMessages)] /\ outbox \in [Channels -> Seq(AllMessages)]
    BY DEF NoMail
  <2>4. sweep \in Sweeps /\ todo \in Seq(Sweeps)
    BY SweepKinds
  <2>5. rest \in [Ranks -> SUBSET Vertices]
    BY DEF Touches
  <2> QED
    BY <2>2, <2>3, <2>4, <2>5 DEF TypeOK
<1>3. SweepsFit
  <2>1. Len(<<sweep>> \o todo) = 2 /\ (<<sweep>> \o todo)[1] = "Prediction"
    OBVIOUS
  <2> QED
    BY <2>1, SweepKinds DEF SweepsFit, SentBeforeReceived
<1>4. RestFits
  BY DEF RestFits
<1>5. CountersFit
  BY SweepKinds, MeetingPlacesAreTouched DEF CountersFit, RemoteSides
<1>6. FlagsFit
  BY SweepKinds DEF FlagsFit
<1>7. MergesFit
  BY SweepKinds DEF MergesFit
<1>8. MailFits
  BY SweepKinds DEF MailFits
<1>9. OutboxFits
  <2>1. \A p \in Channels : p[1] \in Ranks /\ stage[p[1]] = "FirstTouches" /\ outbox[p] = <<>>
    BY DEF Channels, NoMail
  <2> QED
    BY <2>1, NothingIsStacked DEF OutboxFits
<1> QED
  BY <1>2, <1>3, <1>4, <1>5, <1>6, <1>7, <1>8, <1>9 DEF ExchangeInv

\* The next sweep, its place in the plan, and where it may receive.
LEMMA NextSweepFits ==
  ASSUME TypeOK, SweepsFit, EndIteration
  PROVE  /\ sweep' \in Sweeps /\ todo' \in Seq(Sweeps) /\ SweepsFit'
         /\ sweep' \in ReceivingSweeps => sweep \in SendingSweeps
<1>1. PICK plan \in IF todo = <<>> THEN Plans ELSE {todo} :
        sweep' = Head(plan) /\ todo' = Tail(plan)
  BY DEF EndIteration
<1>2. sweep \in Sweeps /\ todo \in Seq(Sweeps)
  BY DEF TypeOK
<1>3. /\ plan \in Seq(Sweeps) /\ plan # <<>>
      /\ SentBeforeReceived(plan) /\ plan[Len(plan)] = "ADERDGTimeStep"
      /\ plan[1] \in ReceivingSweeps => sweep \in SendingSweeps
  <2>1. CASE todo = <<>>
    <3>1. plan \in Plans
      BY <2>1, <1>1
    <3> QED
      BY <2>1, <3>1, PlansFit, SweepKinds DEF SweepsFit
  <2>2. CASE todo # <<>>
    <3>1. plan = todo /\ todo \in Seq(Sweeps) /\ Len(todo) \in Nat \ {0}
      BY <2>2, <1>1, <1>2
    <3> DEFINE all == <<sweep>> \o todo
    <3>2. Len(all) = Len(todo) + 1 /\ all[1] = sweep /\ \A i \in 1..Len(todo) : all[i + 1] = todo[i]
      BY <3>1, <1>2
    <3>3. \A i \in 2..(Len(todo) + 1) : all[i] \in ReceivingSweeps => all[i - 1] \in SendingSweeps
      BY <3>2 DEF SweepsFit, SentBeforeReceived
    <3> HIDE DEF all
    <3>4. ASSUME NEW i \in 2..Len(todo), todo[i] \in ReceivingSweeps
          PROVE  todo[i - 1] \in SendingSweeps
      <4>1. i + 1 \in 2..(Len(todo) + 1) /\ (i + 1) - 1 = i /\ i - 1 \in 1..Len(todo) /\ (i - 1) + 1 = i
        BY <3>1
      <4>2. all[i + 1] = todo[i] /\ all[i] = todo[i - 1]
        BY <3>2, <4>1
      <4> QED
        BY <3>3, <3>4, <4>1, <4>2
    <3>5. todo[1] \in ReceivingSweeps => sweep \in SendingSweeps
      <4>1. 2 \in 2..(Len(todo) + 1) /\ 1 \in 1..Len(todo) /\ all[1 + 1] = todo[1] /\ all[2 - 1] = sweep
        BY <3>1, <3>2
      <4> QED
        BY <3>3, <4>1
    <3> QED
      BY <2>2, <3>1, <3>4, <3>5 DEF SentBeforeReceived, SweepsFit
  <2> QED
    BY <2>1, <2>2
<1>4. /\ sweep' = plan[1] /\ sweep' \in Sweeps /\ todo' \in Seq(Sweeps)
      /\ <<sweep'>> \o todo' = plan
      /\ Len(plan) \in Nat \ {0} /\ Len(todo') = Len(plan) - 1
      /\ \A i \in 1..Len(todo') : todo'[i] = plan[i + 1]
  BY <1>1, <1>3
<1>5. todo' = <<>> => sweep' = "ADERDGTimeStep"
  <2>1. todo' = <<>> => Len(plan) = 1
    BY <1>4
  <2> QED
    BY <2>1, <1>3, <1>4
<1>6. todo' # <<>> => todo'[Len(todo')] = "ADERDGTimeStep"
  BY <1>3, <1>4
<1>7. SweepsFit'
  BY <1>3, <1>4, <1>5, <1>6 DEF SweepsFit
<1> QED
  BY <1>3, <1>4, <1>7

LEMMA EndIterationKeepsInv ==
  ASSUME ExchangeInv, EndIteration
  PROVE  ExchangeInv'
<1> USE DEF ExchangeInv
<1>1. /\ \A r \in Ranks : stage[r] = "LastTouches" /\ rest[r] = {}
      /\ forward' = ~forward
      /\ stage' = [r \in Ranks |-> "FirstTouches"]
      /\ rest' = [r \in Ranks |-> Touches(r)]
      /\ mail' = IF sweep \in SendingSweeps THEN outbox ELSE mail
      /\ outbox' = NoMail
      /\ merges' = [s \in Sides |-> 0]
      /\ mergePerformed' = mergePerformed /\ counter' = counter
  BY DEF EndIteration
<1>2. /\ sweep' \in Sweeps /\ todo' \in Seq(Sweeps) /\ SweepsFit'
      /\ sweep' \in ReceivingSweeps => sweep \in SendingSweeps
  BY NextSweepFits
<1>3. ASSUME NEW s \in Sides
      PROVE  ~ HasMet(s)'
  BY <1>1, MeetingPlacesAreTouched DEF HasMet
<1>4. /\ forward \in BOOLEAN
      /\ mail \in [Channels -> Seq(AllMessages)] /\ outbox \in [Channels -> Seq(AllMessages)]
  BY DEF TypeOK
<1>5. TypeOK'
  <2>1. rest' \in [Ranks -> SUBSET Vertices] /\ stage' \in [Ranks -> {"FirstTouches", "LastTouches"}]
    BY <1>1 DEF Touches
  <2>2. mail' \in [Channels -> Seq(AllMessages)] /\ outbox' \in [Channels -> Seq(AllMessages)]
    BY <1>1, <1>4 DEF NoMail
  <2>3. merges' \in [Sides -> Nat] /\ forward' \in BOOLEAN
    BY <1>1, <1>4
  <2> QED
    BY <1>1, <1>2, <2>1, <2>2, <2>3 DEF TypeOK
<1>6. RestFits'
  BY <1>1 DEF RestFits
<1>7. CountersFit'
  <2> SUFFICES ASSUME NEW s \in RemoteSides, NEW x \in Solvers, sweep' \in ReceivingSweeps
               PROVE  counter'[<<s, x>>] = IF HasMet(s)' THEN TwoPowerD ELSE 0
    BY <1>1, MeetingPlacesAreTouched DEF CountersFit, RemoteSides
  <2>1. s \in Sides /\ Owner[s[1]] \in Ranks
    BY MeetingPlacesAreTouched DEF RemoteSides
  <2>2. counter[<<s, x>>] = Cardinality(InsideVertices(s) \cap rest[Owner[s[1]]])
    BY <1>1, <1>2, <2>1 DEF CountersFit
  <2>3. InsideVertices(s) \cap rest[Owner[s[1]]] = {}
    BY <1>1, <2>1
  <2> QED
    BY <1>1, <1>3, <2>1, <2>2, <2>3, FS_EmptySet
<1>8. FlagsFit'
  <2> SUFFICES ASSUME NEW s \in Sides, NEW x \in Solvers, sweep' \in MergingSweeps
               PROVE  <<s, x>> \notin mergePerformed'
    BY <1>1, <1>3, MeetingPlacesAreTouched DEF FlagsFit
  <2>1. sweep # "NeighbourDataDropping"
    BY <1>2, SweepKinds
  <2> QED
    BY <1>1, <2>1, MeetingPlacesAreTouched DEF FlagsFit
<1>9. MergesFit'
  BY <1>1, <1>3, MeetingPlacesAreTouched DEF MergesFit
<1>10. MailFits'
  <2> SUFFICES ASSUME NEW p \in Channels, sweep' \in ReceivingSweeps
               PROVE  /\ IsStacked(mail'[p], ~forward')
                      /\ Range(mail'[p]) = IF stage'[p[2]] = "FirstTouches"
                                           THEN Messages(p, rest'[p[2]], ~forward') ELSE {}
    BY DEF MailFits
  <2>3. (~forward') = forward /\ mail'[p] = outbox[p]
    BY <1>1, <1>2, <1>4
  <2>4. p[2] \in Ranks /\ stage'[p[2]] = "FirstTouches" /\ rest'[p[2]] = Touches(p[2])
    BY <1>1 DEF Channels
  <2>1. p[1] \in Ranks /\ stage[p[1]] = "LastTouches" /\ rest[p[1]] = {}
    BY <1>1 DEF Channels
  <2>2. IsStacked(outbox[p], forward) /\ Range(outbox[p]) = Messages(p, Touches(p[1]), forward)
    BY <1>2, <2>1 DEF OutboxFits
  <2> QED
    <3>1. Messages(p, Touches(p[1]), forward) = Messages(p, Touches(p[2]), forward)
      BY <1>4, SentIsExpected
    <3>2. IsStacked(mail'[p], forward) /\ Range(mail'[p]) = Messages(p, rest'[p[2]], forward)
      BY <2>2, <2>3, <2>4, <3>1
    <3> DEFINE d == ~forward'
    <3>3. d = forward
      BY <2>3
    <3> HIDE DEF d
    <3>4. IsStacked(mail'[p], d) /\ Range(mail'[p]) = Messages(p, rest'[p[2]], d)
      BY <3>2, <3>3
    <3> QED
      BY <2>4, <3>4 DEF d
<1>11. OutboxFits'
  <2> SUFFICES ASSUME NEW p \in Channels
               PROVE  IsStacked(<<>>, forward') /\ Range(<<>>) = {}
    <3>1. \A p \in Channels : p[1] \in Ranks /\ stage'[p[1]] = "FirstTouches" /\ outbox'[p] = <<>>
      BY <1>1 DEF Channels, NoMail
    <3> QED
      BY <3>1 DEF OutboxFits
  <2> QED
    BY <1>1, <1>4, NothingIsStacked
<1> QED
  BY <1>2, <1>5, <1>6, <1>7, <1>8, <1>9, <1>10, <1>11

LEMMA EnterCellsKeepsInv ==
  ASSUME NoFiniteVolumes, ExchangeInv, NEW r \in Ranks, EnterCells(r)
  PROVE  ExchangeInv'
<1> USE DEF ExchangeInv
<1>1. /\ stage[r] = "FirstTouches" /\ rest[r] = {}
      /\ stage' = [stage EXCEPT ![r] = "LastTouches"]
      /\ rest' = [rest EXCEPT ![r] = Touches(r)]
      /\ counter' = [x \in DOMAIN counter |->
           IF Owner[x[1][1]] = r /\ x[2] \in Resets(sweep) THEN Listings(x[1]) ELSE counter[x]]
      /\ mergePerformed' =
           {y \in mergePerformed : Owner[y[1][1]] # r \/ y[2] \notin Resets(sweep)}
      /\ UNCHANGED <<sweep, todo, forward, mail, outbox, merges>>
  BY DEF EnterCells
<1>2. /\ sweep \in Sweeps /\ forward \in BOOLEAN
      /\ stage \in [Ranks -> {"FirstTouches", "LastTouches"}]
      /\ rest \in [Ranks -> SUBSET Vertices]
      /\ counter \in [RemoteSides \X Solvers -> 0..TwoPowerD]
      /\ mergePerformed \subseteq Sides \X Solvers
  BY DEF TypeOK
<1>3. /\ stage'[r] = "LastTouches" /\ rest'[r] = Touches(r)
      /\ \A q \in Ranks \ {r} : stage'[q] = stage[q] /\ rest'[q] = rest[q]
  BY <1>1, <1>2
<1>4. ASSUME NEW s \in Sides, Owner[s[1]] # r
      PROVE  HasMet(s)' = HasMet(s)
  BY <1>3, <1>4, MeetingPlacesAreTouched DEF HasMet
<1>5. ASSUME NEW s \in Sides, Owner[s[1]] = r
      PROVE  HasMet(s)
  BY <1>1, <1>5, MeetingPlacesAreTouched DEF HasMet
<1>6. TypeOK'
  <2>1. \A s \in RemoteSides : Listings(s) \in 0..TwoPowerD
    BY MeetingPlacesAreTouched DEF RemoteSides, TwoPowerD
  <2>2. counter' \in [RemoteSides \X Solvers -> 0..TwoPowerD]
    BY <1>1, <1>2, <2>1
  <2>3. rest' \in [Ranks -> SUBSET Vertices] /\ stage' \in [Ranks -> {"FirstTouches", "LastTouches"}]
    BY <1>1, <1>2 DEF Touches
  <2>4. mergePerformed' \subseteq Sides \X Solvers
    BY <1>1, <1>2
  <2> QED
    BY <1>1, <2>2, <2>3, <2>4 DEF TypeOK
<1>7. SweepsFit'
  BY <1>1 DEF SweepsFit, SentBeforeReceived
<1>8. RestFits'
  <2> SUFFICES ASSUME NEW q \in Ranks
               PROVE  /\ rest'[q] \subseteq Touches(q)
                      /\ \A v \in rest'[q], w \in Touches(q) \ rest'[q] : TouchedBefore(forward', w, v)
    BY DEF RestFits
  <2>1. CASE q = r
    BY <2>1, <1>3
  <2>2. CASE q # r
    BY <2>2, <1>1, <1>3 DEF RestFits
  <2> QED
    BY <2>1, <2>2
<1>9. CountersFit'
  <2> SUFFICES ASSUME NEW s \in RemoteSides, NEW x \in Solvers
               PROVE  /\ stage'[Owner[s[1]]] = "FirstTouches" /\ sweep' \in ReceivingSweeps =>
                           counter'[<<s, x>>] = IF HasMet(s)' THEN TwoPowerD ELSE 0
                      /\ stage'[Owner[s[1]]] = "LastTouches" /\ sweep' \in SendingSweeps =>
                           counter'[<<s, x>>] = Cardinality(InsideVertices(s) \cap rest'[Owner[s[1]]])
    BY DEF CountersFit
  <2>1. s \in Sides /\ Owner[s[1]] \in Ranks /\ <<s, x>> \in DOMAIN counter
    BY <1>2, MeetingPlacesAreTouched DEF RemoteSides
  <2>2. CASE Owner[s[1]] = r
    <3>1. ASSUME sweep \in SendingSweeps
          PROVE  counter'[<<s, x>>] = Cardinality(InsideVertices(s))
      <4>1. Resets(sweep) = Solvers
        BY <3>1, <1>2, SweepKinds, AllAreReset
      <4>2. counter'[<<s, x>>] = Listings(s)
        BY <2>1, <2>2, <4>1, <1>1
      <4> QED
        BY <2>1, <4>2, MeetingPlacesAreTouched
    <3>2. InsideVertices(s) \cap rest'[r] = InsideVertices(s)
      BY <2>1, <2>2, <1>3, MeetingPlacesAreTouched
    <3> QED
      BY <2>2, <3>1, <3>2, <1>1, <1>3
  <2>3. CASE Owner[s[1]] # r
    <3>1. counter'[<<s, x>>] = counter[<<s, x>>]
      BY <2>1, <2>3, <1>1
    <3> QED
      BY <2>1, <2>3, <3>1, <1>1, <1>3, <1>4 DEF CountersFit
  <2> QED
    BY <2>2, <2>3
<1>10. FlagsFit'
  <2> SUFFICES ASSUME NEW s \in Sides, NEW x \in Solvers
               PROVE  /\ stage'[Owner[s[1]]] = "FirstTouches" /\ sweep' \in MergingSweeps =>
                           (<<s, x>> \in mergePerformed' <=> HasMet(s)')
                      /\ stage'[Owner[s[1]]] = "LastTouches" /\ sweep' # "NeighbourDataDropping" =>
                           <<s, x>> \notin mergePerformed'
    BY DEF FlagsFit
  <2>1. Owner[s[1]] \in Ranks
    BY MeetingPlacesAreTouched
  <2>2. CASE Owner[s[1]] = r
    <3>1. sweep # "NeighbourDataDropping" => <<s, x>> \notin mergePerformed'
      BY <2>2, <1>1, <1>2, AllAreReset
    <3> QED
      BY <2>2, <3>1, <1>1, <1>3
  <2>3. CASE Owner[s[1]] # r
    <3>1. <<s, x>> \in mergePerformed' <=> <<s, x>> \in mergePerformed
      BY <2>3, <1>1
    <3> QED
      BY <2>1, <2>3, <3>1, <1>1, <1>3, <1>4 DEF FlagsFit
  <2> QED
    BY <2>2, <2>3
<1>11. MergesFit'
  <2> SUFFICES ASSUME NEW s \in Sides
               PROVE  merges[s] = IF sweep \in MergingSweeps
                                     /\ (stage'[Owner[s[1]]] = "LastTouches" \/ HasMet(s)')
                                  THEN 1 ELSE 0
    BY <1>1 DEF MergesFit
  <2>1. Owner[s[1]] \in Ranks
    BY MeetingPlacesAreTouched
  <2>2. CASE Owner[s[1]] = r
    BY <2>2, <1>3, <1>5 DEF MergesFit
  <2>3. CASE Owner[s[1]] # r
    BY <2>1, <2>3, <1>3, <1>4 DEF MergesFit
  <2> QED
    BY <2>2, <2>3
<1>12. MailFits'
  <2> SUFFICES ASSUME NEW p \in Channels, sweep \in ReceivingSweeps
               PROVE  /\ IsStacked(mail[p], ~forward)
                      /\ Range(mail[p]) = IF stage'[p[2]] = "FirstTouches"
                                          THEN Messages(p, rest'[p[2]], ~forward) ELSE {}
    BY <1>1 DEF MailFits
  <2>1. /\ p[2] \in Ranks /\ IsStacked(mail[p], ~forward)
        /\ Range(mail[p]) = IF stage[p[2]] = "FirstTouches"
                            THEN Messages(p, rest[p[2]], ~forward) ELSE {}
    BY DEF MailFits, Channels
  <2>2. Messages(p, {}, ~forward) = {}
    BY <1>2, NothingIsStacked
  <2> QED
    BY <2>1, <2>2, <1>1, <1>3
<1>13. OutboxFits'
  <2> SUFFICES ASSUME NEW p \in Channels
               PROVE  /\ IsStacked(outbox[p], forward)
                      /\ Range(outbox[p]) =
                           IF sweep \in SendingSweeps /\ stage'[p[1]] = "LastTouches"
                           THEN Messages(p, Touches(p[1]) \ rest'[p[1]], forward) ELSE {}
    BY <1>1 DEF OutboxFits
  <2>1. /\ p[1] \in Ranks /\ IsStacked(outbox[p], forward)
        /\ Range(outbox[p]) = IF sweep \in SendingSweeps /\ stage[p[1]] = "LastTouches"
                              THEN Messages(p, Touches(p[1]) \ rest[p[1]], forward) ELSE {}
    BY DEF OutboxFits, Channels
  <2>2. CASE p[1] = r
    <3>1. Touches(p[1]) \ rest'[p[1]] = {} /\ Messages(p, {}, forward) = {}
      BY <2>2, <1>2, <1>3, NothingIsStacked
    <3> QED
      BY <2>1, <2>2, <3>1, <1>1
  <2>3. CASE p[1] # r
    BY <2>1, <2>3, <1>3
  <2> QED
    BY <2>2, <2>3
<1> QED
  BY <1>6, <1>7, <1>8, <1>9, <1>10, <1>11, <1>12, <1>13

\* The sides of rank r that meet their neighbours' data at vertex v.
MeetAt(r, v) == {s \in Sides : Owner[s[1]] = r /\ v \in MeetingPlaces(s) /\ ~ HasMet(s)}

\* Counters and flags tell the first vertex of a face from the other ones.
LEMMA FirstTouchesAreTold ==
  ASSUME ExchangeInv, NEW r \in Ranks, NEW v \in Vertices, stage[r] = "FirstTouches"
  PROVE  /\ sweep \in ReceivingSweeps => \A s \in RemoteSides :
              Owner[s[1]] = r => (HasToMergeWithNeighbourData(s) <=> ~ HasMet(s))
         /\ sweep \in MergingSweeps =>
              {s \in SidesAt(v) : HasToMerge(r, s)} = MeetAt(r, v) \ RemoteSides
<1> USE DEF ExchangeInv
<1>1. Solvers # {}
  BY FaceExchangeAssumption
<1>2. ASSUME sweep \in ReceivingSweeps, NEW s \in RemoteSides, Owner[s[1]] = r
      PROVE  HasToMergeWithNeighbourData(s) <=> ~ HasMet(s)
  <2>1. \A x \in Solvers : counter[<<s, x>>] = IF HasMet(s) THEN TwoPowerD ELSE 0
    BY <1>2 DEF CountersFit
  <2>2. HasToMergeWithNeighbourData(s) <=> \A x \in Solvers : counter[<<s, x>>] = 0
    BY DEF HasToMergeWithNeighbourData
  <2>3. CASE HasMet(s)
    <3>1. PICK x \in Solvers : TRUE
      BY <1>1
    <3>2. counter[<<s, x>>] = 4
      BY <2>1, <2>3 DEF TwoPowerD
    <3> QED
      BY <2>2, <2>3, <3>2
  <2>4. CASE ~ HasMet(s)
    BY <2>1, <2>2, <2>4
  <2> QED
    BY <2>3, <2>4
<1>3. ASSUME sweep \in MergingSweeps, NEW s \in Sides
      PROVE  s \in SidesAt(v) /\ HasToMerge(r, s) <=> s \in MeetAt(r, v) \ RemoteSides
  <2>1. \A t \in Sides : Owner[t[1]] = r =>
          \A x \in Solvers : <<t, x>> \in mergePerformed <=> HasMet(t)
    BY <1>3 DEF FlagsFit
  <2>2. s \notin RemoteSides => MeetingPlaces(s) = {w \in Vertices : s \in SidesAt(w)}
    BY DEF MeetingPlaces
  <2>3. CASE s[2] \in Cells
    <3>1. s \in RemoteSides <=> Owner[s[1]] # Owner[s[2]]
      BY <2>3 DEF RemoteSides
    <3>2. /\ Opposite(s) \in Sides /\ Opposite(s)[1] = s[2]
          /\ MeetingPlaces(Opposite(s)) = MeetingPlaces(s)
      BY <2>3, OppositeSides, OppositeSidesMeet
    <3>3. Owner[s[1]] = Owner[s[2]] => (HasMet(Opposite(s)) <=> HasMet(s))
      BY <3>2 DEF HasMet
    <3>4. HasToMerge(r, s) <=>
            /\ Owner[s[1]] = r /\ Owner[s[2]] = r
            /\ \A x \in Solvers : <<s, x>> \notin mergePerformed /\ <<Opposite(s), x>> \notin mergePerformed
      BY <2>3 DEF HasToMerge
    <3>5. HasToMerge(r, s) <=> Owner[s[1]] = r /\ Owner[s[2]] = r /\ ~ HasMet(s)
      BY <3>2, <3>3, <3>4, <2>1, <1>1
    <3> QED
      BY <3>1, <3>5, <2>2 DEF MeetAt
  <2>4. CASE s[2] \notin Cells
    <3>1. s \notin RemoteSides
      BY <2>4 DEF RemoteSides
    <3>2. HasToMerge(r, s) <=> Owner[s[1]] = r /\ ~ HasMet(s)
      BY <2>1, <2>4, <1>1 DEF HasToMerge
    <3> QED
      BY <3>1, <3>2, <2>2 DEF MeetAt
  <2> QED
    BY <2>3, <2>4
<1>4. SidesAt(v) \subseteq Sides /\ MeetAt(r, v) \subseteq Sides
  BY DEF SidesAt, MeetAt
<1> QED
  BY <1>2, <1>3, <1>4

\* What a first touch does to counters, flags and merges.
LEMMA FirstTouchMeets ==
  ASSUME ExchangeInv, NEW r \in Ranks, NEW v \in Vertices, TouchVertexFirstTime(r, v)
  PROVE  \E M \in SUBSET MeetAt(r, v) :
           /\ sweep \in MergingSweeps => M = MeetAt(r, v)
           /\ sweep \in ReceivingSweeps => M \cap RemoteSides = MeetAt(r, v) \cap RemoteSides
           /\ sweep \notin ReceivingSweeps => M \cap RemoteSides = {}
           /\ counter' = SetCountersOfDestination(M \cap RemoteSides)
           /\ mergePerformed' = mergePerformed \cup (M \X Solvers)
           /\ merges' = IF sweep \in MergingSweeps THEN Count(M) ELSE merges
<1> DEFINE expected(q) == IF sweep \in ReceivingSweeps THEN ReceiveOrder(v, q, r) ELSE <<>>
           remote == UNION {Range(expected(q)) : q \in Ranks \ {r}}
           exchanged == {s \in remote : HasToMergeWithNeighbourData(s)}
           local == IF sweep \in MergingSweeps THEN {s \in SidesAt(v) : HasToMerge(r, s)} ELSE {}
<1>1. /\ stage[r] = "FirstTouches"
      /\ counter' = SetCountersOfDestination(exchanged)
      /\ mergePerformed' = mergePerformed \cup ((exchanged \cup local) \X Solvers)
      /\ merges' = IF sweep \in MergingSweeps THEN Count(exchanged \cup local) ELSE merges
  BY DEF TouchVertexFirstTime
<1>2. sweep \notin ReceivingSweeps => exchanged = {}
  BY DEF Range
<1>3. ASSUME sweep \in ReceivingSweeps
      PROVE  exchanged = MeetAt(r, v) \cap RemoteSides
  <2>1. remote = {s \in RemoteSides : v \in InsideVertices(s) /\ Owner[s[1]] = r}
    <3>1. ASSUME NEW q \in Ranks \ {r}
          PROVE  Range(expected(q)) =
                   {s \in RemoteSides : v \in InsideVertices(s) /\ Owner[s[1]] = r /\ Owner[s[2]] = q}
      <4>1. expected(q) = ReceiveOrder(v, q, r)
        BY <1>3
      <4>2. Range(ReceiveOrder(v, q, r)) = ExchangedAt(v, q, r)
        BY OrdersAtVertices
      <4>3. ExchangedAt(v, q, r) =
              {s \in RemoteSides : v \in InsideVertices(s) /\ Owner[s[1]] = r /\ Owner[s[2]] = q}
        BY SidesAtVertices
      <4> QED
        BY <4>1, <4>2, <4>3
    <3>2. \A s \in RemoteSides : Owner[s[1]] = r => Owner[s[2]] \in Ranks \ {r}
      BY MeetingPlacesAreTouched DEF RemoteSides
    <3> HIDE DEF expected
    <3> QED
      BY <3>1, <3>2
  <2>2. \A s \in RemoteSides : Owner[s[1]] = r => (HasToMergeWithNeighbourData(s) <=> ~ HasMet(s))
    BY <1>1, <1>3, FirstTouchesAreTold
  <2>3. \A s \in RemoteSides : s \in Sides /\ MeetingPlaces(s) = InsideVertices(s)
    BY DEF RemoteSides, MeetingPlaces
  <2> HIDE DEF remote
  <2> QED
    BY <2>1, <2>2, <2>3 DEF MeetAt
<1>4. sweep \in MergingSweeps => local = MeetAt(r, v) \ RemoteSides
  BY <1>1, FirstTouchesAreTold
<1>5. sweep \notin MergingSweeps => local = {}
  OBVIOUS
<1> HIDE DEF exchanged, local
<1> DEFINE M == exchanged \cup local
<1>6. M \subseteq MeetAt(r, v)
  BY <1>2, <1>3, <1>4, <1>5
<1>7. M \cap RemoteSides = exchanged
  BY <1>2, <1>3, <1>4, <1>5
<1>8. /\ sweep \in MergingSweeps => M = MeetAt(r, v)
      /\ sweep \in ReceivingSweeps => M \cap RemoteSides = MeetAt(r, v) \cap RemoteSides
      /\ sweep \notin ReceivingSweeps => M \cap RemoteSides = {}
  BY <1>2, <1>3, <1>4, <1>7, SweepKinds
<1> QED
  BY <1>1, <1>6, <1>7, <1>8

\* What lies on top of the mail is what is expected at the next vertex.
LEMMA MailIsExpected ==
  ASSUME ExchangeInv, NEW r \in Ranks, NEW q \in Ranks \ {r}, NEW v \in Vertices,
         sweep \in ReceivingSweeps, stage[r] = "FirstTouches", IsNext(v, r)
  PROVE  TopFits(mail[<<q, r>>], <<q, r>>, rest[r], ~forward, v)
<1> USE DEF ExchangeInv
<1> DEFINE p == <<q, r>>
           d == ~forward
<1>1. p \in Channels /\ p[1] = q /\ p[2] = r /\ d \in BOOLEAN /\ forward \in BOOLEAN
  BY DEF Channels, TypeOK
<1>2. v \in rest[r] /\ rest[r] \in SUBSET Vertices
  BY DEF IsNext, TypeOK
<1>3. \A w \in rest[r] \ {v} : TouchedBefore(d, w, v)
  <2> SUFFICES ASSUME NEW w \in rest[r] \ {v}
               PROVE  TouchedBefore(d, w, v)
    OBVIOUS
  <2>1. TouchedBefore(forward, v, w) /\ w \in Vertices
    BY <1>2 DEF IsNext
  <2> QED
    BY <2>1, <1>1, TouchesAreOrdered
<1>4. mail[p] \in Seq(AllMessages) /\ IsStacked(mail[p], d) /\ Range(mail[p]) = Messages(p, rest[r], d)
  BY <1>1 DEF MailFits, TypeOK
<1> DEFINE box == mail[p]
           R == rest[r]
<1>5. /\ R \in SUBSET Vertices /\ v \in R /\ \A w \in R \ {v} : TouchedBefore(d, w, v)
      /\ box \in Seq(AllMessages) /\ IsStacked(box, d) /\ Range(box) = Messages(p, R, d)
  BY <1>2, <1>3, <1>4
<1> HIDE DEF d, p, box, R
<1>6. TopFits(box, p, R, d, v)
  BY <1>1, <1>5, TopOfStack
<1> QED
  BY <1>6 DEF d, p, box, R

LEMMA FirstTouchKeepsInv ==
  ASSUME ExchangeInv, NEW r \in Ranks, NEW v \in Vertices, TouchVertexFirstTime(r, v)
  PROVE  ExchangeInv'
<1> USE DEF ExchangeInv
<1>1. PICK M \in SUBSET MeetAt(r, v) :
        /\ sweep \in MergingSweeps => M = MeetAt(r, v)
        /\ sweep \in ReceivingSweeps => M \cap RemoteSides = MeetAt(r, v) \cap RemoteSides
        /\ sweep \notin ReceivingSweeps => M \cap RemoteSides = {}
        /\ counter' = SetCountersOfDestination(M \cap RemoteSides)
        /\ mergePerformed' = mergePerformed \cup (M \X Solvers)
        /\ merges' = IF sweep \in MergingSweeps THEN Count(M) ELSE merges
  BY FirstTouchMeets
<1>2. /\ stage[r] = "FirstTouches" /\ IsNext(v, r) /\ v \in rest[r]
      /\ rest' = [rest EXCEPT ![r] = @ \ {v}]
      /\ UNCHANGED <<sweep, todo, forward, stage, outbox>>
  BY DEF TouchVertexFirstTime, IsNext
<1>3. /\ sweep \in Sweeps /\ forward \in BOOLEAN
      /\ stage \in [Ranks -> {"FirstTouches", "LastTouches"}]
      /\ rest \in [Ranks -> SUBSET Vertices]
      /\ counter \in [RemoteSides \X Solvers -> 0..TwoPowerD]
      /\ mergePerformed \subseteq Sides \X Solvers
      /\ merges \in [Sides -> Nat]
      /\ mail \in [Channels -> Seq(AllMessages)]
  BY DEF TypeOK
<1>4. rest'[r] = rest[r] \ {v} /\ \A q \in Ranks \ {r} : rest'[q] = rest[q]
  BY <1>2, <1>3
<1>5. ASSUME NEW s \in Sides
      PROVE  /\ Owner[s[1]] # r => s \notin MeetAt(r, v) /\ HasMet(s)' = HasMet(s)
             /\ Owner[s[1]] = r => (HasMet(s)' <=> HasMet(s) \/ s \in MeetAt(r, v))
             /\ s \in MeetAt(r, v) => ~ HasMet(s)
  BY <1>2, <1>4, MeetingPlacesAreTouched DEF HasMet, MeetAt
<1>6. ASSUME NEW p \in Channels
      PROVE  /\ p[2] # r => mail'[p] = mail[p]
             /\ sweep \in ReceivingSweeps /\ p[2] = r =>
                  LET below == SubSeq(mail[p], 1, Len(mail[p]) - Len(ReceiveOrder(v, p[1], r)))
                  IN  mail'[p] = below
             /\ sweep \notin ReceivingSweeps => mail'[p] = mail[p]
  <2>1. mail[p] \in Seq(AllMessages)
    BY <1>3
  <2>2. SubSeq(mail[p], 1, Len(mail[p]) - Len(<<>>)) = mail[p]
    <3>1. Len(mail[p]) \in Nat /\ Len(mail[p]) - Len(<<>>) = Len(mail[p])
      BY <2>1
    <3> QED
      BY <2>1, <3>1
  <2>3. mail'[p] = IF p[2] = r
                   THEN SubSeq(mail[p], 1, Len(mail[p]) -
                          Len(IF sweep \in ReceivingSweeps THEN ReceiveOrder(v, p[1], r) ELSE <<>>))
                   ELSE mail[p]
    BY DEF TouchVertexFirstTime
  <2> QED
    BY <2>2, <2>3
<1>7. ASSUME NEW p \in Channels, sweep \in ReceivingSweeps
      PROVE  /\ mail'[p] \in Seq(AllMessages) /\ IsStacked(mail'[p], ~forward)
             /\ Range(mail'[p]) = IF stage[p[2]] = "FirstTouches"
                                  THEN Messages(p, rest'[p[2]], ~forward) ELSE {}
  <2>1. p[1] \in Ranks /\ p[2] \in Ranks /\ p[1] # p[2] /\ p = <<p[1], p[2]>>
    BY DEF Channels
  <2>2. CASE p[2] # r
    BY <2>1, <2>2, <1>3, <1>4, <1>6, <1>7 DEF MailFits
  <2>3. CASE p[2] = r
    <3>1. p[1] \in Ranks \ {r} /\ p = <<p[1], r>>
      BY <2>1, <2>3
    <3> DEFINE below == SubSeq(mail[p], 1, Len(mail[p]) - Len(ReceiveOrder(v, p[1], r)))
    <3>2. /\ below \in Seq(AllMessages) /\ IsStacked(below, ~forward)
          /\ Range(below) = Messages(p, rest[r] \ {v}, ~forward)
      BY <3>1, <1>2, <1>7, MailIsExpected DEF TopFits
    <3>3. mail'[p] = below
      BY <1>6, <1>7, <2>3
    <3> HIDE DEF below
    <3> QED
      BY <2>3, <3>2, <3>3, <1>2, <1>4
  <2> QED
    BY <2>2, <2>3
<1>8. TypeOK'
  <2>1. rest' \in [Ranks -> SUBSET Vertices]
    BY <1>2, <1>3
  <2>2. M \subseteq Sides
    BY DEF MeetAt
  <2>3. counter' \in [RemoteSides \X Solvers -> 0..TwoPowerD]
    BY <1>1, <1>3 DEF SetCountersOfDestination, TwoPowerD
  <2>4. mergePerformed' \subseteq Sides \X Solvers
    BY <1>1, <1>3, <2>2
  <2>5. merges' \in [Sides -> Nat]
    BY <1>1, <1>3 DEF Count
  <2>6. mail' \in [Channels -> Seq(AllMessages)]
    <3>1. \A p \in Channels : mail'[p] \in Seq(AllMessages)
      BY <1>3, <1>6, <1>7
    <3>2. mail' = [p \in Channels |-> mail'[p]]
      BY DEF TouchVertexFirstTime
    <3> QED
      BY <3>1, <3>2
  <2> QED
    BY <1>2, <2>1, <2>3, <2>4, <2>5, <2>6 DEF TypeOK
<1>9. SweepsFit'
  BY <1>2 DEF SweepsFit, SentBeforeReceived
<1>10. RestFits'
  <2> SUFFICES ASSUME NEW q \in Ranks
               PROVE  /\ rest'[q] \subseteq Touches(q)
                      /\ \A u \in rest'[q], w \in Touches(q) \ rest'[q] : TouchedBefore(forward, w, u)
    BY <1>2 DEF RestFits
  <2>1. CASE q = r
    BY <2>1, <1>2, <1>4 DEF RestFits, IsNext
  <2>2. CASE q # r
    BY <2>2, <1>4 DEF RestFits
  <2> QED
    BY <2>1, <2>2
<1>11. CountersFit'
  <2> SUFFICES ASSUME NEW s \in RemoteSides, NEW x \in Solvers
               PROVE  /\ stage[Owner[s[1]]] = "FirstTouches" /\ sweep \in ReceivingSweeps =>
                           counter'[<<s, x>>] = IF HasMet(s)' THEN TwoPowerD ELSE 0
                      /\ stage[Owner[s[1]]] = "LastTouches" /\ sweep \in SendingSweeps =>
                           counter'[<<s, x>>] = Cardinality(InsideVertices(s) \cap rest'[Owner[s[1]]])
    BY <1>2 DEF CountersFit
  <2>1. s \in Sides /\ Owner[s[1]] \in Ranks
    BY MeetingPlacesAreTouched DEF RemoteSides
  <2>2. counter'[<<s, x>>] = IF s \in M THEN TwoPowerD ELSE counter[<<s, x>>]
    BY <1>1, <1>3 DEF SetCountersOfDestination
  <2>3. CASE Owner[s[1]] = r
    <3>1. sweep \in ReceivingSweeps => (s \in M <=> s \in MeetAt(r, v))
      BY <1>1
    <3> QED
      BY <2>1, <2>2, <2>3, <3>1, <1>2, <1>5 DEF CountersFit
  <2>4. CASE Owner[s[1]] # r
    BY <2>1, <2>2, <2>4, <1>4, <1>5 DEF CountersFit
  <2> QED
    BY <2>3, <2>4
<1>12. FlagsFit'
  <2> SUFFICES ASSUME NEW s \in Sides, NEW x \in Solvers
               PROVE  /\ stage[Owner[s[1]]] = "FirstTouches" /\ sweep \in MergingSweeps =>
                           (<<s, x>> \in mergePerformed' <=> HasMet(s)')
                      /\ stage[Owner[s[1]]] = "LastTouches" /\ sweep # "NeighbourDataDropping" =>
                           <<s, x>> \notin mergePerformed'
    BY <1>2 DEF FlagsFit
  <2>1. <<s, x>> \in mergePerformed' <=> <<s, x>> \in mergePerformed \/ s \in M
    BY <1>1
  <2>2. Owner[s[1]] \in Ranks
    BY MeetingPlacesAreTouched
  <2>3. CASE Owner[s[1]] = r
    BY <2>1, <2>2, <2>3, <1>1, <1>2, <1>5 DEF FlagsFit
  <2>4. CASE Owner[s[1]] # r
    BY <2>1, <2>2, <2>4, <1>5 DEF FlagsFit
  <2> QED
    BY <2>3, <2>4
<1>13. MergesFit'
  <2> SUFFICES ASSUME NEW s \in Sides
               PROVE  merges'[s] = IF sweep \in MergingSweeps
                                      /\ (stage[Owner[s[1]]] = "LastTouches" \/ HasMet(s)')
                                   THEN 1 ELSE 0
    BY <1>2 DEF MergesFit
  <2>1. sweep \in MergingSweeps =>
          merges'[s] = IF s \in MeetAt(r, v) THEN merges[s] + 1 ELSE merges[s]
    BY <1>1, <1>3 DEF Count
  <2>2. merges[s] = IF sweep \in MergingSweeps /\ (stage[Owner[s[1]]] = "LastTouches" \/ HasMet(s))
                    THEN 1 ELSE 0
    BY DEF MergesFit
  <2>3. s \in MeetAt(r, v) => Owner[s[1]] = r
    BY DEF MeetAt
  <2> QED
    BY <2>1, <2>2, <2>3, <1>1, <1>2, <1>5
<1>14. MailFits'
  BY <1>2, <1>7 DEF MailFits
<1>15. OutboxFits'
  <2> SUFFICES ASSUME NEW p \in Channels
               PROVE  /\ IsStacked(outbox[p], forward)
                      /\ Range(outbox[p]) =
                           IF sweep \in SendingSweeps /\ stage[p[1]] = "LastTouches"
                           THEN Messages(p, Touches(p[1]) \ rest'[p[1]], forward) ELSE {}
    BY <1>2 DEF OutboxFits
  <2>1. p[1] \in Ranks
    BY DEF Channels
  <2>2. stage[p[1]] = "LastTouches" => rest'[p[1]] = rest[p[1]]
    BY <2>1, <1>2, <1>4
  <2> QED
    BY <2>2 DEF OutboxFits
<1> QED
  BY <1>8, <1>9, <1>10, <1>11, <1>12, <1>13, <1>14, <1>15

\* At the last touch of a face, and at no other, the counter of the sending side
\* comes down to zero.
LEMMA LastTouchesAreTold ==
  ASSUME ExchangeInv, NEW r \in Ranks, NEW v \in Vertices, sweep \in SendingSweeps,
         stage[r] = "LastTouches", IsNext(v, r),
         NEW side \in RemoteSides, v \in InsideVertices(side), Owner[side[2]] = r
  PROVE  Message(v, side) = [vertex |-> v, side |-> side, real |-> IsLastTouch(v, side, forward)]
<1> USE DEF ExchangeInv
<1> DEFINE t == Opposite(side)
           left == InsideVertices(side) \cap rest[r]
<1>1. /\ side \in Sides /\ side[2] \in Cells
      /\ t \in RemoteSides /\ t \in Sides /\ Opposite(t) = side /\ t[1] = side[2]
      /\ InsideVertices(t) = InsideVertices(side)
      /\ IsFiniteSet(InsideVertices(side))
  BY OppositeSides, VerticesOfFaces DEF RemoteSides
<1>2. ASSUME NEW x \in Solvers
      PROVE  Decremented({side})[<<t, x>>] = Cardinality(left) - 1
  <2>1. <<t, x>> \in DOMAIN counter
    BY <1>1 DEF TypeOK
  <2>2. counter[<<t, x>>] = Cardinality(left)
    BY <1>1 DEF CountersFit
  <2> QED
    BY <2>1, <2>2, <1>1 DEF Decremented
<1>3. v \in left /\ IsFiniteSet(left \ {v}) /\ Cardinality(left) \in Nat
      /\ Cardinality(left \ {v}) = Cardinality(left) - 1
  <2>1. IsFiniteSet(left)
    BY <1>1, FS_Subset
  <2>2. v \in left
    BY DEF IsNext
  <2> QED
    BY <2>1, <2>2, FS_RemoveElement, FS_CardinalityType
<1>4. Cardinality(left) - 1 = 0 <=> left \ {v} = {}
  BY <1>3, FS_EmptySet
<1>5. left \ {v} = {} <=> IsLastTouch(v, side, forward)
  <2>1. forward \in BOOLEAN
    BY DEF TypeOK
  <2>2. ASSUME left \ {v} = {}, NEW w \in InsideVertices(side) \ {v}
        PROVE  TouchedBefore(forward, w, v)
    <3>1. w \in Vertices /\ side \in SidesAt(w)
      BY DEF InsideVertices
    <3>2. w \in Touches(r) \ rest[r]
      BY <3>1, <2>2, <1>1, OwnersTouch
    <3> QED
      BY <3>2 DEF RestFits, IsNext
  <2>3. ASSUME IsLastTouch(v, side, forward), NEW w \in left \ {v}
        PROVE  FALSE
    <3>1. TouchedBefore(forward, w, v) /\ TouchedBefore(forward, v, w) /\ w \in Vertices
      BY <2>3 DEF IsLastTouch, IsNext, InsideVertices
    <3> QED
      BY <3>1, <2>1, TouchesAreOrdered
  <2>4. left \ {v} = {} => IsLastTouch(v, side, forward)
    BY <2>2 DEF IsLastTouch
  <2>5. IsLastTouch(v, side, forward) => left \ {v} = {}
    BY <2>3
  <2> QED
    BY <2>4, <2>5
<1> HIDE DEF left
<1>6. (\A x \in Solvers : Decremented({side})[<<t, x>>] = 0) <=> IsLastTouch(v, side, forward)
  <2>1. Solvers # {}
    BY FaceExchangeAssumption
  <2> QED
    BY <2>1, <1>2, <1>4, <1>5
<1>7. (\A x \in Solvers : Decremented({side})[<<t, x>>] = 0) = IsLastTouch(v, side, forward)
  <2>1. IsLastTouch(v, side, forward) \in BOOLEAN
    BY DEF IsLastTouch
  <2> QED
    BY <2>1, <1>6
<1> QED
  BY <1>7 DEF Message

\* What a last touch does to counters and outboxes.
LEMMA LastTouchSends ==
  ASSUME ExchangeInv, NEW r \in Ranks, NEW v \in Vertices, TouchVertexLastTime(r, v)
  PROVE  /\ \A s \in RemoteSides, x \in Solvers :
              counter'[<<s, x>>] =
                IF sweep \in SendingSweeps /\ Owner[s[1]] = r /\ v \in InsideVertices(s)
                THEN counter[<<s, x>>] - 1 ELSE counter[<<s, x>>]
         /\ DOMAIN counter' = RemoteSides \X Solvers
         /\ counter' = [x \in DOMAIN counter |-> counter'[x]]
         /\ outbox' = [p \in Channels |-> outbox'[p]]
         /\ \A p \in Channels :
              outbox'[p] =
                IF sweep \in SendingSweeps /\ p[1] = r
                THEN outbox[p] \o Batch(p, v, forward)
                ELSE outbox[p]
<1> USE DEF ExchangeInv
<1> DEFINE sides(to) == IF sweep \in SendingSweeps THEN SendOrder(v, r, to) ELSE <<>>
           messages(to) == [i \in DOMAIN sides(to) |-> Message(v, sides(to)[i])]
           all == UNION {Range(sides(to)) : to \in Ranks \ {r}}
<1>1. /\ stage[r] = "LastTouches" /\ IsNext(v, r)
      /\ counter' = Decremented(all)
      /\ outbox' = [p \in Channels |->
                      IF p[1] = r THEN outbox[p] \o messages(p[2]) ELSE outbox[p]]
  BY DEF TouchVertexLastTime
<1>2. /\ counter \in [RemoteSides \X Solvers -> 0..TwoPowerD]
      /\ outbox \in [Channels -> Seq(AllMessages)]
  BY DEF TypeOK
<1>3. sweep \notin SendingSweeps => all = {}
  BY DEF Range
<1>4. ASSUME sweep \in SendingSweeps, NEW to \in Ranks \ {r}
      PROVE  /\ sides(to) = SendOrder(v, r, to) /\ sides(to) \in Seq(RemoteSides)
             /\ Range(sides(to)) =
                  {s \in RemoteSides : v \in InsideVertices(s) /\ Owner[s[1]] = to /\ Owner[s[2]] = r}
  <2>1. sides(to) = SendOrder(v, r, to)
    BY <1>4
  <2>2. SendOrder(v, r, to) \in Seq(RemoteSides)
        /\ Range(SendOrder(v, r, to)) = ExchangedAt(v, r, to)
    BY OrdersAtVertices
  <2>3. ExchangedAt(v, r, to) =
          {s \in RemoteSides : v \in InsideVertices(s) /\ Owner[s[1]] = to /\ Owner[s[2]] = r}
    BY SidesAtVertices
  <2> QED
    BY <2>1, <2>2, <2>3
<1>5. ASSUME NEW s \in RemoteSides
      PROVE  Opposite(s) \in all <=>
               sweep \in SendingSweeps /\ Owner[s[1]] = r /\ v \in InsideVertices(s)
  <2>1. /\ Opposite(s) \in RemoteSides /\ Opposite(s)[1] = s[2] /\ Opposite(s)[2] = s[1]
        /\ InsideVertices(Opposite(s)) = InsideVertices(s)
    BY OppositeSides DEF RemoteSides
  <2>2. Owner[s[2]] \in Ranks \ {Owner[s[1]]}
    BY MeetingPlacesAreTouched DEF RemoteSides
  <2>3. CASE sweep \in SendingSweeps
    <3> HIDE DEF sides
    <3> QED
      BY <2>1, <2>2, <2>3, <1>4
  <2> QED
    BY <2>3, <1>3
<1>6. ASSUME NEW s \in RemoteSides, NEW x \in Solvers
      PROVE  counter'[<<s, x>>] =
                IF sweep \in SendingSweeps /\ Owner[s[1]] = r /\ v \in InsideVertices(s)
                THEN counter[<<s, x>>] - 1 ELSE counter[<<s, x>>]
  <2>1. counter'[<<s, x>>] =
          IF Opposite(s) \in all THEN counter[<<s, x>>] - 1 ELSE counter[<<s, x>>]
    <3> HIDE DEF all
    <3> QED
      BY <1>1, <1>2 DEF Decremented
  <2> QED
    BY <2>1, <1>5
<1>7. DOMAIN counter' = RemoteSides \X Solvers /\ counter' = [x \in DOMAIN counter |-> counter'[x]]
  <2> HIDE DEF all
  <2> QED
    BY <1>1, <1>2 DEF Decremented
<1>8. outbox' = [p \in Channels |-> outbox'[p]]
  <2> HIDE DEF messages
  <2> QED
    BY <1>1
<1>9. ASSUME NEW p \in Channels
      PROVE  outbox'[p] =
                IF sweep \in SendingSweeps /\ p[1] = r
                THEN outbox[p] \o Batch(p, v, forward)
                ELSE outbox[p]
  <2>1. p[1] \in Ranks /\ p[2] \in Ranks /\ p[1] # p[2]
    BY DEF Channels
  <2>2. outbox'[p] = IF p[1] = r THEN outbox[p] \o messages(p[2]) ELSE outbox[p]
    <3> HIDE DEF messages
    <3> QED
      BY <1>1
  <2>3. CASE p[1] # r
    BY <2>2, <2>3
  <2>4. CASE p[1] = r /\ sweep \notin SendingSweeps
    <3>1. messages(p[2]) = <<>>
      BY <2>4
    <3>2. outbox[p] \in Seq(AllMessages) /\ outbox[p] \o <<>> = outbox[p]
      BY <1>2
    <3> HIDE DEF messages
    <3> QED
      BY <2>2, <2>4, <3>1, <3>2
  <2>5. CASE p[1] = r /\ sweep \in SendingSweeps
    <3> DEFINE e == SendOrder(v, p[1], p[2])
    <3>1. p[2] \in Ranks \ {r} /\ sides(p[2]) = e
      BY <2>1, <2>5
    <3>2. e \in Seq(RemoteSides) /\ Range(e) =
            {s \in RemoteSides : v \in InsideVertices(s) /\ Owner[s[1]] = p[2] /\ Owner[s[2]] = r}
      BY <3>1, <2>5, <1>4
    <3>3. messages(p[2]) = [i \in DOMAIN e |-> Message(v, e[i])]
      BY <3>1
    <3> HIDE DEF e, sides, messages
    <3>4. ASSUME NEW i \in DOMAIN e
          PROVE  Message(v, e[i]) = [vertex |-> v, side |-> e[i], real |-> IsLastTouch(v, e[i], forward)]
      <4>1. e[i] \in RemoteSides /\ v \in InsideVertices(e[i]) /\ Owner[e[i][2]] = r
        BY <3>2 DEF Range
      <4> QED
        BY <4>1, <1>1, <2>5, LastTouchesAreTold
    <3>5. messages(p[2]) = [i \in DOMAIN e |->
                              [vertex |-> v, side |-> e[i], real |-> IsLastTouch(v, e[i], forward)]]
      BY <3>3, <3>4
    <3> QED
      BY <2>2, <2>5, <3>5 DEF e, Batch
  <2> QED
    BY <2>3, <2>4, <2>5
<1> QED
  BY <1>6, <1>7, <1>8, <1>9

LEMMA LastTouchKeepsInv ==
  ASSUME ExchangeInv, NEW r \in Ranks, NEW v \in Vertices, TouchVertexLastTime(r, v)
  PROVE  ExchangeInv'
<1> USE DEF ExchangeInv
<1>1. /\ \A s \in RemoteSides, x \in Solvers :
           counter'[<<s, x>>] =
             IF sweep \in SendingSweeps /\ Owner[s[1]] = r /\ v \in InsideVertices(s)
             THEN counter[<<s, x>>] - 1 ELSE counter[<<s, x>>]
      /\ DOMAIN counter' = RemoteSides \X Solvers
      /\ counter' = [x \in DOMAIN counter |-> counter'[x]]
      /\ outbox' = [p \in Channels |-> outbox'[p]]
      /\ \A p \in Channels :
           outbox'[p] =
             IF sweep \in SendingSweeps /\ p[1] = r
             THEN outbox[p] \o Batch(p, v, forward)
             ELSE outbox[p]
  BY LastTouchSends
<1>2. /\ stage[r] = "LastTouches" /\ IsNext(v, r) /\ v \in rest[r]
      /\ rest' = [rest EXCEPT ![r] = @ \ {v}]
      /\ UNCHANGED <<sweep, todo, forward, stage, mergePerformed, mail, merges>>
  BY DEF TouchVertexLastTime, IsNext
<1>3. /\ sweep \in Sweeps /\ forward \in BOOLEAN
      /\ stage \in [Ranks -> {"FirstTouches", "LastTouches"}]
      /\ rest \in [Ranks -> SUBSET Vertices]
      /\ counter \in [RemoteSides \X Solvers -> 0..TwoPowerD]
      /\ outbox \in [Channels -> Seq(AllMessages)]
  BY DEF TypeOK
<1>4. rest'[r] = rest[r] \ {v} /\ \A q \in Ranks \ {r} : rest'[q] = rest[q]
  BY <1>2, <1>3
<1>5. ASSUME NEW s \in Sides, stage[Owner[s[1]]] = "FirstTouches"
      PROVE  HasMet(s)' = HasMet(s)
  <2>1. Owner[s[1]] \in Ranks \ {r}
    BY <1>2, <1>5, MeetingPlacesAreTouched
  <2> QED
    BY <2>1, <1>4 DEF HasMet
<1>6. ASSUME NEW s \in RemoteSides, NEW x \in Solvers
      PROVE  /\ counter'[<<s, x>>] \in 0..TwoPowerD
             /\ stage[Owner[s[1]]] = "LastTouches" /\ sweep \in SendingSweeps =>
                  counter'[<<s, x>>] = Cardinality(InsideVertices(s) \cap rest'[Owner[s[1]]])
  <2>1. /\ s \in Sides /\ Owner[s[1]] \in Ranks /\ IsFiniteSet(InsideVertices(s))
        /\ counter[<<s, x>>] \in 0..TwoPowerD
    BY <1>3, MeetingPlacesAreTouched DEF RemoteSides
  <2>2. CASE sweep \in SendingSweeps /\ Owner[s[1]] = r /\ v \in InsideVertices(s)
    <3> DEFINE left == InsideVertices(s) \cap rest[r]
    <3>1. IsFiniteSet(left) /\ v \in left /\ InsideVertices(s) \cap rest'[r] = left \ {v}
      BY <2>1, <2>2, <1>2, <1>4, FS_Subset
    <3>2. counter[<<s, x>>] = Cardinality(left)
      BY <2>2, <1>2 DEF CountersFit
    <3>3. IsFiniteSet(left \ {v}) /\ Cardinality(left \ {v}) = Cardinality(left) - 1
      BY <3>1, FS_RemoveElement
    <3>4. Cardinality(left \ {v}) \in Nat
      BY <3>3, FS_CardinalityType
    <3>5. counter'[<<s, x>>] = counter[<<s, x>>] - 1
      BY <2>2, <1>1
    <3> HIDE DEF left
    <3>6. counter'[<<s, x>>] = Cardinality(left \ {v})
      BY <3>2, <3>3, <3>5
    <3>7. counter[<<s, x>>] - 1 <= TwoPowerD
      BY <2>1 DEF TwoPowerD
    <3>8. counter'[<<s, x>>] \in Nat /\ counter'[<<s, x>>] <= TwoPowerD
      <4>1. counter'[<<s, x>>] <= TwoPowerD
        BY <3>5, <3>7
      <4> QED
        BY <4>1, <3>4, <3>6
    <3> QED
      BY <2>2, <3>1, <3>6, <3>8 DEF TwoPowerD
  <2>3. CASE ~ (sweep \in SendingSweeps /\ Owner[s[1]] = r /\ v \in InsideVertices(s))
    <3>1. counter'[<<s, x>>] = counter[<<s, x>>]
      BY <2>3, <1>1
    <3>2. sweep \in SendingSweeps =>
            InsideVertices(s) \cap rest'[Owner[s[1]]] = InsideVertices(s) \cap rest[Owner[s[1]]]
      BY <2>1, <2>3, <1>4
    <3> QED
      BY <2>1, <3>1, <3>2 DEF CountersFit
  <2> QED
    BY <2>2, <2>3
<1>7. ASSUME NEW p \in Channels
      PROVE  /\ outbox'[p] \in Seq(AllMessages) /\ IsStacked(outbox'[p], forward)
             /\ Range(outbox'[p]) =
                  IF sweep \in SendingSweeps /\ stage[p[1]] = "LastTouches"
                  THEN Messages(p, Touches(p[1]) \ rest'[p[1]], forward) ELSE {}
  <2>1. /\ p[1] \in Ranks
        /\ outbox[p] \in Seq(AllMessages) /\ IsStacked(outbox[p], forward)
        /\ Range(outbox[p]) = IF sweep \in SendingSweeps /\ stage[p[1]] = "LastTouches"
                              THEN Messages(p, Touches(p[1]) \ rest[p[1]], forward) ELSE {}
    BY <1>3 DEF OutboxFits, Channels
  <2>2. CASE p[1] # r \/ sweep \notin SendingSweeps
    <3>1. outbox'[p] = outbox[p]
      BY <2>2, <1>1
    <3> QED
      BY <2>1, <2>2, <3>1, <1>4
  <2>3. CASE p[1] = r /\ sweep \in SendingSweeps
    <3> DEFINE V == Touches(r) \ rest[r]
               box == outbox[p]
               d == forward
               batch == Batch(p, v, d)
    <3>1. outbox'[p] = box \o batch
      BY <2>3, <1>1
    <3>2. V \in SUBSET Vertices /\ v \in Vertices \ V /\ v \in Touches(r)
          /\ \A w \in V : TouchedBefore(forward, w, v)
      BY <1>2 DEF RestFits, Touches
    <3>3. V \cup {v} = Touches(r) \ rest'[r]
      BY <3>2, <1>2, <1>4
    <3>4. box \in Seq(AllMessages) /\ IsStacked(box, d) /\ Range(box) = Messages(p, V, d)
      BY <2>1, <2>3, <1>2
    <3>5. d \in BOOLEAN /\ \A w \in V : TouchedBefore(d, w, v)
      BY <3>2, <1>3
    <3> HIDE DEF V, box, d
    <3>6. batch = Batch(p, v, d)
      OBVIOUS
    <3> HIDE DEF batch
    <3>7. /\ box \o batch \in Seq(AllMessages) /\ IsStacked(box \o batch, d)
          /\ Range(box \o batch) = Messages(p, V \cup {v}, d)
      BY <3>2, <3>4, <3>5, <3>6, StackGrows
    <3> QED
      BY <2>3, <3>1, <3>3, <3>7, <1>2 DEF d
  <2> QED
    BY <2>2, <2>3
<1>8. TypeOK'
  <2>1. rest' \in [Ranks -> SUBSET Vertices]
    BY <1>2, <1>3
  <2>2. counter' \in [RemoteSides \X Solvers -> 0..TwoPowerD]
    <3>1. \A y \in RemoteSides \X Solvers : counter'[y] \in 0..TwoPowerD
      <4> SUFFICES ASSUME NEW y \in RemoteSides \X Solvers
                   PROVE  counter'[y] \in 0..TwoPowerD
        OBVIOUS
      <4>1. PICK s \in RemoteSides, x \in Solvers : y = <<s, x>>
        OBVIOUS
      <4> QED
        BY <4>1, <1>6
    <3> QED
      BY <3>1, <1>1, <1>3
  <2>3. outbox' \in [Channels -> Seq(AllMessages)]
    BY <1>1, <1>7
  <2> QED
    BY <1>2, <2>1, <2>2, <2>3 DEF TypeOK
<1>9. SweepsFit'
  BY <1>2 DEF SweepsFit, SentBeforeReceived
<1>10. RestFits'
  <2> SUFFICES ASSUME NEW q \in Ranks
               PROVE  /\ rest'[q] \subseteq Touches(q)
                      /\ \A u \in rest'[q], w \in Touches(q) \ rest'[q] : TouchedBefore(forward, w, u)
    BY <1>2 DEF RestFits
  <2>1. CASE q = r
    BY <2>1, <1>2, <1>4 DEF RestFits, IsNext
  <2>2. CASE q # r
    BY <2>2, <1>4 DEF RestFits
  <2> QED
    BY <2>1, <2>2
<1>11. CountersFit'
  <2> SUFFICES ASSUME NEW s \in RemoteSides, NEW x \in Solvers,
                      stage[Owner[s[1]]] = "FirstTouches", sweep \in ReceivingSweeps
               PROVE  counter'[<<s, x>>] = IF HasMet(s)' THEN TwoPowerD ELSE 0
    BY <1>2, <1>6 DEF CountersFit
  <2>1. Owner[s[1]] # r /\ s \in Sides
    BY <1>2 DEF RemoteSides
  <2>2. counter'[<<s, x>>] = counter[<<s, x>>]
    BY <2>1, <1>1
  <2> QED
    BY <2>1, <2>2, <1>5 DEF CountersFit
<1>12. FlagsFit'
  BY <1>2, <1>5 DEF FlagsFit
<1>13. MergesFit'
  <2> SUFFICES ASSUME NEW s \in Sides
               PROVE  merges[s] = IF sweep \in MergingSweeps
                                     /\ (stage[Owner[s[1]]] = "LastTouches" \/ HasMet(s)')
                                  THEN 1 ELSE 0
    BY <1>2 DEF MergesFit
  <2>1. stage[Owner[s[1]]] \in {"FirstTouches", "LastTouches"}
    BY <1>3, MeetingPlacesAreTouched
  <2> QED
    BY <2>1, <1>5 DEF MergesFit
<1>14. MailFits'
  <2>1. \A p \in Channels : stage[p[2]] = "FirstTouches" => rest'[p[2]] = rest[p[2]]
    BY <1>2, <1>4 DEF Channels
  <2> QED
    BY <2>1, <1>2 DEF MailFits
<1>15. OutboxFits'
  BY <1>2, <1>7 DEF OutboxFits
<1> QED
  BY <1>8, <1>9, <1>10, <1>11, <1>12, <1>13, <1>14, <1>15

LEMMA StepsKeepInv ==
  ASSUME NoFiniteVolumes, ExchangeInv, [Next]_vars
  PROVE  ExchangeInv'
<1>1. CASE Next
  BY <1>1, FirstTouchKeepsInv, LastTouchKeepsInv, EnterCellsKeepsInv, EndIterationKeepsInv DEF Next
<1>2. CASE UNCHANGED vars
  BY <1>2 DEF vars, ExchangeInv, TypeOK, SweepsFit, SentBeforeReceived, RestFits, CountersFit,
     FlagsFit, MergesFit, MailFits, OutboxFits, HasMet
<1> QED
  BY <1>1, <1>2

-----------------------------------------------------------------------------
(***************************************************************************)
(* The theorems.                                                           *)
(***************************************************************************)

\* The counters and flags tell every rank, in sweeps that alternate their
\* direction, where a face is touched first and last, and what was sent in a
\* sweep lies ready in the order in which the next one asks for it.
THEOREM ExchangeIsInvariant ==
  ASSUME NoFiniteVolumes
  PROVE  Spec => []ExchangeInv
<1>1. Init => ExchangeInv
  BY InitEstablishesInv
<1>2. ExchangeInv /\ [Next]_vars => ExchangeInv'
  BY StepsKeepInv
<1> QED
  BY <1>1, <1>2, PTL DEF Spec

\* No counter falls below zero or exceeds its value for a face that exchanges
\* nothing.
THEOREM TypesAreOK ==
  ASSUME NoFiniteVolumes
  PROVE  Spec => []TypeOK
<1>1. ExchangeInv => TypeOK
  BY DEF ExchangeInv
<1> QED
  BY <1>1, ExchangeIsInvariant, PTL

\* The vertex of a face that one sweep touches last is the one the next sweep
\* touches first.
LEMMA LastTouchIsNextFirst ==
  ASSUME ExchangeInv, NEW r \in Ranks, NEW v \in Vertices, IsNext(v, r),
         NEW s \in RemoteSides, Owner[s[1]] = r, v \in InsideVertices(s)
  PROVE  IsLastTouch(v, s, ~forward) <=> ~ HasMet(s)
<1>1. /\ MeetingPlaces(s) = InsideVertices(s) /\ InsideVertices(s) \subseteq Touches(r)
      /\ InsideVertices(s) \subseteq Vertices
  BY MeetingPlacesAreTouched DEF RemoteSides
<1>2. forward \in BOOLEAN /\ RestFits
  BY DEF ExchangeInv, TypeOK
<1>3. \A w \in Vertices : /\ TouchedBefore(~forward, w, v) <=> TouchedBefore(forward, v, w)
                          /\ ~ (TouchedBefore(forward, v, w) /\ TouchedBefore(forward, w, v))
  BY <1>2, TouchesAreOrdered
<1>4. ASSUME IsLastTouch(v, s, ~forward), NEW w \in InsideVertices(s)
      PROVE  w \in rest[r]
  <2>1. CASE w = v
    BY <2>1 DEF IsNext
  <2>2. CASE w # v
    <3>1. TouchedBefore(forward, v, w)
      BY <1>1, <1>3, <1>4, <2>2 DEF IsLastTouch
    <3> QED
      BY <1>1, <1>2, <1>3, <3>1 DEF RestFits, IsNext
  <2> QED
    BY <2>1, <2>2
<1>5. ASSUME InsideVertices(s) \subseteq rest[r]
      PROVE  IsLastTouch(v, s, ~forward)
  BY <1>1, <1>3, <1>5 DEF IsLastTouch, IsNext
<1> QED
  BY <1>1, <1>4, <1>5 DEF HasMet

\* A rank that is about to receive finds the messages it expects, of that vertex
\* and those faces, and face data for exactly those it asks data for: no receive
\* waits for ever, none takes another face's data or an empty message for data.
THEOREM MessagesAlwaysFit ==
  ASSUME NoFiniteVolumes
  PROVE  Spec => []MessagesFit
<1>1. ExchangeInv => MessagesFit
  <2> SUFFICES ASSUME ExchangeInv, NEW r \in Ranks, NEW v \in Vertices, NEW q \in Ranks \ {r},
                      sweep \in ReceivingSweeps, stage[r] = "FirstTouches", IsNext(v, r)
               PROVE  LET expected == ReceiveOrder(v, q, r)
                          box == mail[<<q, r>>]
                      IN  /\ Len(box) >= Len(expected)
                          /\ \A i \in DOMAIN expected :
                               LET m == box[Len(box) + 1 - i]
                               IN  /\ m.vertex = v /\ m.side = expected[i]
                                   /\ m.real <=> HasToMergeWithNeighbourData(m.side)
    BY DEF MessagesFit
  <2> DEFINE e == ReceiveOrder(v, q, r)
             box == mail[<<q, r>>]
  <2>1. TopFits(box, <<q, r>>, rest[r], ~forward, v)
    BY MailIsExpected
  <2>2. <<q, r>>[1] = q /\ <<q, r>>[2] = r /\ <<q, r>> \in Channels
    BY DEF Channels
  <2>3. /\ Len(e) \in Nat /\ Len(box) >= Len(e)
        /\ \A i \in DOMAIN e : /\ box[Len(box) + 1 - i].vertex = v
                               /\ box[Len(box) + 1 - i].side = e[i]
    BY <2>1, <2>2 DEF TopFits
  <2>4. e \in Seq(RemoteSides)
    BY OrdersAtVertices
  <2>5. box \in Seq(AllMessages) /\ Range(box) = Messages(<<q, r>>, rest[r], ~forward)
    BY <2>2 DEF ExchangeInv, TypeOK, MailFits
  <2>6. ASSUME NEW i \in DOMAIN e
        PROVE  LET m == box[Len(box) + 1 - i]
               IN  m.real <=> HasToMergeWithNeighbourData(m.side)
    <3> DEFINE m == box[Len(box) + 1 - i]
    <3>1. i \in 1..Len(e) /\ Len(box) \in Nat /\ DOMAIN box = 1..Len(box)
      BY <2>4, <2>5
    <3>2. Len(box) + 1 - i \in DOMAIN box
      BY <2>3, <3>1
    <3>3. m \in Messages(<<q, r>>, rest[r], ~forward)
      BY <2>5, <3>2 DEF Range
    <3>4. /\ m.side \in ExchangedAt(v, q, r)
          /\ m.real = IsLastTouch(v, m.side, ~forward)
      BY <2>2, <2>3, <3>3 DEF Messages
    <3>5. m.side \in RemoteSides /\ v \in InsideVertices(m.side) /\ Owner[m.side[1]] = r
      BY <3>4, SidesAtVertices
    <3>6. IsLastTouch(v, m.side, ~forward) <=> ~ HasMet(m.side)
      BY <3>5, LastTouchIsNextFirst
    <3>7. HasToMergeWithNeighbourData(m.side) <=> ~ HasMet(m.side)
      BY <3>5, FirstTouchesAreTold
    <3> HIDE DEF m
    <3> QED
      BY <3>4, <3>6, <3>7 DEF m
  <2> HIDE DEF e, box
  <2> QED
    BY <2>3, <2>6 DEF e, box
<1> QED
  BY <1>1, ExchangeIsInvariant, PTL

\* No time step updates a cell before all its faces were merged.
THEOREM FacesAreMergedBeforeUpdate ==
  ASSUME NoFiniteVolumes
  PROVE  Spec => []FacesMergedBeforeUpdate
<1>1. ExchangeInv => FacesMergedBeforeUpdate
  <2> SUFFICES ASSUME ExchangeInv, sweep = "ADERDGTimeStep", NEW s \in Sides, NEW x \in Solvers,
                      stage[Owner[s[1]]] = "FirstTouches", rest[Owner[s[1]]] = {}
               PROVE  <<s, x>> \in mergePerformed
    BY DEF FacesMergedBeforeUpdate
  <2>1. HasMet(s)
    BY MeetingPlacesAreTouched DEF HasMet
  <2> QED
    BY <2>1, SweepKinds DEF ExchangeInv, FlagsFit
<1> QED
  BY <1>1, ExchangeIsInvariant, PTL

-----------------------------------------------------------------------------
(***************************************************************************)
(* FaceExchange implements FaceMerging.                                    *)
(***************************************************************************)

\* The inside vertex of a face that a sweep touches last.
LastVertex(s, d) == CHOOSE w \in InsideVertices(s) : IsLastTouch(w, s, d)

LEMMA LastVertices ==
  ASSUME NEW s \in RemoteSides, NEW d \in BOOLEAN
  PROVE  /\ LastVertex(s, d) \in InsideVertices(s)
         /\ \A w \in InsideVertices(s) : IsLastTouch(w, s, d) <=> w = LastVertex(s, d)
<1> DEFINE I == InsideVertices(s)
<1>1. I # {} /\ I \subseteq Vertices /\ IsFiniteSet(I) /\ Cardinality(I) \in 1..2
  BY MeetingPlacesAreTouched DEF RemoteSides, InsideVertices
<1>2. PICK a \in I : TRUE
  BY <1>1
<1>3. \A w, u \in I : IsLastTouch(w, s, d) /\ IsLastTouch(u, s, d) => w = u
  BY <1>1, TouchesAreOrdered DEF IsLastTouch
<1>4. \E w \in I : IsLastTouch(w, s, d)
  <2>1. CASE I = {a}
    BY <2>1 DEF IsLastTouch
  <2>2. CASE I # {a}
    <3>1. PICK b \in I : b # a
      BY <1>2, <2>2
    <3>2. I = {a, b}
      <4>1. IsFiniteSet(I \ {a}) /\ Cardinality(I \ {a}) = Cardinality(I) - 1
        BY <1>1, <1>2, FS_RemoveElement
      <4>2. b \in I \ {a}
        BY <3>1
      <4>3. IsFiniteSet((I \ {a}) \ {b})
            /\ Cardinality((I \ {a}) \ {b}) = Cardinality(I \ {a}) - 1
        BY <4>1, <4>2, FS_RemoveElement
      <4>4. Cardinality((I \ {a}) \ {b}) \in Nat
        BY <4>3, FS_CardinalityType
      <4> DEFINE n == Cardinality((I \ {a}) \ {b})
      <4>5. n = 0
        BY <1>1, <4>1, <4>3, <4>4
      <4>6. (I \ {a}) \ {b} = {}
        BY <4>3, <4>5, FS_EmptySet
      <4> HIDE DEF I
      <4> QED
        BY <1>2, <3>1, <4>6
    <3>3. TouchedBefore(d, a, b) \/ TouchedBefore(d, b, a)
      BY <1>1, <3>1, TouchesAreOrdered
    <3>4. IsLastTouch(a, s, d) \/ IsLastTouch(b, s, d)
      BY <3>2, <3>3 DEF IsLastTouch
    <3> QED
      BY <1>2, <3>1, <3>4
  <2> QED
    BY <2>1, <2>2
<1> QED
  BY <1>3, <1>4 DEF LastVertex

\* The real messages among those for the vertices V.
LEMMA RealMessages ==
  ASSUME NEW p \in Channels, NEW V \in SUBSET Vertices, NEW d \in BOOLEAN,
         NEW box \in Seq(AllMessages), IsStacked(box, d), Range(box) = Messages(p, V, d)
  PROVE  /\ RealSides(box) =
              {s \in RemoteSides : /\ Owner[s[1]] = p[2] /\ Owner[s[2]] = p[1]
                                   /\ LastVertex(s, d) \in V}
         /\ \A s \in RemoteSides :
              Owner[s[1]] = p[2] /\ Owner[s[2]] = p[1] =>
                Cardinality({i \in RealIn(box) : box[i].side = s}) =
                  IF LastVertex(s, d) \in V THEN 1 ELSE 0
<1>1. p[1] \in Ranks /\ p[2] \in Ranks /\ p[1] # p[2]
  BY DEF Channels
<1>2. ASSUME NEW i \in RealIn(box)
      PROVE  /\ box[i].side \in RemoteSides
             /\ Owner[box[i].side[1]] = p[2] /\ Owner[box[i].side[2]] = p[1]
             /\ box[i].vertex = LastVertex(box[i].side, d) /\ box[i].vertex \in V
  <2>1. i \in DOMAIN box /\ box[i].real
    BY DEF RealIn
  <2>2. box[i] \in Messages(p, V, d)
    BY <2>1 DEF Range
  <2>3. /\ box[i].vertex \in V /\ box[i].side \in RemoteSides
        /\ box[i].side \in ExchangedAt(box[i].vertex, p[1], p[2])
        /\ IsLastTouch(box[i].vertex, box[i].side, d)
    BY <2>1, <2>2 DEF Messages, AllMessages
  <2>4. /\ box[i].vertex \in InsideVertices(box[i].side)
        /\ Owner[box[i].side[1]] = p[2] /\ Owner[box[i].side[2]] = p[1]
    BY <2>3, <1>1, SidesAtVertices
  <2> QED
    BY <2>3, <2>4, LastVertices
<1>3. ASSUME NEW s \in RemoteSides, Owner[s[1]] = p[2], Owner[s[2]] = p[1], LastVertex(s, d) \in V
      PROVE  \E i \in RealIn(box) : box[i].side = s
  <2> DEFINE w == LastVertex(s, d)
             m == [vertex |-> w, side |-> s, real |-> TRUE]
  <2>1. w \in InsideVertices(s) /\ w \in Vertices /\ IsLastTouch(w, s, d)
    BY <1>3, LastVertices
  <2>2. s \in ExchangedAt(w, p[1], p[2])
    BY <2>1, <1>1, <1>3, SidesAtVertices
  <2> HIDE DEF w
  <2>3. w \in V /\ IsLastTouch(w, s, d) = TRUE
    BY <1>3, <2>1 DEF w, IsLastTouch
  <2>4. m \in Messages(p, V, d)
    BY <2>1, <2>2, <2>3 DEF Messages, AllMessages
  <2>5. PICK i \in DOMAIN box : box[i] = m
    BY <2>4 DEF Range
  <2> QED
    BY <2>5 DEF RealIn
<1>4. ASSUME NEW i \in RealIn(box), NEW j \in RealIn(box), box[i].side = box[j].side
      PROVE  i = j
  <2>1. i \in DOMAIN box /\ j \in DOMAIN box /\ DOMAIN box \subseteq Nat
    BY DEF RealIn
  <2>2. box[i].vertex = box[j].vertex
    BY <1>2, <1>4
  <2>3. ~ TouchedBefore(d, box[i].vertex, box[i].vertex) /\ ~ SideBefore(box[i].side, box[i].side)
    BY <1>2, TouchesAreOrdered, SidesAreOrdered DEF RemoteSides
  <2>4. ~ i < j /\ ~ j < i
    BY <1>4, <2>1, <2>2, <2>3 DEF IsStacked
  <2> QED
    BY <2>1, <2>4
<1>5. ASSUME NEW s \in RemoteSides, Owner[s[1]] = p[2], Owner[s[2]] = p[1]
      PROVE  Cardinality({i \in RealIn(box) : box[i].side = s}) = IF LastVertex(s, d) \in V THEN 1 ELSE 0
  <2> DEFINE S == {i \in RealIn(box) : box[i].side = s}
  <2>1. CASE LastVertex(s, d) \in V
    <3>1. PICK i \in RealIn(box) : box[i].side = s
      BY <1>3, <1>5, <2>1
    <3>2. S = {i}
      BY <3>1, <1>4
    <3> HIDE DEF S
    <3> QED
      BY <2>1, <3>2, FS_Singleton DEF S
  <2>2. CASE LastVertex(s, d) \notin V
    <3>1. S = {}
      BY <2>2, <1>2
    <3> HIDE DEF S
    <3> QED
      BY <2>2, <3>1, FS_EmptySet DEF S
  <2> QED
    BY <2>1, <2>2
<1>6. RealSides(box) =
        {s \in RemoteSides : Owner[s[1]] = p[2] /\ Owner[s[2]] = p[1] /\ LastVertex(s, d) \in V}
  BY <1>2, <1>3 DEF RealSides
<1> QED
  BY <1>5, <1>6

\* In a sweep that receives, the sides that have not met their data are offered it.
LEMMA WhatIsOffered ==
  ASSUME ExchangeInv, sweep \in ReceivingSweeps
  PROVE  Offered = {s \in RemoteSides : stage[Owner[s[1]]] = "FirstTouches" /\ ~ HasMet(s)}
<1> USE DEF ExchangeInv
<1> DEFINE d == ~forward
<1>1. d \in BOOLEAN /\ forward \in BOOLEAN
  BY DEF TypeOK
<1>2. ASSUME NEW s \in RemoteSides
      PROVE  LastVertex(s, d) \in rest[Owner[s[1]]] <=> ~ HasMet(s)
  <2> DEFINE r == Owner[s[1]]
             w == LastVertex(s, d)
  <2>1. /\ r \in Ranks /\ InsideVertices(s) # {} /\ InsideVertices(s) \subseteq Touches(r)
        /\ InsideVertices(s) \subseteq Vertices /\ MeetingPlaces(s) = InsideVertices(s)
    BY MeetingPlacesAreTouched DEF RemoteSides
  <2>2. w \in InsideVertices(s) /\ IsLastTouch(w, s, d)
    <3> HIDE DEF d
    <3> QED
      BY <1>1, LastVertices
  <2>3. HasMet(s) <=> ~ (InsideVertices(s) \subseteq rest[r])
    BY <2>1 DEF HasMet
  <2> HIDE DEF w
  <2>4. ASSUME w \in rest[r], NEW u \in InsideVertices(s), u \notin rest[r]
        PROVE  FALSE
    <3>1. u # w /\ TouchedBefore(d, u, w) /\ u \in Vertices /\ w \in Vertices
      BY <2>1, <2>2, <2>4 DEF IsLastTouch
    <3>2. TouchedBefore(forward, u, w)
      BY <2>1, <2>4 DEF RestFits
    <3>3. TouchedBefore(forward, w, u)
      BY <1>1, <3>1, TouchesAreOrdered
    <3> QED
      BY <1>1, <3>1, <3>2, <3>3, TouchesAreOrdered
  <2> QED
    BY <2>2, <2>3, <2>4 DEF w
<1>3. ASSUME NEW p \in Channels
      PROVE  RealSides(mail[p]) =
               {s \in RemoteSides : /\ Owner[s[1]] = p[2] /\ Owner[s[2]] = p[1]
                                    /\ stage[Owner[s[1]]] = "FirstTouches" /\ ~ HasMet(s)}
  <2> DEFINE V == IF stage[p[2]] = "FirstTouches" THEN rest[p[2]] ELSE {}
             box == mail[p]
  <2>1. p[1] \in Ranks /\ p[2] \in Ranks /\ V \in SUBSET Vertices
    BY DEF Channels, TypeOK
  <2>2. box \in Seq(AllMessages) /\ IsStacked(box, d) /\ Range(box) = Messages(p, V, d)
    <3>1. Messages(p, {}, d) = {}
      BY <1>1, NothingIsStacked
    <3> QED
      BY <3>1 DEF MailFits, TypeOK
  <2>3. \A s \in RemoteSides : Owner[s[1]] = p[2] =>
          (LastVertex(s, d) \in V <=> stage[Owner[s[1]]] = "FirstTouches" /\ ~ HasMet(s))
    BY <1>2
  <2> HIDE DEF V, box, d
  <2>4. RealSides(box) =
          {s \in RemoteSides : Owner[s[1]] = p[2] /\ Owner[s[2]] = p[1] /\ LastVertex(s, d) \in V}
    BY <1>1, <2>1, <2>2, RealMessages
  <2> QED
    BY <2>3, <2>4 DEF box
<1>4. ASSUME NEW s \in RemoteSides
      PROVE  \E p \in Channels : Owner[s[1]] = p[2] /\ Owner[s[2]] = p[1]
  <2>1. Owner[s[1]] \in Ranks /\ Owner[s[2]] \in Ranks \ {Owner[s[1]]}
    BY MeetingPlacesAreTouched DEF RemoteSides
  <2>2. <<Owner[s[2]], Owner[s[1]]>> \in Channels
    BY <2>1 DEF Channels
  <2> QED
    BY <2>2
<1> QED
  BY <1>3, <1>4 DEF Offered

\* The data for a side is sent when its neighbour's rank touches the last vertex.
LEMMA WhatIsSent ==
  ASSUME ExchangeInv, NEW s \in RemoteSides
  PROVE  Sent[s] = IF /\ sweep \in SendingSweeps /\ stage[Owner[s[2]]] = "LastTouches"
                      /\ LastVertex(s, forward) \notin rest[Owner[s[2]]]
                   THEN 1 ELSE 0
<1> USE DEF ExchangeInv
<1> DEFINE q == Owner[s[2]]
           p == <<q, Owner[s[1]]>>
           V == IF sweep \in SendingSweeps /\ stage[q] = "LastTouches"
                THEN Touches(q) \ rest[q] ELSE {}
           box == outbox[p]
           d == forward
<1>1. /\ s \in Sides /\ s[2] \in Cells /\ q \in Ranks /\ Owner[s[1]] \in Ranks \ {q}
  BY MeetingPlacesAreTouched DEF RemoteSides
<1>2. p \in Channels /\ p[1] = q /\ p[2] = Owner[s[1]]
  BY <1>1 DEF Channels
<1>3. d \in BOOLEAN /\ V \in SUBSET Vertices
  BY DEF TypeOK, Touches
<1>4. box \in Seq(AllMessages) /\ IsStacked(box, d) /\ Range(box) = Messages(p, V, d)
  <2>1. Messages(p, {}, d) = {}
    BY <1>2, <1>3, NothingIsStacked
  <2> HIDE DEF p
  <2> QED
    BY <1>2, <2>1 DEF OutboxFits, TypeOK
<1>5. LastVertex(s, d) \in Touches(q)
  <2>1. LastVertex(s, d) \in InsideVertices(s)
    BY <1>3, LastVertices
  <2> QED
    BY <2>1, <1>1, OwnersTouch DEF InsideVertices
<1>6. Sent[s] = Cardinality({i \in RealIn(box) : box[i].side = s})
  BY DEF Sent
<1>7. LastVertex(s, d) \in V <=>
        sweep \in SendingSweeps /\ stage[q] = "LastTouches" /\ LastVertex(s, d) \notin rest[q]
  BY <1>5
<1> HIDE DEF V, box, d, p
<1>8. Cardinality({i \in RealIn(box) : box[i].side = s}) = IF LastVertex(s, d) \in V THEN 1 ELSE 0
  BY <1>2, <1>3, <1>4, RealMessages
<1> QED
  BY <1>6, <1>7, <1>8 DEF d

\* Both hold after a step, too.
TransferFits ==
  /\ sweep \in ReceivingSweeps =>
       Offered = {s \in RemoteSides : stage[Owner[s[1]]] = "FirstTouches" /\ ~ HasMet(s)}
  /\ \A s \in RemoteSides :
       Sent[s] = IF /\ sweep \in SendingSweeps /\ stage[Owner[s[2]]] = "LastTouches"
                    /\ LastVertex(s, forward) \notin rest[Owner[s[2]]]
                 THEN 1 ELSE 0

LEMMA TransferFitsNext == ExchangeInv' => TransferFits'
<1>1. ExchangeInv => TransferFits
  BY WhatIsOffered, WhatIsSent DEF TransferFits
<1> QED
  BY <1>1, PTL

LEMMA InitIsInit ==
  ASSUME Init
  PROVE  Faces!Init
<1>1. ExchangeInv
  BY InitEstablishesInv
<1>2. Offered = {}
  BY DEF Init, Offered, NoMail, RealSides, RealIn
<1>3. Sent = [s \in RemoteSides |-> 0]
  <2>1. \A s \in RemoteSides : Sent[s] = 0
    BY <1>1, WhatIsSent, MeetingPlacesAreTouched DEF Init, RemoteSides
  <2> QED
    BY <2>1 DEF Sent
<1> QED
  BY <1>2, <1>3, SweepKinds DEF Init, Faces!Init

LEMMA FirstTouchMerges ==
  ASSUME ExchangeInv, ExchangeInv', NEW r \in Ranks, NEW v \in Vertices, TouchVertexFirstTime(r, v)
  PROVE  [Faces!Next]_(Faces!vars)
<1>1. PICK M \in SUBSET MeetAt(r, v) :
        /\ sweep \in MergingSweeps => M = MeetAt(r, v)
        /\ sweep \in ReceivingSweeps => M \cap RemoteSides = MeetAt(r, v) \cap RemoteSides
        /\ sweep \notin ReceivingSweeps => M \cap RemoteSides = {}
        /\ counter' = SetCountersOfDestination(M \cap RemoteSides)
        /\ mergePerformed' = mergePerformed \cup (M \X Solvers)
        /\ merges' = IF sweep \in MergingSweeps THEN Count(M) ELSE merges
  BY FirstTouchMeets
<1>2. /\ stage[r] = "FirstTouches" /\ v \in rest[r]
      /\ rest' = [rest EXCEPT ![r] = @ \ {v}]
      /\ UNCHANGED <<sweep, todo, forward, stage, outbox>>
  BY DEF TouchVertexFirstTime, IsNext
<1>3. /\ rest \in [Ranks -> SUBSET Vertices] /\ merges \in [Sides -> Nat]
      /\ mail \in [Channels -> Seq(AllMessages)]
  BY DEF ExchangeInv, TypeOK
<1>4. ASSUME NEW s \in Sides
      PROVE  HasMet(s)' <=> HasMet(s) \/ s \in MeetAt(r, v)
  <2>1. rest'[r] = rest[r] \ {v} /\ \A q \in Ranks \ {r} : rest'[q] = rest[q]
    BY <1>2, <1>3
  <2> QED
    BY <1>2, <2>1, MeetingPlacesAreTouched DEF HasMet, MeetAt
<1>5. Sent' = Sent
  BY <1>2 DEF Sent
<1>6. sweep \in ReceivingSweeps => Offered' = Offered \ MeetAt(r, v)
  <2>1. sweep \in ReceivingSweeps =>
          Offered = {s \in RemoteSides : stage[Owner[s[1]]] = "FirstTouches" /\ ~ HasMet(s)}
    BY WhatIsOffered
  <2>2. sweep' \in ReceivingSweeps =>
          Offered' = {s \in RemoteSides : stage'[Owner[s[1]]] = "FirstTouches" /\ ~ HasMet(s)'}
    BY TransferFitsNext DEF TransferFits
  <2> QED
    BY <1>2, <1>4, <2>1, <2>2 DEF RemoteSides
<1>7. CASE sweep \in MergingSweeps
  <2>1. merges' = Count(MeetAt(r, v))
    BY <1>1, <1>7
  <2>2. \A s \in Sides : merges'[s] = IF s \in MeetAt(r, v) THEN merges[s] + 1 ELSE merges[s]
    BY <2>1 DEF Count
  <2>3. ASSUME NEW s \in MeetAt(r, v)
        PROVE  s \in Sides /\ merges[s] = 0 /\ (s \in RemoteSides => s \in Offered)
    <3>1. s \in Sides /\ Owner[s[1]] = r /\ ~ HasMet(s)
      BY DEF MeetAt
    <3> QED
      BY <3>1, <1>2, <1>7, SweepKinds, WhatIsOffered DEF ExchangeInv, MergesFit
  <2>4. DOMAIN merges = Sides
    BY <1>3
  <2>5. Faces!Touched(merges) = MeetAt(r, v)
    BY <1>3, <2>2, <2>3, <2>4 DEF Faces!Touched
  <2>6. Faces!Grows(merges)
    BY <2>2, <2>4 DEF Faces!Grows
  <2>7. Faces!Merge
    BY <1>2, <1>5, <1>6, <1>7, <2>3, <2>5, <2>6, SweepKinds DEF Faces!Merge
  <2> QED
    BY <2>7 DEF Faces!Next
<1>8. CASE sweep \in ReceivingSweeps \ MergingSweeps
  BY <1>1, <1>2, <1>5, <1>6, <1>8 DEF Faces!Drop, Faces!Next
<1>9. CASE sweep \notin ReceivingSweeps
  <2>1. mail' = mail
    <3>1. mail' = [p \in Channels |->
             IF p[2] = r THEN SubSeq(mail[p], 1, Len(mail[p]) - Len(<<>>)) ELSE mail[p]]
      BY <1>9 DEF TouchVertexFirstTime
    <3>2. ASSUME NEW p \in Channels
          PROVE  SubSeq(mail[p], 1, Len(mail[p]) - Len(<<>>)) = mail[p]
      <4>1. mail[p] \in Seq(AllMessages) /\ Len(mail[p]) \in Nat
            /\ Len(mail[p]) - Len(<<>>) = Len(mail[p])
        BY <1>3
      <4> QED
        BY <4>1
    <3> QED
      BY <3>1, <3>2, <1>3
  <2>2. Offered' = Offered
    BY <2>1 DEF Offered
  <2> QED
    BY <1>1, <1>2, <1>5, <1>9, <2>2, SweepKinds DEF Faces!vars
<1> QED
  BY <1>7, <1>8, <1>9

LEMMA LastTouchSendsOn ==
  ASSUME ExchangeInv, ExchangeInv', NEW r \in Ranks, NEW v \in Vertices, TouchVertexLastTime(r, v)
  PROVE  [Faces!Next]_(Faces!vars)
<1>1. /\ stage[r] = "LastTouches" /\ v \in rest[r]
      /\ rest' = [rest EXCEPT ![r] = @ \ {v}]
      /\ UNCHANGED <<sweep, todo, forward, stage, mergePerformed, mail, merges>>
  BY DEF TouchVertexLastTime, IsNext
<1>2. Offered' = Offered
  BY <1>1 DEF Offered
<1>3. rest \in [Ranks -> SUBSET Vertices]
  BY DEF ExchangeInv, TypeOK
<1>4. rest'[r] = rest[r] \ {v} /\ \A q \in Ranks \ {r} : rest'[q] = rest[q]
  BY <1>1, <1>3
<1>5. ASSUME NEW s \in RemoteSides
      PROVE  Sent'[s] = IF /\ sweep \in SendingSweeps /\ Owner[s[2]] = r
                           /\ LastVertex(s, forward) = v
                        THEN 1 ELSE Sent[s]
  <2>1. Sent[s] = IF /\ sweep \in SendingSweeps /\ stage[Owner[s[2]]] = "LastTouches"
                     /\ LastVertex(s, forward) \notin rest[Owner[s[2]]]
                  THEN 1 ELSE 0
    BY WhatIsSent
  <2>2. Sent'[s] = IF /\ sweep' \in SendingSweeps /\ stage'[Owner[s[2]]] = "LastTouches"
                      /\ LastVertex(s, forward') \notin rest'[Owner[s[2]]]
                   THEN 1 ELSE 0
    BY TransferFitsNext DEF TransferFits
  <2>3. Owner[s[2]] \in Ranks
    BY MeetingPlacesAreTouched DEF RemoteSides
  <2> QED
    BY <1>1, <1>4, <2>1, <2>2, <2>3
<1>6. ASSUME NEW s \in RemoteSides, Sent'[s] # Sent[s]
      PROVE  /\ sweep \in SendingSweeps /\ Sent[s] = 0 /\ Sent'[s] = 1
             /\ Owner[s[2]] = r
  BY <1>1, <1>5, <1>6, WhatIsSent
<1>7. DOMAIN Sent = RemoteSides /\ DOMAIN Sent' = RemoteSides
  BY DEF Sent
<1>8. ASSUME NEW s \in RemoteSides, Sent'[s] # Sent[s], sweep \in MergingSweeps,
             NEW t \in Sides, t[1] = s[2]
      PROVE  merges[t] = 1
  BY <1>1, <1>6, <1>8 DEF ExchangeInv, MergesFit
<1>9. CASE sweep \in SendingSweeps
  <2>1. Faces!Grows(Sent)
    BY <1>6, <1>7 DEF Faces!Grows
  <2>2. Faces!Touched(Sent) = {s \in RemoteSides : Sent'[s] # Sent[s]}
    BY <1>7 DEF Faces!Touched
  <2>3. Faces!Send
    BY <1>1, <1>2, <1>6, <1>8, <1>9, <2>1, <2>2 DEF Faces!Send
  <2> QED
    BY <2>3 DEF Faces!Next
<1>10. CASE sweep \notin SendingSweeps
  <2>1. Sent' = Sent
    <3>1. \A s \in RemoteSides : Sent'[s] = Sent[s]
      BY <1>6, <1>10
    <3>2. Sent = [s \in RemoteSides |-> Sent[s]] /\ Sent' = [s \in RemoteSides |-> Sent'[s]]
      BY DEF Sent
    <3> QED
      BY <3>1, <3>2
  <2> QED
    BY <1>1, <1>2, <2>1 DEF Faces!vars
<1> QED
  BY <1>9, <1>10

LEMMA EndIterationEndsIteration ==
  ASSUME ExchangeInv, ExchangeInv', EndIteration
  PROVE  Faces!EndIteration
<1>1. /\ \A r \in Ranks : stage[r] = "LastTouches" /\ rest[r] = {}
      /\ stage' = [r \in Ranks |-> "FirstTouches"]
      /\ mail' = IF sweep \in SendingSweeps THEN outbox ELSE mail
      /\ merges' = [s \in Sides |-> 0]
  BY DEF EndIteration
<1>2. \A s \in Sides : Owner[s[1]] \in Ranks
  BY MeetingPlacesAreTouched
<1>3. sweep \in MergingSweeps => \A s \in Sides : merges[s] = 1
  BY <1>1, <1>2 DEF ExchangeInv, MergesFit
<1>4. sweep \in ReceivingSweeps => Offered = {}
  BY <1>1, <1>2, WhatIsOffered DEF RemoteSides
<1>5. ASSUME NEW s \in RemoteSides
      PROVE  /\ sweep \in SendingSweeps => Sent[s] = 1
             /\ Sent'[s] = 0
  <2>1. Owner[s[2]] \in Ranks
    BY MeetingPlacesAreTouched DEF RemoteSides
  <2>2. Sent'[s] = IF /\ sweep' \in SendingSweeps /\ stage'[Owner[s[2]]] = "LastTouches"
                      /\ LastVertex(s, forward') \notin rest'[Owner[s[2]]]
                   THEN 1 ELSE 0
    BY TransferFitsNext DEF TransferFits
  <2> QED
    BY <1>1, <2>1, <2>2, WhatIsSent
<1>6. Sent' = [s \in RemoteSides |-> 0]
  <2>1. Sent' = [s \in RemoteSides |-> Sent'[s]]
    BY DEF Sent
  <2> QED
    BY <1>5, <2>1
<1>7. Offered' = IF sweep \in SendingSweeps THEN RemoteSides ELSE Offered
  <2>1. CASE sweep \notin SendingSweeps
    BY <2>1, <1>1 DEF Offered
  <2>2. CASE sweep \in SendingSweeps
    <3> DEFINE d == forward
    <3>1. d \in BOOLEAN
      BY DEF ExchangeInv, TypeOK
    <3>2. ASSUME NEW p \in Channels
          PROVE  RealSides(outbox[p]) = {s \in RemoteSides : Owner[s[1]] = p[2] /\ Owner[s[2]] = p[1]}
      <4> DEFINE box == outbox[p]
                 V == Touches(p[1])
      <4>1. /\ V \in SUBSET Vertices /\ p[1] \in Ranks /\ stage[p[1]] = "LastTouches"
            /\ rest[p[1]] = {}
        BY <1>1 DEF Touches, Channels
      <4>2. box \in Seq(AllMessages) /\ IsStacked(box, d) /\ Range(box) = Messages(p, V, d)
        BY <2>2, <4>1 DEF ExchangeInv, OutboxFits, TypeOK
      <4>3. \A s \in RemoteSides : Owner[s[2]] = p[1] => LastVertex(s, d) \in V
        <5> SUFFICES ASSUME NEW s \in RemoteSides, Owner[s[2]] = p[1]
                     PROVE  LastVertex(s, d) \in V
          OBVIOUS
        <5>1. LastVertex(s, d) \in InsideVertices(s) /\ s \in Sides /\ s[2] \in Cells
          BY <3>1, LastVertices DEF RemoteSides
        <5> QED
          BY <5>1, OwnersTouch DEF InsideVertices
      <4> HIDE DEF box, V, d
      <4>4. RealSides(box) = {s \in RemoteSides : /\ Owner[s[1]] = p[2] /\ Owner[s[2]] = p[1]
                                                  /\ LastVertex(s, d) \in V}
        BY <3>1, <4>1, <4>2, RealMessages
      <4> QED
        BY <4>3, <4>4 DEF box
    <3>3. ASSUME NEW s \in RemoteSides
          PROVE  \E p \in Channels : Owner[s[1]] = p[2] /\ Owner[s[2]] = p[1]
      <4>1. Owner[s[1]] \in Ranks /\ Owner[s[2]] \in Ranks \ {Owner[s[1]]}
        BY MeetingPlacesAreTouched DEF RemoteSides
      <4>2. <<Owner[s[2]], Owner[s[1]]>> \in Channels
        BY <4>1 DEF Channels
      <4> QED
        BY <4>2
    <3>4. Offered' = UNION {RealSides(outbox[p]) : p \in Channels}
      BY <1>1, <2>2 DEF Offered
    <3> QED
      BY <2>2, <3>2, <3>3, <3>4
  <2> QED
    BY <2>1, <2>2
<1>8. sweep' \in Sweeps
  BY DEF ExchangeInv, TypeOK
<1> QED
  BY <1>1, <1>3, <1>4, <1>5, <1>6, <1>7, <1>8 DEF Faces!EndIteration

\* Inside a rank and across ranks, with flags and counters at vertices, every
\* face is merged once per sweep with the data sent in the sweep before.
THEOREM ExchangeImplementsFaceMerging ==
  ASSUME NoFiniteVolumes
  PROVE  Spec => ImplementsFaceMerging
<1>1. Init => Faces!Init
  BY InitIsInit
<1>2. ExchangeInv /\ ExchangeInv' /\ [Next]_vars => [Faces!Next]_(Faces!vars)
  <2> SUFFICES ASSUME ExchangeInv, ExchangeInv', [Next]_vars
               PROVE  [Faces!Next]_(Faces!vars)
    OBVIOUS
  <2>1. CASE UNCHANGED vars
    BY <2>1 DEF vars, Faces!vars, Offered, Sent
  <2>2. ASSUME NEW r \in Ranks, EnterCells(r)
        PROVE  [Faces!Next]_(Faces!vars)
    BY <2>2 DEF EnterCells, Faces!vars, Offered, Sent
  <2>3. CASE EndIteration
    BY <2>3, EndIterationEndsIteration DEF Faces!Next
  <2> QED
    BY <2>1, <2>2, <2>3, FirstTouchMerges, LastTouchSendsOn DEF Next
<1> QED
  BY <1>1, <1>2, ExchangeIsInvariant, PTL DEF Spec, ImplementsFaceMerging, Faces!Spec
=============================================================================
