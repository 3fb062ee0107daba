------------------------ MODULE RefinementEventsProofs ------------------------
(***************************************************************************)
(* Proofs about RefinementEvents for any criteria and any size and depth   *)
(* of the mesh.  TypeOK holds in every behaviour; the other properties in  *)
(* those that orphan no description (ChildrenHaveParents), and outright    *)
(* with one level below the base grid.  First the numbering of the cells,  *)
(* then what the operators of enterCell and leaveCell do to descriptions,  *)
(* then the order of the traversal, and last the invariant.                *)
(***************************************************************************)
EXTENDS RefinementEvents, FiniteSetTheorems, TLAPS
(* Induction over the naturals, for a set in place of a predicate. *)
LEMMA Induction ==
  ASSUME NEW T, 0 \in T, \A n \in Nat : n \in T => n + 1 \in T
  PROVE  \A n \in Nat : n \in T
<1> SUFFICES ASSUME NEW m \in Nat, m \notin T PROVE FALSE
  OBVIOUS
<1> DEFINE f == [ n \in 0..m |-> IF n \in T THEN n + 1 ELSE n ]
<1>1. ASSUME NEW n \in 0..m PROVE f[n] \in 1..m
  <2>1. CASE n \in T
    <3>1. n # m
      BY <2>1
    <3>2. QED
      BY <2>1, <3>1
  <2>2. CASE n \notin T
    <3>1. n # 0
      BY <2>2
    <3>2. QED
      BY <2>2, <3>1
  <2>3. QED
    BY <2>1, <2>2
<1>2. f \in [0..m -> 1..m]
  BY <1>1
<1>3. /\ IsFiniteSet(0..m) /\ Cardinality(0..m) = m + 1
      /\ IsFiniteSet(1..m) /\ Cardinality(1..m) = m
  BY FS_Interval
<1>4. PICK x \in 0..m, y \in 0..m : x # y /\ f[x] = f[y]
  <2> HIDE DEF f
  <2>1. Cardinality(1..m) < Cardinality(0..m)
    BY <1>3
  <2>2. QED
    BY <1>2, <1>3, <2>1, FS_PigeonHole
<1>5. x \in T <=> y \in T
  <2>1. CASE x \in T /\ y \notin T
    <3>1. y = x + 1
      BY <1>4, <2>1
    <3>2. x \in Nat
      OBVIOUS
    <3>3. QED
      BY <2>1, <3>1, <3>2
  <2>2. CASE y \in T /\ x \notin T
    <3>1. x = y + 1
      BY <1>4, <2>2
    <3>2. y \in Nat
      OBVIOUS
    <3>3. QED
      BY <2>2, <3>1, <3>2
  <2>3. QED
    BY <2>1, <2>2
<1>6. QED
  BY <1>4, <1>5

IsWidth(g, n) ==
  g = [ l \in 0..n |-> IF l = 0 THEN Cells ELSE Children * g[l - 1] ]

(* The recursive function Width exists and is what its definition says. *)
LEMMA WidthExists == IsWidth(Width, MaxLevel)
<1> DEFINE T == { n \in Nat : \E g : IsWidth(g, n) }
<1>1. 0 \in T
  <2> DEFINE g == [ l \in 0..0 |-> Cells ]
  <2>1. g = [ l \in 0..0 |-> IF l = 0 THEN Cells ELSE Children * g[l - 1] ]
    OBVIOUS
  <2>2. IsWidth(g, 0)
    BY <2>1 DEF IsWidth
  <2>3. QED
    BY <2>2
<1>2. ASSUME NEW n \in Nat, n \in T PROVE n + 1 \in T
  <2>1. PICK g : IsWidth(g, n)
    BY <1>2
  <2> DEFINE h == [ l \in 0..(n + 1) |-> IF l = n + 1 THEN Children * g[n] ELSE g[l] ]
  <2>2. g = [ l \in 0..n |-> IF l = 0 THEN Cells ELSE Children * g[l - 1] ]
    BY <2>1 DEF IsWidth
  <2>3. ASSUME NEW l \in 0..(n + 1)
        PROVE  h[l] = IF l = 0 THEN Cells ELSE Children * h[l - 1]
    <3>1. CASE l = n + 1
      <4>1. h[l] = Children * g[n] /\ h[l - 1] = g[n] /\ l # 0
        BY <3>1
      <4>2. QED
        BY <4>1
    <3>2. CASE l # n + 1 /\ l # 0
      <4>1. l \in 0..n /\ l - 1 \in 0..n
        BY <3>2
      <4>2. h[l] = g[l] /\ h[l - 1] = g[l - 1]
        BY <3>2, <4>1
      <4>3. g[l] = Children * g[l - 1]
        BY <2>2, <4>1, <3>2
      <4>4. QED
        BY <4>2, <4>3, <3>2
    <3>3. CASE l = 0
      <4>1. h[0] = g[0]
        BY <3>3
      <4>2. g[0] = Cells
        BY <2>2
      <4>3. QED
        BY <3>3, <4>1, <4>2
    <3>4. QED
      BY <3>1, <3>2, <3>3
  <2>4. h = [ l \in 0..(n + 1) |-> h[l] ]
    OBVIOUS
  <2>5. h = [ l \in 0..(n + 1) |-> IF l = 0 THEN Cells ELSE Children * h[l - 1] ]
    <3> HIDE DEF h
    <3>1. QED
      BY <2>3, <2>4
  <2>6. IsWidth(h, n + 1)
    BY <2>5 DEF IsWidth
  <2>7. QED
    BY <2>6
<1>3. MaxLevel \in T
  <2> HIDE DEF T
  <2>1. QED
    BY <1>1, <1>2, Induction, RefinementEventsAssumption
<1>4. PICK g : g = [ l \in 0..MaxLevel |-> IF l = 0 THEN Cells ELSE Children * g[l - 1] ]
  BY <1>3 DEF IsWidth
<1>5. QED
  BY <1>4 DEF Width, IsWidth

LEMMA WidthType ==
  /\ Width[0] = Cells
  /\ \A l \in 1..MaxLevel : Width[l] = Children * Width[l - 1]
  /\ \A l \in 0..MaxLevel : Width[l] \in Nat \ {0}
<1>1. Width = [ l \in 0..MaxLevel |-> IF l = 0 THEN Cells ELSE Children * Width[l - 1] ]
  BY WidthExists DEF IsWidth
<1>2. Width[0] = Cells
  BY <1>1, RefinementEventsAssumption
<1>3. ASSUME NEW l \in 1..MaxLevel PROVE Width[l] = Children * Width[l - 1]
  <2>1. l \in 0..MaxLevel /\ l # 0
    BY RefinementEventsAssumption
  <2>2. QED
    BY <1>1, <2>1
<1> DEFINE T == { n \in Nat : n <= MaxLevel => Width[n] \in Nat \ {0} }
<1>4. 0 \in T
  BY <1>2, RefinementEventsAssumption
<1>5. ASSUME NEW n \in Nat, n \in T PROVE n + 1 \in T
  <2>1. SUFFICES ASSUME n + 1 <= MaxLevel PROVE Width[n + 1] \in Nat \ {0}
    OBVIOUS
  <2>2. Width[n + 1] = Children * Width[n]
    <3>1. n + 1 \in 1..MaxLevel /\ (n + 1) - 1 = n
      BY <2>1, RefinementEventsAssumption
    <3>2. QED
      BY <1>3, <3>1
  <2>3. Width[n] \in Nat \ {0}
    BY <1>5, <2>1, RefinementEventsAssumption
  <2>4. ASSUME NEW w \in Nat \ {0}, NEW k \in Nat \ {0} PROVE k * w \in Nat \ {0}
    OBVIOUS
  <2>5. QED
    BY <2>2, <2>3, <2>4, RefinementEventsAssumption
<1>6. \A n \in Nat : n \in T
  <2> HIDE DEF T
  <2>1. QED
    BY <1>4, <1>5, Induction
<1>7. QED
  BY <1>2, <1>3, <1>6, RefinementEventsAssumption
LEMMA CellIff ==
  /\ \A l, i : << l, i >> \in Cell <=> l \in 0..MaxLevel /\ i \in 0..(Width[l] - 1)
  /\ \A c \in Cell : c = << c[1], c[2] >> /\ c[1] \in 0..MaxLevel /\ c[2] \in 0..(Width[c[1]] - 1)
BY DEF Cell

LEMMA CellType ==
  ASSUME NEW c \in Cell
  PROVE  /\ c = << c[1], c[2] >> /\ c[1] \in 0..MaxLevel /\ c[1] \in Nat /\ c[2] \in Nat
         /\ Width[c[1]] \in Nat \ {0} /\ c[2] < Width[c[1]]
<1>1. c = << c[1], c[2] >> /\ c[1] \in 0..MaxLevel /\ c[2] \in 0..(Width[c[1]] - 1)
  BY CellIff
<1>2. Width[c[1]] \in Nat \ {0}
  BY <1>1, WidthType
<1>3. QED
  BY <1>1, <1>2, RefinementEventsAssumption

LEMMA Quotient ==
  ASSUME NEW i \in Nat, NEW k \in Nat \ {0}
  PROVE  /\ i \div k \in Nat
         /\ \A q \in Nat : i \div k = q <=> k * q <= i /\ i < k * q + k
<1>1. i \div k \in Nat /\ k * (i \div k) <= i /\ i < k * (i \div k) + k
  OBVIOUS
<1>2. ASSUME NEW q \in Nat, NEW r \in Nat, k * q <= i, i < k * q + k, k * r <= i, i < k * r + k
      PROVE  q = r
  <2>1. ASSUME NEW a \in Nat, NEW b \in Nat, a < b PROVE k * a + k <= k * b
    <3>1. b = a + 1 + (b - a - 1) /\ b - a - 1 \in Nat
      BY <2>1
    <3>2. PICK d \in Nat : b = a + 1 + d
      BY <3>1
    <3>3. k * b = k * a + k + k * d /\ k * d \in Nat
      BY <3>2
    <3>4. QED
      BY <3>3
  <2>2. ~(q < r)
    <3>1. ASSUME q < r PROVE FALSE
      <4>1. k * q + k <= k * r
        BY <2>1, <3>1
      <4>2. k * q \in Nat /\ k * r \in Nat
        OBVIOUS
      <4>3. QED
        BY <4>1, <4>2, <1>2
    <3>2. QED
      BY <3>1
  <2>3. ~(r < q)
    <3>1. ASSUME r < q PROVE FALSE
      <4>1. k * r + k <= k * q
        BY <2>1, <3>1
      <4>2. k * q \in Nat /\ k * r \in Nat
        OBVIOUS
      <4>3. QED
        BY <4>1, <4>2, <1>2
    <3>2. QED
      BY <3>1
  <2>4. QED
    BY <2>2, <2>3
<1>3. QED
  BY <1>1, <1>2
LEMMA ParentIsACell ==
  ASSUME NEW c \in Cell, Level(c) # 0
  PROVE  /\ Parent(c) \in Cell /\ Level(Parent(c)) = Level(c) - 1 /\ Level(Parent(c)) < MaxLevel
         /\ Parent(c) # c /\ c \in Offspring(Parent(c))
<1> DEFINE l == c[1]
           i == c[2]
           q == i \div Children
<1>1. l \in 1..MaxLevel /\ i \in Nat /\ i < Width[l] /\ l - 1 \in 0..MaxLevel /\ l - 1 < MaxLevel
  BY CellType, RefinementEventsAssumption DEF Level
<1>2. Width[l] = Children * Width[l - 1] /\ Width[l - 1] \in Nat \ {0}
  BY <1>1, WidthType
<1>3. q \in Nat /\ Children * q <= i
  BY <1>1, Quotient, RefinementEventsAssumption
<1>4. q < Width[l - 1]
  <2> DEFINE w == Width[l - 1]
  <2>1. Children * q < Children * w /\ w \in Nat
    BY <1>1, <1>2, <1>3, RefinementEventsAssumption
  <2>2. ASSUME NEW a \in Nat, NEW b \in Nat, NEW k \in Nat, k * a < k * b PROVE a < b
    <3>1. ASSUME b <= a PROVE FALSE
      <4>1. a = b + (a - b) /\ a - b \in Nat
        BY <3>1
      <4>2. PICK d \in Nat : a = b + d
        BY <4>1
      <4>3. k * a = k * b + k * d /\ k * d \in Nat /\ k * a \in Nat /\ k * b \in Nat
        BY <4>2
      <4>4. QED
        BY <4>3, <2>2
    <3>2. QED
      BY <3>1
  <2> HIDE DEF w, q
  <2>3. QED
    BY <2>1, <2>2, <1>3, RefinementEventsAssumption DEF w
<1>5. Parent(c) = << l - 1, q >>
  BY DEF Parent
<1>6. Parent(c) \in Cell
  <2> HIDE DEF q, l
  <2>1. q \in 0..(Width[l - 1] - 1)
    BY <1>2, <1>3, <1>4
  <2>2. QED
    BY <2>1, <1>1, <1>5, CellIff
<1>7. Level(Parent(c)) = l - 1
  BY <1>5 DEF Level
<1>8. Parent(c) # c
  <2>1. l - 1 # l
    BY <1>1
  <2>2. QED
    BY <1>7, <2>1 DEF Level
<1>9. Level(c) = Level(Parent(c)) + 1
  BY <1>1, <1>7 DEF Level
<1>10. QED
  BY <1>1, <1>6, <1>7, <1>8, <1>9 DEF Offspring, Level

LEMMA OffspringIff ==
  ASSUME NEW c \in Cell
  PROVE  /\ Level(c) = MaxLevel => Offspring(c) = {}
         /\ Offspring(c) \subseteq Cell
         /\ \A f \in Offspring(c) : Level(f) = Level(c) + 1 /\ Parent(f) = c /\ Level(f) # 0 /\ f # c
<1>1. \A f \in Offspring(c) : /\ f \in Cell /\ Level(f) = Level(c) + 1 /\ Parent(f) = c
                              /\ Level(f) # 0 /\ f # c
  <2>1. TAKE f \in Offspring(c)
  <2>2. f \in Cell /\ Level(f) = Level(c) + 1 /\ Parent(f) = c
    BY DEF Offspring
  <2>3. Level(c) \in Nat
    BY CellType DEF Level
  <2>4. QED
    BY <2>2, <2>3
<1>2. ASSUME Level(c) = MaxLevel, NEW f \in Offspring(c) PROVE FALSE
  <2>1. f[1] <= MaxLevel /\ f[1] \in Nat /\ f[1] = MaxLevel + 1
    BY <1>1, <1>2, CellType, RefinementEventsAssumption DEF Level
  <2>2. QED
    BY <2>1, RefinementEventsAssumption
<1>3. QED
  BY <1>1, <1>2

(* A set of neighbouring cells of one level. *)
Interval(l, a, b) == { << l, i >> : i \in a..b }

LEMMA OffspringInterval ==
  ASSUME NEW c \in Cell, Level(c) # MaxLevel
  PROVE  \E a \in Nat, b \in Nat : a <= b /\ Offspring(c) = Interval(Level(c) + 1, a, b)
<1> DEFINE l == c[1]
           a == Children * c[2]
           b == Children * c[2] + Children - 1
<1>1. /\ l \in 0..MaxLevel /\ l \in Nat /\ l + 1 \in 1..MaxLevel /\ l + 1 \in 0..MaxLevel /\ c[2] \in Nat
      /\ c[2] < Width[l] /\ Width[l] \in Nat /\ c = << l, c[2] >>
  BY CellType, RefinementEventsAssumption DEF Level
<1>2. Width[l + 1] = Children * Width[l]
  <2>1. (l + 1) - 1 = l
    BY <1>1
  <2>2. QED
    BY <1>1, <2>1, WidthType
<1>3. a \in Nat /\ b \in Nat /\ a <= b
  <2>1. ASSUME NEW x \in Nat, NEW k \in Nat \ {0} PROVE k * x \in Nat /\ k * x + k - 1 \in Nat /\ k * x <= k * x + k - 1
    OBVIOUS
  <2>2. QED
    BY <2>1, <1>1, RefinementEventsAssumption
<1>4. b < Width[l + 1]
  <2>1. ASSUME NEW x \in Nat, NEW w \in Nat, NEW k \in Nat \ {0}, x < w PROVE k * x + k - 1 < k * w
    <3>1. w = x + 1 + (w - x - 1) /\ w - x - 1 \in Nat
      BY <2>1
    <3>2. PICK d \in Nat : w = x + 1 + d
      BY <3>1
    <3>3. k * w = k * x + k + k * d /\ k * d \in Nat /\ k * x \in Nat
      BY <3>2
    <3>4. QED
      BY <3>3
  <2> HIDE DEF l
  <2>2. QED
    BY <2>1, <1>1, <1>2, RefinementEventsAssumption
<1>5. ASSUME NEW i \in a..b PROVE << l + 1, i >> \in Offspring(c)
  <2>1. i \in Nat /\ i \in 0..(Width[l + 1] - 1)
    <3>1. Width[l + 1] \in Nat
      BY <1>1, WidthType
    <3> HIDE DEF a, b
    <3>2. QED
      BY <1>3, <1>4, <1>5, <3>1
  <2>2. << l + 1, i >> \in Cell
    BY <2>1, <1>1, CellIff
  <2>3. i \div Children = c[2]
    <3>1. Children * c[2] <= i /\ i < Children * c[2] + Children
      <4>1. ASSUME NEW x \in Nat, NEW k \in Nat \ {0}, i \in (k * x)..(k * x + k - 1) PROVE k * x <= i /\ i < k * x + k
        BY <2>1, <4>1
      <4>2. QED
        BY <4>1, <1>1, <1>5, RefinementEventsAssumption
    <3>2. QED
      BY <3>1, <2>1, <1>1, Quotient, RefinementEventsAssumption
  <2>4. Parent(<< l + 1, i >>) = << l, c[2] >>
    <3>1. (l + 1) - 1 = l
      BY <1>1
    <3>2. QED
      BY <2>3, <3>1 DEF Parent
  <2>5. QED
    BY <2>2, <2>4, <1>1 DEF Offspring, Level
<1>6. ASSUME NEW f \in Offspring(c) PROVE f \in Interval(l + 1, a, b)
  <2>1. f \in Cell /\ f[1] = l + 1 /\ Parent(f) = c
    BY <1>6 DEF Offspring, Level
  <2>2. f = << l + 1, f[2] >> /\ f[2] \in Nat
    BY <2>1, CellType
  <2>3. f[2] \div Children = c[2]
    BY <2>1, <1>1 DEF Parent
  <2>4. Children * c[2] <= f[2] /\ f[2] < Children * c[2] + Children
    BY <2>2, <2>3, <1>1, Quotient, RefinementEventsAssumption
  <2>5. f[2] \in a..b
    <3>1. ASSUME NEW x \in Nat, NEW k \in Nat \ {0}, NEW j \in Nat, k * x <= j, j < k * x + k PROVE j \in (k * x)..(k * x + k - 1)
      BY <3>1
    <3>2. QED
      BY <3>1, <2>2, <2>4, <1>1, RefinementEventsAssumption
  <2>6. QED
    BY <2>2, <2>5 DEF Interval
<1>7. Offspring(c) = Interval(l + 1, a, b)
  <2>1. \A f \in Interval(l + 1, a, b) : f \in Offspring(c)
    BY <1>5 DEF Interval
  <2>2. QED
    BY <2>1, <1>6
<1> HIDE DEF a, b
<1>8. QED
  BY <1>3, <1>7 DEF Level

LEMMA BaseInterval ==
  /\ Cells - 1 \in Nat /\ Base = Interval(0, 0, Cells - 1) /\ Base \subseteq Cell
  /\ << 0, 0 >> \in Base /\ << 0, Cells - 1 >> \in Base
<1>1. Cells - 1 \in Nat /\ 0 \in 0..MaxLevel /\ Width[0] = Cells
  BY WidthType, RefinementEventsAssumption
<1>2. ASSUME NEW c \in Base PROVE c \in Interval(0, 0, Cells - 1)
  <2>1. c \in Cell /\ c[1] = 0
    BY <1>2 DEF Base, Level
  <2>2. c = << 0, c[2] >> /\ c[2] \in 0..(Width[0] - 1)
    BY <2>1, CellIff
  <2>3. QED
    BY <2>2, <1>1 DEF Interval
<1>3. ASSUME NEW i \in 0..(Cells - 1) PROVE << 0, i >> \in Base
  <2>1. << 0, i >> \in Cell
    BY <1>1, CellIff
  <2>2. QED
    BY <2>1 DEF Base, Level
<1>4. QED
  BY <1>1, <1>2, <1>3 DEF Interval, Base
-----------------------------------------------------------------------------
(* The cell b is entered after a, if they have the same parent. *)
Precedes(f, a, b) == IF f THEN a[2] < b[2] ELSE b[2] < a[2]
Before(a, b) == Precedes(forward, a, b)

LEMMA InInterval ==
  ASSUME NEW l, NEW a \in Nat, NEW b \in Nat, NEW y
  PROVE  /\ y \in Interval(l, a, b) <=> y = << l, y[2] >> /\ y[2] \in a..b
         /\ y \in Interval(l, a, b) => y[1] = l /\ y[2] \in Int
         /\ \A i : << l, i >> \in Interval(l, a, b) <=> i \in a..b
BY DEF Interval

LEMMA FirstOfInterval ==
  ASSUME NEW l, NEW a \in Nat, NEW b \in Nat, a <= b,
         NEW S, S = Interval(l, a, b)
  PROVE  First(S) \in S /\ \A y \in S : ~Before(y, First(S))
<1> DEFINE s == IF forward THEN "left" ELSE "right"
           m == IF forward THEN << l, a >> ELSE << l, b >>
<1>0. a \in a..b /\ b \in a..b
  OBVIOUS
<1>1. m \in S
  BY <1>0, InInterval
<1>2. Neighbour(m, s) \notin S
  <2>1. a - 1 \notin a..b /\ b + 1 \notin a..b
    OBVIOUS
  <2>2. Neighbour(m, s) = IF forward THEN << l, a - 1 >> ELSE << l, b + 1 >>
    BY DEF Neighbour
  <2>3. QED
    BY <2>1, <2>2, InInterval
<1>3. First(S) \in S /\ Neighbour(First(S), s) \notin S
  <2> HIDE DEF m
  <2>1. QED
    BY <1>1, <1>2 DEF First, Entry
<1>4. ASSUME NEW c \in S, Neighbour(c, s) \notin S, NEW y \in S PROVE ~Before(y, c)
  <2>1. c = << l, c[2] >> /\ c[2] \in a..b /\ y = << l, y[2] >> /\ y[2] \in a..b
    BY InInterval
  <2>2. CASE forward
    <3>1. Neighbour(c, s) = << l, c[2] - 1 >>
      BY <2>1, <2>2 DEF Neighbour
    <3>2. c[2] - 1 \notin a..b
      BY <1>4, <3>1, InInterval
    <3>3. QED
      BY <2>1, <2>2, <3>2 DEF Before, Precedes
  <2>3. CASE ~forward
    <3>1. Neighbour(c, s) = << l, c[2] + 1 >>
      BY <2>1, <2>3 DEF Neighbour
    <3>2. c[2] + 1 \notin a..b
      BY <1>4, <3>1, InInterval
    <3>3. QED
      BY <2>1, <2>3, <3>2 DEF Before, Precedes
  <2>4. QED
    BY <2>2, <2>3
<1>5. QED
  BY <1>3, <1>4

LEMMA NextInInterval ==
  ASSUME NEW l, NEW a \in Nat, NEW b \in Nat, NEW S, S = Interval(l, a, b), NEW c \in S
  PROVE  /\ Neighbour(c, Exit) \in S =>
              \A y \in S : Before(y, Neighbour(c, Exit)) <=> Before(y, c) \/ y = c
         /\ Neighbour(c, Exit) \notin S => \A y \in S : Before(y, c) \/ y = c
         /\ ~Before(c, c)
<1> DEFINE n == Neighbour(c, Exit)
<1>1. c = << l, c[2] >> /\ c[2] \in a..b
  BY InInterval
<1>2. n = << l, IF forward THEN c[2] + 1 ELSE c[2] - 1 >>
  BY <1>1 DEF Neighbour, Exit, Entry, Opposite
<1>3. ASSUME n \in S, NEW y \in S PROVE Before(y, n) <=> Before(y, c) \/ y = c
  <2>1. y = << l, y[2] >> /\ y[2] \in a..b
    BY InInterval
  <2>2. n[2] = IF forward THEN c[2] + 1 ELSE c[2] - 1
    BY <1>2
  <2>3. y = c <=> y[2] = c[2]
    BY <1>1, <2>1
  <2> HIDE DEF n
  <2>4. QED
    BY <1>1, <2>1, <2>2, <2>3 DEF Before, Precedes
<1>4. ASSUME n \notin S, NEW y \in S PROVE Before(y, c) \/ y = c
  <2>1. y = << l, y[2] >> /\ y[2] \in a..b
    BY InInterval
  <2>2. (IF forward THEN c[2] + 1 ELSE c[2] - 1) \notin a..b
    BY <1>4, <1>2, InInterval
  <2>3. y = c <=> y[2] = c[2]
    BY <1>1, <2>1
  <2>4. CASE forward
    <3>1. c[2] + 1 \notin a..b
      BY <2>2, <2>4
    <3>2. QED
      BY <1>1, <2>1, <2>3, <2>4, <3>1 DEF Before, Precedes
  <2>5. CASE ~forward
    <3>1. c[2] - 1 \notin a..b
      BY <2>2, <2>5
    <3>2. QED
      BY <1>1, <2>1, <2>3, <2>5, <3>1 DEF Before, Precedes
  <2>6. QED
    BY <2>4, <2>5
<1>5. ~Before(c, c)
  BY <1>1 DEF Before, Precedes
<1>6. QED
  BY <1>3, <1>4, <1>5

LEMMA SiblingsInterval ==
  ASSUME NEW c \in Cell
  PROVE  /\ Siblings(c) \subseteq Cell /\ c \in Siblings(c)
         /\ \E a \in Nat, b \in Nat : Siblings(c) = Interval(Level(c), a, b)
<1>1. CASE Level(c) = 0
  <2>1. Siblings(c) = Base /\ c \in Base
    BY <1>1 DEF Siblings, Base
  <2>2. QED
    BY <1>1, <2>1, BaseInterval
<1>2. CASE Level(c) # 0
  <2> DEFINE p == Parent(c)
  <2>1. p \in Cell /\ Level(p) = Level(c) - 1 /\ Level(p) < MaxLevel /\ c \in Offspring(p)
    BY <1>2, ParentIsACell
  <2>2. Siblings(c) = Offspring(p)
    BY <1>2 DEF Siblings
  <2>3. Level(p) # MaxLevel /\ Level(p) + 1 = Level(c)
    BY <2>1, CellType, RefinementEventsAssumption DEF Level
  <2>4. \E a \in Nat, b \in Nat : a <= b /\ Offspring(p) = Interval(Level(p) + 1, a, b)
    BY <2>1, <2>3, OffspringInterval
  <2>5. Offspring(p) \subseteq Cell
    BY <2>1, OffspringIff
  <2>6. QED
    BY <2>1, <2>2, <2>3, <2>4, <2>5
<1>3. QED
  BY <1>1, <1>2

(* The traversal goes from callback to callback. *)
LEMMA FirstOffspring ==
  ASSUME NEW c \in Cell, HasOffspring(c)
  PROVE  /\ First(Offspring(c)) \in Offspring(c) /\ First(Offspring(c)) \in Cell
         /\ \A y \in Offspring(c) : ~Before(y, First(Offspring(c)))
<1>1. Level(c) # MaxLevel
  BY CellType, RefinementEventsAssumption DEF HasOffspring, Level
<1>2. \E a \in Nat, b \in Nat : a <= b /\ Offspring(c) = Interval(Level(c) + 1, a, b)
  BY <1>1, OffspringInterval
<1>3. /\ First(Offspring(c)) \in Offspring(c)
      /\ \A y \in Offspring(c) : ~Before(y, First(Offspring(c)))
  BY <1>2, FirstOfInterval
<1>4. QED
  BY <1>3, OffspringIff

LEMMA NextCallback ==
  ASSUME NEW c \in Cell
  PROVE  AfterEntering(c) \in Callback /\ AfterLeaving(c) \in Callback
<1>1. AfterEntering(c) \in Callback
  BY FirstOffspring DEF AfterEntering, Callback
<1>2. Neighbour(c, Exit) \in Siblings(c) => Neighbour(c, Exit) \in Cell
  BY SiblingsInterval
<1>3. Level(c) > 0 => Parent(c) \in Cell
  <2>1. Level(c) > 0 => Level(c) # 0
    BY CellType DEF Level
  <2>2. QED
    BY <2>1, ParentIsACell
<1>4. AfterLeaving(c) \in Callback
  BY <1>2, <1>3 DEF AfterLeaving, Callback
<1>5. QED
  BY <1>1, <1>4
-----------------------------------------------------------------------------
(***************************************************************************)
(* What the operators on one description do to what matters below: type,   *)
(* event, isAugmented, linked, and the solution of a cell.                 *)
(***************************************************************************)
HasSolution(d) == d.type = "Cell" => "volume" \in d.memory

Like(d, e) ==
  /\ e \in Description
  /\ e.type = d.type /\ e.isAugmented = d.isAugmented /\ e.linked = d.linked
  /\ HasSolution(d) => HasSolution(e)

Keeps(d, e) == Like(d, e) /\ e.event = d.event

LEMMA LikeIsTransitive ==
  ASSUME NEW d, NEW e, NEW f
  PROVE  /\ Like(d, e) /\ Like(e, f) => Like(d, f)
         /\ Keeps(d, e) /\ Keeps(e, f) => Keeps(d, f)
BY DEF Like, Keeps, HasSolution

LEMMA KeepsItself == ASSUME NEW d \in Description PROVE Keeps(d, d) /\ Like(d, d)
BY DEF Like, Keeps, HasSolution

LEMMA MaxOfTwo ==
  ASSUME NEW a \in Status, NEW b \in Status
  PROVE  Max({a, b}) \in {a, b} /\ Max({a, b}) \in Status /\ Spread(a, b) \in Status
<1>1. a \in Int /\ b \in Int
  BY DEF Status
<1>2. Max({a, b}) \in {a, b}
  <2>1. CASE a >= b
    <3>1. a \in {a, b} /\ \A y \in {a, b} : a >= y
      BY <1>1, <2>1
    <3>2. QED
      BY <3>1 DEF Max
  <2>2. CASE ~(a >= b)
    <3>1. b \in {a, b} /\ \A y \in {a, b} : b >= y
      BY <1>1, <2>2
    <3>2. QED
      BY <3>1 DEF Max
  <2>3. QED
    BY <2>1, <2>2
<1>3. Max({a, b}) \in Status
  BY <1>2
<1>4. Spread(a, b) \in Status
  <2> DEFINE m == Max({a, b})
  <2>1. m \in Status
    BY <1>3
  <2> HIDE DEF m
  <2>2. (IF m = 0 THEN 0 ELSE m - 1) \in Status
    BY <2>1 DEF Status
  <2>3. QED
    BY <2>2 DEF Spread, m
<1>5. QED
  BY <1>2, <1>3, <1>4

LEMMA MaxOfSides ==
  ASSUME NEW f \in [Side -> Status]
  PROVE  Max({ f[s] : s \in Side }) \in Status
<1>1. { f[s] : s \in Side } = { f["left"], f["right"] }
  BY DEF Side
<1>2. f["left"] \in Status /\ f["right"] \in Status
  BY DEF Side
<1>3. QED
  BY <1>1, <1>2, MaxOfTwo

LEMMA AllSidesType == \A v \in Status : AllSides(v) \in [Side -> Status]
BY DEF AllSides

LEMMA StatusValues ==
  /\ 0 \in Status /\ 2 \in Status
  /\ MaximumHelperStatus \in Status /\ MaximumAugmentationStatus \in Status
BY DEF Status, MaximumHelperStatus, MaximumAugmentationStatus

LEMMA DescriptionType ==
  ASSUME NEW d
  PROVE  d \in Description <=>
    /\ d = [ type |-> d.type, event |-> d.event, isAugmented |-> d.isAugmented,
             augmentation |-> d.augmentation, faceAugmentation |-> d.faceAugmentation,
             helper |-> d.helper, faceHelper |-> d.faceHelper,
             newlyCreated |-> d.newlyCreated, memory |-> d.memory, linked |-> d.linked ]
    /\ d.type \in Type /\ d.event \in RefinementEvent /\ d.isAugmented \in BOOLEAN
    /\ d.augmentation \in Status /\ d.faceAugmentation \in [Side -> Status]
    /\ d.helper \in Status /\ d.faceHelper \in [Side -> Status]
    /\ d.newlyCreated \in BOOLEAN /\ d.memory \in SUBSET {"volume", "faces"}
    /\ d.linked \in BOOLEAN
BY DEF Description

LEMMA MergedKeeps ==
  ASSUME NEW d \in Description, NEW n \in Description, NEW s \in Side
  PROVE  /\ Keeps(d, MergedWith(d, s, n))
         /\ Keeps(d, MergedWithBoundaryOrEmptyCell(d, s))
<1> DEFINE o == Opposite(s)
           a == Spread(d.augmentation, n.faceAugmentation[o])
           h == Spread(d.helper, n.faceHelper[o])
           e == MergedWith(d, s, n)
           b == MergedWithBoundaryOrEmptyCell(d, s)
<1>1. o \in Side
  BY DEF Opposite, Side
<1>2. /\ d.augmentation \in Status /\ n.faceAugmentation[o] \in Status
      /\ d.helper \in Status /\ n.faceHelper[o] \in Status
      /\ d.faceAugmentation \in [Side -> Status] /\ d.faceHelper \in [Side -> Status]
  BY <1>1 DEF Description
<1>3. a \in Status /\ h \in Status
  BY <1>2, MaxOfTwo
<1> HIDE DEF o, a, h
<1>4. e = [ d EXCEPT !.faceAugmentation[s] = a, !.faceHelper[s] = h ]
  BY DEF MergedWith, a, h, o
<1>5. e \in Description
  <2> DEFINE x == [ d.faceAugmentation EXCEPT ![s] = a ]
             y == [ d.faceHelper EXCEPT ![s] = h ]
  <2>1. x \in [Side -> Status] /\ y \in [Side -> Status]
    BY <1>2, <1>3
  <2>2. e = [ d EXCEPT !.faceAugmentation = x, !.faceHelper = y ]
    BY <1>4
  <2> HIDE DEF x, y
  <2>3. QED
    BY <2>1, <2>2 DEF Description
<1>6. e.type = d.type /\ e.event = d.event /\ e.isAugmented = d.isAugmented
      /\ e.linked = d.linked /\ e.memory = d.memory
  BY <1>4 DEF Description
<1>7. b \in Description
  BY <1>2, StatusValues DEF Description, MergedWithBoundaryOrEmptyCell
<1>8. b.type = d.type /\ b.event = d.event /\ b.isAugmented = d.isAugmented
      /\ b.linked = d.linked /\ b.memory = d.memory
  BY DEF Description, MergedWithBoundaryOrEmptyCell
<1>9. QED
  BY <1>5, <1>6, <1>7, <1>8 DEF Keeps, Like, HasSolution

LEMMA UpdatesKeep ==
  ASSUME NEW d \in Description
  PROVE  /\ Keeps(d, UpdateHelperStatus(d))
         /\ Keeps(d, UpdateAugmentationStatus(d))
<1> DEFINE h == IF d.type = "Cell" THEN MaximumHelperStatus
                ELSE Max({ d.faceHelper[s] : s \in Side })
           a == IF d.type = "Ancestor" THEN MaximumAugmentationStatus
                ELSE Max({ d.faceAugmentation[s] : s \in Side })
           e == [ d EXCEPT !.helper = h, !.faceHelper = AllSides(h) ]
           g == [ d EXCEPT !.augmentation = a, !.faceAugmentation = AllSides(a) ]
<1>1. d.faceAugmentation \in [Side -> Status] /\ d.faceHelper \in [Side -> Status]
  BY DEF Description
<1>2. h \in Status /\ a \in Status
  BY <1>1, MaxOfSides, StatusValues
<1>3. UpdateHelperStatus(d) = e /\ UpdateAugmentationStatus(d) = g
  BY DEF UpdateHelperStatus, UpdateAugmentationStatus
<1> HIDE DEF h, a
<1>4. AllSides(h) \in [Side -> Status] /\ AllSides(a) \in [Side -> Status]
  BY <1>2, AllSidesType
<1>5. e \in Description /\ g \in Description
  BY <1>2, <1>4 DEF Description
<1>6. /\ e.type = d.type /\ e.event = d.event /\ e.isAugmented = d.isAugmented
      /\ e.linked = d.linked /\ e.memory = d.memory
      /\ g.type = d.type /\ g.event = d.event /\ g.isAugmented = d.isAugmented
      /\ g.linked = d.linked /\ g.memory = d.memory
  BY DEF Description
<1>7. QED
  BY <1>3, <1>5, <1>6 DEF Keeps, Like, HasSolution

LEMMA MemoryKeeps ==
  ASSUME NEW d \in Description
  PROVE  /\ Keeps(d, EnsureNecessaryMemoryIsAllocated(d))
         /\ HasSolution(EnsureNecessaryMemoryIsAllocated(d))
         /\ Keeps(d, EnsureNoUnnecessaryMemoryIsAllocated(d))
<1> DEFINE m == d.memory \cup (IF d.type = "Cell" THEN {"volume"} ELSE {})
                         \cup (IF d.helper >= 1 THEN {"faces"} ELSE {})
           u == (d.memory \ (IF d.type # "Cell" THEN {"volume"} ELSE {}))
                  \ (IF d.type = "Erased" \/ d.helper < 1 THEN {"faces"} ELSE {})
           e == [ d EXCEPT !.memory = m ]
           g == [ d EXCEPT !.memory = u ]
<1>1. d.memory \in SUBSET {"volume", "faces"}
  BY DEF Description
<1>2. m \in SUBSET {"volume", "faces"} /\ u \in SUBSET {"volume", "faces"}
  BY <1>1
<1>3. /\ d.type = "Cell" => "volume" \in m
      /\ d.type = "Cell" /\ "volume" \in d.memory => "volume" \in u
  OBVIOUS
<1>4. EnsureNecessaryMemoryIsAllocated(d) = e /\ EnsureNoUnnecessaryMemoryIsAllocated(d) = g
  BY DEF EnsureNecessaryMemoryIsAllocated, EnsureNoUnnecessaryMemoryIsAllocated
<1> HIDE DEF m, u
<1>5. e \in Description /\ g \in Description
  BY <1>2 DEF Description
<1>6. /\ e.type = d.type /\ e.event = d.event /\ e.isAugmented = d.isAugmented
      /\ e.linked = d.linked /\ e.memory = m
      /\ g.type = d.type /\ g.event = d.event /\ g.isAugmented = d.isAugmented
      /\ g.linked = d.linked /\ g.memory = u
  BY DEF Description
<1>7. QED
  BY <1>3, <1>4, <1>5, <1>6 DEF Keeps, Like, HasSolution

LEMMA NewDescriptionFields ==
  ASSUME NEW t \in {"Cell", "Descendant"}, NEW b \in BOOLEAN
  PROVE  LET d == NewDescription(t, b)
         IN  /\ d \in Description /\ d.type = t /\ d.event = "None"
             /\ d.isAugmented = FALSE /\ d.linked = b
<1> DEFINE h == IF t = "Cell" THEN MaximumHelperStatus ELSE 0
<1>1. h \in Status /\ 0 \in Status
  BY StatusValues
<1>2. NewDescription(t, b) =
      [ type |-> t, event |-> "None", isAugmented |-> FALSE,
        augmentation |-> 0, faceAugmentation |-> AllSides(0),
        helper |-> h, faceHelper |-> AllSides(h),
        newlyCreated |-> FALSE, memory |-> {}, linked |-> b ]
  BY DEF NewDescription
<1> HIDE DEF h
<1>3. AllSides(h) \in [Side -> Status] /\ AllSides(0) \in [Side -> Status]
  BY <1>1, AllSidesType
<1>4. QED
  BY <1>1, <1>2, <1>3 DEF Description, Type, RefinementEvent

LEMMA NewCellFields ==
  ASSUME NEW b \in BOOLEAN
  PROVE  LET d == EnsureNecessaryMemoryIsAllocated(NewDescription("Cell", b))
         IN  /\ d \in Description /\ d.type = "Cell" /\ d.event = "None"
             /\ d.isAugmented = FALSE /\ d.linked = b /\ HasSolution(d)
<1> DEFINE n == NewDescription("Cell", b)
<1>1. /\ n \in Description /\ n.type = "Cell" /\ n.event = "None"
      /\ n.isAugmented = FALSE /\ n.linked = b
  BY NewDescriptionFields
<1> HIDE DEF n
<1>2. QED
  BY <1>1, MemoryKeeps DEF Keeps, Like, n

LEMMA BecomesCellFields ==
  ASSUME NEW d \in Description
  PROVE  LET e == BecomesCell(d)
         IN  /\ e \in Description /\ e.type = "Cell" /\ e.event = "None"
             /\ e.isAugmented = d.isAugmented /\ e.linked = d.linked /\ HasSolution(e)
<1> DEFINE e == [ d EXCEPT !.type = "Cell", !.event = "None",
                           !.helper = MaximumHelperStatus,
                           !.faceHelper = AllSides(MaximumHelperStatus) ]
<1>1. e \in Description
  BY StatusValues, AllSidesType DEF Description, Type, RefinementEvent
<1>2. e.type = "Cell" /\ e.event = "None" /\ e.isAugmented = d.isAugmented /\ e.linked = d.linked
  BY DEF Description
<1>3. BecomesCell(d) = EnsureNecessaryMemoryIsAllocated(e)
  BY DEF BecomesCell
<1> HIDE DEF e
<1>4. QED
  BY <1>1, <1>2, <1>3, MemoryKeeps DEF Keeps, Like

LEMMA BecomesAncestorFields ==
  ASSUME NEW d \in Description
  PROVE  LET e == BecomesAncestor(d)
         IN  /\ e \in Description /\ e.type = "Ancestor" /\ e.event = "None"
             /\ e.isAugmented = FALSE /\ e.linked = d.linked
<1> DEFINE e == [ d EXCEPT !.type = "Ancestor", !.event = "None",
               !.augmentation = MaximumAugmentationStatus,
               !.faceAugmentation = AllSides(MaximumAugmentationStatus),
               !.helper = 0, !.faceHelper = AllSides(0),
               !.isAugmented = FALSE, !.newlyCreated = TRUE ]
<1>1. AllSides(MaximumAugmentationStatus) \in [Side -> Status] /\ AllSides(0) \in [Side -> Status]
  BY StatusValues, AllSidesType
<1>2. e \in Description
  BY <1>1, StatusValues DEF Description, Type, RefinementEvent
<1>3. e.type = "Ancestor" /\ e.event = "None" /\ e.isAugmented = FALSE /\ e.linked = d.linked
  BY DEF Description
<1>4. BecomesAncestor(d) = EnsureNoUnnecessaryMemoryIsAllocated(e)
  BY DEF BecomesAncestor
<1> HIDE DEF e
<1>5. QED
  BY <1>2, <1>3, <1>4, MemoryKeeps DEF Keeps, Like

LEMMA BecomesDescendantFields ==
  ASSUME NEW d \in Description
  PROVE  LET e == BecomesDescendant(d)
         IN  /\ e \in Description /\ e.type = "Descendant" /\ e.event = d.event
             /\ e.isAugmented = d.isAugmented /\ e.linked = d.linked
<1> DEFINE e == [ d EXCEPT !.type = "Descendant", !.helper = 0, !.faceHelper = AllSides(0) ]
<1>1. e \in Description
  BY StatusValues, AllSidesType DEF Description, Type, RefinementEvent
<1>2. e.type = "Descendant" /\ e.event = d.event /\ e.isAugmented = d.isAugmented /\ e.linked = d.linked
  BY DEF Description
<1>3. BecomesDescendant(d) = EnsureNoUnnecessaryMemoryIsAllocated(e)
  BY DEF BecomesDescendant
<1> HIDE DEF e
<1>4. QED
  BY <1>1, <1>2, <1>3, MemoryKeeps DEF Keeps, Like

LEMMA TakesOverFields ==
  ASSUME NEW d \in Description, NEW v \in RefinementEvent
  PROVE  LET e == TakesOverFromChildren(d, v)
         IN  /\ e \in Description /\ e.type = "Cell" /\ e.event = v
             /\ e.isAugmented = d.isAugmented /\ e.linked = d.linked /\ HasSolution(e)
<1> DEFINE g == [ d EXCEPT !.augmentation = 0, !.faceAugmentation = AllSides(0) ]
           b == BecomesCell(g)
<1>1. g \in Description
  BY StatusValues, AllSidesType DEF Description
<1>2. g.isAugmented = d.isAugmented /\ g.linked = d.linked
  BY DEF Description
<1>3. TakesOverFromChildren(d, v) = [ b EXCEPT !.event = v ]
  BY DEF TakesOverFromChildren
<1> HIDE DEF g
<1>4. /\ b \in Description /\ b.type = "Cell" /\ b.isAugmented = d.isAugmented
      /\ b.linked = d.linked /\ HasSolution(b)
  BY <1>1, <1>2, BecomesCellFields
<1> HIDE DEF b
<1>5. QED
  BY <1>3, <1>4 DEF Description, HasSolution
LEMMA StartOrFinishFields ==
  ASSUME NEW d \in Description
  PROVE  LET e == StartOrFinish(d)
         IN  /\ e \in Description /\ e.linked = d.linked
             /\ HasSolution(d) => HasSolution(e)
             /\ d.event = "Refining" =>
                  e.type = "Ancestor" /\ e.event = "None" /\ e.isAugmented = FALSE
             /\ d.event = "ChangeChildrenToDescendantsRequested" =>
                  /\ e.type = "Cell" /\ e.event = "ChangeChildrenToDescendants"
                  /\ e.isAugmented = d.isAugmented
             /\ d.event = "ErasingChildrenRequested" =>
                  /\ e.type = "Cell" /\ e.event = "ErasingChildren"
                  /\ e.isAugmented = d.isAugmented
             /\ d.event = "DeaugmentingChildrenRequested" =>
                  /\ e.type = d.type /\ e.event = "DeaugmentingChildren"
                  /\ e.isAugmented = d.isAugmented
             /\ d.event \in { "ChangeChildrenToDescendants", "Augmenting" } =>
                  e.type = d.type /\ e.event = "None" /\ e.isAugmented = TRUE
             /\ d.event = "DeaugmentingChildren" =>
                  e.type = d.type /\ e.event = "None" /\ e.isAugmented = FALSE
             /\ d.event \in { "ErasingChildren", "DeaugmentingChildrenRequestedTriggered" } =>
                  e.type = d.type /\ e.event = "None" /\ e.isAugmented = d.isAugmented
             /\ d.event \in { "None", "RefiningRequested", "AugmentingRequested" } => e = d
<1> DEFINE e == StartOrFinish(d)
           v == d.event
<1>1. CASE v = "Refining"
  <2>1. e = BecomesAncestor(d)
    BY <1>1 DEF StartOrFinish
  <2>2. QED
    BY <1>1, <2>1, BecomesAncestorFields DEF HasSolution
<1>2. CASE v = "ChangeChildrenToDescendantsRequested"
  <2>1. e = TakesOverFromChildren(d, "ChangeChildrenToDescendants")
    BY <1>2 DEF StartOrFinish
  <2>2. "ChangeChildrenToDescendants" \in RefinementEvent
    BY DEF RefinementEvent
  <2>3. QED
    BY <1>2, <2>1, <2>2, TakesOverFields
<1>3. CASE v = "ErasingChildrenRequested"
  <2>1. e = TakesOverFromChildren(d, "ErasingChildren")
    BY <1>3 DEF StartOrFinish
  <2>2. "ErasingChildren" \in RefinementEvent
    BY DEF RefinementEvent
  <2>3. QED
    BY <1>3, <2>1, <2>2, TakesOverFields
<1>4. CASE v = "DeaugmentingChildrenRequested"
  <2>1. e = [ d EXCEPT !.event = "DeaugmentingChildren" ]
    BY <1>4 DEF StartOrFinish
  <2>2. QED
    BY <1>4, <2>1 DEF Description, RefinementEvent, HasSolution
<1>5. CASE v \in { "ChangeChildrenToDescendants", "Augmenting" }
  <2>1. e = [ d EXCEPT !.isAugmented = TRUE, !.event = "None" ]
    BY <1>5 DEF StartOrFinish
  <2>2. QED
    BY <1>5, <2>1 DEF Description, RefinementEvent, HasSolution
<1>6. CASE v = "DeaugmentingChildren"
  <2>1. e = [ d EXCEPT !.isAugmented = FALSE, !.event = "None" ]
    BY <1>6 DEF StartOrFinish
  <2>2. QED
    BY <1>6, <2>1 DEF Description, RefinementEvent, HasSolution
<1>7. CASE v \in { "ErasingChildren", "DeaugmentingChildrenRequestedTriggered" }
  <2>1. e = [ d EXCEPT !.event = "None" ]
    BY <1>7 DEF StartOrFinish
  <2>2. QED
    BY <1>7, <2>1 DEF Description, RefinementEvent, HasSolution
<1>8. CASE v \in { "None", "RefiningRequested", "AugmentingRequested" }
  <2>1. e = d
    BY <1>8 DEF StartOrFinish
  <2>2. QED
    BY <1>8, <2>1
<1>9. v \in RefinementEvent
  BY DEF Description
<1> HIDE DEF e
<1>10. QED
  BY <1>1, <1>2, <1>3, <1>4, <1>5, <1>6, <1>7, <1>8, <1>9 DEF RefinementEvent

-----------------------------------------------------------------------------
(* The descriptions of all cells. *)
Descriptions == [Cell -> Description \cup {NotFound}]

KeepsAll(D, E) ==
  /\ E \in Descriptions
  /\ \A c \in Cell : IF D[c] = NotFound THEN E[c] = NotFound ELSE Keeps(D[c], E[c])

LEMMA FoundType ==
  ASSUME NEW D \in Descriptions, NEW c
  PROVE  /\ Found(D, c) <=> c \in Cell /\ D[c] \in Description
         /\ c \in Cell => (Found(D, c) <=> D[c] # NotFound)
         /\ c \in Cell => D[c] \in Description \/ D[c] = NotFound
BY NotFoundAssumption DEF Descriptions, Found

LEMMA KeepsAllIsTransitive ==
  ASSUME NEW D \in Descriptions, NEW E, NEW F, KeepsAll(D, E), KeepsAll(E, F)
  PROVE  KeepsAll(D, F)
<1>1. ASSUME NEW c \in Cell, D[c] # NotFound PROVE E[c] # NotFound
  <2>1. E[c] \in Description
    BY <1>1 DEF KeepsAll, Keeps, Like
  <2>2. QED
    BY <2>1, NotFoundAssumption
<1>2. ASSUME NEW c \in Cell PROVE IF D[c] = NotFound THEN F[c] = NotFound ELSE Keeps(D[c], F[c])
  <2>1. CASE D[c] = NotFound
    BY <2>1 DEF KeepsAll
  <2>2. CASE D[c] # NotFound
    <3>1. Keeps(D[c], E[c]) /\ Keeps(E[c], F[c])
      BY <2>2, <1>1 DEF KeepsAll
    <3>2. QED
      BY <2>2, <3>1, LikeIsTransitive
  <2>3. QED
    BY <2>1, <2>2
<1>3. QED
  BY <1>2 DEF KeepsAll

LEMMA KeepsAllItself == ASSUME NEW D \in Descriptions PROVE KeepsAll(D, D)
BY KeepsItself DEF KeepsAll, Descriptions

LEMMA KeepsAllOne ==
  ASSUME NEW D \in Descriptions, NEW c, Found(D, c), NEW d, Keeps(D[c], d)
  PROVE  KeepsAll(D, [ D EXCEPT ![c] = d ])
<1> DEFINE E == [ D EXCEPT ![c] = d ]
<1>1. d \in Description
  BY DEF Keeps, Like
<1>2. E \in Descriptions /\ E[c] = d /\ \A x \in Cell \ {c} : E[x] = D[x]
  BY <1>1 DEF Descriptions, Found
<1>3. \A x \in Cell : D[x] \in Description => Keeps(D[x], D[x])
  BY KeepsItself
<1> HIDE DEF E
<1>4. ASSUME NEW x \in Cell PROVE IF D[x] = NotFound THEN E[x] = NotFound ELSE Keeps(D[x], E[x])
  <2>1. CASE x = c
    BY <1>2, <2>1 DEF Found
  <2>2. CASE x # c
    <3>1. E[x] = D[x] /\ (D[x] \in Description \/ D[x] = NotFound)
      BY <1>2, <2>2, FoundType
    <3>2. QED
      BY <1>3, <3>1
  <2>3. QED
    BY <2>1, <2>2
<1>5. KeepsAll(D, E)
  BY <1>2, <1>4 DEF KeepsAll
<1>6. QED
  BY <1>5 DEF E

LEMMA TouchKeepsAll ==
  ASSUME NEW D \in Descriptions, NEW c \in Cell, NEW s \in Side
  PROVE  KeepsAll(D, Touch(D, c, s))
<1> DEFINE n == Neighbour(c, s)
           o == Opposite(s)
           E == Touch(D, c, s)
<1>1. o \in Side
  BY DEF Opposite, Side
<1>2. CASE Found(D, c) /\ Found(D, n) /\ ~IsHanging(c, s)
  <2> DEFINE d == MergedWith(D[c], s, D[n])
             e == MergedWith(D[n], o, D[c])
  <2>1. E = [ D EXCEPT ![c] = d, ![n] = e ]
    BY <1>2 DEF Touch
  <2>2. D[c] \in Description /\ D[n] \in Description
    BY <1>2, FoundType
  <2>3. Keeps(D[c], d) /\ Keeps(D[n], e)
    BY <1>1, <2>2, MergedKeeps
  <2> DEFINE F == [ D EXCEPT ![c] = d ]
  <2>4. KeepsAll(D, F)
    BY <1>2, <2>3, KeepsAllOne
  <2>5. E = [ F EXCEPT ![n] = e ]
    BY <2>1
  <2>6. CASE n = c
    <3>1. E = [ D EXCEPT ![n] = e ]
      BY <2>5, <2>6 DEF Descriptions
    <3>2. KeepsAll(D, [ D EXCEPT ![n] = e ])
      <4> HIDE DEF e, d, n
      <4>1. QED
        BY <2>3, <1>2, KeepsAllOne
    <3>3. QED
      BY <3>1, <3>2
  <2>7. CASE n # c
    <3>1. F[n] = D[n]
      BY <2>7, <1>2 DEF Descriptions, Found
    <3>2. F \in Descriptions
      BY <2>4 DEF KeepsAll
    <3>3. Found(F, n) /\ Keeps(F[n], e)
      BY <3>1, <2>3, <1>2 DEF Found
    <3> HIDE DEF F, d, e, n
    <3>4. KeepsAll(F, [ F EXCEPT ![n] = e ])
      BY <3>2, <3>3, KeepsAllOne
    <3>5. QED
      BY <2>4, <2>5, <3>4, KeepsAllIsTransitive
  <2>8. QED
    BY <2>6, <2>7
<1>3. CASE Found(D, c) /\ ~Found(D, n) /\ MergesWithEmpty(c, s)
  <2>1. E = [ D EXCEPT ![c] = MergedWithBoundaryOrEmptyCell(D[c], s) ]
    BY <1>3 DEF Touch
  <2>2. Keeps(D[c], MergedWithBoundaryOrEmptyCell(D[c], s))
    BY <1>3, FoundType, MergedKeeps
  <2> DEFINE d == MergedWithBoundaryOrEmptyCell(D[c], s)
  <2>3. KeepsAll(D, [ D EXCEPT ![c] = d ])
    <3> HIDE DEF d, n
    <3>1. Keeps(D[c], d)
      BY <2>2 DEF d
    <3>2. QED
      BY <3>1, <1>3, KeepsAllOne
  <2>4. QED
    BY <2>1, <2>3
<1>4. CASE ~Found(D, c) /\ Found(D, n) /\ MergesWithEmpty(n, o)
  <2>1. E = [ D EXCEPT ![n] = MergedWithBoundaryOrEmptyCell(D[n], o) ]
    BY <1>4 DEF Touch
  <2>2. Keeps(D[n], MergedWithBoundaryOrEmptyCell(D[n], o))
    BY <1>1, <1>4, FoundType, MergedKeeps
  <2> DEFINE d == MergedWithBoundaryOrEmptyCell(D[n], o)
  <2>3. KeepsAll(D, [ D EXCEPT ![n] = d ])
    <3> HIDE DEF d, n
    <3>1. Keeps(D[n], d)
      BY <2>2 DEF d
    <3>2. QED
      BY <3>1, <1>4, KeepsAllOne
  <2>4. QED
    BY <2>1, <2>3
<1>5. CASE /\ ~(Found(D, c) /\ Found(D, n) /\ ~IsHanging(c, s))
           /\ ~(Found(D, c) /\ ~Found(D, n) /\ MergesWithEmpty(c, s))
           /\ ~(~Found(D, c) /\ Found(D, n) /\ MergesWithEmpty(n, o))
  <2>1. E = D
    BY <1>5 DEF Touch
  <2>2. QED
    BY <2>1, KeepsAllItself
<1>6. QED
  BY <1>2, <1>3, <1>4, <1>5

LEMMA TouchVerticesKeepsAll ==
  ASSUME NEW D \in Descriptions, NEW c \in Cell
  PROVE  KeepsAll(D, TouchVertices(D, c))
<1> DEFINE n == Neighbour(c, Entry)
           E == IF n \in Cell /\ InGrid(n) THEN D ELSE Touch(D, c, Entry)
<1>1. Entry \in Side /\ Exit \in Side
  BY DEF Entry, Exit, Opposite, Side
<1>2. KeepsAll(D, E)
  BY <1>1, TouchKeepsAll, KeepsAllItself
<1>3. TouchVertices(D, c) = Touch(E, c, Exit)
  BY DEF TouchVertices
<1> HIDE DEF E
<1>4. E \in Descriptions
  BY <1>2 DEF KeepsAll
<1>5. KeepsAll(E, Touch(E, c, Exit))
  BY <1>1, <1>4, TouchKeepsAll
<1>6. QED
  BY <1>2, <1>3, <1>5, KeepsAllIsTransitive
-----------------------------------------------------------------------------
(***************************************************************************)
(* What a cell that is entered does to its own description and, marking    *)
(* itself, to that of its parent.                                          *)
(***************************************************************************)
WithEvent(D, c, v) == [ D EXCEPT ![c].event = v ]

LEMMA SetEvent ==
  ASSUME NEW D \in Descriptions, NEW c, Found(D, c), NEW v \in RefinementEvent,
         NEW E, E = WithEvent(D, c, v)
  PROVE  /\ E \in Descriptions /\ Like(D[c], E[c]) /\ E[c].event = v
         /\ \A y \in Cell : y # c => E[y] = D[y]
         /\ \A y : Found(E, y) <=> Found(D, y)
<1>1. c \in Cell /\ D[c] \in Description
  BY FoundType
<1> DEFINE e == [ D[c] EXCEPT !.event = v ]
<1>2. e \in Description /\ e.event = v /\ Like(D[c], e)
  BY <1>1 DEF Description, Like, HasSolution
<1>3. E = [ D EXCEPT ![c] = e ]
  BY DEF WithEvent
<1> HIDE DEF e
<1>4. E \in Descriptions /\ E[c] = e /\ \A y \in Cell : y # c => E[y] = D[y]
  BY <1>1, <1>2, <1>3 DEF Descriptions
<1>5. ASSUME NEW y PROVE Found(E, y) <=> Found(D, y)
  <2>1. CASE y = c
    BY <2>1, <1>1, <1>2, <1>4, NotFoundAssumption DEF Found
  <2>2. CASE y # c
    BY <2>2, <1>4 DEF Found
  <2>3. QED
    BY <2>1, <2>2
<1>6. QED
  BY <1>2, <1>4, <1>5

LEMMA SetParentEventEffect ==
  ASSUME NEW D \in Descriptions, NEW c \in Cell, NEW from, NEW to \in RefinementEvent,
         NEW E, E = SetParentEvent(D, c, from, to)
  PROVE  /\ E \in Descriptions
         /\ \A y \in Cell : y # Parent(c) => E[y] = D[y]
         /\ \A y : Found(E, y) <=> Found(D, y)
         /\ HasParent(D, c) => /\ Like(D[Parent(c)], E[Parent(c)])
                               /\ E[Parent(c)].event =
                                    IF D[Parent(c)].event \in from THEN to
                                    ELSE D[Parent(c)].event
         /\ ~HasParent(D, c) => E = D
<1> DEFINE p == Parent(c)
<1>1. CASE HasParent(D, c) /\ D[p].event \in from
  <2>1. E = WithEvent(D, p, to)
    BY <1>1 DEF SetParentEvent, WithEvent
  <2>2. Found(D, p)
    BY <1>1 DEF HasParent
  <2> HIDE DEF p
  <2>3. /\ E \in Descriptions /\ Like(D[p], E[p]) /\ E[p].event = to
        /\ \A y \in Cell : y # p => E[y] = D[y]
        /\ \A y : Found(E, y) <=> Found(D, y)
    BY <2>1, <2>2, SetEvent
  <2>4. QED
    BY <1>1, <2>3 DEF p
<1>2. CASE ~(HasParent(D, c) /\ D[p].event \in from)
  <2>1. E = D
    BY <1>2 DEF SetParentEvent
  <2>2. HasParent(D, c) => Like(D[p], D[p])
    BY FoundType, KeepsItself DEF HasParent
  <2>3. QED
    BY <1>2, <2>1, <2>2
<1>3. QED
  BY <1>1, <1>2

(* What markForRefinement does. *)
RefinementMark(D, E, c) ==
  LET p == Parent(c)
  IN  /\ E \in Descriptions
      /\ \A y \in Cell : y # c /\ y # p => E[y] = D[y]
      /\ \A y : Found(E, y) <=> Found(D, y)
      /\ Like(D[c], E[c])
      /\ \/ E[c].event = D[c].event
         \/ /\ E[c].event = "RefiningRequested"
            /\ AsksCriterion(D[c]) /\ criterion[c] = "Refine"
         \/ /\ E[c].event = "ErasingChildrenRequested"
            /\ D[c].type = "Ancestor" /\ D[c].event = "None"
      /\ HasParent(D, c) =>
           /\ Like(D[p], E[p])
           /\ E[p].event = D[p].event \/ E[p].event = "None"
           /\ D[p].event \notin { "ErasingChildrenRequested", "ChangeChildrenToDescendantsRequested" }
                => E[p].event = D[p].event
           /\ D[p].event \in { "ErasingChildrenRequested", "ChangeChildrenToDescendantsRequested" }
              /\ E[p].event # "None" => AsksCriterion(D[c]) /\ criterion[c] = "Erase"
      /\ ~HasParent(D, c) /\ p \in Cell => E[p] = D[p]

LEMMA ParentIsAnother ==
  ASSUME NEW c \in Cell
  PROVE  /\ Parent(c) # c
         /\ Level(c) > 0 <=> Level(c) # 0
         /\ Level(c) = 0 => Parent(c) \notin Cell
<1>1. c = << c[1], c[2] >> /\ c[1] \in Nat
  BY CellType
<1>2. Parent(c)[1] = c[1] - 1
  BY DEF Parent
<1>3. c[1] = 0 => Parent(c) \notin Cell
  <2>1. ASSUME c[1] = 0, Parent(c) \in Cell PROVE FALSE
    <3>1. Parent(c)[1] \in Nat
      BY <2>1, CellType
    <3>2. QED
      BY <3>1, <1>2, <2>1
  <2>2. QED
    BY <2>1
<1>4. QED
  BY <1>1, <1>2, <1>3 DEF Level

LEMMA MarkForRefinementEffect ==
  ASSUME NEW D \in Descriptions, NEW c, Found(D, c)
  PROVE  RefinementMark(D, MarkForRefinement(D, c), c)
<1> DEFINE d == D[c]
           p == Parent(c)
           v == CASE AsksCriterion(d) /\ criterion[c] = "Refine" /\ Level(c) < MaxLevel ->
                       "RefiningRequested"
                  [] d.type = "Ancestor" /\ d.event = "None" /\ ~d.newlyCreated ->
                       "ErasingChildrenRequested"
                  [] OTHER -> d.event
           M == [ D EXCEPT ![c].event = v ]
           R == { "ErasingChildrenRequested", "ChangeChildrenToDescendantsRequested" }
           E == MarkForRefinement(D, c)
<1>1. c \in Cell /\ d \in Description
  BY FoundType
<1>2. \/ v = d.event
      \/ v = "RefiningRequested" /\ AsksCriterion(d) /\ criterion[c] = "Refine"
      \/ v = "ErasingChildrenRequested" /\ d.type = "Ancestor" /\ d.event = "None"
  OBVIOUS
<1>3. v \in RefinementEvent
  <2>1. d.event \in RefinementEvent
    BY <1>1 DEF Description
  <2>2. QED
    BY <1>2, <2>1 DEF RefinementEvent
<1>4. E = IF AsksCriterion(d) /\ criterion[c] = "Erase" THEN M
          ELSE SetParentEvent(M, c, R, "None")
  BY DEF MarkForRefinement
<1>5. p # c
  BY <1>1, ParentIsAnother
<1> HIDE DEF v, d, p, M, R, E
<1>6. /\ M \in Descriptions /\ Like(d, M[c]) /\ M[c].event = v
      /\ \A y \in Cell : y # c => M[y] = D[y]
      /\ \A y : Found(M, y) <=> Found(D, y)
  <2>1. M = WithEvent(D, c, v)
    BY DEF M, WithEvent
  <2>2. QED
    BY <2>1, <1>3, SetEvent DEF d
<1>7. HasParent(M, c) <=> HasParent(D, c)
  BY <1>6 DEF HasParent, Like, d
<1>8. HasParent(D, c) => M[p] = D[p] /\ Like(D[p], D[p])
  BY <1>5, <1>6, FoundType, KeepsItself DEF HasParent, Found, p
<1>9. CASE AsksCriterion(d) /\ criterion[c] = "Erase"
  <2>1. E = M
    BY <1>4, <1>9
  <2>2. QED
    BY <2>1, <1>2, <1>5, <1>6, <1>8, <1>9 DEF RefinementMark, d, p, E
<1>10. CASE ~(AsksCriterion(d) /\ criterion[c] = "Erase")
  <2>1. E = SetParentEvent(M, c, R, "None")
    BY <1>4, <1>10
  <2>2. "None" \in RefinementEvent
    BY DEF RefinementEvent
  <2>3. /\ E \in Descriptions
        /\ \A y \in Cell : y # p => E[y] = M[y]
        /\ \A y : Found(E, y) <=> Found(M, y)
        /\ HasParent(M, c) => /\ Like(M[p], E[p])
                              /\ E[p].event = IF M[p].event \in R THEN "None" ELSE M[p].event
        /\ ~HasParent(M, c) => E = M
    BY <1>1, <1>6, <2>1, <2>2, SetParentEventEffect DEF p
  <2>4. E[c] = M[c]
    BY <1>1, <1>5, <2>3
  <2>5. \A y \in Cell : y # c /\ y # p => E[y] = D[y]
    BY <1>6, <2>3
  <2>6. HasParent(D, c) =>
           /\ Like(D[p], E[p])
           /\ E[p].event = IF D[p].event \in R THEN "None" ELSE D[p].event
    BY <1>7, <1>8, <2>3
  <2>7. ~HasParent(D, c) /\ p \in Cell => E[p] = D[p]
    BY <1>5, <1>6, <1>7, <2>3
  <2>8. \A y : Found(E, y) <=> Found(D, y)
    BY <1>6, <2>3
  <2>9. QED
    BY <1>2, <1>6, <2>3, <2>4, <2>5, <2>6, <2>7, <2>8 DEF RefinementMark, d, p, E, R
<1>11. QED
  BY <1>9, <1>10 DEF E

(* What markForAugmentation does. *)
Deaugments == { "DeaugmentingChildrenRequestedTriggered", "DeaugmentingChildrenRequested" }

AugmentationMark(D, E, c) ==
  LET p == Parent(c)
  IN  /\ E \in Descriptions
      /\ \A y \in Cell : y # c /\ y # p => E[y] = D[y]
      /\ \A y : Found(E, y) <=> Found(D, y)
      /\ Like(D[c], E[c])
      /\ \/ E[c].event = D[c].event
         \/ /\ D[c].event = "None" /\ D[c].type \in { "Cell", "Descendant" }
            /\ \/ E[c].event = "DeaugmentingChildrenRequestedTriggered"
               \/ E[c].event = "AugmentingRequested" /\ ~D[c].isAugmented
      /\ HasParent(D, c) =>
           /\ Like(D[p], E[p])
           /\ D[p].event \in Deaugments =>
                E[p].event \in { "DeaugmentingChildrenRequested", "None" }
           /\ D[p].event \notin Deaugments => E[p].event = D[p].event
      /\ ~HasParent(D, c) /\ p \in Cell => E[p] = D[p]

LEMMA MarkForAugmentationEffect ==
  ASSUME NEW D \in Descriptions, NEW c, Found(D, c)
  PROVE  AugmentationMark(D, MarkForAugmentation(D, c), c)
<1> DEFINE d == D[c]
           p == Parent(c)
           v == AugmentationEvent(d)
           T == { "DeaugmentingChildrenRequestedTriggered" }
           U == { "DeaugmentingChildrenRequested" }
           R == SetParentEvent(D, c, T, "DeaugmentingChildrenRequested")
           M == [ R EXCEPT ![c].event = v ]
           S == SetParentEvent(M, c, U, "None")
           E == MarkForAugmentation(D, c)
<1>1. c \in Cell /\ d \in Description
  BY FoundType
<1>2. \/ v = d.event
      \/ /\ d.event = "None" /\ d.type \in { "Cell", "Descendant" }
         /\ \/ v = "DeaugmentingChildrenRequestedTriggered"
            \/ v = "AugmentingRequested" /\ ~d.isAugmented
  <2> HIDE DEF d
  <2>1. CASE d.event # "None" \/ d.type \notin { "Cell", "Descendant" }
    <3>1. v = d.event
      BY <2>1 DEF AugmentationEvent, v
    <3>2. QED
      BY <3>1
  <2>2. CASE d.event = "None" /\ d.type \in { "Cell", "Descendant" }
    <3>1. CASE d.augmentation = 0
      <4>1. v = "DeaugmentingChildrenRequestedTriggered"
        BY <2>2, <3>1 DEF AugmentationEvent, v
      <4>2. QED
        BY <2>2, <4>1
    <3>2. CASE d.augmentation # 0 /\ d.augmentation > 0 /\ ~d.isAugmented
      <4>1. v = "AugmentingRequested"
        BY <2>2, <3>2 DEF AugmentationEvent, v
      <4>2. QED
        BY <2>2, <3>2, <4>1
    <3>3. CASE d.augmentation # 0 /\ ~(d.augmentation > 0 /\ ~d.isAugmented)
      <4>1. v = d.event
        BY <2>2, <3>3 DEF AugmentationEvent, v
      <4>2. QED
        BY <4>1
    <3>4. QED
      BY <3>1, <3>2, <3>3
  <2>3. QED
    BY <2>1, <2>2
<1>3. v \in RefinementEvent
  <2>1. d.event \in RefinementEvent
    BY <1>1 DEF Description
  <2>2. QED
    BY <1>2, <2>1 DEF RefinementEvent
<1>4. E = S \/ E = M
  BY DEF MarkForAugmentation
<1>5. p # c
  BY <1>1, ParentIsAnother
<1>6. "None" \in RefinementEvent /\ "DeaugmentingChildrenRequested" \in RefinementEvent
  BY DEF RefinementEvent
<1> HIDE DEF v, d, p, M, R, S, E, T, U
<1>7. /\ R \in Descriptions
      /\ \A y \in Cell : y # p => R[y] = D[y]
      /\ \A y : Found(R, y) <=> Found(D, y)
      /\ HasParent(D, c) => /\ Like(D[p], R[p])
                            /\ R[p].event = IF D[p].event \in T THEN "DeaugmentingChildrenRequested"
                                            ELSE D[p].event
      /\ ~HasParent(D, c) => R = D
  BY <1>1, <1>6, SetParentEventEffect DEF R, p
<1>8. R[c] = d /\ Found(R, c)
  BY <1>1, <1>5, <1>7 DEF d
<1>9. /\ M \in Descriptions /\ Like(R[c], M[c]) /\ M[c].event = v
      /\ \A y \in Cell : y # c => M[y] = R[y]
      /\ \A y : Found(M, y) <=> Found(R, y)
  <2>1. M = WithEvent(R, c, v)
    BY DEF M, WithEvent
  <2>2. QED
    BY <2>1, <1>3, <1>7, <1>8, SetEvent
<1>10. HasParent(M, c) <=> HasParent(D, c)
  BY <1>7, <1>8, <1>9 DEF HasParent, Like, d
<1>11. HasParent(D, c) => M[p] = R[p] /\ p \in Cell
  BY <1>5, <1>9 DEF HasParent, Found, p
<1>12. /\ S \in Descriptions
       /\ \A y \in Cell : y # p => S[y] = M[y]
       /\ \A y : Found(S, y) <=> Found(M, y)
       /\ HasParent(M, c) => /\ Like(M[p], S[p])
                             /\ S[p].event = IF M[p].event \in U THEN "None" ELSE M[p].event
       /\ ~HasParent(M, c) => S = M
  BY <1>1, <1>6, <1>9, SetParentEventEffect DEF S, p
<1>13. ASSUME NEW F, F \in {S, M} PROVE AugmentationMark(D, F, c)
  <2>1. F[c] = M[c] /\ Like(d, F[c]) /\ F[c].event = v
    BY <1>1, <1>5, <1>8, <1>9, <1>12, <1>13
  <2>2. \A y \in Cell : y # c /\ y # p => F[y] = D[y]
    BY <1>7, <1>9, <1>12, <1>13
  <2>3. \A y : Found(F, y) <=> Found(D, y)
    BY <1>7, <1>9, <1>12, <1>13
  <2>4. ASSUME HasParent(D, c)
        PROVE  /\ Like(D[p], F[p])
               /\ D[p].event \in Deaugments =>
                    F[p].event \in { "DeaugmentingChildrenRequested", "None" }
               /\ D[p].event \notin Deaugments => F[p].event = D[p].event
    <3>1. Like(D[p], R[p]) /\ M[p] = R[p]
      BY <1>7, <1>11, <2>4
    <3>2. Like(D[p], M[p]) /\ Like(D[p], S[p])
      BY <3>1, <1>10, <1>12, <2>4, LikeIsTransitive
    <3>3. R[p].event = IF D[p].event \in T THEN "DeaugmentingChildrenRequested" ELSE D[p].event
      BY <1>7, <2>4
    <3>4. S[p].event = IF R[p].event \in U THEN "None" ELSE R[p].event
      BY <3>1, <1>10, <1>12, <2>4
    <3>5. QED
      BY <3>1, <3>2, <3>3, <3>4, <1>13 DEF Deaugments, T, U
  <2>5. ~HasParent(D, c) /\ p \in Cell => F[p] = D[p]
    BY <1>5, <1>7, <1>9, <1>10, <1>12, <1>13
  <2>6. F \in Descriptions
    BY <1>9, <1>12, <1>13
  <2>7. QED
    BY <1>2, <2>1, <2>2, <2>3, <2>4, <2>5, <2>6 DEF AugmentationMark, d, p
<1>14. QED
  BY <1>4, <1>13 DEF E
(***************************************************************************)
(* Entering a cell that has a description, up to the point where the       *)
(* coarse cell's requests are met: its new event, and that of its parent.  *)
(***************************************************************************)
OwnEvent(c, d, v) ==
  \/ v = d.event
  \/ v = "RefiningRequested" /\ AsksCriterion(d) /\ criterion[c] = "Refine"
  \/ v = "ErasingChildrenRequested" /\ d.type = "Ancestor" /\ d.event = "None"
  \/ /\ d.event = "None" /\ d.type \in { "Cell", "Descendant" }
     /\ \/ v = "DeaugmentingChildrenRequestedTriggered"
        \/ v = "AugmentingRequested" /\ ~d.isAugmented

Coarsens == { "ErasingChildrenRequested", "ChangeChildrenToDescendantsRequested" }

(* The parent's event was v and is w now. *)
ParentEvent(c, d, v, w) ==
  IF v \in Coarsens
  THEN w = "None" \/ (w = v /\ AsksCriterion(d) /\ criterion[c] = "Erase")
  ELSE IF v \in Deaugments
  THEN w \in { v, "DeaugmentingChildrenRequested", "None" }
  ELSE w = v

Owns(D, E, c) ==
  LET p == Parent(c)
  IN  /\ E \in Descriptions
      /\ \A y \in Cell : y # c /\ y # p /\ Found(D, y) => Keeps(D[y], E[y])
      /\ \A y : Found(E, y) <=> Found(D, y)
      /\ Like(D[c], E[c]) /\ OwnEvent(c, D[c], E[c].event)
      /\ Found(D, p) =>
           /\ Like(D[p], E[p])
           /\ HasParent(D, c) => ParentEvent(c, D[c], D[p].event, E[p].event)
           /\ ~HasParent(D, c) => E[p].event = D[p].event

LEMMA KeepsAllFound ==
  ASSUME NEW D \in Descriptions, NEW E, KeepsAll(D, E)
  PROVE  /\ E \in Descriptions
         /\ \A y : Found(E, y) <=> Found(D, y)
         /\ \A y : Found(D, y) => Keeps(D[y], E[y])
<1>1. E \in Descriptions
  BY DEF KeepsAll
<1>2. ASSUME NEW y, Found(D, y) PROVE Keeps(D[y], E[y]) /\ Found(E, y)
  <2>1. y \in Cell /\ D[y] # NotFound
    BY <1>2 DEF Found
  <2>2. Keeps(D[y], E[y])
    BY <2>1 DEF KeepsAll
  <2>3. E[y] # NotFound
    BY <2>2, NotFoundAssumption DEF Keeps, Like
  <2>4. QED
    BY <2>1, <2>2, <2>3 DEF Found
<1>3. ASSUME NEW y, ~Found(D, y) PROVE ~Found(E, y)
  <2>1. CASE y \in Cell
    <3>1. D[y] = NotFound
      BY <1>3, <2>1 DEF Found
    <3>2. E[y] = NotFound
      BY <2>1, <3>1 DEF KeepsAll
    <3>3. QED
      BY <3>2 DEF Found
  <2>2. CASE y \notin Cell
    BY <2>2 DEF Found
  <2>3. QED
    BY <2>1, <2>2
<1>4. QED
  BY <1>1, <1>2, <1>3

LEMMA MarkedEffect ==
  ASSUME NEW D \in Descriptions, NEW c, Found(D, c)
  PROVE  Owns(D, Marked(D, c), c)
<1> DEFINE T == TouchVertices(D, c)
           M == Marked(D, c)
           p == Parent(c)
<1>1. c \in Cell
  BY DEF Found
<1>2. KeepsAll(D, T)
  BY <1>1, TouchVerticesKeepsAll
<1>3. /\ T \in Descriptions /\ \A y : Found(T, y) <=> Found(D, y)
      /\ \A y : Found(D, y) => Keeps(D[y], T[y])
  BY <1>2, KeepsAllFound
<1>4. M = MarkForRefinement(T, c)
  BY <1>3 DEF Marked
<1>5. RefinementMark(T, M, c)
  BY <1>3, <1>4, MarkForRefinementEffect
<1> HIDE DEF T, M
<1>6. Keeps(D[c], T[c])
  BY <1>3
<1>7. HasParent(T, c) <=> HasParent(D, c)
  BY <1>3, <1>6 DEF HasParent, Keeps, Like
<1>8. M \in Descriptions /\ \A y : Found(M, y) <=> Found(D, y)
  BY <1>3, <1>5 DEF RefinementMark
<1>9. ASSUME NEW y \in Cell, y # c, y # p, Found(D, y) PROVE Keeps(D[y], M[y])
  <2>1. M[y] = T[y]
    BY <1>5, <1>9 DEF RefinementMark
  <2>2. QED
    BY <2>1, <1>3, <1>9
<1>10. Like(D[c], M[c]) /\ OwnEvent(c, D[c], M[c].event)
  <2>1. Like(T[c], M[c]) /\ Like(D[c], T[c]) /\ T[c].event = D[c].event
    BY <1>5, <1>6 DEF RefinementMark, Keeps
  <2>2. Like(D[c], M[c])
    BY <2>1, LikeIsTransitive
  <2>3. AsksCriterion(T[c]) <=> AsksCriterion(D[c])
    BY <2>1 DEF AsksCriterion, Like
  <2>4. T[c].type = D[c].type
    BY <2>1 DEF Like
  <2>5. QED
    BY <2>1, <2>2, <2>3, <2>4, <1>5 DEF RefinementMark, OwnEvent
<1>11. ASSUME Found(D, p)
       PROVE  /\ Like(D[p], M[p])
              /\ HasParent(D, c) => ParentEvent(c, D[c], D[p].event, M[p].event)
              /\ ~HasParent(D, c) => M[p].event = D[p].event
  <2>1. Keeps(D[p], T[p]) /\ p \in Cell
    BY <1>3, <1>11 DEF Found
  <2>2. CASE HasParent(D, c)
    <3>1. Like(T[p], M[p]) /\ Like(D[p], T[p]) /\ T[p].event = D[p].event
      BY <1>5, <1>7, <2>1, <2>2 DEF RefinementMark, Keeps
    <3>2. AsksCriterion(T[c]) <=> AsksCriterion(D[c])
      BY <1>6 DEF AsksCriterion, Keeps, Like
    <3>3. /\ M[p].event = T[p].event \/ M[p].event = "None"
          /\ T[p].event \notin Coarsens => M[p].event = T[p].event
          /\ T[p].event \in Coarsens /\ M[p].event # "None" => AsksCriterion(T[c]) /\ criterion[c] = "Erase"
      BY <1>5, <1>7, <2>2 DEF RefinementMark, Coarsens
    <3>4. ParentEvent(c, D[c], D[p].event, M[p].event)
      BY <3>1, <3>2, <3>3 DEF ParentEvent
    <3>5. QED
      BY <3>1, <3>4, <2>2, LikeIsTransitive
  <2>3. CASE ~HasParent(D, c)
    <3>1. M[p] = T[p]
      BY <1>5, <1>7, <2>1, <2>3 DEF RefinementMark
    <3>2. QED
      BY <2>1, <2>3, <3>1 DEF Keeps
  <2>4. QED
    BY <2>2, <2>3
<1>12. QED
  BY <1>8, <1>9, <1>10, <1>11 DEF Owns, M

LEMMA OwnEffect ==
  ASSUME NEW D \in Descriptions, NEW c, Found(D, c), NEW b \in BOOLEAN
  PROVE  Owns(D, UpdateStateOfCell(Marked(D, c), c, b), c)
<1> DEFINE M == Marked(D, c)
           p == Parent(c)
           u == UpdateAugmentationStatus(EnsureNoUnnecessaryMemoryIsAllocated(
                  EnsureNecessaryMemoryIsAllocated(UpdateHelperStatus(M[c]))))
           U == [ M EXCEPT ![c] = u ]
           E == UpdateStateOfCell(M, c, b)
<1>1. c \in Cell
  BY DEF Found
<1>2. Owns(D, M, c)
  BY MarkedEffect
<1>3. M \in Descriptions /\ Found(M, c) /\ \A y : Found(M, y) <=> Found(D, y)
  BY <1>2 DEF Owns
<1>4. CASE ~b
  <2>1. E = M
    BY <1>3, <1>4 DEF UpdateStateOfCell
  <2>2. QED
    BY <1>2, <2>1
<1>5. CASE b
  <2>1. E = MarkForAugmentation(U, c)
    BY <1>3, <1>5 DEF UpdateStateOfCell
  <2>2. Keeps(M[c], u)
    <3>1. M[c] \in Description
      BY <1>3, FoundType
    <3> DEFINE h == UpdateHelperStatus(M[c])
               n == EnsureNecessaryMemoryIsAllocated(h)
               g == EnsureNoUnnecessaryMemoryIsAllocated(n)
    <3>2. Keeps(M[c], h)
      BY <3>1, UpdatesKeep
    <3> HIDE DEF h
    <3>3. h \in Description
      BY <3>2 DEF Keeps, Like
    <3>4. Keeps(h, n)
      BY <3>3, MemoryKeeps
    <3> HIDE DEF n
    <3>5. n \in Description
      BY <3>4 DEF Keeps, Like
    <3>6. Keeps(n, g)
      BY <3>5, MemoryKeeps
    <3> HIDE DEF g
    <3>7. g \in Description
      BY <3>6 DEF Keeps, Like
    <3>8. Keeps(g, UpdateAugmentationStatus(g))
      BY <3>7, UpdatesKeep
    <3>9. Keeps(M[c], UpdateAugmentationStatus(g))
      BY <3>2, <3>4, <3>6, <3>8, LikeIsTransitive
    <3>10. QED
      BY <3>9 DEF g, n, h
  <2> HIDE DEF M, u
  <2>3. KeepsAll(M, U)
    BY <1>3, <2>2, KeepsAllOne
  <2> HIDE DEF U
  <2>4. /\ U \in Descriptions /\ \A y : Found(U, y) <=> Found(M, y)
        /\ \A y : Found(M, y) => Keeps(M[y], U[y])
    BY <1>3, <2>3, KeepsAllFound
  <2>5. AugmentationMark(U, E, c)
    BY <1>3, <2>1, <2>4, MarkForAugmentationEffect DEF M
  <2> HIDE DEF E
  <2>6. Like(D[c], M[c]) /\ OwnEvent(c, D[c], M[c].event) /\ Keeps(M[c], U[c])
    BY <1>2, <1>3, <2>4 DEF Owns
  <2>7. HasParent(U, c) <=> HasParent(D, c)
    BY <1>3, <2>4, <2>6 DEF HasParent, Keeps, Like
  <2>8. E \in Descriptions /\ \A y : Found(E, y) <=> Found(D, y)
    BY <1>3, <2>4, <2>5 DEF AugmentationMark
  <2>9. ASSUME NEW y \in Cell, y # c, y # p, Found(D, y) PROVE Keeps(D[y], E[y])
    <3>1. E[y] = U[y]
      BY <2>5, <2>9 DEF AugmentationMark
    <3>2. Keeps(D[y], M[y]) /\ Keeps(M[y], U[y])
      BY <1>2, <1>3, <2>4, <2>9 DEF Owns
    <3>3. QED
      BY <3>1, <3>2, LikeIsTransitive
  <2>10. Like(D[c], E[c]) /\ OwnEvent(c, D[c], E[c].event)
    <3>1. Like(U[c], E[c]) /\ Like(M[c], U[c]) /\ U[c].event = M[c].event
      BY <2>5, <2>6 DEF AugmentationMark, Keeps
    <3>2. Like(D[c], E[c]) /\ Like(D[c], U[c])
      BY <2>6, <3>1, LikeIsTransitive
    <3>3. U[c].type = D[c].type /\ U[c].isAugmented = D[c].isAugmented
      BY <3>2 DEF Like
    <3>4. \/ E[c].event = M[c].event
          \/ /\ M[c].event = "None" /\ D[c].type \in { "Cell", "Descendant" }
             /\ \/ E[c].event = "DeaugmentingChildrenRequestedTriggered"
                \/ E[c].event = "AugmentingRequested" /\ ~D[c].isAugmented
      BY <2>5, <3>1, <3>3 DEF AugmentationMark
    <3>5. OwnEvent(c, D[c], E[c].event)
      BY <2>6, <3>4 DEF OwnEvent
    <3>6. QED
      BY <3>2, <3>5
  <2>11. ASSUME Found(D, p)
         PROVE  /\ Like(D[p], E[p])
                /\ HasParent(D, c) => ParentEvent(c, D[c], D[p].event, E[p].event)
                /\ ~HasParent(D, c) => E[p].event = D[p].event
    <3>1. p \in Cell /\ Keeps(M[p], U[p]) /\ Like(D[p], M[p])
      BY <1>2, <1>3, <2>4, <2>11 DEF Owns, Found
    <3>2. Like(M[p], U[p]) /\ U[p].event = M[p].event /\ Like(D[p], U[p])
      BY <3>1, LikeIsTransitive DEF Keeps
    <3>3. CASE HasParent(D, c)
      <4>1. Like(U[p], E[p])
        BY <2>5, <2>7, <3>3 DEF AugmentationMark
      <4>2. /\ U[p].event \in Deaugments => E[p].event \in { "DeaugmentingChildrenRequested", "None" }
            /\ U[p].event \notin Deaugments => E[p].event = U[p].event
        BY <2>5, <2>7, <3>3 DEF AugmentationMark
      <4>3. ParentEvent(c, D[c], D[p].event, M[p].event)
        BY <1>2, <2>11, <3>3 DEF Owns
      <4>4. ParentEvent(c, D[c], D[p].event, E[p].event)
        BY <3>2, <4>2, <4>3 DEF ParentEvent, Deaugments, Coarsens
      <4>5. QED
        BY <3>2, <3>3, <4>1, <4>4, LikeIsTransitive
    <3>4. CASE ~HasParent(D, c)
      <4>1. E[p] = U[p]
        BY <2>5, <2>7, <3>1, <3>4 DEF AugmentationMark
      <4>2. M[p].event = D[p].event
        BY <1>2, <2>11, <3>4 DEF Owns
      <4>3. QED
        BY <3>2, <3>4, <4>1, <4>2
    <3>5. QED
      BY <3>3, <3>4
  <2>12. QED
    BY <2>8, <2>9, <2>10, <2>11 DEF Owns, E, M
<1>6. QED
  BY <1>4, <1>5
(***************************************************************************)
(* Meeting the requests of the coarse cell: its event was v, and is w      *)
(* after the cell c below it was entered.                                  *)
(***************************************************************************)
Adds == { "AugmentingRequested", "Augmenting" }
Refines == { "RefiningRequested", "Refining" }

VetoedEvent(v, w) ==
  \/ w = v
  \/ v = "DeaugmentingChildrenRequested" /\ w = "None"
  \/ v = "ErasingChildrenRequested" /\ w = "ChangeChildrenToDescendantsRequested"

IsNew(d, type) ==
  /\ d \in Description /\ d.type = type /\ d.event = "None" /\ d.isAugmented = FALSE
  /\ d.linked = TRUE /\ HasSolution(d)

IsNowACell(d, e) ==
  /\ e \in Description /\ e.type = "Cell" /\ e.event = "None"
  /\ e.isAugmented = d.isAugmented /\ e.linked = d.linked /\ HasSolution(e)

Meets(D, E, c) ==
  LET p == Parent(c)
      v == D[p].event
      w == E[p].event
  IN  /\ E \in Descriptions
      /\ \A y \in Cell : y # c /\ y # p => E[y] = D[y]
      /\ Found(E, p) /\ Like(D[p], E[p])
      /\ CASE v \in Adds /\ Found(D, c) -> w = "None" /\ E[c] = D[c]
           [] v \in Adds /\ ~Found(D, c) -> w = "Augmenting" /\ IsNew(E[c], "Descendant")
           [] v \in Refines /\ Found(D, c) -> w = "Refining" /\ IsNowACell(D[c], E[c])
           [] v \in Refines /\ ~Found(D, c) -> w = "Refining" /\ IsNew(E[c], "Cell")
           [] OTHER -> VetoedEvent(v, w) /\ E[c] = D[c]

LEMMA VetoEffect ==
  ASSUME NEW D \in Descriptions, NEW c \in Cell, Found(D, Parent(c)),
         NEW V, V = VetoErasingOrDeaugmentingChildrenRequest(D, c)
  PROVE  /\ V \in Descriptions
         /\ \A y \in Cell : y # Parent(c) => V[y] = D[y]
         /\ \A y : Found(V, y) <=> Found(D, y)
         /\ Like(D[Parent(c)], V[Parent(c)])
         /\ VetoedEvent(D[Parent(c)].event, V[Parent(c)].event)
<1> DEFINE p == Parent(c)
<1>1. p \in Cell /\ Like(D[p], D[p])
  BY FoundType, KeepsItself
<1>2. "None" \in RefinementEvent /\ "ChangeChildrenToDescendantsRequested" \in RefinementEvent
  BY DEF RefinementEvent
<1>3. \/ V = D
      \/ /\ D[p].event = "DeaugmentingChildrenRequested"
         /\ V = WithEvent(D, p, "None")
      \/ /\ D[p].event = "ErasingChildrenRequested"
         /\ V = WithEvent(D, p, "ChangeChildrenToDescendantsRequested")
  <2> DEFINE veto == /\ Found(D, c)
                     /\ D[c].isAugmented \/ D[c].event \in { "Augmenting", "AugmentingRequested" }
  <2>1. CASE ~veto
    BY <2>1 DEF VetoErasingOrDeaugmentingChildrenRequest
  <2>2. CASE veto /\ D[p].event = "DeaugmentingChildrenRequested"
    BY <2>2 DEF VetoErasingOrDeaugmentingChildrenRequest, WithEvent
  <2>3. CASE veto /\ D[p].event = "ErasingChildrenRequested"
    BY <2>3 DEF VetoErasingOrDeaugmentingChildrenRequest, WithEvent
  <2>4. CASE veto /\ D[p].event \notin { "DeaugmentingChildrenRequested", "ErasingChildrenRequested" }
    BY <2>4 DEF VetoErasingOrDeaugmentingChildrenRequest
  <2>5. QED
    BY <2>1, <2>2, <2>3, <2>4
<1> HIDE DEF p
<1>4. CASE V = D
  BY <1>1, <1>4 DEF VetoedEvent, p
<1>5. CASE D[p].event = "DeaugmentingChildrenRequested" /\ V = WithEvent(D, p, "None")
  <2>1. /\ V \in Descriptions /\ Like(D[p], V[p]) /\ V[p].event = "None"
        /\ \A y \in Cell : y # p => V[y] = D[y]
        /\ \A y : Found(V, y) <=> Found(D, y)
    BY <1>2, <1>5, SetEvent DEF p
  <2>2. QED
    BY <1>5, <2>1 DEF VetoedEvent, p
<1>6. CASE /\ D[p].event = "ErasingChildrenRequested"
           /\ V = WithEvent(D, p, "ChangeChildrenToDescendantsRequested")
  <2>1. /\ V \in Descriptions /\ Like(D[p], V[p])
        /\ V[p].event = "ChangeChildrenToDescendantsRequested"
        /\ \A y \in Cell : y # p => V[y] = D[y]
        /\ \A y : Found(V, y) <=> Found(D, y)
    BY <1>2, <1>6, SetEvent DEF p
  <2>2. QED
    BY <1>6, <2>1 DEF VetoedEvent, p
<1>7. QED
  BY <1>3, <1>4, <1>5, <1>6 DEF p

Put(D, c, d) == [ D EXCEPT ![c] = d ]

LEMMA PutDescription ==
  ASSUME NEW D \in Descriptions, NEW c \in Cell, NEW d \in Description,
         NEW E, E = Put(D, c, d)
  PROVE  /\ E \in Descriptions /\ E[c] = d
         /\ \A y \in Cell : y # c => E[y] = D[y]
BY DEF Descriptions, Put

LEMMA MeetsEffect ==
  ASSUME NEW D \in Descriptions, NEW c \in Cell, Found(D, Parent(c)), Level(c) > 0
  PROVE  Meets(D, UpdateStateInEnterCell(D, c), c)
<1> DEFINE p == Parent(c)
           V == VetoErasingOrDeaugmentingChildrenRequest(D, c)
           A == AddNewDescendantIfAugmentingRequested(V, c)
           E == AddNewCellIfRefinementRequested(A, c)
<1>1. UpdateStateInEnterCell(D, c) = E
  BY DEF UpdateStateInEnterCell
<1>2. p \in Cell /\ p # c
  BY ParentIsAnother DEF Found
<1>3. "None" \in RefinementEvent /\ "Augmenting" \in RefinementEvent /\ "Refining" \in RefinementEvent
  BY DEF RefinementEvent
<1> HIDE DEF p, V
<1>4. /\ V \in Descriptions
      /\ \A y \in Cell : y # p => V[y] = D[y]
      /\ \A y : Found(V, y) <=> Found(D, y)
      /\ Like(D[p], V[p]) /\ VetoedEvent(D[p].event, V[p].event)
  BY VetoEffect DEF V, p
<1>5. V[c] = D[c] /\ Found(V, p) /\ V[p] \in Description
  BY <1>2, <1>4, FoundType DEF p
<1>6. D[p].event \in Adds \cup Refines => V[p].event = D[p].event
  BY <1>4 DEF VetoedEvent, Adds, Refines
<1>7. V[p].event \in Adds \cup Refines => V[p].event = D[p].event
  BY <1>4 DEF VetoedEvent, Adds, Refines
<1>8. CASE D[p].event \in Adds /\ Found(D, c)
  <2>1. A = WithEvent(V, p, "None")
    BY <1>4, <1>6, <1>8 DEF AddNewDescendantIfAugmentingRequested, Adds, p, WithEvent
  <2> HIDE DEF A
  <2>2. /\ A \in Descriptions /\ Like(V[p], A[p]) /\ A[p].event = "None"
        /\ \A y \in Cell : y # p => A[y] = V[y]
        /\ \A y : Found(A, y) <=> Found(V, y)
    BY <1>3, <1>4, <1>5, <2>1, SetEvent
  <2>3. E = A
    BY <2>2 DEF AddNewCellIfRefinementRequested, p
  <2>4. Like(D[p], A[p])
    BY <1>4, <2>2, LikeIsTransitive
  <2>5. QED
    BY <1>1, <1>2, <1>4, <1>5, <1>8, <2>2, <2>3, <2>4 DEF Meets, p, Adds, Refines
<1>9. CASE D[p].event \in Adds /\ ~Found(D, c)
  <2> DEFINE n == NewDescription("Descendant", TRUE)
             W == WithEvent(V, p, "Augmenting")
  <2>1. A = Put(W, c, n)
    BY <1>4, <1>6, <1>9 DEF AddNewDescendantIfAugmentingRequested, Adds, p, WithEvent, Put
  <2> HIDE DEF A, W, n
  <2>2. IsNew(n, "Descendant")
    <3>1. n \in Description /\ n.type = "Descendant" /\ n.event = "None" /\ n.isAugmented = FALSE /\ n.linked = TRUE
      BY NewDescriptionFields DEF n
    <3>2. QED
      BY <3>1 DEF IsNew, HasSolution
  <2>3. /\ W \in Descriptions /\ Like(V[p], W[p]) /\ W[p].event = "Augmenting"
        /\ \A y \in Cell : y # p => W[y] = V[y]
    BY <1>3, <1>4, <1>5, SetEvent DEF W
  <2>4. A \in Descriptions /\ A[c] = n /\ \A y \in Cell : y # c => A[y] = W[y]
    <3>1. n \in Description
      BY <2>2 DEF IsNew
    <3>2. QED
      BY <2>1, <2>3, <3>1, PutDescription
  <2>5. A[p] = W[p] /\ Like(D[p], A[p])
    BY <1>2, <1>4, <2>3, <2>4, LikeIsTransitive
  <2>6. E = A
    BY <2>3, <2>5 DEF AddNewCellIfRefinementRequested, p
  <2>7. Found(A, p)
    BY <1>2, <2>3, <2>4, <2>5, FoundType DEF Like
  <2>8. QED
    BY <1>1, <1>2, <1>4, <1>9, <2>2, <2>3, <2>4, <2>5, <2>6, <2>7 DEF Meets, p, Adds, Refines
<1>10. CASE D[p].event \in Refines
  <2>1. A = V
    BY <1>6, <1>10 DEF AddNewDescendantIfAugmentingRequested, Refines, p
  <2> DEFINE W == WithEvent(V, p, "Refining")
  <2> HIDE DEF A, W
  <2>2. /\ W \in Descriptions /\ Like(V[p], W[p]) /\ W[p].event = "Refining"
        /\ \A y \in Cell : y # p => W[y] = V[y]
    BY <1>3, <1>4, <1>5, SetEvent DEF W
  <2>3. W[c] = D[c] /\ (Found(V, c) <=> Found(D, c))
    BY <1>2, <1>4, <1>5, <2>2
  <2>4. CASE Found(D, c)
    <3> DEFINE n == BecomesCell(W[c])
    <3>1. E = Put(W, c, n)
      BY <1>6, <1>10, <2>1, <2>3, <2>4 DEF AddNewCellIfRefinementRequested, Refines, p, W, WithEvent, Put
    <3>2. D[c] \in Description
      BY <2>4, FoundType
    <3>3. IsNowACell(D[c], n)
      BY <2>3, <3>2, BecomesCellFields DEF IsNowACell
    <3> HIDE DEF E, n
    <3>4. E \in Descriptions /\ E[c] = n /\ \A y \in Cell : y # c => E[y] = W[y]
      <4>1. n \in Description
        BY <3>3 DEF IsNowACell
      <4>2. QED
        BY <2>2, <3>1, <4>1, PutDescription
    <3>5. E[p] = W[p] /\ Like(D[p], E[p])
      BY <1>2, <1>4, <2>2, <3>4, LikeIsTransitive
    <3>6. Found(E, p)
      BY <1>2, <3>4, <3>5, FoundType DEF Like
    <3>7. QED
      BY <1>1, <1>2, <1>4, <1>10, <2>2, <2>4, <3>3, <3>4, <3>5, <3>6 DEF Meets, p, Adds, Refines
  <2>5. CASE ~Found(D, c)
    <3> DEFINE n == EnsureNecessaryMemoryIsAllocated(NewDescription("Cell", TRUE))
    <3>1. E = Put(W, c, n)
      BY <1>6, <1>10, <2>1, <2>3, <2>5 DEF AddNewCellIfRefinementRequested, AddNewCell, Refines, p, W, WithEvent, Put
    <3>2. IsNew(n, "Cell")
      BY NewCellFields DEF IsNew
    <3> HIDE DEF E, n
    <3>3. E \in Descriptions /\ E[c] = n /\ \A y \in Cell : y # c => E[y] = W[y]
      <4>1. n \in Description
        BY <3>2 DEF IsNew
      <4>2. QED
        BY <2>2, <3>1, <4>1, PutDescription
    <3>4. E[p] = W[p] /\ Like(D[p], E[p])
      BY <1>2, <1>4, <2>2, <3>3, LikeIsTransitive
    <3>5. Found(E, p)
      BY <1>2, <3>3, <3>4, FoundType DEF Like
    <3>6. QED
      BY <1>1, <1>2, <1>4, <1>10, <2>2, <2>5, <3>2, <3>3, <3>4, <3>5 DEF Meets, p, Adds, Refines
  <2>6. QED
    BY <2>4, <2>5
<1>11. CASE D[p].event \notin Adds \cup Refines
  <2>1. V[p].event \notin Adds \cup Refines
    BY <1>7, <1>11
  <2>2. A = V
    BY <2>1 DEF AddNewDescendantIfAugmentingRequested, Adds, p
  <2>3. E = V
    BY <2>1, <2>2 DEF AddNewCellIfRefinementRequested, Refines, p
  <2>4. QED
    BY <1>1, <1>2, <1>4, <1>5, <1>11, <2>3 DEF Meets, p
<1>12. QED
  BY <1>8, <1>9, <1>10, <1>11
-----------------------------------------------------------------------------
(***************************************************************************)
(* The whole of enterCell.                                                 *)
(***************************************************************************)
Others(D, E, c) ==
  \A y \in Cell : y # c =>
    /\ Found(E, y) <=> Found(D, y)
    /\ y # Parent(c) /\ Found(D, y) => Keeps(D[y], E[y])

IsNewBaseCell(d) ==
  /\ d \in Description /\ d.type = "Cell" /\ d.event = "None" /\ d.isAugmented = FALSE
  /\ HasSolution(d)

LEMMA NewOwnEffect ==
  ASSUME NEW D \in Descriptions, NEW c \in Cell, ~Found(D, c), NEW b \in BOOLEAN,
         NEW E, E = UpdateStateOfCell(Marked(D, c), c, b)
  PROVE  /\ E \in Descriptions /\ Others(D, E, c)
         /\ Found(D, Parent(c)) => Keeps(D[Parent(c)], E[Parent(c)])
         /\ Level(c) = 0 => IsNewBaseCell(E[c])
         /\ Level(c) # 0 => ~Found(E, c)
<1> DEFINE T == TouchVertices(D, c)
           n == EnsureNecessaryMemoryIsAllocated(NewDescription("Cell", FALSE))
<1>1. KeepsAll(D, T)
  BY TouchVerticesKeepsAll
<1>2. /\ T \in Descriptions /\ \A y : Found(T, y) <=> Found(D, y)
      /\ \A y : Found(D, y) => Keeps(D[y], T[y])
  BY <1>1, KeepsAllFound
<1>3. Marked(D, c) = T
  BY <1>2 DEF Marked
<1> HIDE DEF T
<1>4. Parent(c) # c
  BY ParentIsAnother
<1>5. CASE Level(c) = 0
  <2>1. E = Put(T, c, n)
    BY <1>2, <1>3, <1>5 DEF UpdateStateOfCell, AddNewCell, Put
  <2>2. IsNewBaseCell(n)
    BY NewCellFields DEF IsNewBaseCell
  <2> HIDE DEF n
  <2>3. E \in Descriptions /\ E[c] = n /\ \A y \in Cell : y # c => E[y] = T[y]
    <3>1. n \in Description
      BY <2>2 DEF IsNewBaseCell
    <3>2. QED
      BY <1>2, <2>1, <3>1, PutDescription
  <2>4. Found(D, Parent(c)) => Parent(c) \in Cell
    BY DEF Found
  <2>5. \A y \in Cell : y # c => (Found(E, y) <=> Found(T, y))
    BY <2>3 DEF Found
  <2>6. QED
    BY <1>2, <1>4, <1>5, <2>2, <2>3, <2>4, <2>5 DEF Others
<1>6. CASE Level(c) # 0
  <2>1. E = T
    BY <1>2, <1>3, <1>6 DEF UpdateStateOfCell
  <2>2. QED
    BY <1>2, <1>6, <2>1 DEF Others
<1>7. QED
  BY <1>5, <1>6

(* The parent's event was v and is w, after the cell c with description d. *)
Met(c, d, v, w) ==
  IF v \in Coarsens
  THEN \/ w = "None"
       \/ w \in Coarsens /\ AsksCriterion(d) /\ criterion[c] = "Erase"
  ELSE IF v \in Deaugments
  THEN w \in { v, "DeaugmentingChildrenRequested", "None" }
  ELSE w = v

EnterEffect(D, E, c) ==
  LET p == Parent(c)
      v == D[p].event
      w == E[p].event
  IN  /\ E \in Descriptions /\ Others(D, E, c)
      /\ Level(c) = 0 =>
           /\ ~Found(D, c) => IsNewBaseCell(E[c])
           /\ Found(D, c) => Like(D[c], E[c]) /\ OwnEvent(c, D[c], E[c].event)
      /\ Level(c) # 0 /\ ~Found(D, p) /\ ~Found(D, c) => ~Found(E, c)
      /\ Found(D, p) => Like(D[p], E[p])
      /\ Found(D, p) /\ ~Found(D, c) =>
           \/ v \in Adds /\ w = "Augmenting" /\ IsNew(E[c], "Descendant")
           \/ v \in Refines /\ w = "Refining" /\ IsNew(E[c], "Cell")
           \/ v \notin Adds \cup Refines /\ VetoedEvent(v, w) /\ ~Found(E, c)
      /\ Found(D, p) /\ Found(D, c) /\ D[c].linked =>
           \/ /\ v \in Adds /\ w = "None"
              /\ Like(D[c], E[c]) /\ OwnEvent(c, D[c], E[c].event)
           \/ v \in Refines /\ w = "Refining" /\ IsNowACell(D[c], E[c])
           \/ /\ v \notin Adds \cup Refines /\ Met(c, D[c], v, w)
              /\ Like(D[c], E[c]) /\ OwnEvent(c, D[c], E[c].event)

LEMMA EnterCellEffect ==
  ASSUME NEW D \in Descriptions, NEW c \in Cell, NEW b \in BOOLEAN,
         NEW E, E = UpdateStateInEnterCell(UpdateStateOfCell(Marked(D, c), c, b), c)
  PROVE  EnterEffect(D, E, c)
<1> DEFINE O == UpdateStateOfCell(Marked(D, c), c, b)
           p == Parent(c)
<1>1. p # c /\ (Level(c) > 0 <=> Level(c) # 0) /\ (Level(c) = 0 => p \notin Cell)
  BY ParentIsAnother
<1>2. E = UpdateStateInEnterCell(O, c)
  OBVIOUS
<1>3. Found(D, c) => Owns(D, O, c)
  BY OwnEffect
<1>4. ~Found(D, c) =>
      /\ O \in Descriptions /\ Others(D, O, c)
      /\ Found(D, p) => Keeps(D[p], O[p])
      /\ Level(c) = 0 => IsNewBaseCell(O[c])
      /\ Level(c) # 0 => ~Found(O, c)
  BY NewOwnEffect
<1> HIDE DEF O
<1>5. O \in Descriptions /\ Others(D, O, c) /\ (Found(D, p) => Like(D[p], O[p]))
  BY <1>3, <1>4 DEF Owns, Others, Keeps
<1>6. Found(O, p) <=> Found(D, p)
  BY <1>1, <1>5 DEF Others, Found
<1>7. CASE ~Found(D, p)
  <2>1. E = O
    BY <1>2, <1>6, <1>7 DEF UpdateStateInEnterCell
  <2>2. QED
    BY <1>3, <1>4, <1>5, <1>7, <2>1 DEF EnterEffect, Owns
<1>8. CASE Found(D, p)
  <2>1. Level(c) # 0 /\ Level(c) > 0 /\ p \in Cell
    BY <1>1, <1>8 DEF Found
  <2>2. Meets(O, E, c)
    BY <1>2, <1>5, <1>6, <1>8, <2>1, MeetsEffect
  <2>3. E \in Descriptions /\ Found(E, p) /\ Like(O[p], E[p])
    BY <2>2 DEF Meets
  <2>4. \A y \in Cell : y # c /\ y # p => E[y] = O[y]
    BY <2>2 DEF Meets
  <2>5. Others(D, E, c)
    <3>1. ASSUME NEW y \in Cell, y # c, y # p
          PROVE  (Found(E, y) <=> Found(D, y)) /\ (Found(D, y) => Keeps(D[y], E[y]))
      <4>1. E[y] = O[y]
        BY <2>4, <3>1
      <4>2. QED
        BY <1>5, <3>1, <4>1 DEF Others, Found
    <3>2. QED
      BY <1>8, <2>3, <3>1 DEF Others
  <2>6. Like(D[p], E[p])
    BY <1>5, <1>8, <2>3, LikeIsTransitive
  <2> DEFINE v == D[p].event
             o == O[p].event
             w == E[p].event
  <2>7. CASE ~Found(D, c)
    <3>1. o = v /\ ~Found(O, c)
      BY <1>4, <1>8, <2>1, <2>7 DEF Keeps
    <3>2. E[c] = O[c] => ~Found(E, c)
      BY <3>1 DEF Found
    <3>3. \/ v \in Adds /\ w = "Augmenting" /\ IsNew(E[c], "Descendant")
          \/ v \in Refines /\ w = "Refining" /\ IsNew(E[c], "Cell")
          \/ v \notin Adds \cup Refines /\ VetoedEvent(v, w) /\ E[c] = O[c]
      <4>1. CASE v \in Adds
        BY <2>2, <3>1, <4>1 DEF Meets, Adds, Refines
      <4>2. CASE v \in Refines
        BY <2>2, <3>1, <4>2 DEF Meets, Adds, Refines
      <4>3. CASE v \notin Adds \cup Refines
        BY <2>2, <3>1, <4>3 DEF Meets
      <4>4. QED
        BY <4>1, <4>2, <4>3
    <3>4. QED
      BY <1>8, <2>1, <2>3, <2>5, <2>6, <2>7, <3>2, <3>3 DEF EnterEffect
  <2>8. CASE Found(D, c)
    <3>1. Found(O, c) /\ Like(D[c], O[c]) /\ OwnEvent(c, D[c], O[c].event)
      BY <1>3, <2>8 DEF Owns
    <3>2. HasParent(D, c) => ParentEvent(c, D[c], v, o)
      BY <1>3, <1>8, <2>8 DEF Owns
    <3>3. D[c].linked => HasParent(D, c)
      BY <1>8, <2>1 DEF HasParent
    <3>4. ParentEvent(c, D[c], v, o) => /\ v \in Adds \cup Refines => o = v
                                        /\ o \in Adds \cup Refines => o = v
      BY DEF ParentEvent, Adds, Refines, Coarsens, Deaugments
    <3>5. \/ o \in Adds /\ w = "None" /\ E[c] = O[c]
          \/ o \in Refines /\ w = "Refining" /\ IsNowACell(O[c], E[c])
          \/ o \notin Adds \cup Refines /\ VetoedEvent(o, w) /\ E[c] = O[c]
      <4>1. CASE o \in Adds
        BY <2>2, <3>1, <4>1 DEF Meets, Adds, Refines
      <4>2. CASE o \in Refines
        BY <2>2, <3>1, <4>2 DEF Meets, Adds, Refines
      <4>3. CASE o \notin Adds \cup Refines
        BY <2>2, <3>1, <4>3 DEF Meets
      <4>4. QED
        BY <4>1, <4>2, <4>3
    <3>6. IsNowACell(O[c], E[c]) => IsNowACell(D[c], E[c])
      BY <3>1 DEF IsNowACell, Like
    <3>7. ParentEvent(c, D[c], v, o) /\ VetoedEvent(o, w) => Met(c, D[c], v, w)
      BY DEF ParentEvent, VetoedEvent, Met, Coarsens, Deaugments
    <3> HIDE DEF v, o, w
    <3>8. D[c].linked =>
           \/ /\ v \in Adds /\ w = "None"
              /\ Like(D[c], E[c]) /\ OwnEvent(c, D[c], E[c].event)
           \/ v \in Refines /\ w = "Refining" /\ IsNowACell(D[c], E[c])
           \/ /\ v \notin Adds \cup Refines /\ Met(c, D[c], v, w)
              /\ Like(D[c], E[c]) /\ OwnEvent(c, D[c], E[c].event)
      BY <3>1, <3>2, <3>3, <3>4, <3>5, <3>6, <3>7
    <3>9. QED
      BY <1>8, <2>1, <2>3, <2>5, <2>6, <2>8, <3>8 DEF EnterEffect, v, w
  <2>9. QED
    BY <2>7, <2>8
<1>9. QED
  BY <1>7, <1>8
-----------------------------------------------------------------------------
(***************************************************************************)
(* The whole of leaveCell.                                                 *)
(***************************************************************************)
IsNowADescendant(d, e) ==
  /\ e \in Description /\ e.type = "Descendant" /\ e.event = d.event
  /\ e.isAugmented = d.isAugmented /\ e.linked = d.linked

LeaveEffect(D, E, c) ==
  LET p == Parent(c)
      d == StartOrFinish(D[c])
      erases == Level(c) # 0 /\ Found(D, p) /\ D[p].event \in ErasesChildren
      changes == Level(c) # 0 /\ Found(D, p) /\ D[p].event = "ChangeChildrenToDescendants"
  IN  /\ E \in Descriptions
      /\ \A y \in Cell : y # c => (Found(E, y) <=> Found(D, y))
      /\ \A y \in Cell : y # c /\ y \notin Offspring(c) => E[y] = D[y]
      /\ ~Found(D, c) => E = D
      /\ Found(D, c) => (Found(E, c) <=> ~erases)
      /\ Found(E, c) => \A y \in Cell : y # c => E[y] = D[y]
      /\ Found(D, c) /\ ~erases /\ ~changes => E[c] = d
      /\ Found(D, c) /\ changes => IsNowADescendant(d, E[c])

LEMMA EraseEffect ==
  ASSUME NEW D \in Descriptions, NEW c \in Cell, NEW E, E = Erase(D, c)
  PROVE  /\ E \in Descriptions /\ ~Found(E, c)
         /\ \A y \in Cell : y # c => (Found(E, y) <=> Found(D, y))
         /\ \A y \in Cell : y # c /\ y \notin Offspring(c) => E[y] = D[y]
<1> DEFINE unlinked(f) == [ D[f] EXCEPT !.linked = FALSE ]
<1>1. \A f \in Cell : D[f] \in Description => unlinked(f) \in Description
  BY DEF Description
<1> HIDE DEF unlinked
<1>2. E = [ f \in Cell |-> IF f = c THEN NotFound
                           ELSE IF f \in Offspring(c) /\ Found(D, f) THEN unlinked(f)
                           ELSE D[f] ]
  BY DEF Erase, unlinked
<1>3. ASSUME NEW f \in Cell
      PROVE  /\ E[f] \in Description \cup {NotFound}
             /\ f # c => (Found(E, f) <=> Found(D, f))
             /\ f # c /\ f \notin Offspring(c) => E[f] = D[f]
             /\ f = c => E[f] = NotFound
  <2>1. Found(D, f) => D[f] \in Description
    BY FoundType
  <2>2. D[f] \in Description \cup {NotFound}
    BY DEF Descriptions
  <2>3. CASE f # c /\ f \in Offspring(c) /\ Found(D, f)
    <3>1. E[f] = unlinked(f)
      BY <1>2, <2>3
    <3>2. QED
      BY <1>1, <2>1, <2>3, <3>1, NotFoundAssumption DEF Found
  <2>4. CASE f # c /\ ~(f \in Offspring(c) /\ Found(D, f))
    <3>1. E[f] = D[f]
      BY <1>2, <2>4
    <3>2. QED
      BY <2>2, <2>4, <3>1 DEF Found
  <2>5. CASE f = c
    BY <1>2, <2>5
  <2>6. QED
    BY <2>3, <2>4, <2>5
<1>4. E \in Descriptions
  BY <1>2, <1>3 DEF Descriptions
<1>5. QED
  BY <1>3, <1>4 DEF Found

LEMMA LeaveCellEffect ==
  ASSUME NEW D \in Descriptions, NEW c \in Cell, NEW E, E = UpdateStateInLeaveCell(D, c)
  PROVE  LeaveEffect(D, E, c)
<1> DEFINE p == Parent(c)
           d == StartOrFinish(D[c])
           W == Put(D, c, d)
<1>1. p # c /\ (Level(c) = 0 => p \notin Cell)
  BY ParentIsAnother
<1>2. CASE ~Found(D, c)
  BY <1>2 DEF UpdateStateInLeaveCell, LeaveEffect
<1>3. CASE Found(D, c)
  <2>1. E = EraseCellDescriptionIfNecessary(W, c)
    BY <1>3 DEF UpdateStateInLeaveCell, Put
  <2>2. D[c] \in Description /\ d \in Description
    BY <1>3, FoundType, StartOrFinishFields
  <2> HIDE DEF W, d
  <2>3. W \in Descriptions /\ W[c] = d /\ \A y \in Cell : y # c => W[y] = D[y]
    BY <2>2, PutDescription DEF W
  <2>4. Found(W, c) /\ \A y : Found(W, y) <=> Found(D, y)
    <3>1. d # NotFound
      BY <2>2, NotFoundAssumption
    <3>2. QED
      BY <1>3, <2>3, <3>1 DEF Found
  <2>5. Found(W, p) => W[p] = D[p]
    BY <1>1, <2>3 DEF Found
  <2>6. CASE Level(c) = 0 \/ ~Found(D, p)
    <3>1. E = W
      BY <2>1, <2>4, <2>6 DEF EraseCellDescriptionIfNecessary
    <3>2. QED
      BY <1>3, <2>3, <2>4, <2>6, <3>1 DEF LeaveEffect, d
  <2>7. CASE Level(c) # 0 /\ Found(D, p) /\ D[p].event \in ErasesChildren
    <3>1. E = Erase(W, c)
      BY <2>1, <2>4, <2>5, <2>7 DEF EraseCellDescriptionIfNecessary, ErasesChildren
    <3>2. /\ E \in Descriptions /\ ~Found(E, c)
          /\ \A y \in Cell : y # c => (Found(E, y) <=> Found(W, y))
          /\ \A y \in Cell : y # c /\ y \notin Offspring(c) => E[y] = W[y]
      BY <2>3, <3>1, EraseEffect
    <3>3. D[p].event # "ChangeChildrenToDescendants"
      BY <2>7 DEF ErasesChildren
    <3>4. QED
      BY <1>3, <2>3, <2>4, <2>7, <3>2, <3>3 DEF LeaveEffect, d
  <2>8. CASE Level(c) # 0 /\ Found(D, p) /\ D[p].event = "ChangeChildrenToDescendants"
    <3> DEFINE n == BecomesDescendant(d)
    <3>1. D[p].event \notin ErasesChildren
      BY <2>8 DEF ErasesChildren
    <3>2. E = Put(W, c, n)
      BY <2>1, <2>3, <2>4, <2>5, <2>8, <3>1 DEF EraseCellDescriptionIfNecessary, Put
    <3>3. IsNowADescendant(d, n)
      BY <2>2, BecomesDescendantFields DEF IsNowADescendant
    <3> HIDE DEF n
    <3>4. n \in Description /\ n # NotFound
      BY <3>3, NotFoundAssumption DEF IsNowADescendant
    <3>5. E \in Descriptions /\ E[c] = n /\ \A y \in Cell : y # c => E[y] = W[y]
      BY <2>3, <3>2, <3>4, PutDescription
    <3>6. Found(E, c) /\ \A y \in Cell : y # c => (Found(E, y) <=> Found(D, y))
      BY <2>4, <3>4, <3>5 DEF Found
    <3>7. QED
      BY <1>3, <2>3, <2>8, <3>1, <3>3, <3>5, <3>6 DEF LeaveEffect, d
  <2>9. CASE Level(c) # 0 /\ Found(D, p)
             /\ D[p].event \notin ErasesChildren \cup { "ChangeChildrenToDescendants" }
    <3>1. E = W
      BY <2>1, <2>4, <2>5, <2>9 DEF EraseCellDescriptionIfNecessary
    <3>2. QED
      BY <1>3, <2>3, <2>4, <2>9, <3>1 DEF LeaveEffect, d
  <2>10. QED
    BY <2>6, <2>7, <2>8, <2>9
<1>4. QED
  BY <1>2, <1>3
-----------------------------------------------------------------------------
LEMMA InitType == Init => TypeOK
<1> SUFFICES ASSUME Init PROVE TypeOK
  OBVIOUS
<1>1. description \in [Cell -> Description \cup {NotFound}]
  BY DEF Init
<1>2. triggered = {} /\ refined = {} /\ fresh = {}
  BY DEF Init
<1>3. phase \in Phase /\ at \in Callback
  BY DEF Init, Phase, Callback
<1>4. forward \in BOOLEAN /\ stable \in BOOLEAN
  BY DEF Init
<1>5. extra \in Int /\ updates \in 0..MaxUpdates /\ inconsistent \in 0..MaxInconsistent
  BY RefinementEventsAssumption DEF Init
<1>6. criterion \in [Cell -> RefinementControl]
  BY DEF Init, RefinementControl
<1>7. QED
  BY <1>1, <1>2, <1>3, <1>4, <1>5, <1>6 DEF TypeOK

LEMMA NextType == TypeOK /\ [Next]_vars => TypeOK'
<1> SUFFICES ASSUME TypeOK, [Next]_vars PROVE TypeOK'
  OBVIOUS
<1> DEFINE V == UNION { Vertices(c) : c \in Cell }
<1>1. /\ description \in Descriptions
      /\ triggered \subseteq V /\ refined \subseteq V /\ fresh \subseteq V
      /\ phase \in Phase /\ at \in Callback
      /\ forward \in BOOLEAN /\ stable \in BOOLEAN
      /\ extra \in Int /\ updates \in 0..MaxUpdates
      /\ inconsistent \in 0..MaxInconsistent
      /\ criterion \in [Cell -> RefinementControl]
  BY DEF TypeOK, Descriptions
<1> DEFINE N == /\ description' \in Descriptions
                /\ triggered' \subseteq V /\ refined' \subseteq V /\ fresh' \subseteq V
                /\ phase' \in Phase /\ at' \in Callback
                /\ forward' \in BOOLEAN /\ stable' \in BOOLEAN
                /\ extra' \in Int /\ updates' \in 0..MaxUpdates
                /\ inconsistent' \in 0..MaxInconsistent
                /\ criterion' \in [Cell -> RefinementControl]
<1>2. SUFFICES N
  BY DEF TypeOK, Descriptions
<1>3. ASSUME NEW c \in Cell PROVE RefinableVertices(c) \subseteq V
  <2>1. RefinableVertices(c) \subseteq Vertices(c)
    BY DEF RefinableVertices, Vertices
  <2>2. QED
    BY <2>1
<1> HIDE DEF V
<1>4. ASSUME NEW c \in Cell, EnterCell(c) PROVE N
  <2>1. PICK b \in BOOLEAN :
          /\ ~b => inconsistent < MaxInconsistent
          /\ inconsistent' = inconsistent + (IF b THEN 0 ELSE 1)
          /\ description' = UpdateStateInEnterCell(
                              UpdateStateOfCell(Marked(description, c), c, b), c)
          /\ triggered' \subseteq triggered \cup RefinableVertices(c)
    BY <1>4 DEF EnterCell
  <2>2. description' \in Descriptions
    BY <1>1, <2>1, EnterCellEffect DEF EnterEffect
  <2>3. inconsistent' \in 0..MaxInconsistent
    BY <1>1, <2>1, RefinementEventsAssumption
  <2>4. at' \in Callback
    BY <1>4, NextCallback DEF EnterCell
  <2>5. UNCHANGED << runnerVars, refined, stable, fresh >>
    BY <1>4 DEF EnterCell
  <2>6. QED
    BY <1>1, <1>3, <2>1, <2>2, <2>3, <2>4, <2>5 DEF runnerVars
<1>5. ASSUME NEW c \in Cell, LeaveCell(c) PROVE N
  <2>1. description' = UpdateStateInLeaveCell(description, c)
    BY <1>5 DEF LeaveCell
  <2>2. description' \in Descriptions
    BY <1>1, <2>1, LeaveCellEffect DEF LeaveEffect
  <2>3. stable' \in BOOLEAN
    BY <1>1, <1>5 DEF LeaveCell
  <2>4. at' \in Callback
    BY <1>5, NextCallback DEF LeaveCell
  <2>5. UNCHANGED << runnerVars, refined, triggered, fresh, inconsistent >>
    BY <1>5 DEF LeaveCell
  <2>6. QED
    BY <1>1, <2>2, <2>3, <2>4, <2>5 DEF runnerVars
<1>6. ASSUME BeginIteration PROVE N
  <2>1. at' \in Callback
    BY <1>6, BaseInterval DEF BeginIteration, Callback
  <2>2. phase' \in Phase /\ stable' \in BOOLEAN /\ forward' \in BOOLEAN
    BY <1>1, <1>6 DEF BeginIteration, Phase
  <2>3. refined' \subseteq V /\ fresh' \subseteq V /\ triggered' \subseteq V
    BY <1>1, <1>6 DEF BeginIteration
  <2>4. extra' \in Int
    BY <1>1, <1>6 DEF BeginIteration
  <2>5. UNCHANGED << description, criterion, updates, inconsistent >>
    BY <1>6 DEF BeginIteration
  <2>6. QED
    BY <1>1, <2>1, <2>2, <2>3, <2>4, <2>5
<1>7. ASSUME EndIteration PROVE N
  <2>1. phase' \in Phase
    BY <1>7 DEF EndIteration, Phase
  <2>2. QED
    BY <1>1, <1>7, <2>1 DEF EndIteration
<1>8. ASSUME FinaliseMeshRefinement PROVE N
  <2> DEFINE final(c) == [ description[c] EXCEPT !.newlyCreated = FALSE ]
  <2>1. \A c \in Cell : Found(description, c) => final(c) \in Description
    <3>1. \A c \in Cell : Found(description, c) => description[c] \in Description
      BY <1>1, FoundType
    <3>2. QED
      BY <3>1 DEF Description
  <2> HIDE DEF final
  <2>2. description' = [ c \in Cell |-> IF Found(description, c) THEN final(c) ELSE NotFound ]
    BY <1>8 DEF FinaliseMeshRefinement, final
  <2>3. description' \in Descriptions
    BY <2>1, <2>2 DEF Descriptions
  <2>4. phase' \in Phase
    BY <1>8 DEF FinaliseMeshRefinement, Phase
  <2>5. UNCHANGED << refined, triggered, at, forward, stable, fresh, extra,
                     criterion, updates, inconsistent >>
    BY <1>8 DEF FinaliseMeshRefinement
  <2>6. QED
    BY <1>1, <2>3, <2>4, <2>5
<1>9. ASSUME StartMeshUpdate PROVE N
  <2>1. criterion' \in [Cell -> RefinementControl]
    BY <1>9, CriteriaAssumption DEF StartMeshUpdate
  <2>2. updates' \in 0..MaxUpdates
    BY <1>1, <1>9, RefinementEventsAssumption DEF StartMeshUpdate
  <2>3. extra' \in Int /\ forward' \in BOOLEAN /\ phase' \in Phase
    BY <1>9, RefinementEventsAssumption DEF StartMeshUpdate, Phase
  <2>4. UNCHANGED << description, refined, triggered, at, stable, fresh, inconsistent >>
    BY <1>9 DEF StartMeshUpdate
  <2>5. QED
    BY <1>1, <2>1, <2>2, <2>3, <2>4
<1>10. ASSUME UNCHANGED vars PROVE N
  BY <1>1, <1>10 DEF vars
<1>11. QED
  BY <1>4, <1>5, <1>6, <1>7, <1>8, <1>9, <1>10 DEF Next, Terminating

(***************************************************************************)
(* Whatever the criteria are, and however deep the mesh, requests, vetoes, *)
(* erasures and the exchange of the statuses at the faces leave every      *)
(* variable a value of its type: no status of a cell or face leaves 0..2,  *)
(* and the traversal visits cells only.                                    *)
(***************************************************************************)
THEOREM TypesAreOK == Spec => []TypeOK
<1>1. Init => TypeOK
  BY InitType
<1>2. TypeOK /\ [Next]_vars => TypeOK'
  BY NextType
<1>3. QED
  BY <1>1, <1>2, PTL DEF Spec
-----------------------------------------------------------------------------
(***************************************************************************)
(* The cells that are open during a traversal, and those that were left.   *)
(***************************************************************************)
ClosedUpwards(S) == \A x \in S : Level(x) # 0 => Parent(x) \in S

(* The cell and those above it. *)
Chain(c) == { x \in Cell : \A S \in SUBSET Cell : c \in S /\ ClosedUpwards(S) => x \in S }

LEMMA ChainIsLeast ==
  ASSUME NEW c \in Cell
  PROVE  /\ Chain(c) \subseteq Cell /\ c \in Chain(c) /\ ClosedUpwards(Chain(c))
         /\ \A S \in SUBSET Cell : c \in S /\ ClosedUpwards(S) => Chain(c) \subseteq S
<1>1. Chain(c) \subseteq Cell /\ c \in Chain(c)
  BY DEF Chain
<1>2. \A S \in SUBSET Cell : c \in S /\ ClosedUpwards(S) => Chain(c) \subseteq S
  BY DEF Chain
<1>3. ASSUME NEW x \in Chain(c), Level(x) # 0 PROVE Parent(x) \in Chain(c)
  <2>1. Parent(x) \in Cell
    BY <1>1, <1>3, ParentIsACell
  <2>2. ASSUME NEW S \in SUBSET Cell, c \in S, ClosedUpwards(S) PROVE Parent(x) \in S
    BY <1>2, <1>3, <2>2 DEF ClosedUpwards
  <2>3. QED
    BY <2>1, <2>2 DEF Chain
<1>4. QED
  BY <1>1, <1>2, <1>3 DEF ClosedUpwards

LEMMA ChainStep ==
  ASSUME NEW c \in Cell
  PROVE  /\ Level(c) = 0 => Chain(c) = {c}
         /\ Level(c) # 0 => Chain(c) = {c} \cup Chain(Parent(c))
<1>1. CASE Level(c) = 0
  <2>1. ClosedUpwards({c})
    BY <1>1 DEF ClosedUpwards
  <2>2. QED
    BY <1>1, <2>1, ChainIsLeast
<1>2. CASE Level(c) # 0
  <2> DEFINE p == Parent(c)
  <2>1. p \in Cell
    BY <1>2, ParentIsACell
  <2> HIDE DEF p
  <2>2. /\ Chain(p) \subseteq Cell /\ p \in Chain(p) /\ ClosedUpwards(Chain(p))
        /\ \A S \in SUBSET Cell : p \in S /\ ClosedUpwards(S) => Chain(p) \subseteq S
    BY <2>1, ChainIsLeast
  <2>3. ClosedUpwards({c} \cup Chain(p))
    BY <2>2 DEF ClosedUpwards, p
  <2>4. Chain(c) \subseteq {c} \cup Chain(p)
    BY <2>2, <2>3, ChainIsLeast
  <2>5. p \in Chain(c)
    BY <1>2, ChainIsLeast DEF ClosedUpwards, p
  <2>6. Chain(p) \subseteq Chain(c)
    BY <2>2, <2>5, ChainIsLeast
  <2>7. QED
    BY <1>2, <2>4, <2>6, ChainIsLeast DEF p
<1>3. QED
  BY <1>1, <1>2

LEMMA ChainLevels ==
  ASSUME NEW c \in Cell
  PROVE  /\ \A x \in Chain(c) : Level(x) < Level(c) \/ x = c
         /\ \A x, y \in Chain(c) : Level(x) = Level(y) => x = y
<1> DEFINE S == { x \in Cell : Level(x) < Level(c) \/ x = c }
<1>1. \A x \in Cell : Level(x) \in Nat
  BY CellType DEF Level
<1>2. ASSUME NEW x \in S, Level(x) # 0 PROVE Parent(x) \in S
  <2>1. Parent(x) \in Cell /\ Level(Parent(x)) = Level(x) - 1
    BY <1>2, ParentIsACell
  <2>2. QED
    BY <1>1, <1>2, <2>1
<1>3. \A x \in Chain(c) : Level(x) < Level(c) \/ x = c
  BY <1>2, ChainIsLeast DEF ClosedUpwards
<1> HIDE DEF S
<1> DEFINE T == { x \in Chain(c) : \A y \in Chain(c) : Level(x) = Level(y) => x = y }
<1>4. Chain(c) \subseteq Cell /\ c \in Chain(c)
  BY ChainIsLeast
<1>5. c \in T
  BY <1>1, <1>3, <1>4
<1>6. ASSUME NEW x \in T, Level(x) # 0 PROVE Parent(x) \in T
  <2>1. Parent(x) \in Chain(c) /\ Level(Parent(x)) = Level(x) - 1
    BY <1>4, <1>6, ChainIsLeast, ParentIsACell DEF ClosedUpwards
  <2>2. ASSUME NEW y \in Chain(c), Level(Parent(x)) = Level(y) PROVE Parent(x) = y
    <3>1. y # c
      BY <1>1, <1>3, <1>4, <1>6, <2>1, <2>2
    <3>2. ~ClosedUpwards(Chain(c) \ {y})
      <4>1. ClosedUpwards(Chain(c) \ {y}) => Chain(c) \subseteq Chain(c) \ {y}
        BY <1>4, <3>1, ChainIsLeast
      <4>2. QED
        BY <4>1
    <3>3. PICK z \in Chain(c) \ {y} : Level(z) # 0 /\ Parent(z) \notin Chain(c) \ {y}
      BY <3>2 DEF ClosedUpwards
    <3>4. Parent(z) = y
      BY <3>3, ChainIsLeast DEF ClosedUpwards
    <3>5. Level(y) = Level(z) - 1
      BY <1>4, <3>3, <3>4, ParentIsACell
    <3>6. Level(x) = Level(z)
      BY <1>1, <1>4, <1>6, <2>1, <2>2, <3>3, <3>5
    <3>7. QED
      BY <1>6, <3>3, <3>4, <3>6
  <2>3. QED
    BY <2>1, <2>2
<1>7. Chain(c) \subseteq T
  BY <1>4, <1>5, <1>6, ChainIsLeast DEF ClosedUpwards
<1>8. QED
  BY <1>3, <1>7

LEMMA ChainBase ==
  ASSUME NEW c \in Cell
  PROVE  \E b \in Chain(c) : Level(b) = 0
<1> DEFINE T == { n \in Nat : \A x \in Cell : Level(x) = n => \E b \in Chain(x) : Level(b) = 0 }
<1>1. 0 \in T
  BY ChainIsLeast
<1>2. ASSUME NEW n \in T PROVE n + 1 \in T
  <2>1. ASSUME NEW x \in Cell, Level(x) = n + 1 PROVE \E b \in Chain(x) : Level(b) = 0
    <3>1. Level(x) # 0
      BY <2>1
    <3>2. Parent(x) \in Cell /\ Level(Parent(x)) = n
      BY <2>1, <3>1, ParentIsACell
    <3>3. \E b \in Chain(Parent(x)) : Level(b) = 0
      BY <3>2
    <3>4. QED
      BY <3>1, <3>3, ChainStep
  <2>2. QED
    BY <2>1
<1> HIDE DEF T
<1>3. Nat \subseteq T
  BY <1>1, <1>2, Induction
<1>4. Level(c) \in T
  BY <1>3, CellType DEF Level
<1>5. QED
  BY <1>4 DEF T
-----------------------------------------------------------------------------
PathTo(callback) == IF callback = NoCallback THEN {} ELSE Chain(callback[2])
Path == PathTo(at)

Sibling(x, y) == Level(x) = Level(y) /\ (Level(x) # 0 => Parent(x) = Parent(y))

(* The cell y, or a cell above it, was left before the traversal came to c. *)
LeftIn(f, c, y) == \E x \in Chain(c) : Sibling(x, y) /\ Precedes(f, y, x)
Left(c, y) == LeftIn(forward, c, y)

(* All callbacks of the cell are over, as long as its parent is open. *)
Passed(y) ==
  \/ at # NoCallback /\ Left(at[2], y)
  \/ Level(y) # 0 /\ at = Leave(Parent(y))
  \/ at = NoCallback /\ phase = "Iteration" /\ Level(y) = 0

(* The cell was entered, as long as its parent is open. *)
Entered(y) == (Passed(y) /\ InGrid(y)) \/ (y \in Path /\ at # Enter(y))

LEMMA Callbacks ==
  \A c, y : /\ Enter(c) # NoCallback /\ Leave(c) # NoCallback
            /\ Enter(c) # Leave(y) /\ Enter(c)[2] = c /\ Leave(c)[2] = c
            /\ Enter(c) = Enter(y) <=> c = y
            /\ Leave(c) = Leave(y) <=> c = y
BY DEF Enter, Leave, NoCallback

LEMMA PathOfCallback == \A c : PathTo(Enter(c)) = Chain(c) /\ PathTo(Leave(c)) = Chain(c)
BY Callbacks DEF PathTo

LEMMA SiblingsAreSiblings ==
  ASSUME NEW c \in Cell, NEW y \in Cell
  PROVE  Sibling(c, y) <=> y \in Siblings(c)
<1>1. CASE Level(c) = 0
  BY <1>1 DEF Sibling, Siblings, Base
<1>2. CASE Level(c) # 0
  <2>1. Level(c) \in Nat /\ Level(Parent(c)) = Level(c) - 1
    BY <1>2, ParentIsACell, CellType DEF Level
  <2>2. Level(y) = Level(Parent(c)) + 1 <=> Level(c) = Level(y)
    BY <2>1
  <2>3. QED
    BY <1>2, <2>2 DEF Sibling, Siblings, Offspring
<1>3. QED
  BY <1>1, <1>2

LEMMA LeftOfChain ==
  ASSUME NEW c \in Cell
  PROVE  /\ \A x \in Chain(c) : ~Left(c, x)
         /\ \A f \in Offspring(c) : ~Left(c, f) /\ f \notin Chain(c)
         /\ \A y : Level(c) # 0 =>
              (Left(c, y) <=> Left(Parent(c), y) \/ (Sibling(c, y) /\ Before(y, c)))
         /\ \A y : Level(c) = 0 => (Left(c, y) <=> Sibling(c, y) /\ Before(y, c))
<1>1. ASSUME NEW x \in Chain(c) PROVE ~Left(c, x)
  <2>1. \A z \in Chain(c) : Sibling(z, x) => z = x
    BY ChainLevels DEF Sibling
  <2>2. x \in Cell
    BY ChainIsLeast
  <2>3. ~Before(x, x)
    BY <2>2, CellType DEF Before, Precedes
  <2>4. QED
    BY <2>1, <2>3 DEF Left, LeftIn, Before
<1>2. ASSUME NEW f \in Offspring(c) PROVE ~Left(c, f) /\ f \notin Chain(c)
  <2>1. Level(f) = Level(c) + 1 /\ f # c
    BY OffspringIff
  <2>2. \A x \in Cell : Level(x) \in Nat
    BY CellType DEF Level
  <2>3. \A x \in Chain(c) : Level(x) # Level(f)
    BY <2>1, <2>2, ChainLevels, ChainIsLeast
  <2>4. QED
    BY <2>3 DEF Left, LeftIn, Sibling
<1>3. QED
  BY <1>1, <1>2, ChainStep DEF Left, LeftIn, Before

LEMMA PassedAtCallback ==
  ASSUME NEW c \in Cell
  PROVE  /\ at = Enter(c) => \A y \in Cell : Passed(y) <=> Left(c, y)
         /\ at = Leave(c) => \A y \in Cell : Passed(y) <=> Left(c, y) \/ y \in Offspring(c)
<1>1. \A y \in Cell : y \in Offspring(c) <=> Level(y) # 0 /\ Parent(y) = c
  <2>1. ASSUME NEW y \in Cell, Level(y) # 0, Parent(y) = c PROVE y \in Offspring(c)
    BY <2>1, ParentIsACell
  <2>2. QED
    BY <2>1, OffspringIff
<1>2. QED
  BY <1>1, Callbacks DEF Passed

(* One callback of enterCell, and how it moves the traversal on. *)
LEMMA EnterMoves ==
  ASSUME NEW c \in Cell, EnterCell(c), \A x \in Path : InGrid(x)
  PROVE  /\ c \in Path /\ ~Passed(c) /\ ~Entered(c)
         /\ Level(c) # 0 => Parent(c) \in Path
         /\ \A f \in Offspring(c) : ~Passed(f) /\ ~Entered(f)
         /\ \A x \in Path : x \in Path' /\ at' # Enter(x)
         /\ \A x \in Path' : InGrid(x)'
         /\ \A x \in Cell : InGrid(x)' <=> InGrid(x)
         /\ \A y \in Cell : Passed(y)' <=> Passed(y) \/ (y \in Offspring(c) /\ ~InGrid(y))
         /\ \A y \in Cell : Entered(y)' <=> Entered(y) \/ y = c
         /\ \A x \in Path : ~Passed(x)
<1>1. at = Enter(c) /\ at' = AfterEntering(c) /\ forward' = forward /\ refined' = refined
  BY DEF EnterCell, runnerVars
<1>2. Path = Chain(c) /\ c \in Path /\ Path \subseteq Cell
  BY <1>1, PathOfCallback, ChainIsLeast DEF Path
<1>3. Level(c) # 0 => Parent(c) \in Path
  BY <1>2, ChainIsLeast DEF ClosedUpwards
<1>4. \A y \in Cell : Passed(y) <=> Left(c, y)
  BY <1>1, PassedAtCallback
<1>5. \A x \in Path : ~Passed(x)
  BY <1>2, <1>4, LeftOfChain
<1>6. ~Entered(c)
  BY <1>1, <1>2, <1>5 DEF Entered
<1>7. \A f \in Offspring(c) : f \in Cell /\ ~Passed(f) /\ ~Entered(f) /\ f \notin Path
  BY <1>2, <1>4, LeftOfChain, OffspringIff DEF Entered
<1>8. \A x \in Cell : InGrid(x)' <=> InGrid(x)
  BY <1>1 DEF InGrid
<1>9. \A f \in Offspring(c) : InGrid(f) <=> HasOffspring(c)
  <2>1. ASSUME NEW f \in Offspring(c) PROVE InGrid(f) <=> HasOffspring(c)
    <3>1. Parent(f) = c /\ Level(f) # 0
      BY OffspringIff
    <3>2. Level(c) # MaxLevel /\ Level(c) < MaxLevel
      BY OffspringIff, CellType, RefinementEventsAssumption DEF Level
    <3>3. QED
      BY <3>1, <3>2 DEF InGrid, HasOffspring
  <2>2. QED
    BY <2>1
<1>10. \A x, y : LeftIn(forward', x, y) <=> Left(x, y)
  BY <1>1 DEF Left
<1>11. CASE HasOffspring(c)
  <2>1. PICK g \in Offspring(c) :
          /\ at' = Enter(g) /\ g \in Cell /\ \A y \in Offspring(c) : ~Before(y, g)
    BY <1>1, <1>11, FirstOffspring DEF AfterEntering
  <2>2. at' = Enter(g)
    BY <2>1
  <2>3. Parent(g) = c /\ Level(g) # 0 /\ g # c
    BY <2>1, OffspringIff
  <2>4. Path' = {g} \cup Path
    BY <1>2, <2>1, <2>2, <2>3, ChainStep, PathOfCallback DEF Path
  <2>5. \A y \in Cell : Passed(y)' <=> Left(g, y)
    <3>1. \A y : Passed(y)' <=> \/ at' # NoCallback /\ LeftIn(forward', at'[2], y)
                                \/ Level(y) # 0 /\ at' = Leave(Parent(y))
                                \/ at' = NoCallback /\ phase' = "Iteration" /\ Level(y) = 0
      BY DEF Passed, Left
    <3>2. QED
      BY <1>10, <2>2, <3>1, Callbacks
  <2>6. \A y \in Cell : Sibling(g, y) => y \in Offspring(c)
    BY <2>1, <2>3, SiblingsAreSiblings DEF Siblings
  <2>7. \A y \in Cell : Passed(y)' <=> Passed(y)
    BY <1>4, <2>1, <2>3, <2>5, <2>6, LeftOfChain
  <2>8. g \notin Path
    BY <1>7, <2>1
  <2>9. \A x \in Path : x \in Path' /\ at' # Enter(x)
    BY <2>2, <2>4, <2>8, Callbacks
  <2>10. \A x \in Path' : InGrid(x)'
    BY <1>2, <1>8, <1>9, <1>11, <2>1, <2>4
  <2>11. \A y \in Cell : Entered(y)' <=> Entered(y) \/ y = c
    <3>1. ASSUME NEW y \in Cell
          PROVE  (y \in Path' /\ at' # Enter(y)) <=> (y \in Path /\ at # Enter(y)) \/ y = c
      BY <1>1, <1>2, <2>2, <2>4, <2>8, Callbacks
    <3>2. QED
      BY <1>8, <2>7, <3>1 DEF Entered
  <2>12. QED
    BY <1>2, <1>3, <1>5, <1>6, <1>7, <1>8, <1>9, <1>11, <2>7, <2>9, <2>10, <2>11
<1>12. CASE ~HasOffspring(c)
  <2>1. at' = Leave(c)
    BY <1>1, <1>12 DEF AfterEntering
  <2>2. Path' = Path
    BY <1>2, <2>1, PathOfCallback DEF Path
  <2>3. \A y \in Cell : Passed(y)' <=> Left(c, y) \/ y \in Offspring(c)
    <3>1. \A y \in Cell : y \in Offspring(c) <=> Level(y) # 0 /\ Parent(y) = c
      BY ParentIsACell, OffspringIff
    <3>2. \A y : Passed(y)' <=> \/ at' # NoCallback /\ LeftIn(forward', at'[2], y)
                                \/ Level(y) # 0 /\ at' = Leave(Parent(y))
                                \/ at' = NoCallback /\ phase' = "Iteration" /\ Level(y) = 0
      BY DEF Passed, Left
    <3>3. QED
      BY <1>10, <2>1, <3>1, <3>2, Callbacks
  <2>4. \A y \in Cell : Passed(y)' <=> Passed(y) \/ (y \in Offspring(c) /\ ~InGrid(y))
    BY <1>4, <1>9, <1>12, <2>3
  <2>5. \A x \in Path : x \in Path' /\ at' # Enter(x)
    BY <2>1, <2>2, Callbacks
  <2>6. \A y \in Cell : Entered(y)' <=> Entered(y) \/ y = c
    <3>1. ASSUME NEW y \in Cell
          PROVE  (y \in Path' /\ at' # Enter(y)) <=> (y \in Path /\ at # Enter(y)) \/ y = c
      BY <1>1, <1>2, <2>1, <2>2, Callbacks
    <3>2. QED
      BY <1>8, <2>4, <3>1 DEF Entered
  <2>7. QED
    BY <1>2, <1>3, <1>5, <1>6, <1>7, <1>8, <2>2, <2>4, <2>5, <2>6
<1>13. QED
  BY <1>11, <1>12
(* One callback of leaveCell. *)
LEMMA LeaveMoves ==
  ASSUME NEW c \in Cell, LeaveCell(c), phase = "Iteration", \A x \in Path : InGrid(x)
  PROVE  /\ c \in Path /\ ~Passed(c) /\ Entered(c) /\ InGrid(c)
         /\ \A f \in Offspring(c) : Passed(f) /\ (InGrid(f) => Entered(f))
         /\ \A x \in Path : x # c => x \in Path' /\ at' # Enter(x)
         /\ \A x \in Path' : InGrid(x)'
         /\ \A x \in Cell : InGrid(x)' <=> InGrid(x)
         /\ \A y \in Cell : Passed(y)' <=> (Passed(y) /\ y \notin Offspring(c)) \/ y = c
         /\ \A y \in Cell : Entered(y)' <=> Entered(y) /\ y \notin Offspring(c)
         /\ \A x \in Path : ~Passed(x)
<1>1. /\ at = Leave(c) /\ at' = AfterLeaving(c) /\ forward' = forward /\ refined' = refined
      /\ phase' = phase
  BY DEF LeaveCell, runnerVars
<1>2. Path = Chain(c) /\ c \in Path /\ Path \subseteq Cell
  BY <1>1, PathOfCallback, ChainIsLeast DEF Path
<1>3. \A y \in Cell : Passed(y) <=> Left(c, y) \/ y \in Offspring(c)
  BY <1>1, PassedAtCallback
<1>4. \A f \in Offspring(c) : f \in Cell /\ ~Left(c, f) /\ f \notin Path /\ f # c /\ Passed(f)
  BY <1>2, <1>3, LeftOfChain, OffspringIff
<1>5. \A x \in Path : ~Passed(x)
  BY <1>2, <1>3, <1>4, LeftOfChain
<1>6. Entered(c) /\ \A f \in Offspring(c) : InGrid(f) => Entered(f)
  BY <1>1, <1>2, <1>4, Callbacks DEF Entered
<1>7. \A x \in Cell : InGrid(x)' <=> InGrid(x)
  BY <1>1 DEF InGrid
<1>8. \A x, y : LeftIn(forward', x, y) <=> Left(x, y)
  BY <1>1 DEF Left
<1>9. \A y : Passed(y)' <=> \/ at' # NoCallback /\ LeftIn(forward', at'[2], y)
                            \/ Level(y) # 0 /\ at' = Leave(Parent(y))
                            \/ at' = NoCallback /\ phase' = "Iteration" /\ Level(y) = 0
  BY DEF Passed, Left
<1>10. \A y \in Cell : Sibling(c, y) <=> y \in Siblings(c)
  BY SiblingsAreSiblings
<1>11. PICK a \in Nat, b \in Nat : Siblings(c) = Interval(Level(c), a, b)
  BY SiblingsInterval
<1>12. /\ Neighbour(c, Exit) \in Siblings(c) =>
            \A y \in Siblings(c) : Before(y, Neighbour(c, Exit)) <=> Before(y, c) \/ y = c
       /\ Neighbour(c, Exit) \notin Siblings(c) => \A y \in Siblings(c) : Before(y, c) \/ y = c
       /\ c \in Siblings(c) /\ Siblings(c) \subseteq Cell
  BY <1>11, SiblingsInterval, NextInInterval
<1>13. SUFFICES /\ \A y \in Cell : Passed(y)' <=> Left(c, y) \/ y = c
                /\ \A x \in Path : x # c => x \in Path' /\ at' # Enter(x)
                /\ \A x \in Path' : InGrid(x)' /\ ((x \in Path /\ x # c) \/ at' = Enter(x))
  <2>1. \A y \in Cell : Passed(y)' <=> (Passed(y) /\ y \notin Offspring(c)) \/ y = c
    BY <1>3, <1>4, <1>13
  <2>2. ASSUME NEW y \in Cell PROVE Entered(y)' <=> Entered(y) /\ y \notin Offspring(c)
    <3>1. (y \in Path' /\ at' # Enter(y)) <=> (y \in Path /\ y # c)
      BY <1>13
    <3>2. Entered(y)' <=> (Passed(y)' /\ InGrid(y)') \/ (y \in Path' /\ at' # Enter(y))
      BY DEF Entered
    <3>3. Entered(y) <=> (Passed(y) /\ InGrid(y)) \/ y \in Path
      BY <1>1, Callbacks DEF Entered
    <3>4. y \in Path => y \notin Offspring(c)
      BY <1>4
    <3>5. y = c => InGrid(y)
      BY <1>2
    <3>6. QED
      BY <1>2, <1>7, <2>1, <3>1, <3>2, <3>3, <3>4, <3>5
  <2>3. QED
    BY <1>2, <1>4, <1>5, <1>6, <1>7, <1>13, <2>1, <2>2
<1>14. CASE Neighbour(c, Exit) \in Siblings(c)
  <2>1. PICK n \in Siblings(c) :
          at' = Enter(n) /\ \A y \in Siblings(c) : Before(y, n) <=> Before(y, c) \/ y = c
    BY <1>1, <1>12, <1>14 DEF AfterLeaving
  <2>2. n \in Cell /\ Sibling(c, n) /\ n # c /\ Siblings(n) = Siblings(c)
    <3>1. n \in Cell /\ Sibling(c, n)
      BY <1>10, <1>12
    <3>2. n # c
      <4>1. ~Before(n, n)
        BY <3>1, CellType DEF Before, Precedes
      <4>2. QED
        BY <1>12, <2>1, <4>1
    <3>3. QED
      BY <3>1, <3>2 DEF Sibling, Siblings
  <2>4. \A y \in Cell : Passed(y)' <=> Left(n, y)
    BY <1>8, <1>9, <2>1, Callbacks
  <2>5. \A y \in Cell : Sibling(n, y) <=> Sibling(c, y)
    BY <2>2 DEF Sibling
  <2>6. CASE Level(c) = 0
    <3>1. Chain(c) = {c} /\ Chain(n) = {n} /\ Level(n) = 0
      BY <2>2, <2>6, ChainStep DEF Sibling
    <3>2. \A y \in Cell : Left(n, y) <=> Left(c, y) \/ y = c
      BY <1>10, <1>12, <2>1, <2>2, <2>5, <2>6, <3>1, LeftOfChain
    <3>3. Path' = {n}
      BY <2>1, <3>1, PathOfCallback DEF Path
    <3>4. InGrid(n)'
      BY <3>1 DEF InGrid
    <3>5. QED
      BY <1>2, <2>1, <2>4, <3>1, <3>2, <3>3, <3>4
  <2>7. CASE Level(c) # 0
    <3> DEFINE p == Parent(c)
    <3>1. Level(n) # 0 /\ Parent(n) = p
      BY <2>2, <2>7 DEF Sibling
    <3> HIDE DEF p
    <3>2. Chain(c) = {c} \cup Chain(p) /\ Chain(n) = {n} \cup Chain(p)
      BY <2>2, <2>7, <3>1, ChainStep DEF p
    <3>3. \A y \in Cell : Left(n, y) <=> Left(c, y) \/ y = c
      <4>1. \A y \in Cell : /\ Left(n, y) <=> Left(p, y) \/ (Sibling(n, y) /\ Before(y, n))
                            /\ Left(c, y) <=> Left(p, y) \/ (Sibling(c, y) /\ Before(y, c))
        BY <2>2, <2>7, <3>1, LeftOfChain DEF p
      <4>2. QED
        BY <1>10, <1>12, <2>1, <2>5, <4>1
    <3>4. n \notin Chain(p) /\ c \notin Chain(p)
      <4>1. n \in Offspring(p) /\ c \in Offspring(p) /\ p \in Cell
        BY <2>2, <2>7, <3>1, ParentIsACell DEF p
      <4>2. QED
        BY <4>1, LeftOfChain
    <3>5. Path' = {n} \cup Chain(p)
      BY <2>1, <3>2, PathOfCallback DEF Path
    <3>6. InGrid(n)'
      <4>1. InGrid(c)
        BY <1>2
      <4>2. QED
        BY <1>1, <2>7, <3>1, <4>1 DEF InGrid, p
    <3>7. QED
      BY <1>2, <1>7, <2>1, <2>4, <3>2, <3>3, <3>4, <3>5, <3>6, Callbacks
  <2>8. QED
    BY <2>6, <2>7
<1>15. CASE Neighbour(c, Exit) \notin Siblings(c) /\ Level(c) # 0
  <2> DEFINE p == Parent(c)
  <2>1. p \in Cell /\ c \in Offspring(p) /\ Siblings(c) = Offspring(p)
    BY <1>15, ParentIsACell DEF Siblings
  <2>2. at' = Leave(p)
    <3>1. Level(c) > 0
      BY <1>15, CellType DEF Level
    <3>2. QED
      BY <1>1, <1>15, <3>1 DEF AfterLeaving
  <2> HIDE DEF p
  <2>3. Chain(c) = {c} \cup Chain(p) /\ c \notin Chain(p)
    BY <1>15, <2>1, ChainStep, LeftOfChain DEF p
  <2>4. Path' = Chain(p)
    BY <2>2, PathOfCallback DEF Path
  <2>5. \A y \in Cell : Passed(y)' <=> Left(p, y) \/ y \in Offspring(p)
    <3>1. \A y \in Cell : y \in Offspring(p) <=> Level(y) # 0 /\ Parent(y) = p
      BY <2>1, ParentIsACell, OffspringIff
    <3>2. QED
      BY <1>8, <1>9, <2>2, <3>1, Callbacks
  <2>6. \A y \in Cell : Left(c, y) \/ y = c <=> Left(p, y) \/ y \in Offspring(p)
    <3>1. \A y \in Cell : Left(c, y) <=> Left(p, y) \/ (Sibling(c, y) /\ Before(y, c))
      BY <1>15, LeftOfChain DEF p
    <3>2. QED
      BY <1>10, <1>12, <1>15, <2>1, <3>1
  <2>7. QED
    BY <1>2, <1>7, <2>2, <2>3, <2>4, <2>5, <2>6, Callbacks
<1>16. CASE Neighbour(c, Exit) \notin Siblings(c) /\ Level(c) = 0
  <2>1. at' = NoCallback
    BY <1>1, <1>16 DEF AfterLeaving
  <2>2. Path' = {}
    BY <2>1 DEF Path, PathTo
  <2>3. Path = {c}
    BY <1>2, <1>16, ChainStep
  <2>4. \A y \in Cell : Passed(y)' <=> Level(y) = 0
    BY <1>1, <1>9, <2>1, Callbacks
  <2>5. \A y \in Cell : Left(c, y) \/ y = c <=> Level(y) = 0
    <3>1. \A y \in Cell : Level(y) = 0 <=> y \in Siblings(c)
      BY <1>16 DEF Siblings, Base
    <3>2. QED
      BY <1>10, <1>12, <1>16, <3>1, LeftOfChain
  <2>6. QED
    BY <2>2, <2>3, <2>4, <2>5
<1>17. QED
  BY <1>14, <1>15, <1>16
-----------------------------------------------------------------------------
(***************************************************************************)
(* The invariant: in which state the events of a cell leave its children.  *)
(* A description fits if its event is one its type can have; some events   *)
(* (Busy) last only while the traversal is inside the cell.                *)
(***************************************************************************)
Busy == Coarsens \cup Deaugments \cup { "Refining", "Augmenting" }

DescriptionFits(d) ==
  /\ d.type # "Erased" /\ HasSolution(d)
  /\ d.type = "Ancestor" => ~d.isAugmented /\ d.event \in {"None"} \cup Coarsens
  /\ d.event \in Coarsens => d.type = "Ancestor"
  /\ d.event \in Refines \cup { "ErasingChildren", "ChangeChildrenToDescendants" }
       => d.type = "Cell"
  /\ d.event \in Adds \cup {"ErasingChildren"} => ~d.isAugmented
  /\ d.event \in { "DeaugmentingChildren", "DeaugmentingChildrenRequested" } => d.isAugmented

(* The type of a cell's description, or that it has none. *)
Kind(D, f) == IF Found(D, f) THEN D[f].type ELSE "Nothing"

(* Events of a cell that its parent may remove. *)
Removable ==
  { "None", "AugmentingRequested", "DeaugmentingChildren", "Augmenting" } \cup Deaugments

Demoted(C, D, f) == Kind(D, f) = "Cell" /\ C[f] = "Erase" /\ D[f].event \in Removable

(* Without an event of its parent d, a child is of the kind k. *)
Plain(d, k) == IF d.isAugmented THEN k = "Descendant" ELSE k = "Nothing"

(***************************************************************************)
(* A child of the kind k, below a parent with description d; whether the   *)
(* child is demoted, passed and entered.                                   *)
(***************************************************************************)
ChildFits(d, k, demoted, passed, entered) ==
  /\ d.type = "Ancestor" =>
       /\ k \in { "Ancestor", "Cell" }
       /\ d.event # "None" /\ entered => demoted
  /\ d.type # "Ancestor" =>
       /\ d.event = "ErasingChildren" =>
            /\ passed => k = "Nothing"
            /\ ~passed /\ k # "Nothing" => demoted
       /\ d.event = "ChangeChildrenToDescendants" =>
            /\ k # "Nothing"
            /\ passed => k = "Descendant"
            /\ ~passed => demoted
       /\ d.event = "DeaugmentingChildren" =>
            /\ passed => k = "Nothing"
            /\ ~passed => k = "Descendant"
       /\ d.event = "Refining" =>
            /\ entered => k \in { "Ancestor", "Cell" }
            /\ ~entered => Plain(d, k)
       /\ d.event = "Augmenting" =>
            /\ entered => k = "Descendant"
            /\ ~entered => k = "Nothing"
       /\ d.event \in { "RefiningRequested", "AugmentingRequested" } =>
            ~entered /\ Plain(d, k)
       /\ d.event \in {"None"} \cup Deaugments => Plain(d, k)

(* The children that fit below d fit below e: always, as a cell is entered *)
(* that has not been entered, and as it is left.                           *)
Preserves(d, e) ==
  \A k : \A m, q, r \in BOOLEAN : ChildFits(d, k, m, q, r) => ChildFits(e, k, m, q, r)

Opens(d, e) ==
  \A k : \A m, q \in BOOLEAN :
    ChildFits(d, k, m, FALSE, FALSE) /\ (q => k = "Nothing") => ChildFits(e, k, m, q, FALSE)

Closes(d, e) ==
  \A k : \A m, r \in BOOLEAN :
    /\ ChildFits(d, k, m, TRUE, r)
    /\ k # "Nothing" => r
    /\ d.event \in { "Refining", "Augmenting" } => r
    => ChildFits(e, k, m, FALSE, FALSE)

(* Entering a cell: its own description, and its children. *)
LEMMA OwnFits ==
  ASSUME NEW c, NEW d \in Description, NEW e, Like(d, e), OwnEvent(c, d, e.event),
         DescriptionFits(d), d.event \notin Busy
  PROVE  /\ DescriptionFits(e) /\ e.event \notin { "Refining", "Augmenting" }
         /\ d.type = "Cell" /\ criterion[c] = "Erase" /\ d.event \in Removable => e.event \in Removable
         /\ Opens(d, e)
<1>1. /\ e.type = d.type /\ e.isAugmented = d.isAugmented /\ HasSolution(e)
  BY DEF Like, DescriptionFits
<1>2. \/ e.event = d.event
      \/ /\ e.event = "RefiningRequested" /\ criterion[c] = "Refine" /\ d.type = "Cell"
         /\ d.event \in { "None", "AugmentingRequested" }
      \/ e.event = "ErasingChildrenRequested" /\ d.type = "Ancestor" /\ d.event = "None"
      \/ /\ d.event = "None" /\ d.type \in { "Cell", "Descendant" }
         /\ e.event = "DeaugmentingChildrenRequestedTriggered"
      \/ /\ d.event = "None" /\ d.type \in { "Cell", "Descendant" }
         /\ e.event = "AugmentingRequested" /\ ~d.isAugmented
  BY DEF OwnEvent, AsksCriterion
<1>3. DescriptionFits(e) /\ e.event \notin { "Refining", "Augmenting" }
  BY <1>1, <1>2 DEF DescriptionFits, Coarsens, Refines, Adds, Busy, Deaugments
<1>4. d.type = "Cell" /\ criterion[c] = "Erase" /\ d.event \in Removable => e.event \in Removable
  BY <1>2 DEF Removable, Deaugments
<1>5. ASSUME NEW k, NEW m \in BOOLEAN, NEW q \in BOOLEAN,
             ChildFits(d, k, m, FALSE, FALSE), q => k = "Nothing"
      PROVE  ChildFits(e, k, m, q, FALSE)
  <2>1. d.event \in RefinementEvent
    BY DEF Description
  <2>2. CASE d.type = "Ancestor"
    BY <1>1, <1>5, <2>2 DEF ChildFits
  <2>3. CASE d.type # "Ancestor" /\ e.event = d.event
    BY <1>1, <1>5, <2>3 DEF ChildFits, Plain
  <2>4. CASE d.type # "Ancestor" /\ e.event # d.event
    <3>1. /\ d.event \in { "None", "AugmentingRequested" }
          /\ e.event \in { "RefiningRequested", "AugmentingRequested",
                           "DeaugmentingChildrenRequestedTriggered" }
      BY <1>2, <2>4
    <3>2. Plain(d, k)
      BY <1>5, <2>4, <3>1 DEF ChildFits
    <3>3. QED
      BY <1>1, <2>4, <3>1, <3>2 DEF ChildFits, Plain, Deaugments
  <2>5. QED
    BY <2>2, <2>3, <2>4
<1>6. QED
  BY <1>3, <1>4, <1>5 DEF Opens

LEMMA NewFits ==
  ASSUME NEW d, d.event = "None", HasSolution(d), d.type \in { "Cell", "Descendant" }
  PROVE  /\ DescriptionFits(d)
         /\ ~d.isAugmented => \A m, q : ChildFits(d, "Nothing", m, q, FALSE)
BY DEF DescriptionFits, ChildFits, Plain, Coarsens, Refines, Adds, Deaugments

LEMMA NowACellFits ==
  ASSUME NEW d \in Description, NEW e, IsNowACell(d, e), d.type = "Descendant",
         DescriptionFits(d), d.event \notin Busy
  PROVE  /\ DescriptionFits(e)
         /\ Opens(d, e)
<1>1. e.type = "Cell" /\ e.event = "None" /\ e.isAugmented = d.isAugmented /\ HasSolution(e)
  BY DEF IsNowACell
<1>2. d.event \in { "None", "AugmentingRequested", "DeaugmentingChildren" }
  BY DEF Description, RefinementEvent, DescriptionFits, Busy, Coarsens, Refines, Adds, Deaugments
<1>3. d.event = "DeaugmentingChildren" => d.isAugmented
  BY DEF DescriptionFits
<1>4. ASSUME NEW k, NEW m \in BOOLEAN, NEW q \in BOOLEAN, ChildFits(d, k, m, FALSE, FALSE)
      PROVE  ChildFits(e, k, m, q, FALSE)
  <2>1. Plain(d, k)
    BY <1>2, <1>3, <1>4 DEF ChildFits, Plain, Deaugments
  <2>2. QED
    BY <1>1, <2>1 DEF ChildFits, Plain, Deaugments
<1>5. QED
  BY <1>1, <1>4, NewFits DEF Opens
(* Entering a cell: its parent's description, and the parent's children. *)
MeetsNew(d, e) ==
  \/ d.event \in Adds /\ e.event = "Augmenting"
  \/ d.event \in Refines /\ e.event = "Refining"
  \/ d.event \notin Adds \cup Refines /\ VetoedEvent(d.event, e.event)

MeetsOld(c, b, d, e) ==
  \/ d.event \in Adds /\ e.event = "None"
  \/ d.event \in Refines /\ e.event = "Refining"
  \/ d.event \notin Adds \cup Refines /\ Met(c, b, d.event, e.event)

(* Below e, the child c whose description was b, of the kind k, still fits. *)
Retains(c, b, k, m, e) ==
  \A n \in BOOLEAN :
    /\ m => n
    /\ k = "Cell" /\ AsksCriterion(b) /\ criterion[c] = "Erase" => n
    /\ AsksCriterion(b) => k = "Cell"
    => ChildFits(e, k, n, FALSE, TRUE)

TakesCells(e) == \A n \in BOOLEAN : ChildFits(e, "Cell", n, FALSE, TRUE)

LEMMA ParentFits ==
  ASSUME NEW c, NEW b, NEW d \in Description, NEW e, Like(d, e), DescriptionFits(d),
         NEW k, NEW m \in BOOLEAN, ChildFits(d, k, m, FALSE, FALSE),
         \/ k = "Nothing" /\ MeetsNew(d, e)
         \/ k # "Nothing" /\ MeetsOld(c, b, d, e)
  PROVE  /\ DescriptionFits(e)
         /\ d.type = "Cell" /\ d.event \in Removable => e.event \in Removable
         /\ Preserves(d, e)
         /\ d.event \in Adds => k = "Nothing" /\ ChildFits(e, "Descendant", FALSE, FALSE, TRUE)
         /\ d.event \in Refines => k \in { "Nothing", "Descendant" }
         /\ d.event \in Refines => TakesCells(e)
         /\ d.event \notin Adds \cup Refines => Retains(c, b, k, m, e)
<1>1. e.type = d.type /\ e.isAugmented = d.isAugmented /\ HasSolution(e)
  BY DEF Like, DescriptionFits
<1>2. d.event \in RefinementEvent
  BY DEF Description
<1>3. d.event \in Adds \cup Refines => d.type # "Ancestor"
  BY DEF DescriptionFits, Adds, Refines, Coarsens
<1>4. CASE d.event \in Adds
  <2>1. ~d.isAugmented
    BY <1>4 DEF DescriptionFits
  <2>2. k = "Nothing"
    BY <1>3, <1>4, <2>1 DEF ChildFits, Plain, Adds
  <2>3. e.event = "Augmenting"
    BY <1>4, <2>2 DEF MeetsNew, Adds, Refines
  <2>4. DescriptionFits(e)
    BY <1>1, <1>3, <1>4, <2>1, <2>3 DEF DescriptionFits, Adds, Refines, Coarsens
  <2>5. ASSUME NEW l, NEW n \in BOOLEAN, NEW q \in BOOLEAN, NEW r \in BOOLEAN,
               ChildFits(d, l, n, q, r)
        PROVE  ChildFits(e, l, n, q, r)
    BY <1>1, <1>3, <1>4, <2>1, <2>3, <2>5 DEF ChildFits, Plain, Adds, Deaugments
  <2>6. ChildFits(e, "Descendant", FALSE, FALSE, TRUE)
    BY <1>1, <1>3, <1>4, <2>3 DEF ChildFits, Deaugments
  <2>7. d.event \notin Refines
    BY <1>4 DEF Adds, Refines
  <2>8. e.event \in Removable
    BY <2>3 DEF Removable
  <2>9. QED
    BY <1>4, <2>2, <2>4, <2>5, <2>6, <2>7, <2>8 DEF Preserves
<1>5. CASE d.event \in Refines
  <2>1. e.event = "Refining"
    BY <1>5 DEF MeetsNew, MeetsOld, Adds, Refines
  <2>2. d.type = "Cell"
    BY <1>5 DEF DescriptionFits
  <2>3. DescriptionFits(e)
    BY <1>1, <2>1, <2>2 DEF DescriptionFits, Adds, Refines, Coarsens
  <2>4. Plain(d, k)
    BY <1>3, <1>5 DEF ChildFits, Refines
  <2>5. k \in { "Nothing", "Descendant" }
    BY <2>4 DEF Plain
  <2>6. ASSUME NEW l, NEW n \in BOOLEAN, NEW q \in BOOLEAN, NEW r \in BOOLEAN,
               ChildFits(d, l, n, q, r)
        PROVE  ChildFits(e, l, n, q, r)
    BY <1>1, <1>3, <1>5, <2>1, <2>6 DEF ChildFits, Plain, Refines, Deaugments
  <2>7. \A n \in BOOLEAN : ChildFits(e, "Cell", n, FALSE, TRUE)
    BY <1>1, <2>1, <2>2 DEF ChildFits, Deaugments
  <2>8. d.event \notin Adds /\ d.event \notin Removable
    BY <1>5 DEF Adds, Refines, Removable, Deaugments
  <2>9. QED
    BY <1>5, <2>3, <2>5, <2>6, <2>7, <2>8 DEF Preserves, TakesCells
<1>6. CASE d.event \notin Adds \cup Refines
  <2>1. \/ k = "Nothing" /\ VetoedEvent(d.event, e.event)
        \/ k # "Nothing" /\ Met(c, b, d.event, e.event)
    BY <1>6 DEF MeetsNew, MeetsOld
  <2>2. \/ e.event = d.event
        \/ d.event \in Coarsens /\ e.event \in {"None"} \cup Coarsens
        \/ d.event \in Deaugments /\ e.event \in { "None", "DeaugmentingChildrenRequested" }
    BY <2>1 DEF VetoedEvent, Met, Coarsens, Deaugments
  <2>3. e.event = "DeaugmentingChildrenRequested" => d.isAugmented
    <3>1. CASE e.event = d.event
      BY <3>1 DEF DescriptionFits
    <3>2. CASE e.event # d.event /\ e.event = "DeaugmentingChildrenRequested"
      <4>1. d.event \in Deaugments /\ k # "Nothing"
        BY <2>1, <2>2, <3>2 DEF VetoedEvent, Coarsens
      <4>2. d.type # "Ancestor"
        BY <4>1 DEF DescriptionFits, Deaugments, Coarsens
      <4>3. Plain(d, k)
        BY <4>1, <4>2 DEF ChildFits
      <4>4. QED
        BY <4>1, <4>3 DEF Plain
    <3>3. QED
      BY <3>1, <3>2
  <2>4. DescriptionFits(e)
    <3>1. CASE e.event = d.event
      BY <1>1, <3>1 DEF DescriptionFits
    <3>2. CASE d.event \in Coarsens /\ e.event \in {"None"} \cup Coarsens
      BY <1>1, <3>2 DEF DescriptionFits, Coarsens, Refines, Adds
    <3>3. CASE d.event \in Deaugments /\ e.event \in { "None", "DeaugmentingChildrenRequested" }
      BY <1>1, <2>3, <3>3 DEF DescriptionFits, Deaugments, Coarsens, Refines, Adds
    <3>4. QED
      BY <2>2, <3>1, <3>2, <3>3
  <2>5. d.type = "Cell" /\ d.event \in Removable => e.event \in Removable
    BY <2>2 DEF Removable, Deaugments, Coarsens
  <2>6. ASSUME NEW l, NEW n \in BOOLEAN, NEW q \in BOOLEAN, NEW r \in BOOLEAN,
               ChildFits(d, l, n, q, r)
        PROVE  ChildFits(e, l, n, q, r)
    <3>1. CASE e.event = d.event
      BY <1>1, <2>6, <3>1 DEF ChildFits, Plain
    <3>2. CASE d.event \in Coarsens
      <4>1. d.type = "Ancestor" /\ d.event # "None"
        BY <3>2 DEF DescriptionFits, Coarsens
      <4>2. QED
        BY <1>1, <2>6, <4>1 DEF ChildFits
    <3>3. CASE d.event \in Deaugments /\ e.event \in { "None", "DeaugmentingChildrenRequested" }
      <4>1. d.type # "Ancestor"
        BY <3>3 DEF DescriptionFits, Deaugments, Coarsens
      <4>2. Plain(d, l)
        BY <2>6, <3>3, <4>1 DEF ChildFits
      <4>3. QED
        BY <1>1, <3>3, <4>1, <4>2 DEF ChildFits, Plain, Deaugments
    <3>4. QED
      BY <2>2, <3>1, <3>2, <3>3
  <2>7. ASSUME NEW n \in BOOLEAN, m => n,
               k = "Cell" /\ AsksCriterion(b) /\ criterion[c] = "Erase" => n,
               AsksCriterion(b) => k = "Cell"
        PROVE  ChildFits(e, k, n, FALSE, TRUE)
    <3>1. CASE d.type = "Ancestor"
      <4>1. k \in { "Ancestor", "Cell" }
        BY <3>1 DEF ChildFits
      <4>2. d.event \in {"None"} \cup Coarsens
        BY <3>1 DEF DescriptionFits
      <4>3. e.event # "None" => AsksCriterion(b) /\ criterion[c] = "Erase"
        BY <2>1, <4>1, <4>2 DEF Met, Coarsens, Deaugments
      <4>4. QED
        BY <1>1, <2>7, <3>1, <4>1, <4>3 DEF ChildFits
    <3>2. CASE d.type # "Ancestor" /\ e.event = d.event
      BY <1>1, <1>6, <2>7, <3>2 DEF ChildFits, Plain, Adds, Refines
    <3>3. CASE d.type # "Ancestor" /\ e.event # d.event
      <4>1. d.event \in Deaugments /\ e.event \in { "None", "DeaugmentingChildrenRequested" }
        BY <2>2, <3>3 DEF DescriptionFits
      <4>2. Plain(d, k)
        BY <3>3, <4>1 DEF ChildFits
      <4>3. QED
        BY <1>1, <3>3, <4>1, <4>2 DEF ChildFits, Plain, Deaugments
    <3>4. QED
      BY <3>1, <3>2, <3>3
  <2>8. QED
    BY <1>6, <2>4, <2>5, <2>6, <2>7 DEF Preserves, Retains
<1>7. QED
  BY <1>4, <1>5, <1>6
(* Leaving a cell: its own description, and its children. *)
LEMMA FinishFits ==
  ASSUME NEW d \in Description, DescriptionFits(d), NEW e, e = StartOrFinish(d)
  PROVE  /\ e \in Description /\ DescriptionFits(e) /\ e.linked = d.linked /\ e.event \notin Busy
         /\ d.type = "Descendant" <=> e.type = "Descendant"
         /\ d.type = "Cell" /\ d.event \in Removable =>
              e.type = "Cell" /\ e.event \in { "None", "AugmentingRequested", "DeaugmentingChildren" }
         /\ Closes(d, e)
<1> DEFINE v == d.event
           P == /\ e \in Description /\ DescriptionFits(e) /\ e.linked = d.linked /\ e.event \notin Busy
                /\ d.type = "Descendant" <=> e.type = "Descendant"
                /\ d.type = "Cell" /\ d.event \in Removable =>
                     e.type = "Cell" /\ e.event \in { "None", "AugmentingRequested", "DeaugmentingChildren" }
           Q(k, m, r) == /\ ChildFits(d, k, m, TRUE, r)
                         /\ k # "Nothing" => r
                         /\ d.event \in { "Refining", "Augmenting" } => r
<1>1. /\ e \in Description /\ e.linked = d.linked /\ HasSolution(e) /\ HasSolution(d)
  BY StartOrFinishFields DEF DescriptionFits
<1>2. CASE v = "Refining"
  <2>1. e.type = "Ancestor" /\ e.event = "None" /\ e.isAugmented = FALSE /\ d.type = "Cell"
    BY <1>2, StartOrFinishFields DEF DescriptionFits, Refines
  <2>2. P
    BY <1>1, <1>2, <2>1 DEF DescriptionFits, Busy, Coarsens, Deaugments, Refines, Adds, Removable
  <2>3. ASSUME NEW k, NEW m \in BOOLEAN, NEW r \in BOOLEAN, Q(k, m, r)
        PROVE  ChildFits(e, k, m, FALSE, FALSE)
    BY <1>2, <2>1, <2>3 DEF ChildFits
  <2>4. QED
    BY <2>2, <2>3 DEF Closes
<1>3. CASE v \in Coarsens
  <2>1. /\ e.type = "Cell" /\ d.type = "Ancestor" /\ e.isAugmented = FALSE
        /\ e.event \in { "ChangeChildrenToDescendants", "ErasingChildren" }
    BY <1>3, StartOrFinishFields DEF DescriptionFits, Coarsens, Description
  <2>2. P
    BY <1>1, <1>3, <2>1 DEF DescriptionFits, Busy, Coarsens, Deaugments, Refines, Adds, Removable
  <2>3. ASSUME NEW k, NEW m \in BOOLEAN, NEW r \in BOOLEAN, Q(k, m, r)
        PROVE  ChildFits(e, k, m, FALSE, FALSE)
    <3>1. k \in { "Ancestor", "Cell" } /\ m
      BY <1>3, <2>1, <2>3 DEF ChildFits, Coarsens
    <3>2. QED
      BY <2>1, <3>1 DEF ChildFits, Deaugments
  <2>4. QED
    BY <2>2, <2>3 DEF Closes
<1>4. CASE v = "DeaugmentingChildrenRequested"
  <2>1. /\ e.type = d.type /\ e.event = "DeaugmentingChildren" /\ e.isAugmented = d.isAugmented
        /\ d.isAugmented /\ d.type # "Ancestor"
    BY <1>4, StartOrFinishFields DEF DescriptionFits, Coarsens
  <2>2. P
    BY <1>1, <1>4, <2>1 DEF DescriptionFits, Busy, Coarsens, Deaugments, Refines, Adds, Removable
  <2>3. ASSUME NEW k, NEW m \in BOOLEAN, NEW r \in BOOLEAN, Q(k, m, r)
        PROVE  ChildFits(e, k, m, FALSE, FALSE)
    <3>1. Plain(d, k)
      BY <1>4, <2>1, <2>3 DEF ChildFits, Deaugments
    <3>2. QED
      BY <2>1, <3>1 DEF ChildFits, Plain, Deaugments
  <2>4. QED
    BY <2>2, <2>3 DEF Closes
<1>5. CASE v \in { "ChangeChildrenToDescendants", "Augmenting" }
  <2>1. e.type = d.type /\ e.event = "None" /\ e.isAugmented = TRUE /\ d.type # "Ancestor"
    BY <1>5, StartOrFinishFields DEF DescriptionFits, Coarsens
  <2>2. P
    BY <1>1, <1>5, <2>1 DEF DescriptionFits, Busy, Coarsens, Deaugments, Refines, Adds, Removable
  <2>3. ASSUME NEW k, NEW m \in BOOLEAN, NEW r \in BOOLEAN, Q(k, m, r)
        PROVE  ChildFits(e, k, m, FALSE, FALSE)
    <3>1. k = "Descendant"
      BY <1>5, <2>1, <2>3 DEF ChildFits
    <3>2. QED
      BY <2>1, <3>1 DEF ChildFits, Plain, Deaugments
  <2>4. QED
    BY <2>2, <2>3 DEF Closes
<1>6. CASE v = "DeaugmentingChildren"
  <2>1. e.type = d.type /\ e.event = "None" /\ e.isAugmented = FALSE /\ d.type # "Ancestor"
    BY <1>6, StartOrFinishFields DEF DescriptionFits, Coarsens
  <2>2. P
    BY <1>1, <1>6, <2>1 DEF DescriptionFits, Busy, Coarsens, Deaugments, Refines, Adds, Removable
  <2>3. ASSUME NEW k, NEW m \in BOOLEAN, NEW r \in BOOLEAN, Q(k, m, r)
        PROVE  ChildFits(e, k, m, FALSE, FALSE)
    <3>1. k = "Nothing"
      BY <1>6, <2>1, <2>3 DEF ChildFits
    <3>2. QED
      BY <2>1, <3>1 DEF ChildFits, Plain, Deaugments
  <2>4. QED
    BY <2>2, <2>3 DEF Closes
<1>7. CASE v = "ErasingChildren"
  <2>1. e.type = d.type /\ e.event = "None" /\ ~e.isAugmented /\ d.type = "Cell"
    BY <1>7, StartOrFinishFields DEF DescriptionFits
  <2>2. P
    BY <1>1, <1>7, <2>1 DEF DescriptionFits, Busy, Coarsens, Deaugments, Refines, Adds, Removable
  <2>3. ASSUME NEW k, NEW m \in BOOLEAN, NEW r \in BOOLEAN, Q(k, m, r)
        PROVE  ChildFits(e, k, m, FALSE, FALSE)
    <3>1. k = "Nothing"
      BY <1>7, <2>1, <2>3 DEF ChildFits
    <3>2. QED
      BY <2>1, <3>1 DEF ChildFits, Plain, Deaugments
  <2>4. QED
    BY <2>2, <2>3 DEF Closes
<1>8. CASE v = "DeaugmentingChildrenRequestedTriggered"
  <2>1. /\ e.type = d.type /\ e.event = "None" /\ e.isAugmented = d.isAugmented
        /\ d.type # "Ancestor"
    BY <1>8, StartOrFinishFields DEF DescriptionFits, Coarsens
  <2>2. P
    BY <1>1, <1>8, <2>1 DEF DescriptionFits, Busy, Coarsens, Deaugments, Refines, Adds, Removable
  <2>3. ASSUME NEW k, NEW m \in BOOLEAN, NEW r \in BOOLEAN, Q(k, m, r)
        PROVE  ChildFits(e, k, m, FALSE, FALSE)
    <3>1. Plain(d, k)
      BY <1>8, <2>1, <2>3 DEF ChildFits, Deaugments
    <3>2. QED
      BY <2>1, <3>1 DEF ChildFits, Plain, Deaugments
  <2>4. QED
    BY <2>2, <2>3 DEF Closes
<1>9. CASE v \in { "None", "RefiningRequested", "AugmentingRequested" }
  <2>1. e = d
    BY <1>9, StartOrFinishFields
  <2>2. P
    BY <1>1, <1>9, <2>1 DEF DescriptionFits, Busy, Coarsens, Deaugments, Refines, Adds, Removable
  <2>3. ASSUME NEW k, NEW m \in BOOLEAN, NEW r \in BOOLEAN, Q(k, m, r)
        PROVE  ChildFits(e, k, m, FALSE, FALSE)
    BY <1>9, <2>1, <2>3 DEF ChildFits, Plain, Deaugments
  <2>4. QED
    BY <2>2, <2>3 DEF Closes
<1>10. v \in RefinementEvent
  BY DEF Description
<1> HIDE DEF P, Q
<1>11. P /\ \A k : \A m, r \in BOOLEAN : Q(k, m, r) => ChildFits(e, k, m, FALSE, FALSE)
  BY <1>2, <1>3, <1>4, <1>5, <1>6, <1>7, <1>8, <1>9, <1>10 DEF RefinementEvent, Coarsens, P, Q, Closes
<1>12. QED
  BY <1>11 DEF P, Q, Closes

LEMMA NowADescendantFits ==
  ASSUME NEW d, NEW e, IsNowADescendant(d, e), DescriptionFits(d), d.type = "Cell",
         d.event \in { "None", "AugmentingRequested", "DeaugmentingChildren" }
  PROVE  /\ DescriptionFits(e)
         /\ Preserves(d, e)
<1>1. e.type = "Descendant" /\ e.event = d.event /\ e.isAugmented = d.isAugmented
  BY DEF IsNowADescendant
<1>2. DescriptionFits(e)
  BY <1>1 DEF DescriptionFits, HasSolution, Coarsens, Refines, Adds
<1>3. ASSUME NEW k, NEW m \in BOOLEAN, NEW q \in BOOLEAN, NEW r \in BOOLEAN,
             ChildFits(d, k, m, q, r)
      PROVE  ChildFits(e, k, m, q, r)
  BY <1>1, <1>3 DEF ChildFits, Plain
<1>4. QED
  BY <1>2, <1>3 DEF Preserves

(* Leaving a cell: it remains a child its parent's event allows. *)
LEMMA LeftFits ==
  ASSUME NEW d, DescriptionFits(d),
         NEW k, NEW m \in BOOLEAN, ChildFits(d, k, m, FALSE, TRUE),
         NEW l, NEW n \in BOOLEAN,
         d.event \in ErasesChildren => l = "Nothing",
         d.event = "ChangeChildrenToDescendants" /\ k # "Nothing" => l = "Descendant",
         d.event \notin ErasesChildren \cup { "ChangeChildrenToDescendants" } =>
           /\ k = "Nothing" => l = "Nothing"
           /\ k \in { "Ancestor", "Cell" } => l \in { "Ancestor", "Cell" }
           /\ k = "Descendant" => l = "Descendant"
           /\ m => n
  PROVE  ChildFits(d, l, n, TRUE, TRUE)
<1>1. CASE d.type = "Ancestor"
  <2>1. d.event \notin ErasesChildren \cup { "ChangeChildrenToDescendants" }
    BY <1>1 DEF DescriptionFits, ErasesChildren, Coarsens
  <2>2. QED
    BY <1>1, <2>1 DEF ChildFits
<1>2. CASE d.type # "Ancestor" /\ d.event \in ErasesChildren \cup { "ChangeChildrenToDescendants" }
  BY <1>2 DEF ChildFits, ErasesChildren, Deaugments
<1>3. CASE d.type # "Ancestor" /\ d.event \notin ErasesChildren \cup { "ChangeChildrenToDescendants" }
  BY <1>3 DEF ChildFits, ErasesChildren, Plain, Deaugments
<1>4. QED
  BY <1>1, <1>2, <1>3
-----------------------------------------------------------------------------
(* A description and its event, where the traversal is. *)
Local(p) ==
  /\ DescriptionFits(description[p]) /\ InGrid(p)
  /\ Level(p) # 0 => description[p].linked
  /\ description[p].event \in Busy => p \in Path /\ at # Enter(p)
  /\ description[p].event \in { "Refining", "Augmenting" } => HasOffspring(p)

ChildOK(p, f) ==
  ChildFits(description[p], Kind(description, f), Demoted(criterion, description, f),
            Passed(f), Entered(f))

(* The cell, or a cell above it, was left in this sweep. *)
Past(c) == \E y \in Chain(c) : Passed(y)

MeshInvariant ==
  /\ \A c \in Cell : Found(description, c) => Local(c)
  /\ \A c \in Cell : Found(description, c) => \A f \in Offspring(c) : ChildOK(c, f)
  /\ \A x \in Path : InGrid(x)
  /\ phase = "Iteration" \/ at = NoCallback
  /\ stable /\ phase = "Iteration" =>
       \A c \in Cell : Found(description, c) /\ Past(c) => description[c].event = "None"
  /\ MeshIsFinal => \A c \in Cell : Found(description, c) => description[c].event = "None"

LEMMA LocalFields ==
  ASSUME MeshInvariant, TypeOK, NEW y, Found(description, y)
  PROVE  /\ y \in Cell /\ description[y] \in Description /\ Local(y)
         /\ \A f \in Offspring(y) : ChildOK(y, f)
BY NotFoundAssumption DEF MeshInvariant, TypeOK, Found

(* If no description is orphaned, the cells above a description have one. *)
LEMMA ChainIsFound ==
  ASSUME ChildrenHaveParents, NEW y, Found(description, y)
  PROVE  \A z \in Chain(y) : Found(description, z)
<1> DEFINE S == { z \in Cell : Found(description, z) }
<1>1. y \in Cell
  BY DEF Found
<1>2. ASSUME NEW z \in S, Level(z) # 0 PROVE Parent(z) \in S
  <2>1. Level(z) > 0
    BY <1>2, ParentIsAnother
  <2>2. QED
    BY <2>1, ParentIsACell, <1>2 DEF ChildrenHaveParents
<1>3. Chain(y) \subseteq S
  BY <1>1, <1>2, ChainIsLeast DEF ClosedUpwards
<1>4. QED
  BY <1>3

LEMMA DemotedMakesFit ==
  ASSUME NEW d, NEW k, NEW m \in BOOLEAN, NEW n \in BOOLEAN, NEW q \in BOOLEAN, NEW r \in BOOLEAN,
         m => n, ChildFits(d, k, m, q, r)
  PROVE  ChildFits(d, k, n, q, r)
BY DEF ChildFits

(* The parent of the cell that is entered, and the cell as its child. *)
LEMMA EnterParent ==
  ASSUME TypeOK, MeshInvariant, NEW c \in Cell, EnterCell(c),
         Found(description, Parent(c)), EnterEffect(description, description', c)
  PROVE  LET d == description[Parent(c)]
             e == description[Parent(c)]'
         IN  /\ DescriptionFits(e) /\ e.linked = d.linked /\ Found(description', Parent(c))
             /\ d.type = "Cell" /\ d.event \in Removable => e.event \in Removable
             /\ e.type = d.type /\ HasOffspring(Parent(c))
             /\ Preserves(d, e)
             /\ ChildFits(e, Kind(description', c), Demoted(criterion, description', c), FALSE, TRUE)
             /\ d.event \in Adds => ~Found(description, c)
             /\ d.event \in Refines /\ Found(description, c) => description[c].type = "Descendant"
<1> DEFINE p == Parent(c)
           D == description
           E == description'
           d == D[p]
           e == E[p]
           k == Kind(D, c)
           m == Demoted(criterion, D, c)
           n == Demoted(criterion, E, c)
<1>1. p \in Cell /\ d \in Description /\ Local(p) /\ \A f \in Offspring(p) : ChildOK(p, f)
  BY LocalFields
<1>2. Level(c) # 0 /\ Level(c) > 0 /\ c \in Offspring(p) /\ Level(p) < MaxLevel /\ p # c
  BY <1>1, ParentIsAnother, ParentIsACell
<1>3. /\ c \in Path /\ ~Passed(c) /\ ~Entered(c) /\ \A x \in Path : InGrid(x)
  BY EnterMoves DEF MeshInvariant
<1>4. D \in Descriptions /\ E \in Descriptions
  BY DEF TypeOK, Descriptions, EnterEffect
<1>5. Found(D, c) => D[c] \in Description /\ Local(c)
  BY LocalFields
<1>6. Found(D, c) => D[c].linked
  BY <1>2, <1>5 DEF Local
<1>7. k = "Nothing" <=> ~Found(D, c)
  <2>1. Found(D, c) => D[c].type # "Nothing"
    BY <1>5 DEF Description, Type
  <2>2. QED
    BY <2>1 DEF Kind
<1>8. m \in BOOLEAN /\ n \in BOOLEAN
  BY DEF Demoted
<1>9. ChildFits(d, k, m, FALSE, FALSE)
  BY <1>1, <1>2, <1>3 DEF ChildOK, ChildFits
<1>10. DescriptionFits(d)
  BY <1>1 DEF Local
<1>11. Like(d, e) /\ Found(E, p)
  BY <1>1, <1>2 DEF EnterEffect, Others
<1>12. HasOffspring(p)
  BY <1>2, <1>3 DEF InGrid, HasOffspring
<1>13. ~Found(D, c) =>
         \/ d.event \in Adds /\ e.event = "Augmenting" /\ IsNew(E[c], "Descendant")
         \/ d.event \in Refines /\ e.event = "Refining" /\ IsNew(E[c], "Cell")
         \/ d.event \notin Adds \cup Refines /\ VetoedEvent(d.event, e.event) /\ ~Found(E, c)
  BY DEF EnterEffect
<1>14. Found(D, c) =>
         \/ /\ d.event \in Adds /\ e.event = "None"
            /\ Like(D[c], E[c]) /\ OwnEvent(c, D[c], E[c].event)
         \/ d.event \in Refines /\ e.event = "Refining" /\ IsNowACell(D[c], E[c])
         \/ /\ d.event \notin Adds \cup Refines /\ Met(c, D[c], d.event, e.event)
            /\ Like(D[c], E[c]) /\ OwnEvent(c, D[c], E[c].event)
  BY <1>6 DEF EnterEffect
<1>15. \/ k = "Nothing" /\ MeetsNew(d, e)
       \/ k # "Nothing" /\ MeetsOld(c, D[c], d, e)
  BY <1>7, <1>13, <1>14 DEF MeetsNew, MeetsOld
<1>16. E[c] \in Description => Found(E, c)
  BY <1>4, FoundType
<1>17. k = "Nothing" => ~m
  BY DEF Demoted
<1>18. Found(D, c) => k = D[c].type
  BY DEF Kind
<1>19. Found(E, c) => Kind(E, c) = E[c].type
  BY DEF Kind
<1>20. m <=> k = "Cell" /\ criterion[c] = "Erase" /\ D[c].event \in Removable
  BY DEF Demoted
<1>21. n <=> Kind(E, c) = "Cell" /\ criterion[c] = "Erase" /\ E[c].event \in Removable
  BY DEF Demoted
<1>22. ~Found(E, c) => Kind(E, c) = "Nothing"
  BY DEF Kind
<1>23. Found(D, c) => D[c].event \notin Busy
  <2>1. at = Enter(c)
    BY DEF EnterCell
  <2>2. QED
    BY <1>5, <2>1 DEF Local
<1> HIDE DEF d, e, D, E, k, m, n, p
<1>24. /\ DescriptionFits(e)
       /\ d.type = "Cell" /\ d.event \in Removable => e.event \in Removable
       /\ Preserves(d, e)
       /\ d.event \in Adds => k = "Nothing" /\ ChildFits(e, "Descendant", FALSE, FALSE, TRUE)
       /\ d.event \in Refines => k \in { "Nothing", "Descendant" }
       /\ d.event \in Refines => TakesCells(e)
       /\ d.event \notin Adds \cup Refines => Retains(c, D[c], k, m, e)
  BY <1>1, <1>8, <1>9, <1>10, <1>11, <1>15, ParentFits
<1>25. ChildFits(e, Kind(E, c), n, FALSE, TRUE)
  <2>1. CASE d.event \in Adds
    <3>1. ~Found(D, c) /\ d.event \notin Refines
      BY <1>7, <1>24, <2>1 DEF Adds, Refines
    <3>2. IsNew(E[c], "Descendant")
      BY <1>13, <2>1, <3>1
    <3>3. Kind(E, c) = "Descendant"
      BY <1>16, <1>19, <3>2 DEF IsNew
    <3>4. ~n
      BY <1>21, <3>3
    <3>5. QED
      BY <1>8, <1>24, <2>1, <3>3, <3>4
  <2>2. CASE d.event \in Refines
    <3>1. d.event \notin Adds
      BY <2>2 DEF Adds, Refines
    <3>2. E[c] \in Description /\ E[c].type = "Cell"
      BY <1>13, <1>14, <2>2, <3>1 DEF IsNew, IsNowACell
    <3>3. Kind(E, c) = "Cell"
      BY <1>16, <1>19, <3>2
    <3>4. QED
      BY <1>8, <1>24, <2>2, <3>3 DEF TakesCells
  <2>3. CASE d.event \notin Adds \cup Refines
    <3>1. CASE ~Found(D, c)
      <4>1. ~Found(E, c)
        BY <1>13, <2>3, <3>1
      <4>2. Kind(E, c) = k /\ k = "Nothing"
        BY <1>7, <1>22, <3>1, <4>1
      <4>3. ChildFits(e, k, m, FALSE, FALSE)
        BY <1>8, <1>9, <1>24 DEF Preserves
      <4>4. d.event \in RefinementEvent /\ d.event \notin Coarsens /\ d.type # "Ancestor" /\ e.type = d.type
        <5>1. d.type # "Ancestor"
          BY <1>9, <4>2 DEF ChildFits
        <5>2. QED
          BY <1>1, <1>10, <1>11, <5>1 DEF DescriptionFits, Description, Like, d
      <4>5. e.event \notin Adds \cup Refines
        BY <1>13, <2>3, <3>1 DEF VetoedEvent, Adds, Refines
      <4>6. QED
        BY <4>2, <4>3, <4>4, <4>5 DEF ChildFits, Adds, Refines
    <3>2. CASE Found(D, c)
      <4>1. Like(D[c], E[c]) /\ OwnEvent(c, D[c], E[c].event)
        BY <1>14, <2>3, <3>2
      <4>2. Kind(E, c) = k /\ k = D[c].type /\ D[c] \in Description
        BY <1>5, <1>16, <1>18, <1>19, <3>2, <4>1 DEF Like, D
      <4>3. AsksCriterion(D[c]) => k = "Cell" /\ D[c].event \in Removable
        BY <4>2 DEF AsksCriterion, Removable
      <4>4. DescriptionFits(D[c])
        BY <1>5, <3>2 DEF Local, D
      <4>5. D[c].type = "Cell" /\ criterion[c] = "Erase" /\ D[c].event \in Removable
              => E[c].event \in Removable
        BY <1>23, <3>2, <4>1, <4>2, <4>4, OwnFits
      <4>6. m => n
        BY <1>20, <1>21, <4>2, <4>5
      <4>7. k = "Cell" /\ AsksCriterion(D[c]) /\ criterion[c] = "Erase" => n
        BY <1>21, <4>2, <4>3, <4>5
      <4>8. QED
        BY <1>8, <1>24, <2>3, <4>2, <4>3, <4>6, <4>7 DEF Retains
    <3>3. QED
      BY <3>1, <3>2
  <2>4. QED
    BY <2>1, <2>2, <2>3
<1>26. e.type = d.type /\ e.linked = d.linked
  BY <1>11 DEF Like
<1>27. d.event \in Refines /\ Found(D, c) => D[c].type = "Descendant"
  BY <1>7, <1>18, <1>24
<1>28. d.event \in Adds => ~Found(D, c)
  BY <1>7, <1>24
<1>29. QED
  BY <1>11, <1>12, <1>24, <1>25, <1>26, <1>27, <1>28 DEF d, e, D, E, n, p
(* The cell that is entered, and its children. *)
LEMMA EnterOwn ==
  ASSUME TypeOK, MeshInvariant, ChildrenHaveParents, NEW c \in Cell, EnterCell(c),
         EnterEffect(description, description', c), Found(description', c)
  PROVE  LET d == description[c]
             e == description[c]'
         IN  /\ DescriptionFits(e) /\ (Level(c) # 0 => e.linked)
             /\ e.event \notin { "Refining", "Augmenting" }
             /\ Found(description, c) => Opens(d, e)
             /\ ~Found(description, c) => \A m, q : ChildFits(e, "Nothing", m, q, FALSE)
<1> DEFINE p == Parent(c)
           D == description
           E == description'
           d == D[c]
           e == E[c]
<1>1. at = Enter(c)
  BY DEF EnterCell
<1>2. Level(c) # 0 /\ Found(D, c) => Found(D, p)
  BY ParentIsAnother DEF ChildrenHaveParents
<1>3. CASE Found(D, c)
  <2>1. d \in Description /\ DescriptionFits(d) /\ d.event \notin Busy /\ (Level(c) # 0 => d.linked)
    BY <1>1, <1>3, LocalFields DEF Local
  <2>2. \/ Like(d, e) /\ OwnEvent(c, d, e.event)
        \/ Level(c) # 0 /\ IsNowACell(d, e) /\ d.type = "Descendant"
    <3>1. CASE Level(c) = 0
      BY <1>3, <3>1 DEF EnterEffect
    <3>2. CASE Level(c) # 0
      <4>1. Found(D, p) /\ d.linked
        BY <1>2, <1>3, <2>1, <3>2
      <4>2. D[p].event \in Refines => d.type = "Descendant"
        BY <1>3, <4>1, EnterParent
      <4>3. QED
        BY <1>3, <3>2, <4>1, <4>2 DEF EnterEffect
    <3>3. QED
      BY <3>1, <3>2
  <2> HIDE DEF d, e, D, E
  <2>3. CASE Like(d, e) /\ OwnEvent(c, d, e.event)
    <3>1. /\ DescriptionFits(e) /\ e.event \notin { "Refining", "Augmenting" } /\ Opens(d, e)
      BY <2>1, <2>3, OwnFits
    <3>2. e.linked = d.linked
      BY <2>3 DEF Like
    <3>3. QED
      BY <1>3, <2>1, <3>1, <3>2 DEF d, e, D, E
  <2>4. CASE IsNowACell(d, e) /\ d.type = "Descendant"
    <3>1. DescriptionFits(e) /\ Opens(d, e)
      BY <2>1, <2>4, NowACellFits
    <3>2. e.linked = d.linked /\ e.event = "None"
      BY <2>4 DEF IsNowACell
    <3>3. QED
      BY <1>3, <2>1, <3>1, <3>2 DEF d, e, D, E
  <2>5. QED
    BY <2>2, <2>3, <2>4
<1>4. CASE ~Found(D, c)
  <2>1. /\ e.event = "None" /\ HasSolution(e) /\ e.type \in { "Cell", "Descendant" }
        /\ e.isAugmented = FALSE /\ (Level(c) # 0 => e.linked)
    <3>1. CASE Level(c) = 0
      BY <1>4, <3>1 DEF EnterEffect, IsNewBaseCell
    <3>2. CASE Level(c) # 0
      <4>1. Found(D, p)
        BY <1>4, <3>2 DEF EnterEffect
      <4>2. IsNew(e, "Descendant") \/ IsNew(e, "Cell")
        BY <1>4, <4>1 DEF EnterEffect
      <4>3. QED
        BY <4>2 DEF IsNew
    <3>3. QED
      BY <3>1, <3>2
  <2> HIDE DEF d, e, D, E
  <2>2. DescriptionFits(e) /\ \A m, q : ChildFits(e, "Nothing", m, q, FALSE)
    BY <2>1, NewFits
  <2>3. QED
    BY <1>4, <2>1, <2>2 DEF d, e, D, E
<1>5. QED
  BY <1>3, <1>4

(* enterCell keeps the invariant, if no description is orphaned. *)
LEMMA EnterKeepsMesh ==
  ASSUME TypeOK, MeshInvariant, ChildrenHaveParents, NEW c \in Cell, EnterCell(c)
  PROVE  MeshInvariant'
<1> DEFINE p == Parent(c)
           D == description
           E == description'
<1>1. /\ at = Enter(c) /\ UNCHANGED << runnerVars, refined, stable, fresh >>
  BY DEF EnterCell
<1>2. /\ phase' = phase /\ criterion' = criterion /\ stable' = stable /\ refined' = refined
  BY <1>1 DEF runnerVars
<1>3. EnterEffect(D, E, c)
  <2>1. PICK b \in BOOLEAN :
          E = UpdateStateInEnterCell(UpdateStateOfCell(Marked(D, c), c, b), c)
    BY DEF EnterCell
  <2>2. D \in Descriptions
    BY DEF TypeOK, Descriptions
  <2> HIDE DEF D, E
  <2>3. QED
    BY <2>1, <2>2, EnterCellEffect
<1>4. E \in Descriptions /\ Others(D, E, c)
  BY <1>3 DEF EnterEffect
<1>5. /\ c \in Path /\ ~Passed(c) /\ ~Entered(c)
      /\ Level(c) # 0 => p \in Path
      /\ \A f \in Offspring(c) : ~Passed(f) /\ ~Entered(f)
      /\ \A x \in Path : x \in Path' /\ at' # Enter(x)
      /\ \A x \in Path' : InGrid(x)'
      /\ \A x \in Cell : InGrid(x)' <=> InGrid(x)
      /\ \A y \in Cell : Passed(y)' <=> Passed(y) \/ (y \in Offspring(c) /\ ~InGrid(y))
      /\ \A y \in Cell : Entered(y)' <=> Entered(y) \/ y = c
      /\ \A x \in Path : ~Passed(x)
  <2>1. \A x \in Path : InGrid(x)
    BY DEF MeshInvariant
  <2>2. QED
    BY <2>1, EnterMoves
<1>6. \A y \in Cell : HasOffspring(y)' <=> HasOffspring(y)
  BY <1>2 DEF HasOffspring
<1>7. p # c /\ (Level(c) = 0 => p \notin Cell)
  BY ParentIsAnother
<1>8. Found(D, p) => Level(c) # 0 /\ p \in Path
  BY <1>5, <1>7 DEF Found
<1>9. InGrid(c)
  BY <1>5 DEF MeshInvariant
<1>10. ASSUME NEW y, Found(E, y), y # c PROVE Found(D, y) /\ y \in Cell
  BY <1>4, <1>10 DEF Others, Found
<1>11. ASSUME NEW y \in Cell, Found(E, y) PROVE Local(y)'
  <2>1. CASE y = c
    <3>1. /\ DescriptionFits(E[c]) /\ (Level(c) # 0 => E[c].linked)
          /\ E[c].event \notin { "Refining", "Augmenting" }
      BY <1>3, <1>11, <2>1, EnterOwn
    <3>2. InGrid(c)' /\ c \in Path' /\ at' # Enter(c)
      BY <1>5, <1>9
    <3>3. QED
      BY <2>1, <3>1, <3>2 DEF Local
  <2>2. CASE y # c
    <3>1. Found(D, y) /\ Local(y) /\ D[y] \in Description
      BY <1>10, <1>11, <2>2, LocalFields
    <3>2. InGrid(y)' /\ (y \in Path => y \in Path' /\ at' # Enter(y))
      BY <1>5, <3>1 DEF Local
    <3>3. CASE y = p
      <4>1. DescriptionFits(E[p]) /\ E[p].linked = D[p].linked /\ HasOffspring(p)
        BY <1>3, <3>1, <3>3, EnterParent
      <4>2. y \in Path
        BY <1>8, <3>1, <3>3
      <4>3. HasOffspring(y)'
        BY <1>6, <3>3, <4>1
      <4>4. QED
        BY <3>1, <3>2, <3>3, <4>1, <4>2, <4>3 DEF Local
    <3>4. CASE y # p
      <4>1. Keeps(D[y], E[y])
        BY <1>4, <2>2, <3>1, <3>4 DEF Others
      <4>2. /\ E[y].event = D[y].event /\ E[y].linked = D[y].linked
            /\ E[y].type = D[y].type /\ E[y].isAugmented = D[y].isAugmented
            /\ HasSolution(D[y]) => HasSolution(E[y])
        BY <4>1 DEF Keeps, Like
      <4>3. DescriptionFits(D[y]) => DescriptionFits(E[y])
        BY <4>2 DEF DescriptionFits
      <4>4. QED
        BY <1>6, <3>1, <3>2, <4>2, <4>3 DEF Local
    <3>5. QED
      BY <3>3, <3>4
  <2>3. QED
    BY <2>1, <2>2
<1>12. ASSUME NEW f \in Cell, f # c
       PROVE  /\ Kind(E, f) = Kind(D, f)
              /\ Demoted(criterion, D, f) => Demoted(criterion, E, f)
  <2>1. CASE ~Found(D, f)
    <3>1. ~Found(E, f)
      BY <1>4, <1>12, <2>1 DEF Others
    <3>2. QED
      BY <2>1, <3>1 DEF Kind, Demoted
  <2>2. CASE Found(D, f)
    <3>1. Found(E, f)
      BY <1>4, <1>12, <2>2 DEF Others
    <3>2. /\ E[f].type = D[f].type
          /\ D[f].type = "Cell" /\ D[f].event \in Removable => E[f].event \in Removable
      <4>1. CASE f = p
        BY <1>3, <2>2, <4>1, EnterParent
      <4>2. CASE f # p
        BY <1>4, <1>12, <2>2, <4>2 DEF Others, Keeps, Like
      <4>3. QED
        BY <4>1, <4>2
    <3>3. QED
      BY <2>2, <3>1, <3>2 DEF Kind, Demoted
  <2>3. QED
    BY <2>1, <2>2
<1>13. ASSUME NEW y \in Cell, Found(E, y), NEW f \in Offspring(y) PROVE ChildOK(y, f)'
  <2> DEFINE k == Kind(D, f)
             m == Demoted(criterion, D, f)
             n == Demoted(criterion, E, f)
             q == Passed(f)
             r == Entered(f)
  <2>1. f \in Cell /\ f # y /\ Parent(f) = y /\ Level(f) # 0
    BY OffspringIff
  <2>2. m \in BOOLEAN /\ n \in BOOLEAN /\ q \in BOOLEAN /\ r \in BOOLEAN
    BY DEF Demoted, Passed, Entered
  <2>3. Found(D, y) => ChildFits(D[y], k, m, q, r)
    BY LocalFields DEF ChildOK
  <2>4. ChildFits(E[y], Kind(E, f), n, Passed(f)', Entered(f)') => ChildOK(y, f)'
    BY <1>2 DEF ChildOK
  <2>5. CASE y = c
    <3>1. Kind(E, f) = k /\ (m => n) /\ ~q /\ ~r /\ (Passed(f)' => ~InGrid(f)) /\ ~Entered(f)'
      BY <1>5, <1>12, <2>1, <2>5
    <3>2. Passed(f)' => k = "Nothing"
      <4>1. Found(D, f) => InGrid(f)
        BY LocalFields DEF Local
      <4>2. QED
        BY <3>1, <4>1 DEF Kind
    <3>3. Passed(f)' \in BOOLEAN
      BY DEF Passed
    <3> DEFINE s == Passed(f)'
    <3>4. ChildFits(E[c], k, n, s, FALSE)
      <4>1. CASE Found(D, c)
        <5>1. Opens(D[c], E[c])
          BY <1>3, <1>13, <2>5, <4>1, EnterOwn
        <5>2. ChildFits(D[c], k, m, FALSE, FALSE)
          BY <2>3, <2>5, <3>1, <4>1 DEF ChildFits
        <5> HIDE DEF s, k, m, n, D, E
        <5>3. ChildFits(E[c], k, m, s, FALSE)
          BY <2>2, <3>2, <3>3, <5>1, <5>2 DEF Opens, s
        <5>4. QED
          BY <2>2, <3>1, <3>3, <5>3, DemotedMakesFit DEF s
      <4>2. CASE ~Found(D, c)
        <5>1. \A x, z : ChildFits(E[c], "Nothing", x, z, FALSE)
          BY <1>3, <1>13, <2>5, <4>2, EnterOwn
        <5>2. k = "Nothing"
          <6>1. ~Found(D, f)
            <7>1. Level(f) > 0
              BY <2>1, ParentIsAnother
            <7>2. QED
              BY <2>1, <2>5, <4>2, <7>1 DEF ChildrenHaveParents
          <6>2. QED
            BY <6>1 DEF Kind
        <5>3. QED
          BY <5>1, <5>2
      <4>3. QED
        BY <4>1, <4>2
    <3>5. QED
      BY <2>4, <2>5, <3>1, <3>4 DEF ChildFits
  <2>6. CASE y # c
    <3>1. Found(D, y) /\ (Passed(f)' <=> q)
      <4>1. f \notin Offspring(c)
        BY <2>1, <2>6, OffspringIff
      <4>2. QED
        BY <1>5, <1>10, <1>13, <2>1, <2>6, <4>1
    <3>2. CASE f = c
      <4>1. y = p /\ ~q /\ Entered(f)'
        BY <1>5, <2>1, <3>2
      <4>2. ChildFits(E[p], Kind(E, c), Demoted(criterion, E, c), FALSE, TRUE)
        BY <1>3, <3>1, <4>1, EnterParent
      <4>3. QED
        BY <2>4, <3>1, <3>2, <4>1, <4>2 DEF ChildFits
    <3>3. CASE f # c
      <4>1. Kind(E, f) = k /\ (m => n) /\ (Entered(f)' <=> r)
        BY <1>5, <1>12, <2>1, <3>3
      <4>2. Preserves(D[y], E[y])
        <5>1. CASE y = p
          BY <1>3, <3>1, <5>1, EnterParent
        <5>2. CASE y # p
          <6>1. Keeps(D[y], E[y])
            BY <1>4, <2>6, <3>1, <5>2 DEF Others
          <6>2. E[y].event = D[y].event /\ E[y].type = D[y].type /\ E[y].isAugmented = D[y].isAugmented
            BY <6>1 DEF Keeps, Like
          <6>3. QED
            BY <6>2 DEF Preserves, ChildFits, Plain
        <5>3. QED
          BY <5>1, <5>2
      <4>3. ChildFits(E[y], k, n, q, r)
        <5>1. ChildFits(D[y], k, m, q, r)
          BY <2>3, <3>1
        <5> HIDE DEF k, m, n, q, r, D, E
        <5>2. ChildFits(E[y], k, m, q, r)
          BY <2>2, <4>2, <5>1 DEF Preserves
        <5>3. QED
          BY <2>2, <4>1, <5>2, DemotedMakesFit
      <4>4. QED
        BY <2>4, <3>1, <4>1, <4>3 DEF ChildFits
    <3>4. QED
      BY <3>2, <3>3
  <2>7. QED
    BY <2>5, <2>6
<1>14. ASSUME stable', phase' = "Iteration", NEW y \in Cell, Found(E, y), Past(y)'
       PROVE  E[y].event = "None"
  <2>1. PICK z \in Chain(y) : Passed(z)'
    BY <1>14 DEF Past
  <2>2. z \in Cell
    BY <2>1, ChainIsLeast
  <2>3. Path = Chain(c)
    BY <1>1, PathOfCallback DEF Path
  <2>4. y \notin Path
    <3>1. ASSUME y \in Path PROVE FALSE
      <4>1. Chain(y) \subseteq Path
        BY <2>3, <3>1, ChainIsLeast
      <4>2. z \in Offspring(c)
        BY <1>5, <2>1, <2>2, <4>1
      <4>3. QED
        BY <2>1, <2>3, <4>1, <4>2, LeftOfChain
    <3>2. QED
      BY <3>1
  <2>5. y # c /\ y # p
    BY <1>5, <1>7, <2>4, <1>14
  <2>6. Found(D, y) /\ Keeps(D[y], E[y])
    BY <1>4, <1>10, <1>14, <2>5 DEF Others
  <2>7. InGrid(z)
    BY <2>1, <2>6, ChainIsFound, LocalFields DEF Local
  <2>8. Past(y)
    BY <1>5, <2>1, <2>2, <2>7 DEF Past
  <2>9. D[y].event = "None"
    BY <1>2, <1>14, <2>6, <2>8 DEF MeshInvariant
  <2>10. QED
    BY <2>6, <2>9 DEF Keeps
<1>15. phase' = "Iteration"
  <2>1. at # NoCallback
    BY <1>1, Callbacks
  <2>2. QED
    BY <1>2, <2>1 DEF MeshInvariant
<1>16. ~MeshIsFinal'
  BY <1>15 DEF MeshIsFinal
<1>17. QED
  BY <1>5, <1>11, <1>13, <1>14, <1>15, <1>16 DEF MeshInvariant
LEMMA ChainThrough ==
  ASSUME NEW y \in Cell, NEW c \in Chain(y), c # y
  PROVE  \E f \in Chain(y) : f \in Offspring(c)
<1>1. Chain(y) \subseteq Cell /\ y \in Chain(y)
  BY ChainIsLeast
<1>2. ~ClosedUpwards(Chain(y) \ {c})
  <2>1. ClosedUpwards(Chain(y) \ {c}) => Chain(y) \subseteq Chain(y) \ {c}
    BY <1>1, ChainIsLeast
  <2>2. QED
    BY <2>1
<1>3. PICK f \in Chain(y) \ {c} : Level(f) # 0 /\ Parent(f) \notin Chain(y) \ {c}
  BY <1>2 DEF ClosedUpwards
<1>4. Parent(f) = c
  BY <1>3, ChainIsLeast DEF ClosedUpwards
<1>5. QED
  BY <1>1, <1>3, <1>4, ParentIsACell

(* The cell that is left, if its description stays. *)
LEMMA LeaveOwn ==
  ASSUME TypeOK, MeshInvariant, NEW c \in Cell, ~Passed(c),
         LeaveEffect(description, description', c), Found(description, c), Found(description', c)
  PROVE  LET d == description[c]
             e == description[c]'
         IN  /\ DescriptionFits(e) /\ e.linked = d.linked /\ e.event \notin Busy
             /\ Closes(d, StartOrFinish(d)) /\ Preserves(StartOrFinish(d), e)
<1> DEFINE p == Parent(c)
           D == description
           E == description'
           d == D[c]
           e == E[c]
           s == StartOrFinish(d)
           changes == Level(c) # 0 /\ Found(D, p) /\ D[p].event = "ChangeChildrenToDescendants"
           erases == Level(c) # 0 /\ Found(D, p) /\ D[p].event \in ErasesChildren
<1>1. d \in Description /\ DescriptionFits(d)
  BY LocalFields DEF Local
<1>2. /\ s \in Description /\ DescriptionFits(s) /\ s.linked = d.linked /\ s.event \notin Busy
      /\ d.type = "Cell" /\ d.event \in Removable =>
           s.type = "Cell" /\ s.event \in { "None", "AugmentingRequested", "DeaugmentingChildren" }
      /\ Closes(d, s)
  <2> HIDE DEF d, D
  <2>1. QED
    BY <1>1, FinishFits
<1>3. /\ ~erases
      /\ ~changes => e = s
      /\ changes => IsNowADescendant(s, e)
  BY DEF LeaveEffect
<1>4. CASE ~changes
  <2>1. e = s
    BY <1>3, <1>4
  <2> HIDE DEF d, e, s, D, E, changes
  <2>2. Preserves(s, e)
    BY <2>1 DEF Preserves
  <2>3. QED
    BY <1>2, <2>1, <2>2 DEF d, e, s, D, E
<1>5. CASE changes
  <2>1. Level(c) # 0 /\ c \in Offspring(p) /\ Found(D, p)
    BY <1>5, ParentIsACell
  <2>2. ChildOK(p, c) /\ DescriptionFits(D[p])
    BY <2>1, LocalFields DEF Local
  <2>3. D[p].type = "Cell"
    BY <1>5, <2>2 DEF DescriptionFits
  <2>4. Demoted(criterion, D, c)
    BY <1>5, <2>2, <2>3 DEF ChildOK, ChildFits
  <2>5. d.type = "Cell" /\ d.event \in Removable
    BY <2>4 DEF Demoted, Kind
  <2>6. IsNowADescendant(s, e)
    BY <1>3, <1>5
  <2> HIDE DEF d, e, s, D, E, changes
  <2>7. DescriptionFits(e) /\ Preserves(s, e)
    BY <1>2, <2>5, <2>6, NowADescendantFits
  <2>8. e.linked = s.linked /\ e.event = s.event
    BY <2>6 DEF IsNowADescendant
  <2>9. QED
    BY <1>2, <2>7, <2>8 DEF d, e, s, D, E
<1>6. QED
  BY <1>4, <1>5

(* The cell that is left, as a child of its parent. *)
LEMMA LeaveParent ==
  ASSUME TypeOK, MeshInvariant, NEW c \in Cell, ~Passed(c), Entered(c), Level(c) # 0,
         LeaveEffect(description, description', c), Found(description, Parent(c))
  PROVE  ChildFits(description[Parent(c)], Kind(description', c),
                   Demoted(criterion, description', c), TRUE, TRUE)
<1> DEFINE p == Parent(c)
           D == description
           E == description'
           d == D[p]
           s == StartOrFinish(D[c])
           k == Kind(D, c)
           m == Demoted(criterion, D, c)
           l == Kind(E, c)
           n == Demoted(criterion, E, c)
           ordinary == d.event \notin ErasesChildren \cup { "ChangeChildrenToDescendants" }
<1>1. c \in Offspring(p)
  BY ParentIsACell
<1>2. DescriptionFits(d) /\ ChildFits(d, k, m, Passed(c), Entered(c))
  BY <1>1, LocalFields DEF Local, ChildOK
<1>3. Passed(c) = FALSE /\ Entered(c) = TRUE
  BY DEF Passed, Entered
<1>4. ChildFits(d, k, m, FALSE, TRUE)
  BY <1>2, <1>3
<1>5. m \in BOOLEAN /\ n \in BOOLEAN
  BY DEF Demoted
<1>6. CASE ~Found(D, c)
  <2>1. E = D
    BY <1>6 DEF LeaveEffect
  <2>2. l = "Nothing" /\ k = "Nothing" /\ ~m /\ ~n
    BY <1>6, <2>1 DEF Kind, Demoted
  <2> HIDE DEF d, k, l, m, n, D, E
  <2>3. ChildFits(d, l, n, TRUE, TRUE)
    BY <1>2, <1>4, <1>5, <2>2, LeftFits
  <2>4. QED
    BY <2>3 DEF d, l, n, D, E
<1>7. CASE Found(D, c)
  <2>1. D[c] \in Description /\ DescriptionFits(D[c])
    BY <1>7, LocalFields DEF Local
  <2>2. /\ s \in Description /\ DescriptionFits(s)
        /\ D[c].type = "Descendant" <=> s.type = "Descendant"
        /\ D[c].type = "Cell" /\ D[c].event \in Removable =>
             s.type = "Cell" /\ s.event \in { "None", "AugmentingRequested", "DeaugmentingChildren" }
    <3> HIDE DEF D
    <3>1. QED
      BY <2>1, FinishFits
  <2>3. /\ Found(E, c) <=> d.event \notin ErasesChildren
        /\ ordinary => E[c] = s
        /\ d.event \notin ErasesChildren /\ d.event = "ChangeChildrenToDescendants" => IsNowADescendant(s, E[c])
    BY <1>7 DEF LeaveEffect
  <2>4. k = D[c].type
    BY <1>7 DEF Kind
  <2>5. d.event \in ErasesChildren => l = "Nothing"
    BY <2>3 DEF Kind
  <2>6. d.event = "ChangeChildrenToDescendants" => l = "Descendant"
    <3>1. "ChangeChildrenToDescendants" \notin ErasesChildren
      BY DEF ErasesChildren
    <3>2. QED
      BY <2>3, <3>1 DEF Kind, IsNowADescendant
  <2>7. ordinary => l = s.type
    BY <2>3 DEF Kind
  <2>8. k # "Nothing" /\ s.type \in { "Ancestor", "Cell", "Descendant" }
    BY <2>1, <2>2, <2>4 DEF Description, Type, DescriptionFits
  <2>9. ordinary /\ m => n
    <3>1. m => D[c].type = "Cell" /\ criterion[c] = "Erase" /\ D[c].event \in Removable
      BY <2>4 DEF Demoted
    <3>2. ordinary /\ s.event \in Removable /\ s.type = "Cell" /\ criterion[c] = "Erase" => n
      BY <2>3, <2>7 DEF Demoted
    <3>3. { "None", "AugmentingRequested", "DeaugmentingChildren" } \subseteq Removable
      BY DEF Removable
    <3>4. QED
      BY <2>2, <3>1, <3>2, <3>3
  <2>10. ordinary => /\ k \in { "Ancestor", "Cell" } => l \in { "Ancestor", "Cell" }
                     /\ k = "Descendant" => l = "Descendant"
    BY <2>2, <2>4, <2>7, <2>8
  <2> HIDE DEF d, s, k, l, m, n, D, E
  <2>11. ChildFits(d, l, n, TRUE, TRUE)
    BY <1>2, <1>4, <1>5, <2>5, <2>6, <2>8, <2>9, <2>10, LeftFits
  <2>12. QED
    BY <2>11 DEF d, l, n, D, E
<1>8. QED
  BY <1>6, <1>7
(* leaveCell keeps the invariant, if no description is orphaned. *)
LEMMA LeaveKeepsMesh ==
  ASSUME TypeOK, MeshInvariant, ChildrenHaveParents, ChildrenHaveParents',
         NEW c \in Cell, LeaveCell(c)
  PROVE  MeshInvariant'
<1> DEFINE D == description
           E == description'
           s == StartOrFinish(D[c])
<1>1. /\ at = Leave(c) /\ E = UpdateStateInLeaveCell(D, c)
      /\ stable' => stable /\ (Found(E, c) => E[c].event = "None")
      /\ phase' = phase /\ criterion' = criterion /\ refined' = refined
  BY DEF LeaveCell, AttainedStableState, runnerVars
<1>2. LeaveEffect(D, E, c)
  <2>1. D \in Descriptions
    BY DEF TypeOK, Descriptions
  <2> HIDE DEF D, E
  <2>2. QED
    BY <1>1, <2>1, LeaveCellEffect
<1>3. phase = "Iteration"
  BY <1>1, Callbacks DEF MeshInvariant
<1>4. /\ c \in Path /\ ~Passed(c) /\ Entered(c) /\ InGrid(c)
      /\ \A f \in Offspring(c) : Passed(f) /\ (InGrid(f) => Entered(f))
      /\ \A x \in Path : x # c => x \in Path' /\ at' # Enter(x)
      /\ \A x \in Path' : InGrid(x)'
      /\ \A x \in Cell : InGrid(x)' <=> InGrid(x)
      /\ \A y \in Cell : Passed(y)' <=> (Passed(y) /\ y \notin Offspring(c)) \/ y = c
      /\ \A y \in Cell : Entered(y)' <=> Entered(y) /\ y \notin Offspring(c)
  <2>1. \A x \in Path : InGrid(x)
    BY DEF MeshInvariant
  <2>2. QED
    BY <1>3, <2>1, LeaveMoves
<1>5. \A y \in Cell : HasOffspring(y)' <=> HasOffspring(y)
  BY <1>1 DEF HasOffspring
<1>6. ASSUME NEW y, y # c, Found(E, y) PROVE y \in Cell /\ Found(D, y) /\ E[y] = D[y]
  <2>1. y \in Cell /\ Found(D, y)
    BY <1>2, <1>6 DEF LeaveEffect, Found
  <2>2. CASE Found(E, c) \/ ~Found(D, c)
    BY <1>2, <1>6, <2>1, <2>2 DEF LeaveEffect
  <2>3. CASE ~Found(E, c)
    <3>1. y \notin Offspring(c)
      <4>1. ASSUME y \in Offspring(c) PROVE FALSE
        <5>1. Level(y) > 0 /\ Parent(y) = c
          BY <2>1, <4>1, OffspringIff, ParentIsAnother
        <5>2. QED
          BY <1>6, <2>1, <2>3, <5>1 DEF ChildrenHaveParents
      <4>2. QED
        BY <4>1
    <3>2. QED
      BY <1>2, <1>6, <2>1, <3>1 DEF LeaveEffect
  <2>4. QED
    BY <2>2, <2>3
<1>7. ASSUME NEW f \in Cell, f # c
      PROVE  Kind(E, f) = Kind(D, f) /\ (Demoted(criterion, E, f) <=> Demoted(criterion, D, f))
  <2>1. Found(E, f) <=> Found(D, f)
    BY <1>2, <1>7 DEF LeaveEffect
  <2>2. Found(E, f) => E[f] = D[f]
    BY <1>6, <1>7
  <2>3. QED
    BY <2>1, <2>2 DEF Kind, Demoted
<1>8. Found(E, c) => Found(D, c)
  BY <1>2 DEF LeaveEffect
<1>9. ASSUME NEW y \in Cell, Found(E, y) PROVE Local(y)'
  <2>1. Found(D, y) /\ Local(y)
    BY <1>6, <1>8, <1>9, LocalFields
  <2>2. CASE y = c
    <3>1. DescriptionFits(E[c]) /\ E[c].linked = D[c].linked /\ E[c].event \notin Busy
      BY <1>2, <1>4, <1>9, <2>1, <2>2, LeaveOwn
    <3>2. E[c].event \notin { "Refining", "Augmenting" }
      BY <3>1 DEF Busy
    <3>3. QED
      BY <1>4, <2>1, <2>2, <3>1, <3>2 DEF Local
  <2>3. CASE y # c
    <3>1. E[y] = D[y]
      BY <1>6, <1>9, <2>3
    <3>2. QED
      BY <1>4, <1>5, <2>1, <2>3, <3>1 DEF Local
  <2>4. QED
    BY <2>2, <2>3
<1>10. ASSUME NEW y \in Cell, Found(E, y), NEW f \in Offspring(y) PROVE ChildOK(y, f)'
  <2> DEFINE k == Kind(D, f)
             m == Demoted(criterion, D, f)
             q == Passed(f)
             r == Entered(f)
  <2>1. f \in Cell /\ f # y /\ Parent(f) = y /\ Level(f) # 0
    BY OffspringIff
  <2>2. Found(D, y) /\ ChildFits(D[y], k, m, q, r)
    BY <1>6, <1>8, <1>10, LocalFields DEF ChildOK
  <2>3. ChildFits(E[y], Kind(E, f), Demoted(criterion, E, f), Passed(f)', Entered(f)') => ChildOK(y, f)'
    BY <1>1 DEF ChildOK
  <2>4. m \in BOOLEAN /\ q \in BOOLEAN /\ r \in BOOLEAN
    BY DEF Demoted, Passed, Entered
  <2>5. CASE y = c
    <3>1. q /\ ~Passed(f)' /\ ~Entered(f)' /\ (InGrid(f) => r)
      BY <1>4, <2>1, <2>5
    <3>2. k # "Nothing" => r
      <4>1. Found(D, f) => InGrid(f)
        BY LocalFields DEF Local
      <4>2. QED
        BY <3>1, <4>1 DEF Kind
    <3>3. D[c].event \in { "Refining", "Augmenting" } => r
      <4>1. D[c].event \in { "Refining", "Augmenting" } => HasOffspring(c)
        BY <2>2, <2>5, LocalFields DEF Local
      <4>2. HasOffspring(c) => InGrid(f)
        BY <2>1, <2>5 DEF HasOffspring, InGrid
      <4>3. QED
        BY <3>1, <4>1, <4>2
    <3>4. Closes(D[c], s) /\ Preserves(s, E[c])
      BY <1>2, <1>4, <1>10, <2>2, <2>5, LeaveOwn
    <3>5. Kind(E, f) = k /\ (Demoted(criterion, E, f) <=> m)
      BY <1>7, <2>1, <2>5
    <3>6. q = TRUE
      BY <2>4, <3>1
    <3>7. ChildFits(D[c], k, m, TRUE, r)
      BY <2>2, <2>5, <3>6
    <3>8. ChildFits(E[c], k, m, FALSE, FALSE)
      <4> HIDE DEF D, E, s, k, m, q, r
      <4>1. ChildFits(s, k, m, FALSE, FALSE)
        BY <2>4, <3>2, <3>3, <3>4, <3>7 DEF Closes
      <4>2. QED
        BY <2>4, <3>4, <4>1 DEF Preserves
    <3>9. QED
      BY <2>3, <2>5, <3>1, <3>5, <3>8 DEF ChildFits
  <2>6. CASE y # c /\ f = c
    <3>1. c \notin Offspring(c)
      BY OffspringIff
    <3>2. Passed(c)' /\ Entered(c)'
      BY <1>4, <3>1
    <3>3. E[y] = D[y] /\ y = Parent(c) /\ Level(c) # 0
      BY <1>6, <1>10, <2>1, <2>6
    <3>4. ChildFits(D[y], Kind(E, c), Demoted(criterion, E, c), TRUE, TRUE)
      BY <1>2, <1>4, <2>2, <3>3, LeaveParent
    <3>5. QED
      BY <2>3, <2>6, <3>2, <3>3, <3>4 DEF ChildFits
  <2>7. CASE y # c /\ f # c
    <3>1. f \notin Offspring(c)
      BY <2>1, <2>7, OffspringIff
    <3>2. (Passed(f)' <=> q) /\ (Entered(f)' <=> r)
      BY <1>4, <2>1, <2>7, <3>1
    <3>3. E[y] = D[y] /\ Kind(E, f) = k /\ (Demoted(criterion, E, f) <=> m)
      BY <1>6, <1>7, <1>10, <2>1, <2>7
    <3>4. QED
      BY <2>2, <2>3, <3>2, <3>3 DEF ChildFits
  <2>8. QED
    BY <2>5, <2>6, <2>7
<1>11. ASSUME stable', NEW y \in Cell, Found(E, y), Past(y)' PROVE E[y].event = "None"
  <2>1. stable /\ (Found(E, c) => E[c].event = "None")
    BY <1>1, <1>11
  <2>2. CASE y = c
    BY <1>11, <2>1, <2>2
  <2>3. CASE y # c
    <3>1. Found(D, y) /\ E[y] = D[y]
      BY <1>6, <1>11, <2>3
    <3>2. PICK z \in Chain(y) : Passed(z)'
      BY <1>11 DEF Past
    <3>3. z \in Cell
      BY <3>2, ChainIsLeast
    <3>4. CASE z = c
      <4>1. PICK f \in Chain(y) : f \in Offspring(c)
        BY <2>3, <3>2, <3>4, ChainThrough
      <4>2. Past(y)
        BY <1>4, <4>1 DEF Past
      <4>3. QED
        BY <1>3, <2>1, <3>1, <4>2 DEF MeshInvariant
    <3>5. CASE z # c
      <4>1. Past(y)
        BY <1>4, <3>2, <3>3, <3>5 DEF Past
      <4>2. QED
        BY <1>3, <2>1, <3>1, <4>1 DEF MeshInvariant
    <3>6. QED
      BY <3>4, <3>5
  <2>4. QED
    BY <2>2, <2>3
<1>12. phase' = "Iteration" /\ ~MeshIsFinal'
  BY <1>1, <1>3 DEF MeshIsFinal
<1>13. QED
  BY <1>4, <1>9, <1>10, <1>11, <1>12 DEF MeshInvariant
(* Between two sweeps, and before and after them, no cell is open. *)
LEMMA Between ==
  ASSUME at = NoCallback
  PROVE  /\ Path = {}
         /\ \A y \in Cell : Level(y) # 0 => ~Passed(y) /\ ~Entered(y)
<1>1. Path = {}
  BY DEF Path, PathTo
<1>2. ASSUME NEW y \in Cell, Level(y) # 0 PROVE ~Passed(y)
  BY <1>2, Callbacks DEF Passed
<1>3. QED
  BY <1>1, <1>2 DEF Entered

LEMMA NotBusyBetween ==
  ASSUME MeshInvariant, at = NoCallback, NEW y \in Cell, Found(description, y)
  PROVE  description[y].event \notin Busy
BY Between DEF MeshInvariant, Local

LEMMA InitMesh == Init => MeshInvariant
<1> SUFFICES ASSUME Init PROVE MeshInvariant
  OBVIOUS
<1>1. \A c \in Cell : ~Found(description, c)
  BY DEF Init, Found
<1>2. at = NoCallback /\ phase = "TimeSteps"
  BY DEF Init
<1>3. Path = {}
  BY <1>2, Between
<1>4. QED
  BY <1>1, <1>2, <1>3 DEF MeshInvariant

(* A sweep begins at the first base cell: no cell is passed or entered. *)
LEMMA BeginMoves ==
  ASSUME BeginIteration
  PROVE  /\ \A x \in Path' : InGrid(x)'
         /\ \A y \in Cell : ~Passed(y)' /\ ~Entered(y)'
<1> DEFINE b == IF forward THEN << 0, Cells - 1 >> ELSE << 0, 0 >>
<1>1. at' = Enter(b) /\ forward' = ~forward /\ phase' = "Iteration"
  BY DEF BeginIteration
<1>2. b \in Cell /\ Level(b) = 0
  <2>1. b \in Base
    BY BaseInterval
  <2>2. QED
    BY <2>1 DEF Base
<1>3. \A y \in Cell : Level(y) = 0 => ~Precedes(forward', y, b)
  <2>1. ASSUME NEW y \in Cell, Level(y) = 0 PROVE ~Precedes(forward', y, b)
    <3>1. y \in Base
      BY <2>1 DEF Base
    <3>2. y \in Interval(0, 0, Cells - 1) /\ Cells - 1 \in Nat /\ 0 \in Nat
      BY <3>1, BaseInterval
    <3>3. y[2] \in 0..(Cells - 1) /\ Cells \in Nat
      BY <3>2, InInterval, RefinementEventsAssumption
    <3>4. CASE forward
      <4>1. b[2] = Cells - 1 /\ ~(b[2] < y[2])
        BY <3>3, <3>4
      <4>2. QED
        BY <1>1, <3>4, <4>1 DEF Precedes
    <3>5. CASE ~forward
      <4>1. b[2] = 0 /\ ~(y[2] < b[2])
        BY <3>3, <3>5
      <4>2. QED
        BY <1>1, <3>5, <4>1 DEF Precedes
    <3>6. QED
      BY <3>4, <3>5
  <2>2. QED
    BY <2>1
<1> HIDE DEF b
<1>4. Chain(b) = {b}
  BY <1>2, ChainStep
<1>5. Path' = {b}
  BY <1>1, <1>4, PathOfCallback DEF Path
<1>6. \A y \in Cell : ~LeftIn(forward', b, y)
  BY <1>2, <1>3, <1>4 DEF LeftIn, Sibling
<1>7. \A y : Passed(y)' <=> \/ at' # NoCallback /\ LeftIn(forward', at'[2], y)
                            \/ Level(y) # 0 /\ at' = Leave(Parent(y))
                            \/ at' = NoCallback /\ phase' = "Iteration" /\ Level(y) = 0
  BY DEF Passed, Left
<1>8. \A y \in Cell : ~Passed(y)'
  BY <1>1, <1>6, <1>7, Callbacks
<1>9. \A y \in Cell : ~Entered(y)'
  BY <1>1, <1>5, <1>8 DEF Entered
<1>10. QED
  BY <1>2, <1>5, <1>8, <1>9 DEF InGrid

LEMMA BeginKeepsMesh ==
  ASSUME TypeOK, MeshInvariant, BeginIteration
  PROVE  MeshInvariant'
<1>1. /\ at = NoCallback /\ phase' = "Iteration" /\ description' = description
      /\ criterion' = criterion /\ refined \subseteq refined'
  BY DEF BeginIteration
<1>2. /\ \A x \in Path' : InGrid(x)'
      /\ \A y \in Cell : ~Passed(y)' /\ ~Entered(y)'
  BY BeginMoves
<1>3. ASSUME NEW y \in Cell, Found(description', y) PROVE Local(y)'
  <2>1. Local(y) /\ description[y].event \notin Busy
    BY <1>1, <1>3, LocalFields, NotBusyBetween
  <2>2. InGrid(y)'
    BY <1>1, <2>1 DEF Local, InGrid
  <2>3. QED
    BY <1>1, <2>1, <2>2 DEF Local, Busy
<1>4. ASSUME NEW y \in Cell, Found(description', y), NEW f \in Offspring(y) PROVE ChildOK(y, f)'
  <2>1. f \in Cell /\ Level(f) # 0
    BY OffspringIff
  <2>2. ~Passed(f) /\ ~Entered(f) /\ ~Passed(f)' /\ ~Entered(f)'
    BY <1>1, <1>2, <2>1, Between
  <2>3. ChildOK(y, f)
    BY <1>1, <1>4, LocalFields
  <2>4. QED
    BY <1>1, <2>2, <2>3 DEF ChildOK, ChildFits
<1>5. ASSUME NEW y \in Cell PROVE ~Past(y)'
  BY <1>2, ChainIsLeast DEF Past
<1>6. ~MeshIsFinal'
  BY <1>1 DEF MeshIsFinal
<1>7. QED
  BY <1>1, <1>2, <1>3, <1>4, <1>5, <1>6 DEF MeshInvariant

(* A mesh is final after a sweep that left only cells without an event. *)
LEMMA EndKeepsMesh ==
  ASSUME TypeOK, MeshInvariant, EndIteration
  PROVE  MeshInvariant'
<1>1. /\ at = NoCallback /\ at' = NoCallback /\ description' = description /\ phase = "Iteration"
      /\ criterion' = criterion /\ refined' = refined /\ phase' # "Iteration"
  BY DEF EndIteration
<1>2. /\ Path = {} /\ Path' = {}
      /\ \A y \in Cell : Level(y) # 0 => ~Passed(y) /\ ~Entered(y) /\ ~Passed(y)' /\ ~Entered(y)'
  <2>1. Path' = {}
    BY <1>1 DEF Path, PathTo
  <2>2. ASSUME NEW y \in Cell, Level(y) # 0 PROVE ~Passed(y)'
    BY <1>1, <2>2, Callbacks DEF Passed
  <2>3. QED
    BY <1>1, <2>1, <2>2, Between DEF Entered
<1>3. ASSUME NEW y \in Cell, Found(description', y) PROVE Local(y)'
  <2>1. Local(y) /\ description[y].event \notin Busy
    BY <1>1, <1>3, LocalFields, NotBusyBetween
  <2>2. QED
    BY <1>1, <2>1 DEF Local, InGrid, Busy
<1>4. ASSUME NEW y \in Cell, Found(description', y), NEW f \in Offspring(y) PROVE ChildOK(y, f)'
  <2>1. f \in Cell /\ Level(f) # 0
    BY OffspringIff
  <2>2. ChildOK(y, f)
    BY <1>1, <1>4, LocalFields
  <2>3. QED
    BY <1>1, <1>2, <2>1, <2>2 DEF ChildOK, ChildFits
<1>5. ASSUME MeshIsFinal', NEW y \in Cell, Found(description', y)
      PROVE  description'[y].event = "None"
  <2>1. stable
    BY <1>5 DEF EndIteration, MeshIsFinal, OneMoreIteration
  <2>2. PICK b \in Chain(y) : Level(b) = 0
    BY ChainBase
  <2>3. Passed(b)
    BY <1>1, <2>2 DEF Passed
  <2>4. Past(y)
    BY <2>2, <2>3 DEF Past
  <2>5. QED
    BY <1>1, <1>5, <2>1, <2>4 DEF MeshInvariant
<1>6. QED
  BY <1>1, <1>2, <1>3, <1>4, <1>5 DEF MeshInvariant

LEMMA FinaliseKeepsMesh ==
  ASSUME TypeOK, MeshInvariant, FinaliseMeshRefinement
  PROVE  MeshInvariant'
<1> DEFINE final(c) == [ description[c] EXCEPT !.newlyCreated = FALSE ]
<1>1. /\ at = NoCallback /\ at' = NoCallback /\ MeshIsFinal
      /\ criterion' = criterion /\ refined' = refined /\ phase' # "Iteration"
  BY DEF FinaliseMeshRefinement, MeshInvariant, MeshIsFinal
<1>2. \A c \in Cell : Found(description, c) =>
        /\ final(c) \in Description /\ final(c).type = description[c].type
        /\ final(c).event = description[c].event
        /\ final(c).isAugmented = description[c].isAugmented
        /\ final(c).memory = description[c].memory /\ final(c).linked = description[c].linked
  <2>1. \A c \in Cell : Found(description, c) => description[c] \in Description
    BY LocalFields
  <2>2. QED
    BY <2>1 DEF Description
<1> HIDE DEF final
<1>3. description' = [ c \in Cell |-> IF Found(description, c) THEN final(c) ELSE NotFound ]
  BY DEF FinaliseMeshRefinement, final
<1>4. ASSUME NEW y
      PROVE  /\ Found(description', y) <=> Found(description, y)
             /\ Found(description, y) =>
                  /\ description'[y].type = description[y].type
                  /\ description'[y].event = description[y].event
                  /\ description'[y].isAugmented = description[y].isAugmented
                  /\ description'[y].memory = description[y].memory
                  /\ description'[y].linked = description[y].linked
  <2>1. CASE y \in Cell /\ Found(description, y)
    <3>1. description'[y] = final(y)
      BY <1>3, <2>1
    <3>2. QED
      BY <1>2, <2>1, <3>1, NotFoundAssumption DEF Found
  <2>2. CASE y \in Cell /\ ~Found(description, y)
    BY <1>3, <2>2 DEF Found
  <2>3. CASE y \notin Cell
    BY <2>3 DEF Found
  <2>4. QED
    BY <2>1, <2>2, <2>3
<1>5. /\ Path' = {}
      /\ \A y \in Cell : Level(y) # 0 => ~Passed(y) /\ ~Entered(y) /\ ~Passed(y)' /\ ~Entered(y)'
  <2>1. Path' = {}
    BY <1>1 DEF Path, PathTo
  <2>2. ASSUME NEW y \in Cell, Level(y) # 0 PROVE ~Passed(y)'
    BY <1>1, <2>2, Callbacks DEF Passed
  <2>3. QED
    BY <1>1, <2>1, <2>2, Between DEF Entered
<1>6. ASSUME NEW y \in Cell, Found(description', y)
      PROVE  Local(y)' /\ description'[y].event = "None"
  <2>1. Local(y) /\ description[y].event = "None"
    BY <1>1, <1>4, <1>6, LocalFields DEF MeshInvariant
  <2>2. DescriptionFits(description'[y])
    BY <1>4, <1>6, <2>1 DEF Local, DescriptionFits, HasSolution
  <2>3. QED
    BY <1>1, <1>4, <1>6, <2>1, <2>2 DEF Local, InGrid, Busy, Coarsens, Deaugments
<1>7. ASSUME NEW y \in Cell, Found(description', y), NEW f \in Offspring(y) PROVE ChildOK(y, f)'
  <2>1. f \in Cell /\ Level(f) # 0
    BY OffspringIff
  <2>2. ChildOK(y, f) /\ Found(description, y)
    BY <1>4, <1>7, LocalFields
  <2>3. Kind(description', f) = Kind(description, f)
    BY <1>4 DEF Kind
  <2>4. Demoted(criterion, description', f) <=> Demoted(criterion, description, f)
    BY <1>4, <2>3 DEF Demoted, Kind
  <2>5. QED
    BY <1>1, <1>4, <1>5, <2>1, <2>2, <2>3, <2>4 DEF ChildOK, ChildFits, Plain
<1>8. QED
  BY <1>1, <1>5, <1>6, <1>7 DEF MeshInvariant

LEMMA StartKeepsMesh ==
  ASSUME TypeOK, MeshInvariant, StartMeshUpdate
  PROVE  MeshInvariant'
<1>1. /\ at = NoCallback /\ at' = NoCallback /\ description' = description /\ MeshIsFinal
      /\ refined' = refined /\ phase' = "Mesh"
  BY DEF StartMeshUpdate, MeshInvariant, MeshIsFinal
<1>2. /\ Path' = {}
      /\ \A y \in Cell : Level(y) # 0 => ~Passed(y) /\ ~Entered(y) /\ ~Passed(y)' /\ ~Entered(y)'
  <2>1. Path' = {}
    BY <1>1 DEF Path, PathTo
  <2>2. ASSUME NEW y \in Cell, Level(y) # 0 PROVE ~Passed(y)'
    BY <1>1, <2>2, Callbacks DEF Passed
  <2>3. QED
    BY <1>1, <2>1, <2>2, Between DEF Entered
<1>3. ASSUME NEW y \in Cell, Found(description', y)
      PROVE  Local(y)' /\ description[y].event = "None"
  <2>1. Local(y) /\ description[y].event = "None"
    BY <1>1, <1>3, LocalFields DEF MeshInvariant
  <2>2. QED
    BY <1>1, <2>1 DEF Local, InGrid, Busy, Coarsens, Deaugments
<1>4. ASSUME NEW y \in Cell, Found(description', y), NEW f \in Offspring(y) PROVE ChildOK(y, f)'
  <2>1. f \in Cell /\ Level(f) # 0
    BY OffspringIff
  <2>2. ChildOK(y, f) /\ description[y].event = "None"
    BY <1>1, <1>3, <1>4, LocalFields
  <2>3. QED
    BY <1>1, <1>2, <2>1, <2>2 DEF ChildOK, ChildFits
<1>5. ~MeshIsFinal'
  BY <1>1 DEF MeshIsFinal
<1>6. QED
  BY <1>1, <1>2, <1>3, <1>4, <1>5 DEF MeshInvariant

(***************************************************************************)
(* The invariant is inductive, as long as no description is orphaned.      *)
(***************************************************************************)
LEMMA NextKeepsMesh ==
  TypeOK /\ MeshInvariant /\ ChildrenHaveParents /\ ChildrenHaveParents' /\ [Next]_vars
    => MeshInvariant'
<1> SUFFICES ASSUME TypeOK, MeshInvariant, ChildrenHaveParents, ChildrenHaveParents', [Next]_vars
             PROVE  MeshInvariant'
  OBVIOUS
<1>1. ASSUME NEW c \in Cell, EnterCell(c) PROVE MeshInvariant'
  BY <1>1, EnterKeepsMesh
<1>2. ASSUME NEW c \in Cell, LeaveCell(c) PROVE MeshInvariant'
  BY <1>2, LeaveKeepsMesh
<1>3. CASE BeginIteration
  BY <1>3, BeginKeepsMesh
<1>4. CASE EndIteration
  BY <1>4, EndKeepsMesh
<1>5. CASE FinaliseMeshRefinement
  BY <1>5, FinaliseKeepsMesh
<1>6. CASE StartMeshUpdate
  BY <1>6, StartKeepsMesh
<1>7. CASE UNCHANGED vars
  BY <1>7 DEF vars, MeshInvariant, Local, ChildOK, Path, Passed, Entered, Past, Left, InGrid,
              HasOffspring, MeshIsFinal
<1>8. QED
  BY <1>1, <1>2, <1>3, <1>4, <1>5, <1>6, <1>7 DEF Next, Terminating
-----------------------------------------------------------------------------
(***************************************************************************)
(* What follows from the invariant.                                        *)
(***************************************************************************)
LEMMA EventsFit == TypeOK /\ MeshInvariant => EventFitsType
<1> SUFFICES ASSUME TypeOK, MeshInvariant, NEW c \in Cell, Found(description, c)
             PROVE  LET d == description[c]
                    IN  CASE d.event \in { "ErasingChildrenRequested",
                               "ChangeChildrenToDescendantsRequested" } -> d.type = "Ancestor"
                          [] d.event \in { "RefiningRequested", "Refining", "ErasingChildren",
                               "ChangeChildrenToDescendants" } -> d.type = "Cell"
                          [] d.event = "None" -> TRUE
                          [] OTHER -> d.type \in { "Cell", "Descendant" }
  BY DEF EventFitsType
<1>1. description[c] \in Description /\ DescriptionFits(description[c])
  BY LocalFields DEF Local
<1>2. description[c].type \in { "Ancestor", "Cell", "Descendant" }
  BY <1>1 DEF Description, Type, DescriptionFits
<1>3. QED
  BY <1>1, <1>2 DEF DescriptionFits, Coarsens, Refines

LEMMA KindOf ==
  ASSUME NEW f \in Cell, NEW types
  PROVE  /\ Kind(description, f) \in types /\ "Nothing" \notin types => IsA(f, types)
         /\ Kind(description, f) = "Nothing" /\ TypeOK => ~Found(description, f)
<1>1. TypeOK /\ Found(description, f) => description[f].type # "Nothing"
  BY NotFoundAssumption DEF TypeOK, Found, Description, Type
<1>2. QED
  BY <1>1 DEF Kind, IsA

LEMMA OnlyDescendants == TypeOK /\ MeshInvariant => OnlyDescendantsAreReplaced
<1> SUFFICES ASSUME TypeOK, MeshInvariant, NEW c \in Cell, IsA(c, {"Cell", "Descendant"}),
                    description[c].event \in
                      { "RefiningRequested", "AugmentingRequested", "Augmenting",
                        "DeaugmentingChildrenRequested", "DeaugmentingChildren" },
                    NEW f \in Offspring(c), Found(description, f)
             PROVE  IsA(f, {"Descendant"})
  BY DEF OnlyDescendantsAreReplaced
<1>1. ChildOK(c, f) /\ description[c].type # "Ancestor" /\ f \in Cell
  BY LocalFields, OffspringIff DEF IsA
<1>2. Kind(description, f) \in { "Nothing", "Descendant" }
  BY <1>1 DEF ChildOK, ChildFits, Plain, Deaugments
<1>3. Kind(description, f) # "Nothing"
  BY <1>1, KindOf
<1>4. QED
  BY <1>1, <1>2, <1>3, KindOf

LEMMA SolutionsAreFound == TypeOK /\ MeshInvariant => RestrictionFindsSolutions
<1> SUFFICES ASSUME TypeOK, MeshInvariant, NEW c \in Cell, at = Leave(c), Level(c) > 0,
                    Found(description, c), Found(description, Parent(c)),
                    description[Parent(c)].event \in
                      { "ErasingChildren", "ChangeChildrenToDescendants" }
             PROVE  "volume" \in StartOrFinish(description[c]).memory
                                   \cap description[Parent(c)].memory
  BY DEF RestrictionFindsSolutions
<1> DEFINE p == Parent(c)
           d == description[c]
           s == StartOrFinish(d)
<1>1. Level(c) # 0 /\ c \in Offspring(p)
  BY ParentIsAnother, ParentIsACell
<1>2. ChildOK(p, c) /\ DescriptionFits(description[p]) /\ d \in Description /\ DescriptionFits(d)
  BY <1>1, LocalFields DEF Local
<1>3. description[p].type = "Cell" /\ "volume" \in description[p].memory
  BY <1>2 DEF DescriptionFits, HasSolution
<1>4. ~Passed(c)
  <2>1. c \in Chain(c) /\ c \notin Offspring(c)
    BY ChainIsLeast, OffspringIff
  <2>2. QED
    BY <2>1, PassedAtCallback, LeftOfChain
<1>5. Kind(description, c) # "Nothing"
  BY KindOf
<1>6. Demoted(criterion, description, c)
  BY <1>2, <1>3, <1>4, <1>5 DEF ChildOK, ChildFits
<1>7. d.type = "Cell" /\ d.event \in Removable
  BY <1>6 DEF Demoted, Kind
<1>8. s.type = "Cell" /\ DescriptionFits(s)
  <2> HIDE DEF d
  <2>1. QED
    BY <1>2, <1>7, FinishFits
<1>9. "volume" \in s.memory
  BY <1>8 DEF DescriptionFits, HasSolution
<1>10. QED
  BY <1>3, <1>9

LEMMA ParentsAreLinked == TypeOK /\ MeshInvariant => ParentIndexIsConsistent
<1> SUFFICES ASSUME TypeOK, MeshInvariant, NEW c \in Cell, Found(description, c), Level(c) > 0
             PROVE  description[c].linked
  BY DEF ParentIndexIsConsistent
<1>1. QED
  BY LocalFields, ParentIsAnother DEF Local

LEMMA FinalMeshIsASpacetree == TypeOK /\ MeshInvariant => StableMeshIsASpacetree
<1> SUFFICES ASSUME TypeOK, MeshInvariant, MeshIsFinal, NEW c \in Cell, Found(description, c),
                    NEW f \in Offspring(c)
             PROVE  IF description[c].type = "Ancestor" THEN IsA(f, {"Ancestor", "Cell"})
                    ELSE IF description[c].isAugmented THEN IsA(f, {"Descendant"})
                    ELSE ~Found(description, f)
  BY DEF StableMeshIsASpacetree
<1>1. ChildOK(c, f) /\ f \in Cell /\ description[c].event = "None"
  BY LocalFields, OffspringIff DEF MeshInvariant
<1>2. CASE description[c].type = "Ancestor"
  <2>1. Kind(description, f) \in { "Ancestor", "Cell" }
    BY <1>1, <1>2 DEF ChildOK, ChildFits
  <2>2. QED
    BY <1>1, <1>2, <2>1, KindOf
<1>3. CASE description[c].type # "Ancestor"
  <2>1. /\ description[c].isAugmented => Kind(description, f) \in { "Descendant" }
        /\ ~description[c].isAugmented => Kind(description, f) = "Nothing"
    BY <1>1, <1>3 DEF ChildOK, ChildFits, Plain
  <2>2. QED
    BY <1>1, <1>3, <2>1, KindOf
<1>4. QED
  BY <1>2, <1>3

(* With one level below the base grid, no description is orphaned. *)
LEMMA ParentsStay ==
  TypeOK /\ ChildrenHaveParents /\ MaxLevel <= 1 /\ [Next]_vars => ChildrenHaveParents'
<1> SUFFICES ASSUME TypeOK, ChildrenHaveParents, MaxLevel <= 1, [Next]_vars,
                    NEW c \in Cell, Found(description', c), Level(c) > 0
             PROVE  Found(description', Parent(c))
  BY DEF ChildrenHaveParents
<1> DEFINE D == description
           E == description'
           p == Parent(c)
<1>1. p \in Cell /\ p # c /\ Level(p) = 0 /\ Level(c) # 0
  <2>1. Level(c) # 0 /\ p \in Cell /\ Level(p) = Level(c) - 1 /\ p # c
    BY ParentIsAnother, ParentIsACell
  <2>2. Level(c) \in 0..MaxLevel /\ MaxLevel \in Nat
    BY CellType, RefinementEventsAssumption DEF Level
  <2>3. QED
    BY <2>1, <2>2
<1>2. Found(D, c) => Found(D, p)
  BY DEF ChildrenHaveParents
<1>3. D \in Descriptions
  BY DEF TypeOK, Descriptions
<1>4. ASSUME NEW x \in Cell, EnterCell(x) PROVE Found(E, p)
  <2>1. PICK b \in BOOLEAN :
          E = UpdateStateInEnterCell(UpdateStateOfCell(Marked(D, x), x, b), x)
    BY <1>4 DEF EnterCell
  <2>2. EnterEffect(D, E, x)
    <3> HIDE DEF D, E
    <3>1. QED
      BY <1>3, <2>1, EnterCellEffect
  <2>3. Found(D, p)
    <3>1. CASE x = c
      BY <1>1, <1>2, <2>2, <3>1 DEF EnterEffect
    <3>2. CASE x # c
      BY <1>2, <2>2, <3>2 DEF EnterEffect, Others
    <3>3. QED
      BY <3>1, <3>2
  <2>4. CASE x = p
    <3>1. E[p] \in Description
      BY <1>1, <2>2, <2>3, <2>4 DEF EnterEffect, Like
    <3>2. QED
      BY <1>1, <3>1, NotFoundAssumption DEF Found
  <2>5. CASE x # p
    BY <1>1, <2>2, <2>3, <2>5 DEF EnterEffect, Others
  <2>6. QED
    BY <2>4, <2>5
<1>5. ASSUME NEW x \in Cell, LeaveCell(x) PROVE Found(E, p)
  <2>1. LeaveEffect(D, E, x)
    <3>1. E = UpdateStateInLeaveCell(D, x)
      BY <1>5 DEF LeaveCell
    <3> HIDE DEF D, E
    <3>2. QED
      BY <1>3, <3>1, LeaveCellEffect
  <2>2. Found(D, p)
    BY <1>2, <2>1 DEF LeaveEffect
  <2>3. QED
    BY <1>1, <2>1, <2>2 DEF LeaveEffect
<1>6. CASE BeginIteration \/ EndIteration \/ StartMeshUpdate \/ UNCHANGED vars
  <2>1. E = D
    BY <1>6 DEF BeginIteration, EndIteration, StartMeshUpdate, vars
  <2>2. QED
    BY <1>2, <2>1
<1>7. CASE FinaliseMeshRefinement
  <2> DEFINE final(y) == [ D[y] EXCEPT !.newlyCreated = FALSE ]
  <2>1. Found(D, p) => final(p) \in Description
    <3>1. Found(D, p) => D[p] \in Description
      BY <1>3, FoundType
    <3>2. QED
      BY <3>1 DEF Description
  <2> HIDE DEF final
  <2>2. E = [ y \in Cell |-> IF Found(D, y) THEN final(y) ELSE NotFound ]
    BY <1>7 DEF FinaliseMeshRefinement, final
  <2>3. Found(D, c)
    BY <2>2 DEF Found
  <2>4. QED
    BY <1>1, <1>2, <2>1, <2>2, <2>3, NotFoundAssumption DEF Found
<1>8. QED
  BY <1>4, <1>5, <1>6, <1>7 DEF Next, Terminating
-----------------------------------------------------------------------------
(***************************************************************************)
(* What requests, vetoes and the traversal preserve, as long as no         *)
(* description is orphaned: in every behaviour without an orphan, a cell's *)
(* event tells which children it has, how far the traversal has come.      *)
(***************************************************************************)
THEOREM MeshInvariantHolds == Spec /\ []ChildrenHaveParents => []MeshInvariant
<1>1. Init => MeshInvariant
  BY InitMesh
<1>2. TypeOK /\ MeshInvariant /\ ChildrenHaveParents /\ ChildrenHaveParents' /\ [Next]_vars
        => MeshInvariant'
  BY NextKeepsMesh
<1>3. QED
  BY <1>1, <1>2, TypesAreOK, PTL DEF Spec

(***************************************************************************)
(* Whatever requests and vetoes meet, a refinement event is one its type   *)
(* of cell description can carry out: the assertions on types in           *)
(* startOrFinishCollectiveRefinementOperations and its callers.            *)
(***************************************************************************)
THEOREM EventsFitTypes == Spec /\ []ChildrenHaveParents => []EventFitsType
<1>1. QED
  BY MeshInvariantHolds, TypesAreOK, EventsFit, PTL

(***************************************************************************)
(* A cell that is about to be refined, augmented or deaugmented has no     *)
(* children but descendants: the assertions of                             *)
(* addNewCellIfRefinementRequested and markForAugmentation.                *)
(***************************************************************************)
THEOREM DescendantsAreReplaced == Spec /\ []ChildrenHaveParents => []OnlyDescendantsAreReplaced
<1>1. QED
  BY MeshInvariantHolds, TypesAreOK, OnlyDescendants, PTL

(***************************************************************************)
(* As a child is erased or turned into a descendant, restrictVolumeData    *)
(* finds the solution of both the child and its parent: the child is       *)
(* still a cell, whatever it was asked for itself since its parent's       *)
(* erasing request was accepted.                                           *)
(***************************************************************************)
THEOREM RestrictionIsSafe == Spec /\ []ChildrenHaveParents => []RestrictionFindsSolutions
<1>1. QED
  BY MeshInvariantHolds, TypesAreOK, SolutionsAreFound, PTL

(***************************************************************************)
(* The parent index of a cell description that is entered is that of the   *)
(* coarse cell, as updateStateInEnterCell asserts.  A stale index needs an *)
(* orphan first: a cell erased while it has children.                      *)
(***************************************************************************)
THEOREM StaleIndexNeedsAnOrphan == Spec /\ []ChildrenHaveParents => []ParentIndexIsConsistent
<1>1. QED
  BY MeshInvariantHolds, TypesAreOK, ParentsAreLinked, PTL

(***************************************************************************)
(* When createMesh ends its sweeps, the cell descriptions of the solver    *)
(* form an augmented spacetree: an ancestor has cells and ancestors, an    *)
(* augmented cell descendants, any other description no children.          *)
(***************************************************************************)
THEOREM StableMeshes == Spec /\ []ChildrenHaveParents => []StableMeshIsASpacetree
<1>1. QED
  BY MeshInvariantHolds, TypesAreOK, FinalMeshIsASpacetree, PTL

(***************************************************************************)
(* With at most one level below the base grid no description is ever       *)
(* orphaned: an event erases the children of a cell, and a base cell is    *)
(* nobody's child.                                                         *)
(***************************************************************************)
THEOREM OneLevelHasNoOrphans ==
  ASSUME MaxLevel <= 1
  PROVE  Spec => []ChildrenHaveParents
<1>1. Init => ChildrenHaveParents
  BY DEF Init, ChildrenHaveParents, Found
<1>2. TypeOK /\ ChildrenHaveParents /\ [Next]_vars => ChildrenHaveParents'
  BY ParentsStay
<1>3. QED
  BY <1>1, <1>2, TypesAreOK, PTL DEF Spec

(***************************************************************************)
(* With at most one level below the base grid, then, all assertions of the *)
(* refinement functions hold, whatever the criteria are.                   *)
(***************************************************************************)
THEOREM OneLevelIsSound ==
  ASSUME MaxLevel <= 1
  PROVE  Spec => [](/\ EventFitsType /\ OnlyDescendantsAreReplaced
                    /\ RestrictionFindsSolutions /\ ParentIndexIsConsistent
                    /\ StableMeshIsASpacetree)
<1>1. Spec => []ChildrenHaveParents
  BY OneLevelHasNoOrphans
<1>2. QED
  BY <1>1, EventsFitTypes, DescendantsAreReplaced, RestrictionIsSafe,
     StaleIndexNeedsAnOrphan, StableMeshes, PTL
=============================================================================
