--------------------------- MODULE PrefetchProofs ----------------------------
(***************************************************************************)
(* Proofs about Prefetch for any set of observations, statements and       *)
(* variables, patterns of any depth, and any offsets.                      *)
(***************************************************************************)
EXTENDS Prefetch, FiniteSetTheorems, WellFoundedInduction, TLAPS

\* A set of numbers has a smallest one.
LEMMA SmallestOf ==
    ASSUME NEW S \in SUBSET Nat, S # {}
    PROVE  \E x \in S : \A y \in S : x <= y
<1> DEFINE R == OpToRel(<, Nat)
<1>1. IsWellFoundedOn(R, Nat)
  BY NatLessThanWellFounded
<1>2. \A x, y \in Nat : <<x, y>> \in R <=> x < y
  BY DEF OpToRel
<1> HIDE DEF R
<1>3. PICK x \in S : \A y \in S : ~(<<y, x>> \in R)
  BY <1>1, WFMin
<1>4. \A y \in S : ~(y < x) /\ y \in Nat /\ x \in Nat
  BY <1>2, <1>3
<1>5. \A y \in S : x <= y
  BY <1>4
<1>6. QED
  BY <1>5

\* Induction, for a set instead of a predicate.
LEMMA UpTo ==
    ASSUME NEW S, NEW top \in Nat, 0 \in S, \A n \in Nat : n < top /\ n \in S => n + 1 \in S
    PROVE  \A n \in 0..top : n \in S
<1> DEFINE Bad == {n \in 0..top : n \notin S}
<1> SUFFICES ASSUME Bad # {} PROVE FALSE
  OBVIOUS
<1>0. Bad \in SUBSET Nat
  OBVIOUS
<1>1. PICK n \in Bad : \A m \in Bad : n <= m
  BY <1>0, SmallestOf
<1>2. n \in Nat /\ n # 0 /\ n <= top /\ n \notin S
  BY <1>1
<1>3. n - 1 \in Nat /\ n - 1 < top /\ n - 1 \in 0..top /\ (n - 1) + 1 = n
  BY <1>2
<1>4. n - 1 \notin Bad
  BY <1>1, <1>2, <1>3
<1>5. n - 1 \in S
  BY <1>3, <1>4
<1>6. QED
  BY <1>2, <1>3, <1>5

-----------------------------------------------------------------------------
(* Trees. *)

Levels == 0..(PatternDepth + 1)

\* Trees is what its definition says.
LEMMA TreesUnfold ==
    /\ Trees[0] = Leaves
    /\ \A n \in 0..PatternDepth :
         Trees[n + 1] = Trees[n] \union [node : {"junction"}, relation : {"AND", "OR"}, lhs : Trees[n], rhs : Trees[n]]
<1> DEFINE Grown(ts) == ts \union [node : {"junction"}, relation : {"AND", "OR"}, lhs : ts, rhs : ts]
           Level(f, n) == IF n = 0 THEN Leaves ELSE Grown(f[n - 1])
           Good == {k \in Nat : \E f : f = [n \in 0..k |-> Level(f, n)]}
           top == PatternDepth + 1
<1> USE DepthAssumption
<1>1. 0 \in Good
  <2> DEFINE f == [n \in 0..0 |-> Leaves]
  <2>1. f = [n \in 0..0 |-> Level(f, n)]
    OBVIOUS
  <2>2. QED
    BY <2>1
<1>2. \A k \in Nat : k < top /\ k \in Good => k + 1 \in Good
  <2> SUFFICES ASSUME NEW k \in Nat, k \in Good PROVE k + 1 \in Good
    OBVIOUS
  <2>1. PICK f : f = [n \in 0..k |-> Level(f, n)]
    OBVIOUS
  <2> DEFINE g == [n \in 0..(k + 1) |-> Level(f, n)]
  <2>2. \A n \in 0..(k + 1) : n # 0 => n - 1 \in 0..k /\ n - 1 \in 0..(k + 1)
    OBVIOUS
  <2> HIDE DEF Level
  <2>3. \A n \in 0..k : f[n] = Level(f, n) /\ n \in 0..(k + 1)
    BY <2>1
  <2> USE DEF Level
  <2> HIDE DEF Grown
  <2>4. \A n \in 0..(k + 1) : Level(f, n) = Level(g, n)
    BY <2>2, <2>3
  <2>5. g = [n \in 0..(k + 1) |-> Level(g, n)]
    BY <2>4
  <2> HIDE DEF g, Level
  <2>6. k + 1 \in {i \in Nat : \E h : h = [n \in 0..i |-> Level(h, n)]}
    BY <2>5
  <2>7. QED
    BY <2>6
<1>3. top \in Good
  <2> HIDE DEF Good
  <2>1. \A n \in 0..top : n \in Good
    BY <1>1, <1>2, UpTo
  <2>2. QED
    BY <2>1
<1>4. Trees = [n \in 0..top |-> Level(Trees, n)]
  <2>1. PICK h : h = [n \in 0..top |-> Level(h, n)]
    BY <1>3
  <2> DEFINE t == CHOOSE f : f = [n \in 0..(PatternDepth + 1) |->
                    IF n = 0 THEN Leaves
                    ELSE f[n - 1] \union [node : {"junction"}, relation : {"AND", "OR"}, lhs : f[n - 1], rhs : f[n - 1]]]
  <2>2. t = [n \in 0..(PatternDepth + 1) |-> 
                    IF n = 0 THEN Leaves
                    ELSE t[n - 1] \union [node : {"junction"}, relation : {"AND", "OR"}, lhs : t[n - 1], rhs : t[n - 1]]]
    BY <2>1, Zenon
  <2>3. Trees = t
    BY Zenon DEF Trees
  <2>4. QED
    BY <2>2, <2>3, Zenon
<1>5. \A n \in 0..top : Trees[n] = Level(Trees, n)
  <2> HIDE DEF Level
  <2>1. QED
    BY <1>4
<1>6. Trees[0] = Leaves
  <2>1. 0 \in 0..top
    OBVIOUS
  <2>2. QED
    BY <1>5, <2>1
<1>7. ASSUME NEW n \in 0..PatternDepth PROVE Trees[n + 1] = Grown(Trees[n])
  <2> HIDE DEF Grown
  <2>1. n + 1 \in 0..top /\ n + 1 # 0 /\ (n + 1) - 1 = n
    OBVIOUS
  <2>2. Trees[n + 1] = Level(Trees, n + 1)
    BY <1>5, <2>1
  <2>3. QED
    BY <2>1, <2>2
<1>8. QED
  BY <1>6, <1>7

\* Of a junction the two sides are trees of a level less, what is no junction is a
\* leaf, and every level holds the ones below it.
LEMMA Levelled ==
    \A n \in Levels : Trees[n] \subseteq Graphs /\ Leaves \subseteq Trees[n]
<1> USE DepthAssumption, TreesUnfold DEF Levels
<1> DEFINE S == {n \in Nat : Leaves \subseteq Trees[n]}
           R == {n \in Nat : Trees[PatternDepth + 1 - n] \subseteq Graphs}
           top == PatternDepth + 1
<1>1. \A n \in Nat : n < top /\ n \in S => n + 1 \in S
  <2> SUFFICES ASSUME NEW n \in Nat, n < top, n \in S PROVE n + 1 \in S
    OBVIOUS
  <2>1. n \in 0..PatternDepth
    OBVIOUS
  <2>2. Trees[n] \subseteq Trees[n + 1]
    BY <2>1
  <2>3. QED
    BY <2>2
<1>2. \A n \in Nat : n < top /\ n \in R => n + 1 \in R
  <2> SUFFICES ASSUME NEW n \in Nat, n < top, n \in R PROVE n + 1 \in R
    OBVIOUS
  <2>1. PICK m \in 0..PatternDepth : m = PatternDepth + 1 - (n + 1) /\ m + 1 = PatternDepth + 1 - n
    OBVIOUS
  <2>2. Trees[m] \subseteq Trees[m + 1]
    BY <2>1
  <2>3. QED
    BY <2>1, <2>2
<1>3. 0 \in S /\ 0 \in R
  BY DEF Graphs
<1>4. top \in Nat
  OBVIOUS
<1> HIDE DEF S, R, top
<1>5. (\A n \in 0..top : n \in S) /\ \A n \in 0..top : n \in R
  BY <1>1, <1>2, <1>3, <1>4, UpTo
<1>6. ASSUME NEW n \in 0..(PatternDepth + 1)
      PROVE  Trees[n] \subseteq Graphs /\ Leaves \subseteq Trees[n]
  <2>1. PICK m \in 0..(PatternDepth + 1) : m = PatternDepth + 1 - n /\ PatternDepth + 1 - m = n
    OBVIOUS
  <2>2. m \in R /\ n \in S
    BY <1>5, <2>1 DEF top
  <2>3. QED
    BY <2>1, <2>2 DEF R, S
<1>7. QED
  BY <1>6

\* A leaf is a comparison or one of the two marks, never a junction.
LEMMA LeafKinds ==
    ASSUME NEW g \in Leaves
    PROVE  ~IsJunction(g) /\ (IsComparison(g) \/ g = NoGraph \/ g = Invalid)
BY DEF Leaves, IsJunction, IsComparison, NoGraph, Invalid

\* The two marks are leaves of their own.
LEMMA SpecialKinds ==
    /\ ~IsJunction(NoGraph) /\ ~IsComparison(NoGraph) /\ NoGraph \in Leaves
    /\ ~IsJunction(Invalid) /\ ~IsComparison(Invalid) /\ Invalid \in Leaves
    /\ NoGraph # Invalid
BY DEF Leaves, IsJunction, IsComparison, NoGraph, Invalid

\* A tree of the next level is one of this level or joins two of them.
LEMMA Sides ==
    ASSUME NEW n \in 0..PatternDepth, NEW g \in Trees[n + 1]
    PROVE  \/ g \in Trees[n]
           \/ /\ IsJunction(g) /\ g.lhs \in Trees[n] /\ g.rhs \in Trees[n]
              /\ g = Junction(g.relation, g.lhs, g.rhs) /\ g.relation \in {"AND", "OR"}
BY TreesUnfold DEF IsJunction, Junction

\* Two trees of a level joined are one of the next.
LEMMA MakesJunction ==
    ASSUME NEW n \in 0..PatternDepth, NEW l \in Trees[n], NEW r \in Trees[n], NEW relation \in {"AND", "OR"}
    PROVE  Junction(relation, l, r) \in Trees[n + 1]
BY TreesUnfold DEF Junction

\* Induction over the trees of each level.
LEMMA TreeInduction ==
    ASSUME NEW S, \A g \in Leaves : g \in S,
           \A g \in Graphs : IsJunction(g) /\ g.lhs \in Graphs /\ g.rhs \in Graphs /\ g.lhs \in S /\ g.rhs \in S => g \in S
    PROVE  \A g \in Graphs : g \in S
<1> USE DepthAssumption
<1> DEFINE T == {n \in Nat : \A g \in Trees[n] : g \in S}
           top == PatternDepth + 1
<1>1. 0 \in T
  BY TreesUnfold
<1>2. ASSUME NEW n \in Nat, n < top, n \in T PROVE n + 1 \in T
  <2>1. n \in 0..PatternDepth /\ n \in Levels /\ n + 1 \in Levels
    BY <1>2 DEF Levels
  <2>2. ASSUME NEW g \in Trees[n + 1], g \notin Trees[n] PROVE g \in S
    <3>1. IsJunction(g) /\ g.lhs \in Trees[n] /\ g.rhs \in Trees[n]
      BY <2>1, <2>2, Sides
    <3>2. g \in Graphs /\ g.lhs \in Graphs /\ g.rhs \in Graphs
      BY <2>1, <3>1, Levelled
    <3>3. g.lhs \in S /\ g.rhs \in S
      BY <1>2, <3>1
    <3>4. QED
      BY <3>1, <3>2, <3>3
  <2>3. QED
    BY <1>2, <2>2
<1>3. top \in Nat
  OBVIOUS
<1> HIDE DEF T
<1>4. \A n \in 0..top : n \in T
  BY <1>1, <1>2, <1>3, UpTo
<1>5. QED
  BY <1>4 DEF T, Graphs

\* Every tree is a leaf, or a junction of two trees.
LEMMA TreeKinds ==
    ASSUME NEW g \in Graphs
    PROVE  \/ g \in Leaves
           \/ /\ IsJunction(g) /\ g.lhs \in Graphs /\ g.rhs \in Graphs
              /\ g = Junction(g.relation, g.lhs, g.rhs) /\ g.relation \in {"AND", "OR"}
<1> USE DepthAssumption
<1> DEFINE Fine(h) == \/ h \in Leaves
                      \/ /\ IsJunction(h) /\ h.lhs \in Graphs /\ h.rhs \in Graphs
                         /\ h = Junction(h.relation, h.lhs, h.rhs) /\ h.relation \in {"AND", "OR"}
           T == {n \in Nat : \A h \in Trees[n] : Fine(h)}
           top == PatternDepth + 1
<1>1. 0 \in T
  BY TreesUnfold
<1>2. ASSUME NEW n \in Nat, n < top, n \in T PROVE n + 1 \in T
  <2>1. n \in 0..PatternDepth /\ n \in Levels
    BY <1>2 DEF Levels
  <2>2. ASSUME NEW h \in Trees[n + 1], h \notin Trees[n] PROVE Fine(h)
    BY <2>1, <2>2, Sides, Levelled
  <2>3. QED
    BY <1>2, <2>2
<1>3. top \in Nat
  OBVIOUS
<1> HIDE DEF T
<1>4. \A n \in 0..top : n \in T
  BY <1>1, <1>2, <1>3, UpTo
<1>5. QED
  BY <1>4 DEF T, Graphs

\* The sides of a junction are a level below it.
LEMMA SidesBelow ==
    ASSUME NEW n \in 0..PatternDepth, NEW g \in Trees[n + 1], IsJunction(g)
    PROVE  g.lhs \in Trees[n] /\ g.rhs \in Trees[n]
<1> USE DepthAssumption
<1> DEFINE T == {k \in Nat : \A h \in Trees[k] : IsJunction(h) => k # 0 /\ h.lhs \in Trees[k - 1] /\ h.rhs \in Trees[k - 1]}
           top == PatternDepth + 1
<1>1. 0 \in T
  BY TreesUnfold, LeafKinds
<1>2. ASSUME NEW k \in Nat, k < top, k \in T PROVE k + 1 \in T
  <2>1. k \in 0..PatternDepth /\ (k + 1) - 1 = k /\ k + 1 # 0
    BY <1>2
  <2>2. ASSUME NEW h \in Trees[k + 1], IsJunction(h) PROVE h.lhs \in Trees[k] /\ h.rhs \in Trees[k]
    <3>1. CASE h \in Trees[k]
      <4>1. k # 0 /\ h.lhs \in Trees[k - 1] /\ h.rhs \in Trees[k - 1]
        BY <1>2, <2>2, <3>1
      <4>2. k - 1 \in 0..PatternDepth /\ (k - 1) + 1 = k
        BY <2>1, <4>1
      <4>3. Trees[k - 1] \subseteq Trees[k]
        BY <4>2, TreesUnfold
      <4>4. QED
        BY <4>1, <4>3
    <3>2. CASE h \notin Trees[k]
      BY <2>1, <3>2, Sides
    <3>3. QED
      BY <3>1, <3>2
  <2>3. \A h \in Trees[k + 1] : IsJunction(h) => k + 1 # 0 /\ h.lhs \in Trees[(k + 1) - 1] /\ h.rhs \in Trees[(k + 1) - 1]
    BY <2>1, <2>2
  <2>4. QED
    BY <2>3
<1>3. top \in Nat
  OBVIOUS
<1> HIDE DEF T
<1>4. \A k \in 0..top : k \in T
  BY <1>1, <1>2, <1>3, UpTo
<1>5. n + 1 \in 0..top /\ (n + 1) - 1 = n
  OBVIOUS
<1>6. n + 1 \in T
  BY <1>4, <1>5
<1>7. \A h \in Trees[n + 1] : IsJunction(h) => n + 1 # 0 /\ h.lhs \in Trees[(n + 1) - 1] /\ h.rhs \in Trees[(n + 1) - 1]
  BY <1>6 DEF T
<1>8. QED
  BY <1>5, <1>7

\* What the recursive definitions compute.  Each is shown in the same way: a function
\* that satisfies the equation on one level is extended to the next.
LEMMA PruneLaw ==
    ASSUME NEW center, NEW part
    PROVE  \A g \in Graphs : Prune(g, center, part) =
             IF IsJunction(g) THEN PruneJunction(g, Prune(g.lhs, center, part), Prune(g.rhs, center, part))
             ELSE IF IsComparison(g) /\ ~Preserves(g.etype, center, part) THEN NoGraph ELSE g
<1> USE DepthAssumption
<1> DEFINE Below(h) == IF IsComparison(h) /\ ~Preserves(h.etype, center, part) THEN NoGraph ELSE h
           Body(f, h) == IF IsJunction(h) THEN PruneJunction(h, f[h.lhs], f[h.rhs]) ELSE Below(h)
           Good == {k \in Nat : \E f : f = [h \in Trees[k] |-> Body(f, h)]}
           top == PatternDepth + 1
<1>1. 0 \in Good
  <2> DEFINE f == [h \in Trees[0] |-> Below(h)]
  <2> HIDE DEF Below
  <2>1. f = [h \in Trees[0] |-> Body(f, h)]
    BY TreesUnfold, LeafKinds
  <2>2. QED
    BY <2>1
<1>2. ASSUME NEW k \in Nat, k < top, k \in Good PROVE k + 1 \in Good
  <2>1. PICK f : f = [h \in Trees[k] |-> Body(f, h)]
    BY <1>2
  <2> DEFINE g == [h \in Trees[k + 1] |-> Body(f, h)]
  <2> HIDE DEF Body
  <2>2. k \in 0..PatternDepth /\ Trees[k] \subseteq Trees[k + 1]
    <3>1. k \in 0..PatternDepth
      BY <1>2
    <3>2. QED
      BY <3>1, TreesUnfold
  <2>3. \A h \in Trees[k] : f[h] = Body(f, h) /\ g[h] = Body(f, h)
    BY <2>1, <2>2
  <2>4. ASSUME NEW h \in Trees[k + 1] PROVE Body(f, h) = Body(g, h)
    <3>1. CASE IsJunction(h)
      <4>1. f[h.lhs] = g[h.lhs] /\ f[h.rhs] = g[h.rhs]
        BY <2>2, <2>3, <3>1, SidesBelow
      <4>2. QED
        BY <4>1 DEF Body
    <3>2. CASE ~IsJunction(h)
      BY <3>2 DEF Body
    <3>3. QED
      BY <3>1, <3>2
  <2>5. g = [h \in Trees[k + 1] |-> Body(g, h)]
    BY <2>4
  <2> HIDE DEF g
  <2>6. k + 1 \in {i \in Nat : \E f1 : f1 = [h \in Trees[i] |-> Body(f1, h)]}
    BY <2>5
  <2>7. QED
    BY <2>6 DEF Body
<1>3. \E f : f = [h \in Graphs |-> Body(f, h)]
  <2> HIDE DEF Good
  <2>1. \A k \in 0..top : k \in Good
    BY <1>1, <1>2, UpTo
  <2>2. top \in Good
    BY <2>1
  <2>3. QED
    BY <2>2 DEF Good, Graphs
<1> DEFINE prune[h \in Graphs] == Body(prune, h)
<1>4. \A g : Prune(g, center, part) = prune[g]
  BY Zenon DEF Prune
<1>5. prune = [h \in Graphs |-> Body(prune, h)]
  BY <1>3, Zenon
<1> HIDE DEF prune
<1>6. \A g \in Graphs : Prune(g, center, part) = Body(prune, g)
  <2> HIDE DEF Body
  <2>1. QED
    BY <1>4, <1>5
<1>7. QED
  BY <1>4, <1>6

\* The nodes of a tree: itself and those of its sides.
LEMMA NodesLaw ==
    \A g \in Graphs : Nodes(g) = IF IsJunction(g) THEN {g} \union Nodes(g.lhs) \union Nodes(g.rhs) ELSE {g}
<1> USE DepthAssumption
<1> DEFINE Below(h) == {h}
           Body(f, h) == IF IsJunction(h) THEN {h} \union f[h.lhs] \union f[h.rhs] ELSE Below(h)
           Good == {k \in Nat : \E f : f = [h \in Trees[k] |-> Body(f, h)]}
           top == PatternDepth + 1
<1>1. 0 \in Good
  <2> DEFINE f == [h \in Trees[0] |-> Below(h)]
  <2> HIDE DEF Below
  <2>1. f = [h \in Trees[0] |-> Body(f, h)]
    BY TreesUnfold, LeafKinds
  <2>2. QED
    BY <2>1
<1>2. ASSUME NEW k \in Nat, k < top, k \in Good PROVE k + 1 \in Good
  <2>1. PICK f : f = [h \in Trees[k] |-> Body(f, h)]
    BY <1>2
  <2> DEFINE g == [h \in Trees[k + 1] |-> Body(f, h)]
  <2> HIDE DEF Body
  <2>2. k \in 0..PatternDepth /\ Trees[k] \subseteq Trees[k + 1]
    <3>1. k \in 0..PatternDepth
      BY <1>2
    <3>2. QED
      BY <3>1, TreesUnfold
  <2>3. \A h \in Trees[k] : f[h] = Body(f, h) /\ g[h] = Body(f, h)
    BY <2>1, <2>2
  <2>4. ASSUME NEW h \in Trees[k + 1] PROVE Body(f, h) = Body(g, h)
    <3>1. CASE IsJunction(h)
      <4>1. f[h.lhs] = g[h.lhs] /\ f[h.rhs] = g[h.rhs]
        BY <2>2, <2>3, <3>1, SidesBelow
      <4>2. QED
        BY <4>1 DEF Body
    <3>2. CASE ~IsJunction(h)
      BY <3>2 DEF Body
    <3>3. QED
      BY <3>1, <3>2
  <2>5. g = [h \in Trees[k + 1] |-> Body(g, h)]
    BY <2>4
  <2> HIDE DEF g
  <2>6. k + 1 \in {i \in Nat : \E f1 : f1 = [h \in Trees[i] |-> Body(f1, h)]}
    BY <2>5
  <2>7. QED
    BY <2>6 DEF Body
<1>3. \E f : f = [h \in Graphs |-> Body(f, h)]
  <2> HIDE DEF Good
  <2>1. \A k \in 0..top : k \in Good
    BY <1>1, <1>2, UpTo
  <2>2. top \in Good
    BY <2>1
  <2>3. QED
    BY <2>2 DEF Good, Graphs
<1> DEFINE nodes[h \in Graphs] == Body(nodes, h)
<1>4. \A g : Nodes(g) = nodes[g]
  BY Zenon DEF Nodes
<1>5. nodes = [h \in Graphs |-> Body(nodes, h)]
  BY <1>3, Zenon
<1> HIDE DEF nodes
<1>6. \A g \in Graphs : Nodes(g) = Body(nodes, g)
  <2> HIDE DEF Body
  <2>1. QED
    BY <1>4, <1>5
<1>7. QED
  BY <1>4, <1>6

\* Dereferencing goes down both sides (ecgpattern.py, deref).
LEMMA DerefGraphLaw ==
    ASSUME NEW rows
    PROVE  \A g \in Graphs : DerefGraph(g, rows) =
             IF IsJunction(g) THEN DerefJunction(g, DerefGraph(g.lhs, rows), DerefGraph(g.rhs, rows))
             ELSE IF IsComparison(g) THEN DerefComparison(g, rows) ELSE g
<1> USE DepthAssumption
<1> DEFINE Below(h) == IF IsComparison(h) THEN DerefComparison(h, rows) ELSE h
           Body(f, h) == IF IsJunction(h) THEN DerefJunction(h, f[h.lhs], f[h.rhs]) ELSE Below(h)
           Good == {k \in Nat : \E f : f = [h \in Trees[k] |-> Body(f, h)]}
           top == PatternDepth + 1
<1>1. 0 \in Good
  <2> DEFINE f == [h \in Trees[0] |-> Below(h)]
  <2> HIDE DEF Below
  <2>1. f = [h \in Trees[0] |-> Body(f, h)]
    BY TreesUnfold, LeafKinds
  <2>2. QED
    BY <2>1
<1>2. ASSUME NEW k \in Nat, k < top, k \in Good PROVE k + 1 \in Good
  <2>1. PICK f : f = [h \in Trees[k] |-> Body(f, h)]
    BY <1>2
  <2> DEFINE g == [h \in Trees[k + 1] |-> Body(f, h)]
  <2> HIDE DEF Body
  <2>2. k \in 0..PatternDepth /\ Trees[k] \subseteq Trees[k + 1]
    <3>1. k \in 0..PatternDepth
      BY <1>2
    <3>2. QED
      BY <3>1, TreesUnfold
  <2>3. \A h \in Trees[k] : f[h] = Body(f, h) /\ g[h] = Body(f, h)
    BY <2>1, <2>2
  <2>4. ASSUME NEW h \in Trees[k + 1] PROVE Body(f, h) = Body(g, h)
    <3>1. CASE IsJunction(h)
      <4>1. f[h.lhs] = g[h.lhs] /\ f[h.rhs] = g[h.rhs]
        BY <2>2, <2>3, <3>1, SidesBelow
      <4>2. QED
        BY <4>1 DEF Body
    <3>2. CASE ~IsJunction(h)
      BY <3>2 DEF Body
    <3>3. QED
      BY <3>1, <3>2
  <2>5. g = [h \in Trees[k + 1] |-> Body(g, h)]
    BY <2>4
  <2> HIDE DEF g
  <2>6. k + 1 \in {i \in Nat : \E f1 : f1 = [h \in Trees[i] |-> Body(f1, h)]}
    BY <2>5
  <2>7. QED
    BY <2>6 DEF Body
<1>3. \E f : f = [h \in Graphs |-> Body(f, h)]
  <2> HIDE DEF Good
  <2>1. \A k \in 0..top : k \in Good
    BY <1>1, <1>2, UpTo
  <2>2. top \in Good
    BY <2>1
  <2>3. QED
    BY <2>2 DEF Good, Graphs
<1> DEFINE deref[h \in Graphs] == Body(deref, h)
<1>4. \A g : DerefGraph(g, rows) = deref[g]
  BY Zenon DEF DerefGraph
<1>5. deref = [h \in Graphs |-> Body(deref, h)]
  BY <1>3, Zenon
<1> HIDE DEF deref
<1>6. \A g \in Graphs : DerefGraph(g, rows) = Body(deref, g)
  <2> HIDE DEF Body
  <2>1. QED
    BY <1>4, <1>5
<1>7. QED
  BY <1>4, <1>6

\* So does writing the type of the center (to_stix).
LEMMA CenteredLaw ==
    ASSUME NEW center
    PROVE  \A g \in Graphs : Centered(g, center) =
             IF IsJunction(g) THEN Junction(g.relation, Centered(g.lhs, center), Centered(g.rhs, center))
             ELSE IF IsComparison(g) /\ g.etype = AnyType THEN [g EXCEPT !.etype = center] ELSE g
<1> USE DepthAssumption
<1> DEFINE Below(h) == IF IsComparison(h) /\ h.etype = AnyType THEN [h EXCEPT !.etype = center] ELSE h
           Body(f, h) == IF IsJunction(h) THEN Junction(h.relation, f[h.lhs], f[h.rhs]) ELSE Below(h)
           Good == {k \in Nat : \E f : f = [h \in Trees[k] |-> Body(f, h)]}
           top == PatternDepth + 1
<1>1. 0 \in Good
  <2> DEFINE f == [h \in Trees[0] |-> Below(h)]
  <2> HIDE DEF Below
  <2>1. f = [h \in Trees[0] |-> Body(f, h)]
    BY TreesUnfold, LeafKinds
  <2>2. QED
    BY <2>1
<1>2. ASSUME NEW k \in Nat, k < top, k \in Good PROVE k + 1 \in Good
  <2>1. PICK f : f = [h \in Trees[k] |-> Body(f, h)]
    BY <1>2
  <2> DEFINE g == [h \in Trees[k + 1] |-> Body(f, h)]
  <2> HIDE DEF Body
  <2>2. k \in 0..PatternDepth /\ Trees[k] \subseteq Trees[k + 1]
    <3>1. k \in 0..PatternDepth
      BY <1>2
    <3>2. QED
      BY <3>1, TreesUnfold
  <2>3. \A h \in Trees[k] : f[h] = Body(f, h) /\ g[h] = Body(f, h)
    BY <2>1, <2>2
  <2>4. ASSUME NEW h \in Trees[k + 1] PROVE Body(f, h) = Body(g, h)
    <3>1. CASE IsJunction(h)
      <4>1. f[h.lhs] = g[h.lhs] /\ f[h.rhs] = g[h.rhs]
        BY <2>2, <2>3, <3>1, SidesBelow
      <4>2. QED
        BY <4>1 DEF Body
    <3>2. CASE ~IsJunction(h)
      BY <3>2 DEF Body
    <3>3. QED
      BY <3>1, <3>2
  <2>5. g = [h \in Trees[k + 1] |-> Body(g, h)]
    BY <2>4
  <2> HIDE DEF g
  <2>6. k + 1 \in {i \in Nat : \E f1 : f1 = [h \in Trees[i] |-> Body(f1, h)]}
    BY <2>5
  <2>7. QED
    BY <2>6 DEF Body
<1>3. \E f : f = [h \in Graphs |-> Body(f, h)]
  <2> HIDE DEF Good
  <2>1. \A k \in 0..top : k \in Good
    BY <1>1, <1>2, UpTo
  <2>2. top \in Good
    BY <2>1
  <2>3. QED
    BY <2>2 DEF Good, Graphs
<1> DEFINE centered[h \in Graphs] == Body(centered, h)
<1>4. \A g : Centered(g, center) = centered[g]
  BY Zenon DEF Centered
<1>5. centered = [h \in Graphs |-> Body(centered, h)]
  BY <1>3, Zenon
<1> HIDE DEF centered
<1>6. \A g \in Graphs : Centered(g, center) = Body(centered, g)
  <2> HIDE DEF Body
  <2>1. QED
    BY <1>4, <1>5
<1>7. QED
  BY <1>4, <1>6

\* So does the comparison with records.
LEMMA MatchesLaw ==
    ASSUME NEW records
    PROVE  \A g \in Graphs : Matches(records, g) =
             IF IsJunction(g)
             THEN IF g.relation = "AND" THEN Matches(records, g.lhs) /\ Matches(records, g.rhs) ELSE Matches(records, g.lhs) \/ Matches(records, g.rhs)
             ELSE IsComparison(g) => \E r \in records : Holds(r, g)
<1> USE DepthAssumption
<1> DEFINE Below(h) == IsComparison(h) => \E r \in records : Holds(r, h)
           Body(f, h) == IF IsJunction(h) THEN IF h.relation = "AND" THEN f[h.lhs] /\ f[h.rhs] ELSE f[h.lhs] \/ f[h.rhs]
                         ELSE Below(h)
           Good == {k \in Nat : \E f : f = [h \in Trees[k] |-> Body(f, h)]}
           top == PatternDepth + 1
<1>1. 0 \in Good
  <2> DEFINE f == [h \in Trees[0] |-> Below(h)]
  <2> HIDE DEF Below
  <2>1. f = [h \in Trees[0] |-> Body(f, h)]
    BY TreesUnfold, LeafKinds
  <2>2. QED
    BY <2>1
<1>2. ASSUME NEW k \in Nat, k < top, k \in Good PROVE k + 1 \in Good
  <2>1. PICK f : f = [h \in Trees[k] |-> Body(f, h)]
    BY <1>2
  <2> DEFINE g == [h \in Trees[k + 1] |-> Body(f, h)]
  <2> HIDE DEF Body
  <2>2. k \in 0..PatternDepth /\ Trees[k] \subseteq Trees[k + 1]
    <3>1. k \in 0..PatternDepth
      BY <1>2
    <3>2. QED
      BY <3>1, TreesUnfold
  <2>3. \A h \in Trees[k] : f[h] = Body(f, h) /\ g[h] = Body(f, h)
    BY <2>1, <2>2
  <2>4. ASSUME NEW h \in Trees[k + 1] PROVE Body(f, h) = Body(g, h)
    <3>1. CASE IsJunction(h)
      <4>1. f[h.lhs] = g[h.lhs] /\ f[h.rhs] = g[h.rhs]
        BY <2>2, <2>3, <3>1, SidesBelow
      <4>2. QED
        BY <4>1 DEF Body
    <3>2. CASE ~IsJunction(h)
      BY <3>2 DEF Body
    <3>3. QED
      BY <3>1, <3>2
  <2>5. g = [h \in Trees[k + 1] |-> Body(g, h)]
    BY <2>4
  <2> HIDE DEF g
  <2>6. k + 1 \in {i \in Nat : \E f1 : f1 = [h \in Trees[i] |-> Body(f1, h)]}
    BY <2>5
  <2>7. QED
    BY <2>6 DEF Body
<1>3. \E f : f = [h \in Graphs |-> Body(f, h)]
  <2> HIDE DEF Good
  <2>1. \A k \in 0..top : k \in Good
    BY <1>1, <1>2, UpTo
  <2>2. top \in Good
    BY <2>1
  <2>3. QED
    BY <2>2 DEF Good, Graphs
<1> DEFINE matches[h \in Graphs] == Body(matches, h)
<1>4. \A g : Matches(records, g) = matches[g]
  BY Zenon DEF Matches
<1>5. matches = [h \in Graphs |-> Body(matches, h)]
  BY <1>3, Zenon
<1> HIDE DEF matches
<1>6. \A g \in Graphs : Matches(records, g) = Body(matches, g)
  <2> HIDE DEF Body
  <2>1. QED
    BY <1>4, <1>5
<1>7. QED
  BY <1>4, <1>6

-----------------------------------------------------------------------------
(* What the operations on trees do to a junction, and to no more than that. *)

\* The parts of a junction.
LEMMA JunctionFields ==
    ASSUME NEW relation, NEW l, NEW r
    PROVE  /\ IsJunction(Junction(relation, l, r)) /\ Junction(relation, l, r).relation = relation
           /\ Junction(relation, l, r).lhs = l /\ Junction(relation, l, r).rhs = r
BY DEF Junction, IsJunction

\* Pruning a junction whose sides are known pruned.
LEMMA PruneOfJunction ==
    ASSUME NEW center, NEW part, NEW relation, NEW l, NEW r, Junction(relation, l, r) \in Graphs,
           NEW x, NEW y, x = Prune(l, center, part), y = Prune(r, center, part)
    PROVE  Prune(Junction(relation, l, r), center, part) =
             IF x = NoGraph THEN y ELSE IF y = NoGraph THEN x ELSE Junction(relation, x, y)
<1> DEFINE g == Junction(relation, l, r)
<1>1. IsJunction(g) /\ g.lhs = l /\ g.rhs = r
  BY JunctionFields
<1>2. Prune(g, center, part) = PruneJunction(g, x, y)
  BY <1>1, PruneLaw
<1>3. g.relation = relation
  BY JunctionFields
<1> HIDE DEF g
<1>4. Prune(g, center, part) = IF x = NoGraph THEN y ELSE IF y = NoGraph THEN x ELSE Junction(relation, x, y)
  BY <1>2, <1>3 DEF PruneJunction
<1>5. QED
  BY <1>4 DEF g

\* The same for the type of the center, ...
LEMMA CenteredOfJunction ==
    ASSUME NEW center, NEW relation, NEW l, NEW r, Junction(relation, l, r) \in Graphs
    PROVE  Centered(Junction(relation, l, r), center) = Junction(relation, Centered(l, center), Centered(r, center))
<1> DEFINE g == Junction(relation, l, r)
<1>1. IsJunction(g) /\ g.lhs = l /\ g.rhs = r /\ g.relation = relation
  BY JunctionFields
<1>2. QED
  BY <1>1, CenteredLaw

\* ... for dereferencing, ...
LEMMA DerefOfJunction ==
    ASSUME NEW rows, NEW relation, NEW l, NEW r, Junction(relation, l, r) \in Graphs,
           NEW x, NEW y, x = DerefGraph(l, rows), y = DerefGraph(r, rows)
    PROVE  DerefGraph(Junction(relation, l, r), rows) =
             IF Invalid \in {x, y} THEN Invalid ELSE Junction(relation, x, y)
<1> DEFINE g == Junction(relation, l, r)
<1>1. IsJunction(g) /\ g.lhs = l /\ g.rhs = r
  BY JunctionFields
<1>2. DerefGraph(g, rows) = DerefJunction(g, x, y)
  BY <1>1, DerefGraphLaw
<1>3. g.relation = relation
  BY JunctionFields
<1> HIDE DEF g
<1>4. DerefGraph(g, rows) = IF Invalid \in {x, y} THEN Invalid ELSE Junction(relation, x, y)
  BY <1>2, <1>3 DEF DerefJunction
<1>5. QED
  BY <1>4 DEF g

\* ... for the comparison with records, ...
LEMMA MatchesOfJunction ==
    ASSUME NEW records, NEW relation, NEW l, NEW r, Junction(relation, l, r) \in Graphs
    PROVE  Matches(records, Junction(relation, l, r)) <=>
             IF relation = "AND" THEN Matches(records, l) /\ Matches(records, r)
                                 ELSE Matches(records, l) \/ Matches(records, r)
<1>1. Matches(records, Junction(relation, l, r)) =
        IF relation = "AND" THEN Matches(records, l) /\ Matches(records, r)
                            ELSE Matches(records, l) \/ Matches(records, r)
  BY MatchesLaw, JunctionFields
<1>2. QED
  BY <1>1, Zenon

\* ... and for the nodes.
LEMMA NodesOfJunction ==
    ASSUME NEW relation, NEW l, NEW r, Junction(relation, l, r) \in Graphs
    PROVE  Nodes(Junction(relation, l, r)) = {Junction(relation, l, r)} \union Nodes(l) \union Nodes(r)
BY NodesLaw, JunctionFields

\* What the functions on trees do to a leaf.
LEMMA OnLeaves ==
    ASSUME NEW g \in Leaves
    PROVE  /\ \A center, part : Prune(g, center, part) \in {g, NoGraph}
           /\ \A center : Centered(g, center) =
                IF IsComparison(g) /\ g.etype = AnyType THEN [g EXCEPT !.etype = center] ELSE g
           /\ \A rows : DerefGraph(g, rows) = IF IsComparison(g) THEN DerefComparison(g, rows) ELSE g
           /\ \A records : Matches(records, g) <=> (IsComparison(g) => \E r \in records : Holds(r, g))
           /\ Nodes(g) = {g}
<1>1. g \in Graphs /\ ~IsJunction(g)
  BY TreesUnfold, Levelled, DepthAssumption, LeafKinds DEF Levels
<1>2. \A center, part : Prune(g, center, part) \in {g, NoGraph}
  BY <1>1, PruneLaw
<1>3. \A center : Centered(g, center) =
                IF IsComparison(g) /\ g.etype = AnyType THEN [g EXCEPT !.etype = center] ELSE g
  BY <1>1, CenteredLaw
<1>4. \A rows : DerefGraph(g, rows) = IF IsComparison(g) THEN DerefComparison(g, rows) ELSE g
  BY <1>1, DerefGraphLaw
<1>5. ASSUME NEW records PROVE Matches(records, g) <=> (IsComparison(g) => \E r \in records : Holds(r, g))
  <2>1. Matches(records, g) = (IsComparison(g) => \E r \in records : Holds(r, g))
    BY <1>1, MatchesLaw
  <2>2. QED
    BY <2>1, Zenon
<1>6. Nodes(g) = {g}
  BY <1>1, NodesLaw
<1>7. QED
  BY <1>2, <1>3, <1>4, <1>5, <1>6

\* Where an operation does no more to a junction than to replace its sides or to drop
\* them, a tree does not get deeper.
LEMMA LevelKept ==
    ASSUME NEW F, \A g \in Leaves : F[g] \in Leaves,
           \A g \in Graphs : IsJunction(g) =>
             \/ F[g] \in Leaves \/ F[g] = F[g.lhs] \/ F[g] = F[g.rhs]
             \/ F[g] = Junction(g.relation, F[g.lhs], F[g.rhs])
    PROVE  \A n \in Levels : \A g \in Trees[n] : F[g] \in Trees[n]
<1> USE DepthAssumption
<1> DEFINE T == {n \in Nat : \A g \in Trees[n] : F[g] \in Trees[n]}
           top == PatternDepth + 1
<1>1. 0 \in T
  BY TreesUnfold
<1>2. ASSUME NEW n \in Nat, n < top, n \in T PROVE n + 1 \in T
  <2>1. n \in 0..PatternDepth /\ n + 1 \in Levels
    BY <1>2 DEF Levels
  <2>2. ASSUME NEW g \in Trees[n + 1] PROVE F[g] \in Trees[n + 1]
    <3>0. g \in Graphs
      BY <2>1, Levelled
    <3>1. Trees[n] \subseteq Trees[n + 1] /\ Leaves \subseteq Trees[n + 1]
      BY <2>1, TreesUnfold, Levelled
    <3>2. CASE g \in Leaves
      BY <3>1, <3>2
    <3>3. CASE g \notin Leaves
      <4>1. IsJunction(g) /\ g.relation \in {"AND", "OR"}
        BY <3>0, <3>3, TreeKinds
      <4>2. g.lhs \in Trees[n] /\ g.rhs \in Trees[n]
        BY <2>1, <4>1, SidesBelow
      <4>3. F[g.lhs] \in Trees[n] /\ F[g.rhs] \in Trees[n]
        BY <1>2, <4>2
      <4>4. Junction(g.relation, F[g.lhs], F[g.rhs]) \in Trees[n + 1]
        BY <2>1, <4>1, <4>3, MakesJunction
      <4>5. QED
        BY <3>0, <3>1, <4>1, <4>3, <4>4
    <3>4. QED
      BY <3>2, <3>3
  <2>3. QED
    BY <2>2
<1>3. top \in Nat
  OBVIOUS
<1> HIDE DEF T
<1>4. \A n \in 0..top : n \in T
  BY <1>1, <1>2, <1>3, UpTo
<1>5. QED
  BY <1>4 DEF T, Levels

\* Pruning makes no tree deeper, ...
LEMMA PruneStays ==
    ASSUME NEW center, NEW part, NEW n \in Levels, NEW g \in Trees[n]
    PROVE  Prune(g, center, part) \in Trees[n]
<1> DEFINE F == [h \in Graphs |-> Prune(h, center, part)]
<1>0. \A h \in Leaves : h \in Graphs
  BY TreesUnfold, Levelled, DepthAssumption DEF Levels
<1>1. \A h \in Leaves : F[h] \in Leaves
  BY <1>0, OnLeaves, SpecialKinds
<1>2. ASSUME NEW h \in Graphs, IsJunction(h)
      PROVE  \/ F[h] \in Leaves \/ F[h] = F[h.lhs] \/ F[h] = F[h.rhs]
             \/ F[h] = Junction(h.relation, F[h.lhs], F[h.rhs])
  <2>1. h \notin Leaves
    BY <1>2, LeafKinds
  <2>2. h.lhs \in Graphs /\ h.rhs \in Graphs /\ h = Junction(h.relation, h.lhs, h.rhs)
    BY <2>1, TreeKinds
  <2>3. F[h] = Prune(h, center, part) /\ F[h.lhs] = Prune(h.lhs, center, part) /\ F[h.rhs] = Prune(h.rhs, center, part)
    BY <2>2
  <2> HIDE DEF F
  <2>4. F[h] = IF F[h.lhs] = NoGraph THEN F[h.rhs] ELSE IF F[h.rhs] = NoGraph THEN F[h.lhs]
               ELSE Junction(h.relation, F[h.lhs], F[h.rhs])
    BY <2>2, <2>3, PruneOfJunction
  <2>5. QED
    BY <2>4
<1>3. g \in Graphs /\ F[g] = Prune(g, center, part)
  BY Levelled
<1> HIDE DEF F
<1>4. \A m \in Levels : \A h \in Trees[m] : F[h] \in Trees[m]
  BY <1>1, <1>2, LevelKept
<1>5. QED
  BY <1>3, <1>4

\* ... nor does the type of the center, ...
LEMMA CenteredStays ==
    ASSUME NEW center \in Names, NEW n \in Levels, NEW g \in Trees[n]
    PROVE  Centered(g, center) \in Trees[n]
<1> DEFINE F == [h \in Graphs |-> Centered(h, center)]
<1>0. \A h \in Leaves : h \in Graphs
  BY TreesUnfold, Levelled, DepthAssumption DEF Levels
<1>1. ASSUME NEW h \in Leaves PROVE F[h] \in Leaves
  <2>1. IsComparison(h) => [h EXCEPT !.etype = center] \in Leaves
    BY DEF Leaves, IsComparison, NoGraph, Invalid
  <2>2. QED
    BY <1>0, <2>1, OnLeaves
<1>2. ASSUME NEW h \in Graphs, IsJunction(h)
      PROVE  F[h] = Junction(h.relation, F[h.lhs], F[h.rhs])
  <2>1. h \notin Leaves
    BY <1>2, LeafKinds
  <2>2. h.lhs \in Graphs /\ h.rhs \in Graphs /\ h = Junction(h.relation, h.lhs, h.rhs)
    BY <2>1, TreeKinds
  <2>3. F[h] = Centered(h, center) /\ F[h.lhs] = Centered(h.lhs, center) /\ F[h.rhs] = Centered(h.rhs, center)
    BY <2>2
  <2> HIDE DEF F
  <2>4. QED
    BY <2>2, <2>3, CenteredOfJunction
<1>3. g \in Graphs /\ F[g] = Centered(g, center)
  BY Levelled
<1> HIDE DEF F
<1>4. \A m \in Levels : \A h \in Trees[m] : F[h] \in Trees[m]
  BY <1>1, <1>2, LevelKept
<1>5. QED
  BY <1>3, <1>4

\* The values that the references in a tree stand for are numbers.
Plain(g, rows) == \A i \in ReferencesIn(g) : Looked(i, rows) \subseteq Int

\* The references of a comparison are those of its operands, ...
LEMMA RefersOnLeaf ==
    ASSUME NEW g \in Leaves, IsComparison(g)
    PROVE  \A i : i \in ReferencesIn(g) <=> i \in g.items /\ IsReference(i)
<1>1. Nodes(g) = {g}
  BY OnLeaves
<1>2. Comparisons(g) = {g}
  BY <1>1 DEF Comparisons
<1>3. QED
  BY <1>2 DEF ReferencesIn

\* ... of a junction those of its sides.
LEMMA RefersOnJunction ==
    ASSUME NEW relation, NEW l, NEW r, Junction(relation, l, r) \in Graphs
    PROVE  \A i : i \in ReferencesIn(Junction(relation, l, r)) <=> i \in ReferencesIn(l) \/ i \in ReferencesIn(r)
<1>1. ~IsComparison(Junction(relation, l, r))
  BY DEF IsComparison, Junction
<1>2. \A c : c \in Comparisons(Junction(relation, l, r)) <=> c \in Comparisons(l) \/ c \in Comparisons(r)
  BY <1>1, NodesOfJunction DEF Comparisons
<1>3. QED
  BY <1>2 DEF ReferencesIn

\* A comparison with plain values stays a leaf.
LEMMA DerefComparisonStays ==
    ASSUME NEW c \in Leaves, IsComparison(c), NEW rows, Plain(c, rows)
    PROVE  DerefComparison(c, rows) \in Leaves
<1>1. c \in [node : {"comparison"}, etype : Names, attribute : Names, op : Ops, items : SUBSET Items]
  BY SpecialKinds DEF Leaves
<1>2. Flattened(c.items, rows) \subseteq Int
  <2> SUFFICES ASSUME NEW i \in c.items
               PROVE  (IF IsReference(i) THEN Looked(i, rows) ELSE {i.value}) \subseteq Int
    BY DEF Flattened
  <2>1. i \in Items
    BY <1>1
  <2>2. CASE IsReference(i)
    BY <2>2, RefersOnLeaf DEF Plain
  <2>3. CASE ~IsReference(i)
    BY <2>1, <2>3 DEF Items
  <2>4. QED
    BY <2>2, <2>3
<1>3. \A x \in Int : Literal(x) \in Items
  BY NamesAssumption DEF Literal, Items
<1>4. {Literal(x) : x \in Flattened(c.items, rows)} \subseteq Items
  BY <1>2, <1>3
<1>5. OpFor(c.op, Cardinality(Flattened(c.items, rows))) \in Ops \union {NoOp}
  <2>1. c.op \in Ops
    BY <1>1
  <2>2. QED
    BY <2>1 DEF OpFor, NoOp, Ops, ListOps
<1>6. \A op \in Ops : \A items \in SUBSET Items : Comparison(c.etype, c.attribute, op, items) \in Leaves
  BY <1>1 DEF Comparison, Leaves
<1>7. QED
  BY <1>4, <1>5, <1>6, SpecialKinds DEF DerefComparison

\* Dereferencing makes no tree deeper.
LEMMA DerefStays ==
    ASSUME NEW rows, NEW n \in Levels, NEW g \in Trees[n], Plain(g, rows)
    PROVE  DerefGraph(g, rows) \in Trees[n]
<1> DEFINE F == [h \in Graphs |-> IF Plain(h, rows) THEN DerefGraph(h, rows) ELSE NoGraph]
<1>0. \A h \in Leaves : h \in Graphs
  BY TreesUnfold, Levelled, DepthAssumption DEF Levels
<1>1. ASSUME NEW h \in Leaves PROVE F[h] \in Leaves
  <2>1. F[h] = IF Plain(h, rows) THEN DerefGraph(h, rows) ELSE NoGraph
    BY <1>0
  <2> HIDE DEF F
  <2>2. QED
    BY <2>1, OnLeaves, SpecialKinds, DerefComparisonStays
<1>2. ASSUME NEW h \in Graphs, IsJunction(h)
      PROVE  \/ F[h] \in Leaves \/ F[h] = F[h.lhs] \/ F[h] = F[h.rhs]
             \/ F[h] = Junction(h.relation, F[h.lhs], F[h.rhs])
  <2>1. h \notin Leaves
    BY <1>2, LeafKinds
  <2>2. h.lhs \in Graphs /\ h.rhs \in Graphs /\ h = Junction(h.relation, h.lhs, h.rhs)
    BY <2>1, TreeKinds
  <2>3. F[h] = IF Plain(h, rows) THEN DerefGraph(h, rows) ELSE NoGraph
    BY <2>2
  <2>4. F[h.lhs] = (IF Plain(h.lhs, rows) THEN DerefGraph(h.lhs, rows) ELSE NoGraph)
        /\ F[h.rhs] = (IF Plain(h.rhs, rows) THEN DerefGraph(h.rhs, rows) ELSE NoGraph)
    BY <2>2
  <2> HIDE DEF F
  <2>5. Plain(h, rows) => Plain(h.lhs, rows) /\ Plain(h.rhs, rows)
    BY <2>2, RefersOnJunction DEF Plain
  <2>6. DerefGraph(h, rows) = IF Invalid \in {DerefGraph(h.lhs, rows), DerefGraph(h.rhs, rows)} THEN Invalid
                              ELSE Junction(h.relation, DerefGraph(h.lhs, rows), DerefGraph(h.rhs, rows))
    BY <2>2, DerefOfJunction
  <2>7. QED
    BY <2>3, <2>4, <2>5, <2>6, SpecialKinds
<1>3. g \in Graphs /\ F[g] = DerefGraph(g, rows)
  BY Levelled
<1> HIDE DEF F
<1>4. \A m \in Levels : \A h \in Trees[m] : F[h] \in Trees[m]
  BY <1>1, <1>2, LevelKept
<1>5. QED
  BY <1>3, <1>4

\* The operands that stand for these values.
Literals(xs) == {Literal(x) : x \in xs}

\* A comparison for equality stays one, with the values of its operands.
LEMMA DerefOfEquality ==
    ASSUME NEW type, NEW attribute, NEW op \in {"=", "IN"}, NEW items, NEW rows,
           NEW xs, xs = Flattened(items, rows), IsFiniteSet(xs), xs # {}
    PROVE  \E is \in {"=", "IN"} :
             DerefComparison(Comparison(type, attribute, op, items), rows)
               = Comparison(type, attribute, is, Literals(xs))
<1> DEFINE c == Comparison(type, attribute, op, items)
<1>1. Cardinality(xs) \in Nat /\ Cardinality(xs) # 0
  BY FS_CardinalityType, FS_EmptySet
<1>2. c.etype = type /\ c.attribute = attribute /\ c.op = op /\ c.items = items
  BY DEF Comparison
<1>3. OpFor(op, Cardinality(xs)) \in {"=", "IN"}
  <2>1. CASE Cardinality(xs) = 1
    BY <2>1 DEF OpFor
  <2>2. CASE Cardinality(xs) > 1
    BY <2>2 DEF OpFor
  <2>3. QED
    BY <1>1, <2>1, <2>2
<1> HIDE DEF c
<1>4. DerefComparison(c, rows) = Comparison(type, attribute, OpFor(op, Cardinality(xs)), Literals(xs))
  BY <1>2, <1>3 DEF DerefComparison, NoOp, Literals
<1>5. QED
  BY <1>3, <1>4 DEF c

\* When a comparison for equality holds for a record.
LEMMA EqualityHolds ==
    ASSUME NEW type, NEW attribute, NEW op \in {"=", "IN"}, NEW xs, NEW r
    PROVE  Holds(r, Comparison(type, attribute, op, Literals(xs))) <=>
             r.type = type /\ attribute \in DOMAIN r /\ r[attribute] # Nothing /\ r[attribute] \in xs
<1> DEFINE c == Comparison(type, attribute, op, Literals(xs))
<1>1. c.etype = type /\ c.attribute = attribute /\ c.op = op /\ c.items = Literals(xs)
  BY DEF Comparison
<1>2. {i.value : i \in Literals(xs)} = xs
  <2>1. \A x : Literal(x).value = x
    BY DEF Literal
  <2>2. QED
    BY <2>1 DEF Literals
<1> HIDE DEF c
<1>3. {i.value : i \in c.items} = xs
  BY <1>1, <1>2
<1>4. Holds(r, c) <=> r.type = type /\ attribute \in DOMAIN r /\ r[attribute] # Nothing /\ r[attribute] \in xs
  BY <1>1, <1>3 DEF Holds
<1>5. QED
  BY <1>4 DEF c

-----------------------------------------------------------------------------
(* What pruning keeps. *)

\* Writing the type of the center twice is writing it once.
LEMMA CenteredTwice ==
    ASSUME NEW center \in Names
    PROVE  \A g \in Graphs : Centered(Centered(g, center), center) = Centered(g, center)
<1> DEFINE S == {g \in Graphs : Centered(Centered(g, center), center) = Centered(g, center)}
<1>1. PatternDepth + 1 \in Levels /\ 0 \in Levels /\ Graphs = Trees[PatternDepth + 1] /\ Leaves = Trees[0]
  BY DepthAssumption, TreesUnfold DEF Levels, Graphs
<1>2. ASSUME NEW g \in Leaves PROVE g \in S
  <2>1. g \in Graphs /\ Centered(g, center) \in Leaves
    BY <1>1, Levelled, CenteredStays
  <2>2. Centered(g, center) = IF IsComparison(g) /\ g.etype = AnyType THEN [g EXCEPT !.etype = center] ELSE g
    BY OnLeaves
  <2>3. IsComparison(g) => [g EXCEPT !.etype = center].etype = center /\ IsComparison([g EXCEPT !.etype = center])
    BY DEF Leaves, IsComparison, NoGraph, Invalid
  <2>4. IsComparison(g) => [[g EXCEPT !.etype = center] EXCEPT !.etype = center] = [g EXCEPT !.etype = center]
    BY DEF Leaves, IsComparison, NoGraph, Invalid
  <2>5. Centered(Centered(g, center), center)
          = IF IsComparison(Centered(g, center)) /\ Centered(g, center).etype = AnyType
            THEN [Centered(g, center) EXCEPT !.etype = center] ELSE Centered(g, center)
    BY <2>1, OnLeaves
  <2>6. CASE IsComparison(g) /\ g.etype = AnyType
    BY <2>1, <2>2, <2>3, <2>4, <2>5, <2>6
  <2>7. CASE ~(IsComparison(g) /\ g.etype = AnyType)
    BY <2>1, <2>2, <2>5, <2>7
  <2>8. QED
    BY <2>6, <2>7
<1>3. ASSUME NEW g \in Graphs, IsJunction(g), g.lhs \in S, g.rhs \in S PROVE g \in S
  <2>1. g = Junction(g.relation, g.lhs, g.rhs)
    BY <1>3, TreeKinds, LeafKinds
  <2>2. Centered(g, center) = Junction(g.relation, Centered(g.lhs, center), Centered(g.rhs, center))
    BY <2>1, CenteredOfJunction
  <2>3. Centered(g, center) \in Graphs
    BY <1>1, CenteredStays
  <2>4. Centered(Centered(g, center), center)
          = Junction(g.relation, Centered(Centered(g.lhs, center), center), Centered(Centered(g.rhs, center), center))
    BY <2>2, <2>3, CenteredOfJunction
  <2>5. QED
    BY <1>3, <2>2, <2>4
<1> HIDE DEF S
<1>4. \A g \in Graphs : g \in S
  BY <1>2, <1>3, TreeInduction
<1>5. QED
  BY <1>4 DEF S

\* No node of the tree offers a part about the entity itself as an alternative to one
\* about linked entities; in parts.
LEMMA MixedInParts ==
    ASSUME NEW center, NEW relation, NEW l, NEW r, Junction(relation, l, r) \in Graphs,
           ~MixedAlternatives(Junction(relation, l, r), center)
    PROVE  /\ ~MixedAlternatives(l, center) /\ ~MixedAlternatives(r, center)
           /\ relation = "OR" => ((Prune(l, center, "ext") = NoGraph) <=> (Prune(r, center, "ext") = NoGraph))
<1> DEFINE g == Junction(relation, l, r)
<1>1. IsJunction(g) /\ g.relation = relation /\ g.lhs = l /\ g.rhs = r
  BY JunctionFields
<1>2. g \in Nodes(g) /\ Nodes(l) \subseteq Nodes(g) /\ Nodes(r) \subseteq Nodes(g)
  BY NodesOfJunction
<1> HIDE DEF g
<1>3. ~MixedAlternatives(g, center)
  BY DEF g
<1>4. QED
  BY <1>1, <1>2, <1>3 DEF MixedAlternatives

\* What matches a pattern without mixed alternatives also matches the part of it about
\* linked entities.
LEMMA ExtendedPartMatches ==
    ASSUME NEW center \in Names, NEW records
    PROVE  \A g \in Graphs : ~MixedAlternatives(g, center) /\ Matches(records, Centered(g, center))
             => \/ Prune(g, center, "ext") = NoGraph
                \/ Matches(records, Centered(Prune(g, center, "ext"), center))
<1> DEFINE S == {g \in Graphs : ~MixedAlternatives(g, center) /\ Matches(records, Centered(g, center))
             => \/ Prune(g, center, "ext") = NoGraph
                \/ Matches(records, Centered(Prune(g, center, "ext"), center))}
<1>1. PatternDepth + 1 \in Levels /\ Graphs = Trees[PatternDepth + 1]
  BY DepthAssumption DEF Levels, Graphs
<1>2. ASSUME NEW g \in Leaves PROVE g \in S
  <2>1. g \in Graphs
    BY <1>1, Levelled
  <2>2. Prune(g, center, "ext") \in {g, NoGraph}
    BY OnLeaves
  <2>3. QED
    BY <2>1, <2>2
<1>3. ASSUME NEW g \in Graphs, IsJunction(g), g.lhs \in S, g.rhs \in S PROVE g \in S
  <2> SUFFICES ASSUME ~MixedAlternatives(g, center), Matches(records, Centered(g, center)),
                      Prune(g, center, "ext") # NoGraph
               PROVE  Matches(records, Centered(Prune(g, center, "ext"), center))
    OBVIOUS
  <2> DEFINE l == g.lhs
             r == g.rhs
             x == Prune(l, center, "ext")
             y == Prune(r, center, "ext")
  <2>1. g = Junction(g.relation, l, r) /\ g.relation \in {"AND", "OR"}
    BY <1>3, TreeKinds, LeafKinds
  <2>2. Centered(g, center) = Junction(g.relation, Centered(l, center), Centered(r, center))
    BY <2>1, CenteredOfJunction
  <2>3. Centered(g, center) \in Graphs /\ Prune(g, center, "ext") \in Graphs
        /\ Centered(Prune(g, center, "ext"), center) \in Graphs
    BY <1>1, CenteredStays, PruneStays
  <2>4. IF g.relation = "AND" THEN Matches(records, Centered(l, center)) /\ Matches(records, Centered(r, center))
                              ELSE Matches(records, Centered(l, center)) \/ Matches(records, Centered(r, center))
    BY <2>2, <2>3, MatchesOfJunction
  <2>5. Prune(g, center, "ext") = IF x = NoGraph THEN y ELSE IF y = NoGraph THEN x ELSE Junction(g.relation, x, y)
    BY <2>1, PruneOfJunction
  <2>6. /\ ~MixedAlternatives(l, center) /\ ~MixedAlternatives(r, center)
        /\ g.relation = "OR" => ((x = NoGraph) <=> (y = NoGraph))
    BY <2>1, MixedInParts
  <2>7. /\ Matches(records, Centered(l, center)) => x = NoGraph \/ Matches(records, Centered(x, center))
        /\ Matches(records, Centered(r, center)) => y = NoGraph \/ Matches(records, Centered(y, center))
    BY <1>3, <2>6
  <2> HIDE DEF l, r, x, y
  <2>8. CASE x = NoGraph \/ y = NoGraph
    BY <2>1, <2>4, <2>5, <2>6, <2>7, <2>8
  <2>9. CASE x # NoGraph /\ y # NoGraph
    <3>1. Prune(g, center, "ext") = Junction(g.relation, x, y)
      BY <2>5, <2>9
    <3>2. Centered(Prune(g, center, "ext"), center) = Junction(g.relation, Centered(x, center), Centered(y, center))
      BY <2>3, <3>1, CenteredOfJunction
    <3>3. Matches(records, Centered(Prune(g, center, "ext"), center)) <=>
            IF g.relation = "AND" THEN Matches(records, Centered(x, center)) /\ Matches(records, Centered(y, center))
                                  ELSE Matches(records, Centered(x, center)) \/ Matches(records, Centered(y, center))
      BY <2>3, <3>2, MatchesOfJunction
    <3>4. QED
      BY <2>4, <2>7, <2>9, <3>3
  <2>10. QED
    BY <2>8, <2>9
<1> HIDE DEF S
<1>4. \A g \in Graphs : g \in S
  BY <1>2, <1>3, TreeInduction
<1>5. QED
  BY <1>4 DEF S

\* The part about linked entities says nothing about the entity itself.
LEMMA ExtendedPartIsNotCentral ==
    ASSUME NEW center \in Names, NEW records
    PROVE  \A g \in Graphs :
             Matches(records, Prune(Centered(Prune(g, center, "ext"), center), center, "center"))
<1> DEFINE Rest(g) == Prune(Centered(Prune(g, center, "ext"), center), center, "center")
           S == {g \in Graphs : Matches(records, Rest(g))}
<1>1. PatternDepth + 1 \in Levels /\ Graphs = Trees[PatternDepth + 1] /\ 0 \in Levels /\ Leaves = Trees[0]
  BY DepthAssumption, TreesUnfold DEF Levels, Graphs
<1>2. Matches(records, NoGraph)
  BY OnLeaves, SpecialKinds
<1>3. Centered(NoGraph, center) = NoGraph /\ Prune(NoGraph, center, "center") = NoGraph
  BY OnLeaves, SpecialKinds
<1>4. ASSUME NEW g \in Leaves PROVE g \in S
  <2>1. g \in Graphs /\ ~IsJunction(g)
    BY <1>1, Levelled, LeafKinds
  <2>2. CASE ~IsComparison(g)
    <3>1. \A h : h \in {g, NoGraph} => Matches(records, h) /\ h \in Leaves /\ Centered(h, center) = h
      BY <1>2, <1>3, <2>2, OnLeaves, SpecialKinds
    <3>2. Prune(g, center, "ext") \in {g, NoGraph}
      BY OnLeaves
    <3>3. Rest(g) \in {g, NoGraph}
      BY <3>1, <3>2, OnLeaves
    <3>4. QED
      BY <2>1, <3>1, <3>3
  <2>3. CASE IsComparison(g)
    <3>1. Prune(g, center, "ext") = IF ~Preserves(g.etype, center, "ext") THEN NoGraph ELSE g
      BY <2>1, <2>3, PruneLaw
    <3>2. CASE ~Preserves(g.etype, center, "ext")
      BY <1>2, <1>3, <2>1, <3>1, <3>2
    <3>3. CASE Preserves(g.etype, center, "ext")
      <4>1. g.etype \notin {AnyType, center}
        BY <3>3 DEF Preserves
      <4>2. Centered(g, center) = g
        BY <2>1, <4>1, CenteredLaw
      <4>3. Prune(g, center, "center") = NoGraph
        BY <2>1, <2>3, <4>1, PruneLaw DEF Preserves
      <4>4. QED
        BY <1>2, <2>1, <3>1, <3>3, <4>2, <4>3
    <3>4. QED
      BY <3>2, <3>3
  <2>4. QED
    BY <2>2, <2>3
<1>5. ASSUME NEW g \in Graphs, IsJunction(g), g.lhs \in S, g.rhs \in S PROVE g \in S
  <2> DEFINE l == g.lhs
             r == g.rhs
             x == Prune(l, center, "ext")
             y == Prune(r, center, "ext")
             p == Prune(g, center, "ext")
  <2>1. g = Junction(g.relation, l, r) /\ g.relation \in {"AND", "OR"}
    BY <1>5, TreeKinds, LeafKinds
  <2>2. p \in Graphs /\ Centered(p, center) \in Graphs /\ Rest(g) \in Graphs
    BY <1>1, CenteredStays, PruneStays
  <2>3. p = IF x = NoGraph THEN y ELSE IF y = NoGraph THEN x ELSE Junction(g.relation, x, y)
    BY <2>1, PruneOfJunction
  <2>4. Rest(g) = Prune(Centered(p, center), center, "center")
        /\ Rest(l) = Prune(Centered(x, center), center, "center")
        /\ Rest(r) = Prune(Centered(y, center), center, "center")
        /\ Matches(records, Rest(l)) /\ Matches(records, Rest(r))
    BY <1>5
  <2> HIDE DEF l, r, x, y, p, Rest
  <2>5. CASE x = NoGraph \/ y = NoGraph
    <3>1. Rest(g) \in {Rest(l), Rest(r)}
      BY <2>3, <2>4, <2>5
    <3>2. QED
      BY <2>4, <3>1
  <2>6. CASE x # NoGraph /\ y # NoGraph
    <3>1. p = Junction(g.relation, x, y)
      BY <2>3, <2>6
    <3>2. Centered(p, center) = Junction(g.relation, Centered(x, center), Centered(y, center))
      BY <2>2, <3>1, CenteredOfJunction
    <3>3. Rest(g) = IF Rest(l) = NoGraph THEN Rest(r) ELSE IF Rest(r) = NoGraph THEN Rest(l)
                    ELSE Junction(g.relation, Rest(l), Rest(r))
      BY <2>2, <2>4, <3>2, PruneOfJunction
    <3>4. CASE Rest(g) = Junction(g.relation, Rest(l), Rest(r))
      BY <2>2, <2>4, <3>4, MatchesOfJunction
    <3>5. QED
      BY <2>4, <3>3, <3>4
  <2>7. QED
    BY <2>5, <2>6
<1> HIDE DEF S
<1>6. \A g \in Graphs : g \in S
  BY <1>4, <1>5, TreeInduction
<1>7. QED
  BY <1>6 DEF S

-----------------------------------------------------------------------------
(* Time ranges. *)

\* A finite set of numbers has a least and a greatest element.
LEMMA Extremes ==
    ASSUME NEW S \in SUBSET Int, IsFiniteSet(S), S # {}
    PROVE  /\ Min(S) \in S /\ \A x \in S : Min(S) <= x
           /\ Max(S) \in S /\ \A x \in S : x <= Max(S)
<1> DEFINE Bounded(Q) == (\E m \in Q : \A x \in Q : m <= x) /\ \E m \in Q : \A x \in Q : x <= m
           T == {n \in Nat : \A Q \in SUBSET S : Q # {} /\ Cardinality(Q) = n => Bounded(Q)}
           top == Cardinality(S)
<1>1. 0 \in T
  <2> SUFFICES ASSUME NEW Q \in SUBSET S, Q # {}, Cardinality(Q) = 0 PROVE FALSE
    OBVIOUS
  <2>1. IsFiniteSet(Q)
    BY FS_Subset
  <2>2. QED
    BY <2>1, FS_EmptySet
<1>2. ASSUME NEW n \in Nat, n < top, n \in T PROVE n + 1 \in T
  <2> SUFFICES ASSUME NEW Q \in SUBSET S, Q # {}, Cardinality(Q) = n + 1 PROVE Bounded(Q)
    OBVIOUS
  <2>1. IsFiniteSet(Q)
    BY FS_Subset
  <2>2. PICK q \in Q : TRUE
    OBVIOUS
  <2> DEFINE R == Q \ {q}
  <2>3. Cardinality(R) = n
    <3>1. Cardinality(R) = Cardinality(Q) - 1
      BY <2>1, <2>2, FS_RemoveElement
    <3>2. QED
      BY <3>1
  <2>4. q \in Int /\ R \in SUBSET S
    BY <2>2
  <2>5. CASE R = {}
    <3>1. Q = {q}
      BY <2>2, <2>5
    <3>2. QED
      BY <2>4, <3>1
  <2>6. CASE R # {}
    <3>1. Bounded(R)
      BY <1>2, <2>3, <2>4, <2>6
    <3>2. PICK a \in R : \A x \in R : a <= x
      BY <3>1
    <3>3. PICK b \in R : \A x \in R : x <= b
      BY <3>1
    <3>4. a \in Int /\ b \in Int /\ \A x \in Q : x \in Int /\ (x = q \/ x \in R)
      BY <2>4, <3>2, <3>3
    <3> HIDE DEF R
    <3>5. \E m \in {a, q} : \A x \in Q : m <= x
      BY <2>4, <3>2, <3>4
    <3>6. \E m \in {b, q} : \A x \in Q : x <= m
      BY <2>4, <3>3, <3>4
    <3>7. a \in Q /\ b \in Q
      BY <3>2, <3>3 DEF R
    <3>8. QED
      BY <2>2, <3>5, <3>6, <3>7
  <2>7. QED
    BY <2>5, <2>6
<1>3. top \in Nat
  BY FS_CardinalityType
<1> HIDE DEF T, Bounded
<1>4. \A n \in 0..top : n \in T
  BY <1>1, <1>2, <1>3, UpTo
<1>5. top \in T
  BY <1>3, <1>4
<1>6. Bounded(S)
  BY <1>5 DEF T
<1>7. (\E m \in S : \A x \in S : m <= x) /\ \E m \in S : \A x \in S : m >= x
  BY <1>6 DEF Bounded
<1>8. Min(S) \in S /\ \A x \in S : Min(S) <= x
  BY <1>7 DEF Min
<1>9. Max(S) \in S /\ \A x \in S : Max(S) >= x
  BY <1>7 DEF Max
<1>10. \A x \in S : x \in Int /\ Max(S) \in Int /\ Max(S) >= x
  BY <1>9
<1>11. QED
  BY <1>8, <1>9, <1>10

\* The values of a function on a finite set are finitely many.
LEMMA FiniteImage ==
    ASSUME NEW S, IsFiniteSet(S), NEW f, DOMAIN f = S
    PROVE  IsFiniteSet({f[x] : x \in S})
<1> DEFINE T == {f[x] : x \in S}
           g == [x \in S |-> f[x]]
<1>1. g \in [S -> T] /\ \A t \in T : \E x \in S : g[x] = t
  OBVIOUS
<1>2. g \in Surjection(S, T)
  BY <1>1 DEF Surjection
<1> HIDE DEF g, T
<1>3. IsFiniteSet(T)
  BY <1>2, FS_Surjection
<1>4. QED
  BY <1>3 DEF T

Pairs == Int \X Int

\* A time range is not NoRange, and its two ends are numbers.
LEMMA PairFacts ==
    /\ NoRange \notin Pairs
    /\ \A p \in Pairs : p[1] \in Int /\ p[2] \in Int
    /\ \A a, b \in Int : <<a, b>> \in Pairs /\ <<a, b>>[1] = a /\ <<a, b>>[2] = b /\ <<a, b>> # NoRange
BY DEF Pairs, NoRange

\* The merged range spans every one of the ranges.
LEMMA MergedSpans ==
    ASSUME NEW ranges \in SUBSET ({NoRange} \union Pairs), IsFiniteSet(ranges),
           NEW tr \in ranges, tr # NoRange
    PROVE  /\ MergeTimeranges(ranges) \in Pairs /\ MergeTimeranges(ranges) # NoRange
           /\ MergeTimeranges(ranges)[1] <= tr[1] /\ tr[2] <= MergeTimeranges(ranges)[2]
<1> DEFINE trs == ranges \ {NoRange}
           A == {p[1] : p \in trs}
           B == {p[2] : p \in trs}
<1>1. IsFiniteSet(trs)
  BY FS_Subset
<1>2. IsFiniteSet(A)
  <2> DEFINE f == [p \in trs |-> p[1]]
  <2>1. IsFiniteSet({f[p] : p \in trs})
    BY <1>1, FiniteImage
  <2>2. {f[p] : p \in trs} = A
    OBVIOUS
  <2>3. QED
    BY <2>1, <2>2
<1>3. IsFiniteSet(B)
  <2> DEFINE f == [p \in trs |-> p[2]]
  <2>1. IsFiniteSet({f[p] : p \in trs})
    BY <1>1, FiniteImage
  <2>2. {f[p] : p \in trs} = B
    OBVIOUS
  <2>3. QED
    BY <2>1, <2>2
<1>4. tr \in trs /\ trs # {}
  OBVIOUS
<1>5. A \in SUBSET Int /\ B \in SUBSET Int /\ tr[1] \in A /\ tr[2] \in B
  BY <1>4, PairFacts
<1> HIDE DEF A, B
<1>6. Min(A) \in A /\ Min(A) <= tr[1]
  BY <1>2, <1>5, Extremes
<1>7. Max(B) \in B /\ tr[2] <= Max(B)
  BY <1>3, <1>5, Extremes
<1>8. MergeTimeranges(ranges) = <<Min(A), Max(B)>>
  BY <1>4 DEF MergeTimeranges, A, B
<1>9. Min(A) \in Int /\ Max(B) \in Int
  BY <1>5, <1>6, <1>7
<1>10. QED
  BY <1>6, <1>7, <1>8, <1>9, PairFacts

\* Merging time ranges gives a time range or none.
LEMMA MergedType ==
    ASSUME NEW ranges \in SUBSET ({NoRange} \union Pairs), IsFiniteSet(ranges)
    PROVE  MergeTimeranges(ranges) \in {NoRange} \union Pairs
<1>1. CASE \E tr \in ranges : tr # NoRange
  BY <1>1, MergedSpans
<1>2. CASE ~\E tr \in ranges : tr # NoRange
  <2>1. ranges \ {NoRange} = {}
    BY <1>2
  <2>2. QED
    BY <2>1 DEF MergeTimeranges
<1>3. QED
  BY <1>1, <1>2

\* Records as the data sources have them.
Observed == UNION Observations

\* What every record has.
LEMMA RecordFacts ==
    ASSUME NEW r \in Observed
    PROVE  /\ "id" \in DOMAIN r /\ r.type \in Names /\ r["id"] \in Int /\ r["id"] \notin Falsy
           /\ r.first \in Int /\ r.last \in Int /\ r.first <= r.last
           /\ r.type = "process" => /\ "pid" \in DOMAIN r /\ r["pid"] \in Int
                                    /\ "uid" \in DOMAIN r /\ r["uid"] \in Int
BY ObservationsAssumption DEF Observed

\* The time a variable spans covers each of its records.
LEMMA VarTimerangeSpans ==
    ASSUME NEW rows \in SUBSET Observed, IsFiniteSet(rows), NEW r \in rows
    PROVE  /\ VarTimerange(rows) \in Pairs /\ VarTimerange(rows) # NoRange
           /\ VarTimerange(rows)[1] <= r.first /\ r.last <= VarTimerange(rows)[2]
<1> DEFINE ranges == {<<q.first, q.last>> : q \in rows}
<1>1. IsFiniteSet(ranges)
  <2> DEFINE f == [q \in rows |-> <<q.first, q.last>>]
  <2>1. IsFiniteSet({f[q] : q \in rows})
    BY FiniteImage
  <2>2. {f[q] : q \in rows} = ranges
    OBVIOUS
  <2>3. QED
    BY <2>1, <2>2
<1>2. ranges \in SUBSET Pairs
  BY RecordFacts, PairFacts
<1>3. PICK tr \in ranges : tr = <<r.first, r.last>>
  OBVIOUS
<1>4. tr # NoRange /\ tr[1] = r.first /\ tr[2] = r.last
  BY <1>3, RecordFacts, PairFacts
<1> HIDE DEF ranges
<1>5. ranges \in SUBSET ({NoRange} \union Pairs)
  BY <1>2
<1>6. /\ MergeTimeranges(ranges) \in Pairs /\ MergeTimeranges(ranges) # NoRange
      /\ MergeTimeranges(ranges)[1] <= tr[1] /\ tr[2] <= MergeTimeranges(ranges)[2]
  BY <1>1, <1>4, <1>5, MergedSpans
<1>7. VarTimerange(rows) = MergeTimeranges(ranges)
  BY DEF VarTimerange, ranges
<1>8. QED
  BY <1>4, <1>6, <1>7

-----------------------------------------------------------------------------
(* The patterns of the prefetch. *)

\* The parts of a dereferenced pattern.
LEMMA DerefFields ==
    ASSUME NEW g, NEW rows, NEW tr, tr = MergeTimeranges({VarTimerange(rows[i.variable]) : i \in ReferencesIn(g)})
    PROVE  /\ Deref(Pattern(g), rows) = [graph |-> DerefGraph(g, rows), timerange |-> tr, center |-> AnyType]
           /\ \A t : [Deref(Pattern(g), rows) EXCEPT !.center = t]
                       = [graph |-> DerefGraph(g, rows), timerange |-> tr, center |-> t]
<1>1. Pattern(g).graph = g
  BY DEF Pattern
<1>2. Deref(Pattern(g), rows) = [Pattern(g) EXCEPT !.graph = DerefGraph(@, rows), !.timerange = tr]
  BY <1>1 DEF Deref
<1>3. Deref(Pattern(g), rows) = [graph |-> DerefGraph(g, rows), timerange |-> tr, center |-> AnyType]
  BY <1>1, <1>2 DEF Pattern
<1>4. QED
  BY <1>3

\* Entities are identified by id, processes that have one also by uid or pid.
LEMMA IdentityKinds ==
    ASSUME NEW type, NEW rows
    PROVE  \/ IdAttribute(type, rows) = "id"
           \/ /\ type = "process" /\ IdAttribute(type, rows) \in {"uid", "pid"}
              /\ \E r \in rows : r[IdAttribute(type, rows)] \notin Falsy
<1> DEFINE ids == IdentityAttributes(type)
           found == {i \in 1..Len(ids) : \E r \in rows : r[ids[i]] \notin Falsy}
<1>1. IdAttribute(type, rows) = IF found = {} THEN "id" ELSE ids[Min(found)]
  BY DEF IdAttribute
<1>2. CASE type # "process"
  <2>1. ids = <<>> /\ found = {}
    BY <1>2 DEF IdentityAttributes
  <2>2. QED
    BY <1>1, <2>1
<1>3. CASE type = "process"
  <2>1. ids = <<"uid", "pid">>
    BY <1>3 DEF IdentityAttributes
  <2>2. found \in SUBSET (1..2)
    BY <2>1
  <2>3. IsFiniteSet(1..2)
    <3>1. IsFiniteSet({}) /\ IsFiniteSet({} \union {1})
      BY FS_EmptySet, FS_AddElement
    <3>2. IsFiniteSet(({} \union {1}) \union {2})
      BY <3>1, FS_AddElement
    <3>3. ({} \union {1}) \union {2} = 1..2
      OBVIOUS
    <3>4. QED
      BY <3>2, <3>3
  <2>4. IsFiniteSet(found)
    BY <2>2, <2>3, FS_Subset
  <2>5. ASSUME found # {} PROVE ids[Min(found)] \in {"uid", "pid"} /\ \E r \in rows : r[ids[Min(found)]] \notin Falsy
    <3>1. found \in SUBSET Int
      BY <2>2
    <3>2. Min(found) \in found
      BY <2>4, <2>5, <3>1, Extremes
    <3>3. \A i \in 1..2 : ids[i] \in {"uid", "pid"}
      BY <2>1
    <3>4. Min(found) \in 1..2 /\ \E r \in rows : r[ids[Min(found)]] \notin Falsy
      BY <2>2, <3>2
    <3>5. QED
      BY <3>3, <3>4
  <2>6. QED
    BY <1>1, <1>3, <2>5
<1>4. QED
  BY <1>2, <1>3

\* The values by which identical entities are searched.
Identifiers(id, rows) == {r[id] : r \in rows} \ Falsy

\* The search for identical entities compares the identifier with those of the rows.
LEMMA IdentityPattern ==
    ASSUME NEW s, s.type \in Names, NEW rows \in SUBSET Observed, IsFiniteSet(rows),
           \A r \in rows : r.type = s.type,
           NEW id, id = IdAttribute(s.type, rows), NEW p, p = IdenticalEntities(s, rows)
    PROVE  /\ p = [graph |-> p.graph, timerange |-> p.timerange, center |-> s.type]
           /\ p.graph \in Leaves
           /\ p.timerange = MergeTimeranges({VarTimerange(rows)})
           /\ Identifiers(id, rows) # {} => \E op \in {"=", "IN"} :
                p.graph = Comparison(s.type, id, op, Literals(Identifiers(id, rows)))
<1> DEFINE item == Reference("local", id)
           c == Comparison(s.type, id, "=", {item})
           given == [x \in {"local"} |-> rows]
<1>1. IsReference(item) /\ item.variable = "local" /\ item.attribute = id
  BY DEF Reference, IsReference
<1>2. given[item.variable] = rows
  BY <1>1
<1>3. p = [Deref(Pattern(c), given) EXCEPT !.center = s.type]
  BY DEF IdenticalEntities
<1>4. id \in Names
  <2>1. id = "id" \/ id = "uid" \/ id = "pid"
    BY IdentityKinds
  <2>2. QED
    BY <2>1, NamesAssumption
<1>5. item \in Items
  <2>1. "local" \in Names
    BY NamesAssumption
  <2>2. item = [variable |-> "local", attribute |-> id, value |-> -1]
    BY DEF Reference, Nothing
  <2>3. QED
    BY <1>4, <2>1, <2>2 DEF Items
<1>6. c \in Leaves /\ IsComparison(c) /\ c.items = {item}
  BY <1>4, <1>5 DEF Leaves, Comparison, IsComparison, Ops
<1>7. \A i : i \in ReferencesIn(c) <=> i = item
  BY <1>1, <1>6, RefersOnLeaf
<1>8. Looked(item, given) = Identifiers(id, rows)
  BY <1>1, <1>2 DEF Looked, Identifiers
<1>9. Identifiers(id, rows) \subseteq Int
  <2>1. \A r \in rows : r[id] \in Int
    BY RecordFacts, IdentityKinds
  <2>2. QED
    BY <2>1 DEF Identifiers
<1>10. DerefGraph(c, given) = DerefComparison(c, given)
  BY <1>6, OnLeaves
<1>11. DerefComparison(c, given) \in Leaves
  BY <1>6, <1>7, <1>8, <1>9, DerefComparisonStays DEF Plain
<1>12. {VarTimerange(given[i.variable]) : i \in ReferencesIn(c)} = {VarTimerange(rows)}
  BY <1>2, <1>7
<1>13. ASSUME Identifiers(id, rows) # {}
       PROVE  \E op \in {"=", "IN"} :
                DerefComparison(c, given) = Comparison(s.type, id, op, Literals(Identifiers(id, rows)))
  <2>1. Flattened({item}, given) = Identifiers(id, rows)
    BY <1>1, <1>8 DEF Flattened
  <2>2. IsFiniteSet({r[id] : r \in rows})
    <3> DEFINE f == [r \in rows |-> r[id]]
    <3>1. IsFiniteSet({f[r] : r \in rows})
      BY FiniteImage
    <3>2. {f[r] : r \in rows} = {r[id] : r \in rows}
      OBVIOUS
    <3>3. QED
      BY <3>1, <3>2
  <2>3. IsFiniteSet(Identifiers(id, rows))
    BY <2>2, FS_Subset DEF Identifiers
  <2>4. PICK op \in {"=", "IN"}, xs \in {Identifiers(id, rows)} : op = "=" /\ xs = Identifiers(id, rows)
    OBVIOUS
  <2>5. xs = Flattened({item}, given) /\ IsFiniteSet(xs) /\ xs # {}
    BY <1>13, <2>1, <2>3, <2>4
  <2> HIDE DEF item, given
  <2>6. \E is \in {"=", "IN"} :
          DerefComparison(Comparison(s.type, id, op, {item}), given)
            = Comparison(s.type, id, is, Literals(xs))
    BY <2>5, DerefOfEquality
  <2>7. QED
    BY <2>4, <2>6
<1> HIDE DEF c, given
<1> DEFINE tr == MergeTimeranges({VarTimerange(given[i.variable]) : i \in ReferencesIn(c)})
<1>14. p = [graph |-> DerefGraph(c, given), timerange |-> tr, center |-> s.type]
  BY <1>3, DerefFields
<1>15. tr = MergeTimeranges({VarTimerange(rows)})
  BY <1>12
<1> HIDE DEF tr
<1>16. QED
  BY <1>10, <1>11, <1>13, <1>14, <1>15

\* A pattern refers to finitely many attributes.
LEMMA NodesFinite ==
    \A g \in Graphs : IsFiniteSet(Nodes(g))
<1> DEFINE S == {g \in Graphs : IsFiniteSet(Nodes(g))}
<1>1. ASSUME NEW g \in Leaves PROVE g \in S
  <2>1. IsFiniteSet({}) /\ IsFiniteSet({} \union {g})
    BY FS_EmptySet, FS_AddElement
  <2>2. Nodes(g) = {} \union {g}
    BY OnLeaves
  <2>3. g \in Graphs
    BY Levelled, TreesUnfold, DepthAssumption DEF Levels
  <2>4. QED
    BY <2>1, <2>2, <2>3
<1>2. ASSUME NEW g \in Graphs, IsJunction(g), g.lhs \in S, g.rhs \in S PROVE g \in S
  <2> DEFINE L == Nodes(g.lhs)
             R == Nodes(g.rhs)
  <2>1. IsFiniteSet(L) /\ IsFiniteSet(R)
    BY <1>2
  <2>2. Nodes(g) = {g} \union L \union R
    BY <1>2, NodesLaw
  <2> HIDE DEF L, R
  <2>3. IsFiniteSet(L \union R)
    BY <2>1, FS_Union
  <2>4. IsFiniteSet((L \union R) \union {g})
    BY <2>3, FS_AddElement
  <2>5. Nodes(g) = (L \union R) \union {g}
    BY <2>2
  <2>6. QED
    BY <2>4, <2>5
<1> HIDE DEF S
<1>3. \A g \in Graphs : g \in S
  BY <1>1, <1>2, TreeInduction
<1>4. QED
  BY <1>3 DEF S

\* A pattern with finite lists has finitely many references.
LEMMA ReferencesFinite ==
    ASSUME NEW g \in Graphs, \A c \in Comparisons(g) : IsFiniteSet(c.items)
    PROVE  IsFiniteSet(ReferencesIn(g))
<1> DEFINE C == Comparisons(g)
           f == [c \in C |-> {i \in c.items : IsReference(i)}]
           D == {f[c] : c \in C}
<1>1. IsFiniteSet(C)
  <2>1. IsFiniteSet(Nodes(g))
    BY NodesFinite
  <2>2. C \in SUBSET Nodes(g)
    BY DEF Comparisons
  <2>3. QED
    BY <2>1, <2>2, FS_Subset
<1>2. \A c \in C : IsFiniteSet(f[c])
  <2> TAKE c \in C
  <2>1. IsFiniteSet(c.items)
    OBVIOUS
  <2>2. f[c] \in SUBSET c.items
    OBVIOUS
  <2>3. QED
    BY <2>1, <2>2, FS_Subset
<1>3. IsFiniteSet(D)
  BY <1>1, FiniteImage
<1>4. \A d \in D : IsFiniteSet(d)
  BY <1>2
<1>5. UNION D = ReferencesIn(g)
  BY DEF ReferencesIn
<1> HIDE DEF D
<1>6. IsFiniteSet(UNION D)
  BY <1>3, <1>4, FS_UNION
<1>7. QED
  BY <1>5, <1>6

\* There are finitely many records.
LEMMA ObservedFinite ==
    /\ IsFiniteSet(Observed)
    /\ \A rows \in SUBSET Observed : IsFiniteSet(rows)
<1>1. IsFiniteSet(Observed)
  BY ObservationsAssumption, FS_UNION DEF Observed
<1>2. QED
  BY <1>1, FS_Subset

\* The time of a variable is a time range or none.
LEMMA VarTimerangeType ==
    ASSUME NEW rows \in SUBSET Observed
    PROVE  VarTimerange(rows) \in {NoRange} \union Pairs
<1>1. IsFiniteSet(rows)
  BY ObservedFinite
<1>2. CASE \E r \in rows : TRUE
  BY <1>1, <1>2, VarTimerangeSpans
<1>3. CASE rows = {}
  <2>1. {<<r.first, r.last>> : r \in rows} = {}
    BY <1>3
  <2>2. QED
    BY <2>1 DEF VarTimerange, MergeTimeranges
<1>4. QED
  BY <1>2, <1>3

\* The times of the variables that a pattern refers to.
ReferredRanges(g, rows) == {VarTimerange(rows[i.variable]) : i \in ReferencesIn(g)}

\* So are the times of all variables that are referred to, finitely many.
LEMMA ReferredRangesFacts ==
    ASSUME NEW g \in Graphs, \A c \in Comparisons(g) : IsFiniteSet(c.items),
           NEW rows, \A i \in ReferencesIn(g) : rows[i.variable] \in SUBSET Observed
    PROVE  ReferredRanges(g, rows) \in SUBSET ({NoRange} \union Pairs) /\ IsFiniteSet(ReferredRanges(g, rows))
<1>1. IsFiniteSet(ReferencesIn(g))
  BY ReferencesFinite
<1> DEFINE f == [i \in ReferencesIn(g) |-> VarTimerange(rows[i.variable])]
<1>2. IsFiniteSet({f[i] : i \in ReferencesIn(g)})
  BY <1>1, FiniteImage
<1>3. {f[i] : i \in ReferencesIn(g)} = ReferredRanges(g, rows)
  BY DEF ReferredRanges
<1>4. \A i \in ReferencesIn(g) : VarTimerange(rows[i.variable]) \in {NoRange} \union Pairs
  BY VarTimerangeType
<1>5. QED
  BY <1>2, <1>3, <1>4 DEF ReferredRanges

\* The parts of a STIX pattern.
LEMMA ToStixFields ==
    ASSUME NEW p, NEW range
    PROVE  /\ ToStix(p, range, TimerangeStart, TimerangeStop).graph = Centered(p.graph, p.center)
           /\ ToStix(p, range, TimerangeStart, TimerangeStop).range
                = IF range # NoRange THEN range ELSE Adjusted(p.timerange, TimerangeStart, TimerangeStop)
BY DEF ToStix

\* The parts of two patterns merged.
LEMMA ExtendFields ==
    ASSUME NEW g, NEW tr, NEW center, NEW p, p = [graph |-> g, timerange |-> tr, center |-> center],
           NEW other, other.center = center
    PROVE  /\ other.graph = NoGraph => Extend(p, other) = p
           /\ other.graph # NoGraph =>
                /\ Extend(p, other).graph = Junction("AND", g, other.graph)
                /\ Extend(p, other).timerange = MergeTimeranges({tr, other.timerange})
                /\ Extend(p, other).center = center
<1>1. CASE other.graph = NoGraph
  BY <1>1 DEF Extend
<1>2. CASE other.graph # NoGraph
  <2>1. Extend(p, other) =
          [p EXCEPT !.graph = Junction("AND", @, other.graph),
                    !.timerange = MergeTimeranges({@, other.timerange}),
                    !.center = IF @ = AnyType THEN other.center ELSE @]
    BY <1>2 DEF Extend
  <2>2. QED
    BY <1>2, <2>1
<1>3. QED
  BY <1>1, <1>2

\* The attributes that a statement refers to have plain values.
LEMMA StatementPlain ==
    ASSUME NEW s \in Statements, NEW rows, \A x \in Variables : rows[x] \in SUBSET Observed,
           \A i \in ReferencesIn(s.where.graph) : CanLookup(i, rows)
    PROVE  Plain(s.where.graph, rows)
<1> SUFFICES ASSUME NEW i \in ReferencesIn(s.where.graph), NEW r \in rows[i.variable] PROVE r[i.attribute] \in Int
  BY DEF Plain, Looked
<1>1. i.variable \in Variables /\ \A q \in UNION Observations : i.attribute \in DOMAIN q => q[i.attribute] \in Int
  BY StatementsAssumption
<1>2. r \in UNION Observations
  BY <1>1 DEF Observed
<1>3. i.attribute \in DOMAIN r
  BY DEF CanLookup
<1>4. QED
  BY <1>1, <1>2, <1>3

\* The parts of the pattern of a statement (processor.py).
LEMMA DereferencedFields ==
    ASSUME NEW s \in Statements, NEW g, g = s.where.graph, NEW center, center = CenterOf(s)
    PROVE  /\ Dereferenced(s).graph = Centered(DerefGraph(g, rowsOf), center)
           /\ Dereferenced(s).timerange = MergeTimeranges(ReferredRanges(g, rowsOf))
           /\ Dereferenced(s).center = center
<1> DEFINE tr == MergeTimeranges({VarTimerange(rowsOf[i.variable]) : i \in ReferencesIn(g)})
           p == Deref(s.where, rowsOf)
<1>1. s.where = Pattern(g)
  BY StatementsAssumption
<1>2. p = [graph |-> DerefGraph(g, rowsOf), timerange |-> tr, center |-> AnyType]
  BY <1>1, DerefFields
<1>3. Dereferenced(s) = [p EXCEPT !.center = center, !.graph = Centered(@, center)]
  BY DEF Dereferenced
<1>4. tr = MergeTimeranges(ReferredRanges(g, rowsOf))
  BY DEF ReferredRanges
<1> HIDE DEF tr, p
<1>5. QED
  BY <1>2, <1>3, <1>4

-----------------------------------------------------------------------------
(* The invariant. *)

Queries == {"get", "find"}

\* The pattern of a query is centered at the type that it retrieves.
Prepared(s, w) ==
  /\ w.graph \in Trees[PatternDepth] /\ Centered(w.graph, s.type) = w.graph
  /\ w.timerange \in {NoRange} \union Pairs
  /\ w.center = s.type

\* What a statement may get from a query.
RowsOf(s, stix) == {Extracted(s.type, UNION a, stix.graph) : a \in Answers(stix, s.limit)}

\* What the local stage of a GET may find, ...
LocalRows(s, w) == RowsOf(s, ToStix(w, s.timerange, TimerangeStart, TimerangeStop))

\* ... what the prefetch may bring, ...
PrefetchedRows(s, w, rows) == RowsOf(s, PrefetchPattern(s, w, rows))

\* ... and what the variable gets from both.
Returned(s, w, rows, prefetched) ==
  IF HasPrefetch(s, w, rows) THEN FilterPrefetched(s, rows, prefetched) ELSE rows

DataInv ==
  /\ server \in SUBSET Observations
  /\ typeOf \in [Variables -> Names \union {NoType}]

StatementInv ==
  stage # "idle" =>
    /\ stmt \in Statements
    /\ stmt.command \in Queries => Prepared(stmt, where)

DerefInv ==
  stage \in {"local", "prefetch"} =>
    /\ where = Dereferenced(stmt)
    /\ \A i \in ReferencesIn(stmt.where.graph) : CanLookup(i, rowsOf)

LocalInv ==
  /\ stage \in {"prefetch", "filter"} => stmt.command \in Queries
  /\ stage \in {"prefetch", "filter", "done"} /\ stmt.command = "get" => local \in LocalRows(stmt, where)
  /\ stage # "idle" /\ stmt.command \in Queries => \A r \in local : r.type = stmt.type

RawInv ==
  /\ stage \in {"idle", "local", "prefetch"} => raw = {}
  /\ stage = "filter" => HasPrefetch(stmt, where, local) /\ raw \in PrefetchedRows(stmt, where, local)
  /\ stage = "done" /\ stmt.command \notin Queries => raw = {}

DoneInv ==
  stage = "done" /\ stmt.command \in Queries =>
    /\ Result = Returned(stmt, where, local, raw)
    /\ raw \in IF HasPrefetch(stmt, where, local) THEN PrefetchedRows(stmt, where, local) ELSE {{}}

IInv == TypeOK /\ DataInv /\ StatementInv /\ DerefInv /\ LocalInv /\ RawInv /\ DoneInv

\* Dereferencing a query prepares it.
LEMMA DereferencedPrepared ==
    ASSUME NEW s \in Statements, s.command \in Queries, \A x \in Variables : rowsOf[x] \in SUBSET Observed,
           \A i \in ReferencesIn(s.where.graph) : CanLookup(i, rowsOf)
    PROVE  Prepared(s, Dereferenced(s))
<1> DEFINE g == s.where.graph
           d == DerefGraph(g, rowsOf)
           w == Dereferenced(s)
<1>1. s.type \in Names /\ g \in Trees[PatternDepth] /\ PatternDepth \in Levels /\ g \in Graphs
      /\ \A c \in Comparisons(g) : IsFiniteSet(c.items)
  BY StatementsAssumption, DepthAssumption, Levelled DEF Levels
<1>2. CenterOf(s) = s.type
  BY DEF CenterOf, Queries
<1>3. w.graph = Centered(d, s.type) /\ w.timerange = MergeTimeranges(ReferredRanges(g, rowsOf)) /\ w.center = s.type
  BY <1>2, DereferencedFields
<1>4. d \in Trees[PatternDepth]
  BY <1>1, StatementPlain, DerefStays
<1>5. d \in Graphs
  BY <1>1, <1>4, Levelled
<1>6. Centered(d, s.type) \in Trees[PatternDepth]
  BY <1>1, <1>4, CenteredStays
<1>7. Centered(Centered(d, s.type), s.type) = Centered(d, s.type)
  BY <1>1, <1>5, CenteredTwice
<1>8. \A i \in ReferencesIn(g) : rowsOf[i.variable] \in SUBSET Observed
  BY StatementsAssumption
<1>9. MergeTimeranges(ReferredRanges(g, rowsOf)) \in {NoRange} \union Pairs
  BY <1>1, <1>8, ReferredRangesFacts, MergedType
<1> HIDE DEF w, d, g
<1>10. QED
  BY <1>3, <1>6, <1>7, <1>9 DEF Prepared, w

\* The part of a pattern that the prefetch of a statement takes over.
Taken(s, w) == IF s.command = "get" THEN Prune(w.graph, s.type, "ext") ELSE w.graph

Joined(a, b) == MergeTimeranges({a, b})
OfType(rows, type) == \A r \in rows : r.type = type

\* The pattern of the prefetch: that of the identifiers, and what it takes over.
LEMMA PrefetchPatternFacts ==
    ASSUME NEW s \in Statements, NEW w, Prepared(s, w), NEW rows \in SUBSET Observed, OfType(rows, s.type),
           NEW p, p = IdenticalEntities(s, rows), NEW ext, ext = Taken(s, w),
           NEW graph, graph = PrefetchPattern(s, w, rows).graph,
           NEW range, range = PrefetchPattern(s, w, rows).range,
           NEW joined, joined = Junction("AND", Centered(p.graph, s.type), Centered(ext, s.type))
    PROVE  /\ graph = IF ext = NoGraph THEN Centered(p.graph, s.type) ELSE joined
           /\ range = IF s.timerange # NoRange THEN s.timerange
                      ELSE Adjusted(IF ext = NoGraph THEN p.timerange ELSE Joined(p.timerange, w.timerange),
                                    TimerangeStart, TimerangeStop)
           /\ ext \in Trees[PatternDepth]
           /\ joined \in Graphs
<1> DEFINE other == IF s.command = "get" THEN PruneAwayCentered(w, s.type) ELSE w
<1>1. s.type \in Names /\ w.graph \in Trees[PatternDepth] /\ w.center = s.type
      /\ PatternDepth \in Levels /\ PatternDepth \in 0..PatternDepth /\ 0 \in Levels
  BY StatementsAssumption, DepthAssumption DEF Prepared, Levels
<1>2. p = [graph |-> p.graph, timerange |-> p.timerange, center |-> s.type] /\ p.graph \in Leaves
  <2>1. IsFiniteSet(rows)
    BY ObservedFinite
  <2>2. PICK id : id = IdAttribute(s.type, rows)
    OBVIOUS
  <2>3. QED
    BY <1>1, <2>1, <2>2, IdentityPattern DEF OfType
<1>3. other.graph = ext /\ other.timerange = w.timerange /\ other.center = s.type
  BY <1>1 DEF PruneAwayCentered, Taken
<1>4. ext \in Trees[PatternDepth]
  BY <1>1, PruneStays DEF Taken
<1>5. p.graph \in Trees[PatternDepth]
  BY <1>1, <1>2, Levelled
<1>6. Centered(ext, s.type) \in Trees[PatternDepth] /\ Centered(p.graph, s.type) \in Trees[PatternDepth]
  BY <1>1, <1>4, <1>5, CenteredStays
<1>7. Junction("AND", p.graph, ext) \in Graphs
      /\ Junction("AND", Centered(p.graph, s.type), Centered(ext, s.type)) \in Graphs
  <2>1. PICK and \in {"AND", "OR"} : and = "AND"
    OBVIOUS
  <2>2. \A l, r \in Trees[PatternDepth] : Junction(and, l, r) \in Trees[PatternDepth + 1]
    BY <1>1, MakesJunction
  <2>3. QED
    BY <1>4, <1>5, <1>6, <2>1, <2>2 DEF Graphs
<1>8. PrefetchPattern(s, w, rows) = ToStix(Extend(p, other), s.timerange, TimerangeStart, TimerangeStop)
  BY DEF PrefetchPattern
<1> DEFINE e == Extend(p, other)
<1>9. /\ PrefetchPattern(s, w, rows).graph = Centered(e.graph, e.center)
      /\ PrefetchPattern(s, w, rows).range
           = IF s.timerange # NoRange THEN s.timerange ELSE Adjusted(e.timerange, TimerangeStart, TimerangeStop)
  BY <1>8, ToStixFields
<1>10. /\ ext = NoGraph => e = p
       /\ ext # NoGraph => e.graph = Junction("AND", p.graph, ext) /\ e.center = s.type
                           /\ e.timerange = MergeTimeranges({p.timerange, w.timerange})
  <2> HIDE DEF other
  <2>1. PICK g, tr, center : g = p.graph /\ tr = p.timerange /\ center = s.type
    OBVIOUS
  <2>2. p = [graph |-> g, timerange |-> tr, center |-> center] /\ other.center = center
    BY <1>2, <1>3, <2>1
  <2>3. QED
    BY <1>3, <2>1, <2>2, ExtendFields
<1>11. p.center = s.type
  BY <1>2
<1>12. Centered(Junction("AND", p.graph, ext), s.type) = Junction("AND", Centered(p.graph, s.type), Centered(ext, s.type))
  BY <1>7, CenteredOfJunction
<1> HIDE DEF e
<1>13. QED
  BY <1>4, <1>7, <1>9, <1>10, <1>11, <1>12 DEF Joined

-----------------------------------------------------------------------------
(* The invariant holds. *)

\* All records the session works with come from the data source.
LEMMA KnownRecords ==
    ASSUME TypeOK, DataInv
    PROVE  /\ UNION server \in SUBSET Observed /\ Records \in SUBSET (UNION server)
           /\ \A x \in Variables : rowsOf[x] \in SUBSET Records /\ rowsOf[x] \in SUBSET Observed
           /\ local \in SUBSET Records /\ raw \in SUBSET Records
           /\ local \in SUBSET Observed /\ raw \in SUBSET Observed
<1>1. UNION server \in SUBSET Observed
  BY DEF DataInv, Observed
<1>2. Records \in SUBSET (UNION server)
  BY DEF TypeOK, Records
<1>3. rowsOf \in [Variables -> SUBSET Records] /\ local \in SUBSET Records /\ raw \in SUBSET Records
  BY DEF TypeOK
<1>4. QED
  BY <1>1, <1>2, <1>3

\* An answer holds observations that match, and without a LIMIT all of them.
LEMMA AnswerFacts ==
    ASSUME NEW stix, NEW limit, NEW a \in Answers(stix, limit)
    PROVE  /\ a \in SUBSET Matching(stix) /\ a \in SUBSET server
           /\ limit = 0 => a = Matching(stix)
<1>1. Matching(stix) \in SUBSET server
  BY DEF Matching
<1>2. a \in SUBSET Matching(stix) /\ (limit = 0 => a = Matching(stix))
  BY DEF Answers
<1>3. QED
  BY <1>1, <1>2

\* Of what an answer holds the view takes records of one type.
LEMMA ExtractedFacts ==
    ASSUME NEW type, NEW a, NEW graph
    PROVE  /\ Extracted(type, UNION a, graph) \in SUBSET (UNION a)
           /\ \A r \in Extracted(type, UNION a, graph) : r.type = type
BY DEF Extracted, Rows

\* The rows of a query come from observations that match and have the type asked for.
LEMMA RowsOfFacts ==
    ASSUME NEW s, NEW stix, NEW found \in RowsOf(s, stix)
    PROVE  /\ found \in SUBSET (UNION Matching(stix))
           /\ found \in SUBSET (UNION server)
           /\ \A r \in found : r.type = s.type
           /\ s.limit = 0 => found = Extracted(s.type, UNION Matching(stix), stix.graph)
<1>1. PICK a \in Answers(stix, s.limit) : found = Extracted(s.type, UNION a, stix.graph)
  BY DEF RowsOf
<1>2. a \in SUBSET Matching(stix) /\ a \in SUBSET server /\ (s.limit = 0 => a = Matching(stix))
  BY AnswerFacts
<1>3. found \in SUBSET (UNION a) /\ \A r \in found : r.type = s.type
  BY <1>1, ExtractedFacts
<1>4. QED
  BY <1>1, <1>2, <1>3

\* The filter of processes adds nothing.
LEMMA FilterKeepsSome ==
    ASSUME NEW s, NEW rows, NEW prefetched
    PROVE  FilterPrefetched(s, rows, prefetched) \in SUBSET prefetched
BY DEF FilterPrefetched, RelationalProcesses, PotentialIdentical, IdentifiedRows

\* As long as the data source and the statement stay, so does what it retrieves.
LEMMA SameRetrieval ==
    ASSUME server' = server, stmt' = stmt, where' = where
    PROVE  /\ LocalRows(stmt, where)' = LocalRows(stmt, where)
           /\ local' = local =>
                /\ PrefetchedRows(stmt, where, local)' = PrefetchedRows(stmt, where, local)
                /\ HasPrefetch(stmt, where, local)' = HasPrefetch(stmt, where, local)
                /\ raw' = raw => Returned(stmt, where, local, raw)' = Returned(stmt, where, local, raw)
<1>1. \A s, stix : RowsOf(s, stix)' = RowsOf(s, stix)
  <2>1. \A stix : Matching(stix)' = Matching(stix)
    BY DEF Matching
  <2>2. \A stix, limit : Answers(stix, limit)' = Answers(stix, limit)
    BY <2>1 DEF Answers
  <2>3. QED
    BY <2>2 DEF RowsOf
<1>2. \A r : ParentPid(r)' = ParentPid(r)
  BY DEF ParentPid
<1>3. \A r, q : IdenticalProcess(r, q)' = IdenticalProcess(r, q)
  BY <1>2 DEF IdenticalProcess
<1>4. \A q, rows : PotentialIdentical(q, rows)' = PotentialIdentical(q, rows)
  BY <1>3 DEF PotentialIdentical
<1>5. \A q, rows : RelationalProcesses(q, rows)' = RelationalProcesses(q, rows)
  BY <1>4 DEF RelationalProcesses
<1>6. \A s, q, rows : FilterPrefetched(s, q, rows)' = FilterPrefetched(s, q, rows)
  BY <1>5 DEF FilterPrefetched
<1>7. \A s, w : LocalRows(s, w)' = LocalRows(s, w)
  BY <1>1 DEF LocalRows
<1>8. \A s, w, rows : PrefetchedRows(s, w, rows)' = PrefetchedRows(s, w, rows)
  BY <1>1 DEF PrefetchedRows
<1>9. \A s, w, rows, q : Returned(s, w, rows, q)' = Returned(s, w, rows, q)
  BY <1>6 DEF Returned
<1>10. QED
  BY <1>7, <1>8, <1>9

\* The binding of a variable: rows that are known, of the type it gets.
LEMMA BoundTyped ==
    ASSUME TypeOK, DataInv, StatementInv, stage # "idle", NEW rows \in SUBSET Records, Bound(rows),
           CenterOf(stmt) \in Names \union {NoType}, \A r \in rows : r.type = CenterOf(stmt), store' = store
    PROVE  /\ rowsOf' \in [Variables -> SUBSET Records']
           /\ \A x \in Variables : rowsOf'[x] = Rows(typeOf'[x], rowsOf'[x])
           /\ typeOf' \in [Variables -> Names \union {NoType}]
           /\ rowsOf'[stmt.output] = rows
           /\ stage' = "done"
<1>1. stmt.output \in Variables
  BY StatementsAssumption DEF StatementInv
<1>2. rowsOf \in [Variables -> SUBSET Records] /\ typeOf \in [Variables -> Names \union {NoType}]
  BY DEF TypeOK, DataInv
<1>3. Records' = Records
  BY DEF Records
<1>4. rowsOf' = [rowsOf EXCEPT ![stmt.output] = rows] /\ typeOf' = [typeOf EXCEPT ![stmt.output] = CenterOf(stmt)]
      /\ stage' = "done"
  BY DEF Bound
<1>5. \A x \in Variables : rowsOf'[x] = Rows(typeOf'[x], rowsOf'[x])
  <2> TAKE x \in Variables
  <2>1. CASE x = stmt.output
    BY <1>2, <1>4, <2>1 DEF Rows
  <2>2. CASE x # stmt.output
    <3>1. rowsOf'[x] = rowsOf[x] /\ typeOf'[x] = typeOf[x]
      BY <1>2, <1>4, <2>2
    <3>2. QED
      BY <3>1 DEF TypeOK
  <2>3. QED
    BY <2>1, <2>2
<1>6. rowsOf' \in [Variables -> SUBSET Records] /\ typeOf' \in [Variables -> Names \union {NoType}]
      /\ rowsOf'[stmt.output] = rows
  BY <1>1, <1>2, <1>4
<1>7. QED
  BY <1>3, <1>4, <1>5, <1>6

\* What a statement binds its variable to.
LEMMA FilterBinds ==
    ASSUME IInv, Filter
    PROVE  /\ Bound(FilterPrefetched(stmt, local, raw)) /\ FilterPrefetched(stmt, local, raw) \in SUBSET Records
           /\ CenterOf(stmt) = stmt.type /\ stmt.type \in Names
           /\ \A r \in FilterPrefetched(stmt, local, raw) : r.type = CenterOf(stmt)
           /\ Returned(stmt, where, local, raw) = FilterPrefetched(stmt, local, raw)
<1>1. stage = "filter" /\ Bound(FilterPrefetched(stmt, local, raw))
  BY DEF Filter
<1>2. stmt \in Statements /\ stmt.command \in Queries /\ HasPrefetch(stmt, where, local)
      /\ raw \in PrefetchedRows(stmt, where, local)
  BY <1>1 DEF IInv, StatementInv, LocalInv, RawInv
<1>3. CenterOf(stmt) = stmt.type /\ stmt.type \in Names
  BY <1>2, StatementsAssumption DEF CenterOf, Queries
<1>4. raw \in SUBSET Records
  BY KnownRecords DEF IInv
<1>5. \A r \in raw : r.type = stmt.type
  BY <1>2, RowsOfFacts DEF PrefetchedRows
<1>6. QED
  BY <1>1, <1>2, <1>3, <1>4, <1>5, FilterKeepsSome DEF Returned

\* The same without a prefetch, ...
LEMMA KeepLocalBinds ==
    ASSUME IInv, KeepLocal
    PROVE  /\ Bound(local) /\ local \in SUBSET Records
           /\ CenterOf(stmt) = stmt.type /\ stmt.type \in Names
           /\ \A r \in local : r.type = CenterOf(stmt)
           /\ Returned(stmt, where, local, raw) = local
<1>1. stage = "prefetch" /\ Bound(local) /\ ~HasPrefetch(stmt, where, local)
  BY DEF KeepLocal
<1>2. stmt \in Statements /\ stmt.command \in Queries
  BY <1>1 DEF IInv, StatementInv, LocalInv
<1>3. CenterOf(stmt) = stmt.type /\ stmt.type \in Names
  BY <1>2, StatementsAssumption DEF CenterOf, Queries
<1>4. local \in SUBSET Records
  BY KnownRecords DEF IInv
<1>5. \A r \in local : r.type = stmt.type
  BY <1>1, <1>2 DEF IInv, LocalInv
<1>6. QED
  BY <1>1, <1>3, <1>4, <1>5 DEF Returned

\* ... for a GET from a variable, ...
LEMMA GetFromVariableBinds ==
    ASSUME IInv, GetFromVariable,
           NEW rows, rows = IF EmptyInput(stmt) THEN {} ELSE Extracted(stmt.type, Records, where.graph)
    PROVE  /\ Bound(rows) /\ rows \in SUBSET Records
           /\ CenterOf(stmt) \in Names \union {NoType}
           /\ \A r \in rows : r.type = CenterOf(stmt)
<1>1. stage = "local" /\ stmt.command = "getfrom" /\ Bound(rows)
  BY DEF GetFromVariable
<1>2. CenterOf(stmt) = stmt.type /\ stmt.type \in Names
  BY <1>1, StatementsAssumption DEF IInv, StatementInv, CenterOf
<1>3. QED
  BY <1>1, <1>2 DEF Extracted, Rows

\* ... and for an assignment.
LEMMA AssignBinds ==
    ASSUME IInv, Assign, NEW rows, rows = {r \in rowsOf[stmt.input] : Matches({r}, where.graph)}
    PROVE  /\ Bound(rows) /\ rows \in SUBSET Records
           /\ CenterOf(stmt) \in Names \union {NoType}
           /\ \A r \in rows : r.type = CenterOf(stmt)
<1>1. stage = "local" /\ stmt.command = "assign" /\ Bound(rows)
  BY DEF Assign
<1>2. stmt.input \in Variables
  BY <1>1, StatementsAssumption DEF IInv, StatementInv
<1>3. CenterOf(stmt) = typeOf[stmt.input]
  BY <1>1 DEF CenterOf
<1>4. typeOf[stmt.input] \in Names \union {NoType}
  BY <1>2 DEF IInv, DataInv
<1>5. rowsOf[stmt.input] \in SUBSET Records /\ rowsOf[stmt.input] = Rows(typeOf[stmt.input], rowsOf[stmt.input])
  BY <1>2, KnownRecords DEF IInv, TypeOK
<1>6. \A r \in rowsOf[stmt.input] : r.type = typeOf[stmt.input]
  BY <1>5 DEF Rows
<1>7. QED
  BY <1>1, <1>3, <1>4, <1>5, <1>6

\* The end of a statement, whichever it is.
LEMMA EndKeeps ==
    ASSUME IInv, NEW rows \in SUBSET Records, Bound(rows), UNCHANGED <<server, store, stmt, where, local, raw, count>>,
           CenterOf(stmt) \in Names \union {NoType}, \A r \in rows : r.type = CenterOf(stmt),
           stage \in {"local", "prefetch", "filter"},
           stmt.command \in Queries =>
             /\ stage \in {"prefetch", "filter"}
             /\ rows = Returned(stmt, where, local, raw)
             /\ raw \in IF HasPrefetch(stmt, where, local) THEN PrefetchedRows(stmt, where, local) ELSE {{}},
           stmt.command \notin Queries => raw = {}
    PROVE  IInv'
<1>1. /\ rowsOf' \in [Variables -> SUBSET Records']
      /\ \A x \in Variables : rowsOf'[x] = Rows(typeOf'[x], rowsOf'[x])
      /\ typeOf' \in [Variables -> Names \union {NoType}]
      /\ rowsOf'[stmt.output] = rows
      /\ stage' = "done"
  <2>1. TypeOK /\ DataInv /\ StatementInv /\ stage # "idle"
    BY DEF IInv
  <2>2. QED
    BY <2>1, BoundTyped
<1>2. Records' = Records
  BY DEF Records
<1>3. TypeOK'
  BY <1>1, <1>2 DEF IInv, TypeOK
<1>4. DataInv'
  BY <1>1 DEF IInv, DataInv
<1>5. StatementInv'
  BY DEF IInv, StatementInv
<1>6. DerefInv'
  BY <1>1 DEF DerefInv
<1>7. LocalInv'
  <2>1. stmt.command = "get" => local \in LocalRows(stmt, where)
    BY DEF IInv, LocalInv, Queries
  <2>2. LocalRows(stmt, where)' = LocalRows(stmt, where)
    BY SameRetrieval
  <2>3. stmt.command \in Queries => \A r \in local : r.type = stmt.type
    BY DEF IInv, LocalInv
  <2>4. QED
    BY <1>1, <2>1, <2>2, <2>3 DEF LocalInv
<1>8. RawInv'
  BY <1>1 DEF RawInv
<1>9. DoneInv'
  <2>1. /\ PrefetchedRows(stmt, where, local)' = PrefetchedRows(stmt, where, local)
        /\ HasPrefetch(stmt, where, local)' = HasPrefetch(stmt, where, local)
        /\ Returned(stmt, where, local, raw)' = Returned(stmt, where, local, raw)
    BY SameRetrieval
  <2>2. Result' = rows
    BY <1>1 DEF Result
  <2>3. QED
    BY <2>1, <2>2 DEF DoneInv
<1>10. QED
  BY <1>3, <1>4, <1>5, <1>6, <1>7, <1>8, <1>9 DEF IInv

\* The actions that end a statement keep the invariant: with a prefetch, ...
LEMMA FilterKeeps ==
    ASSUME IInv, Filter PROVE IInv'
<1> DEFINE rows == FilterPrefetched(stmt, local, raw)
<1>1. stage = "filter" /\ UNCHANGED <<server, store, stmt, where, local, raw, count>>
  BY DEF Filter
<1>2. stmt.command \in Queries /\ HasPrefetch(stmt, where, local) /\ raw \in PrefetchedRows(stmt, where, local)
  BY <1>1 DEF IInv, LocalInv, RawInv
<1>3. /\ Bound(rows) /\ rows \in SUBSET Records /\ CenterOf(stmt) \in Names \union {NoType}
      /\ (\A r \in rows : r.type = CenterOf(stmt)) /\ rows = Returned(stmt, where, local, raw)
  BY FilterBinds
<1> HIDE DEF rows
<1>4. QED
  BY <1>1, <1>2, <1>3, EndKeeps

\* ... without one, ...
LEMMA KeepLocalKeeps ==
    ASSUME IInv, KeepLocal PROVE IInv'
<1>1. stage = "prefetch" /\ UNCHANGED <<server, store, stmt, where, local, raw, count>>
      /\ ~HasPrefetch(stmt, where, local)
  BY DEF KeepLocal
<1>2. stmt.command \in Queries /\ raw = {}
  BY <1>1 DEF IInv, LocalInv, RawInv
<1>3. /\ Bound(local) /\ local \in SUBSET Records /\ CenterOf(stmt) \in Names \union {NoType}
      /\ (\A r \in local : r.type = CenterOf(stmt)) /\ local = Returned(stmt, where, local, raw)
  BY KeepLocalBinds
<1>4. QED
  BY <1>1, <1>2, <1>3, EndKeeps

\* ... from a variable, ...
LEMMA GetFromVariableKeeps ==
    ASSUME IInv, GetFromVariable PROVE IInv'
<1> DEFINE rows == IF EmptyInput(stmt) THEN {} ELSE Extracted(stmt.type, Records, where.graph)
<1>1. stage = "local" /\ stmt.command \notin Queries /\ UNCHANGED <<server, store, stmt, where, local, raw, count>>
  BY DEF GetFromVariable, Queries
<1>2. raw = {}
  BY <1>1 DEF IInv, RawInv
<1>3. /\ Bound(rows) /\ rows \in SUBSET Records /\ CenterOf(stmt) \in Names \union {NoType}
      /\ \A r \in rows : r.type = CenterOf(stmt)
  BY GetFromVariableBinds
<1> HIDE DEF rows
<1>4. QED
  BY <1>1, <1>2, <1>3, EndKeeps

\* ... by an assignment.
LEMMA AssignKeeps ==
    ASSUME IInv, Assign PROVE IInv'
<1> DEFINE rows == {r \in rowsOf[stmt.input] : Matches({r}, where.graph)}
<1>1. stage = "local" /\ stmt.command \notin Queries /\ UNCHANGED <<server, store, stmt, where, local, raw, count>>
  BY DEF Assign, Queries
<1>2. raw = {}
  BY <1>1 DEF IInv, RawInv
<1>3. /\ Bound(rows) /\ rows \in SUBSET Records /\ CenterOf(stmt) \in Names \union {NoType}
      /\ \A r \in rows : r.type = CenterOf(stmt)
  BY AssignBinds
<1> HIDE DEF rows
<1>4. QED
  BY <1>1, <1>2, <1>3, EndKeeps

\* The start of a statement keeps the invariant.
LEMMA StartKeeps ==
    ASSUME IInv, NEW s \in Statements, Start(s) PROVE IInv'
<1>1. /\ Accepted(s) /\ count < MaxStatements /\ stmt' = s /\ where' = Dereferenced(s)
      /\ local' = {} /\ raw' = {} /\ stage' = "local" /\ count' = count + 1
      /\ UNCHANGED <<server, store, rowsOf, typeOf>>
  BY DEF Start
<1>2. TypeOK /\ DataInv
  BY DEF IInv
<1>3. TypeOK'
  <2>1. Records' = Records
    BY <1>1 DEF Records
  <2>2. count' \in 0..MaxStatements
    BY <1>1, <1>2, BoundAssumption DEF TypeOK
  <2>3. QED
    BY <1>1, <1>2, <2>1, <2>2 DEF TypeOK
<1>4. DataInv'
  BY <1>1, <1>2 DEF DataInv
<1>5. \A i \in ReferencesIn(s.where.graph) : CanLookup(i, rowsOf)
  BY <1>1 DEF Accepted
<1>6. StatementInv'
  <2>1. s.command \in Queries => Prepared(s, Dereferenced(s))
    BY <1>2, <1>5, KnownRecords, DereferencedPrepared
  <2>2. QED
    BY <1>1, <2>1 DEF StatementInv
<1>7. DerefInv'
  <2>1. Dereferenced(stmt)' = Dereferenced(s)
    BY <1>1 DEF Dereferenced, CenterOf
  <2>2. QED
    BY <1>1, <1>5, <2>1 DEF DerefInv
<1>8. LocalInv' /\ RawInv' /\ DoneInv'
  BY <1>1 DEF LocalInv, RawInv, DoneInv
<1>9. QED
  BY <1>3, <1>4, <1>6, <1>7, <1>8 DEF IInv

\* The local stage of a query, whichever it is.
LEMMA LocalStageKeeps ==
    ASSUME IInv, stage = "local", stage' = "prefetch", UNCHANGED <<server, rowsOf, typeOf, stmt, where, raw, count>>,
           stmt.command \in Queries, store \in SUBSET store', store' \in SUBSET server, local' \in SUBSET (UNION store'),
           \A r \in local' : r.type = stmt.type,
           stmt.command = "get" => local' \in LocalRows(stmt, where)
    PROVE  IInv'
<1>1. TypeOK /\ DataInv /\ raw = {}
  BY DEF IInv, RawInv
<1>2. TypeOK'
  <2>1. Records' = UNION store' /\ Records \in SUBSET Records'
    BY DEF Records
  <2>2. rowsOf' \in [Variables -> SUBSET Records']
    <3>1. rowsOf \in [Variables -> SUBSET Records]
      BY <1>1 DEF TypeOK
    <3>2. \A x \in Variables : rowsOf[x] \in SUBSET Records'
      BY <2>1, <3>1
    <3>3. QED
      BY <3>1, <3>2
  <2>3. QED
    BY <1>1, <2>1, <2>2 DEF TypeOK
<1>3. DataInv'
  BY <1>1 DEF DataInv
<1>4. StatementInv'
  BY DEF IInv, StatementInv
<1>5. DerefInv'
  <2>1. Dereferenced(stmt)' = Dereferenced(stmt)
    BY DEF Dereferenced, CenterOf
  <2>2. where = Dereferenced(stmt) /\ \A i \in ReferencesIn(stmt.where.graph) : CanLookup(i, rowsOf)
    BY DEF IInv, DerefInv
  <2>3. QED
    BY <2>1, <2>2 DEF DerefInv
<1>6. LocalInv'
  <2>1. LocalRows(stmt, where)' = LocalRows(stmt, where)
    BY SameRetrieval
  <2>2. QED
    BY <2>1 DEF LocalInv
<1>7. RawInv' /\ DoneInv'
  BY <1>1 DEF RawInv, DoneInv
<1>8. QED
  BY <1>2, <1>3, <1>4, <1>5, <1>6, <1>7 DEF IInv

\* The local stage of a GET ...
LEMMA LocalGetKeeps ==
    ASSUME IInv, LocalGet PROVE IInv'
<1> DEFINE stix == ToStix(where, stmt.timerange, TimerangeStart, TimerangeStop)
<1>1. PICK answer \in Answers(stix, stmt.limit) :
        /\ stage = "local" /\ stage' = "prefetch" /\ stmt.command = "get"
        /\ store' = store \union answer /\ local' = Extracted(stmt.type, UNION answer, stix.graph)
        /\ UNCHANGED <<server, rowsOf, typeOf, stmt, where, raw, count>>
  BY DEF LocalGet
<1>2. stmt.command \in Queries /\ store \in SUBSET server
  BY <1>1 DEF Queries, IInv, TypeOK
<1>3. local' \in LocalRows(stmt, where)
  BY <1>1 DEF LocalRows, RowsOf
<1>4. answer \in SUBSET server
  BY <1>1, AnswerFacts
<1> HIDE DEF stix
<1>5. local' \in SUBSET (UNION answer) /\ \A r \in local' : r.type = stmt.type
  BY <1>1, ExtractedFacts
<1>6. store \in SUBSET store' /\ store' \in SUBSET server /\ local' \in SUBSET (UNION store')
  BY <1>1, <1>2, <1>4, <1>5
<1>7. QED
  BY <1>1, <1>2, <1>3, <1>5, <1>6, LocalStageKeeps

\* ... and of a FIND.
LEMMA LocalFindKeeps ==
    ASSUME IInv, LocalFind PROVE IInv'
<1>1. /\ stage = "local" /\ stage' = "prefetch" /\ stmt.command = "find"
      /\ local' = {r \in Rows(stmt.type, Records) : \E i \in rowsOf[stmt.input] : Related(stmt, r, i)}
      /\ UNCHANGED <<server, store, rowsOf, typeOf, stmt, where, raw, count>>
  BY DEF LocalFind
<1>2. stmt.command \in Queries /\ stmt.command # "get" /\ store \in SUBSET server
  BY <1>1 DEF Queries, IInv, TypeOK
<1>3. local' \in SUBSET Rows(stmt.type, Records)
  BY <1>1
<1>4. local' \in SUBSET (UNION store') /\ \A r \in local' : r.type = stmt.type
  BY <1>1, <1>3 DEF Rows, Records
<1>5. QED
  BY <1>1, <1>2, <1>4, LocalStageKeeps

\* The prefetch keeps the invariant.
LEMMA DoPrefetchKeeps ==
    ASSUME IInv, DoPrefetch PROVE IInv'
<1> DEFINE stix == PrefetchPattern(stmt, where, local)
<1>1. PICK answer \in Answers(stix, stmt.limit) :
        /\ stage = "prefetch" /\ stage' = "filter" /\ HasPrefetch(stmt, where, local)
        /\ store' = store \union answer /\ raw' = Extracted(stmt.type, UNION answer, stix.graph)
        /\ UNCHANGED <<server, rowsOf, typeOf, stmt, where, local, count>>
  BY DEF DoPrefetch
<1>2. TypeOK /\ DataInv
  BY DEF IInv
<1>3. answer \in SUBSET server /\ raw' \in SUBSET (UNION answer) /\ raw' \in PrefetchedRows(stmt, where, local)
  <2>1. answer \in SUBSET server
    BY <1>1, AnswerFacts
  <2>2. raw' \in SUBSET (UNION answer)
    BY <1>1, ExtractedFacts
  <2>3. raw' \in PrefetchedRows(stmt, where, local)
    BY <1>1 DEF PrefetchedRows, RowsOf
  <2>4. QED
    BY <2>1, <2>2, <2>3
<1> HIDE DEF stix
<1>4. TypeOK'
  <2>1. Records' = UNION store' /\ Records \in SUBSET Records' /\ store' \in SUBSET server /\ raw' \in SUBSET Records'
    BY <1>1, <1>2, <1>3 DEF Records, TypeOK
  <2>2. rowsOf' \in [Variables -> SUBSET Records']
    <3>1. rowsOf \in [Variables -> SUBSET Records]
      BY <1>2 DEF TypeOK
    <3>2. \A x \in Variables : rowsOf[x] \in SUBSET Records'
      BY <2>1, <3>1
    <3>3. QED
      BY <1>1, <3>1, <3>2
  <2>3. QED
    BY <1>1, <1>2, <2>1, <2>2 DEF TypeOK
<1>5. DataInv'
  BY <1>1, <1>2 DEF DataInv
<1>6. StatementInv'
  BY <1>1 DEF IInv, StatementInv
<1>7. DerefInv' /\ DoneInv'
  BY <1>1 DEF DerefInv, DoneInv
<1>8. LocalInv'
  <2>1. LocalRows(stmt, where)' = LocalRows(stmt, where)
    BY <1>1, SameRetrieval
  <2>2. QED
    BY <1>1, <2>1 DEF IInv, LocalInv
<1>9. RawInv'
  <2>1. /\ PrefetchedRows(stmt, where, local)' = PrefetchedRows(stmt, where, local)
        /\ HasPrefetch(stmt, where, local)' = HasPrefetch(stmt, where, local)
    BY <1>1, SameRetrieval
  <2>2. QED
    BY <1>1, <1>3, <2>1 DEF RawInv
<1>10. QED
  BY <1>4, <1>5, <1>6, <1>7, <1>8, <1>9 DEF IInv

\* The invariant holds at first ...
LEMMA InvInit == Init => IInv
<1> SUFFICES ASSUME Init PROVE IInv
  OBVIOUS
<1>1. /\ server \in SUBSET Observations /\ store = {} /\ rowsOf = [x \in Variables |-> {}]
      /\ typeOf = [x \in Variables |-> NoType] /\ local = {} /\ raw = {} /\ stage = "idle" /\ count = 0
  BY DEF Init
<1>2. TypeOK
  BY <1>1, BoundAssumption DEF TypeOK, Records, Rows
<1>3. DataInv
  BY <1>1 DEF DataInv
<1>4. StatementInv /\ DerefInv /\ LocalInv /\ RawInv /\ DoneInv
  BY <1>1 DEF StatementInv, DerefInv, LocalInv, RawInv, DoneInv
<1>5. QED
  BY <1>2, <1>3, <1>4 DEF IInv

\* ... and after every step.
LEMMA InvNext ==
    ASSUME IInv, [Next]_vars PROVE IInv'
<1>1. CASE \E s \in Statements : Start(s)
  BY <1>1, StartKeeps
<1>2. CASE LocalGet
  BY <1>2, LocalGetKeeps
<1>3. CASE LocalFind
  BY <1>3, LocalFindKeeps
<1>4. CASE GetFromVariable
  BY <1>4, GetFromVariableKeeps
<1>5. CASE Assign
  BY <1>5, AssignKeeps
<1>6. CASE DoPrefetch
  BY <1>6, DoPrefetchKeeps
<1>7. CASE Filter
  BY <1>7, FilterKeeps
<1>8. CASE KeepLocal
  BY <1>8, KeepLocalKeeps
<1>9. CASE UNCHANGED vars
  <2>1. UNCHANGED <<server, store, rowsOf, typeOf, stmt, where, local, raw, stage, count>>
    BY <1>9 DEF vars
  <2>2. TypeOK' /\ DataInv' /\ StatementInv'
    <3>1. Records' = Records
      BY <2>1 DEF Records
    <3>2. QED
      BY <2>1, <3>1 DEF IInv, TypeOK, DataInv, StatementInv
  <2>3. DerefInv'
    <3>1. Dereferenced(stmt)' = Dereferenced(stmt)
      BY <2>1 DEF Dereferenced, CenterOf
    <3>2. QED
      BY <2>1, <3>1 DEF IInv, DerefInv
  <2>4. /\ LocalRows(stmt, where)' = LocalRows(stmt, where)
        /\ PrefetchedRows(stmt, where, local)' = PrefetchedRows(stmt, where, local)
        /\ HasPrefetch(stmt, where, local)' = HasPrefetch(stmt, where, local)
        /\ Returned(stmt, where, local, raw)' = Returned(stmt, where, local, raw)
    BY <2>1, SameRetrieval
  <2>5. LocalInv' /\ RawInv'
    BY <2>1, <2>4 DEF IInv, LocalInv, RawInv
  <2>6. DoneInv'
    <3>1. Result' = Result
      BY <2>1 DEF Result
    <3>2. QED
      BY <2>1, <2>4, <3>1 DEF IInv, DoneInv
  <2>7. QED
    BY <2>2, <2>3, <2>5, <2>6 DEF IInv
<1>10. QED
  BY <1>1, <1>2, <1>3, <1>4, <1>5, <1>6, <1>7, <1>8, <1>9 DEF Next

\* The invariant holds in every state.
THEOREM Invariant == Spec => []IInv
<1>1. Init => IInv
  BY InvInit
<1>2. IInv /\ [Next]_vars => IInv'
  BY InvNext
<1>3. QED
  BY <1>1, <1>2, PTL DEF Spec

-----------------------------------------------------------------------------
(* What the invariant implies. *)

\* The rows of every variable are known and have its type.
THEOREM TypesAreRight == Spec => []TypeOK
<1>1. IInv => TypeOK
  BY DEF IInv
<1>2. QED
  BY <1>1, Invariant, PTL

\* With a prefetch the variable gets its rows, filtered.
LEMMA PrefetchedResult ==
    ASSUME IInv, stage = "done", raw # {}
    PROVE  /\ stmt \in Statements /\ stmt.command \in Queries /\ Prepared(stmt, where)
           /\ HasPrefetch(stmt, where, local) /\ raw \in PrefetchedRows(stmt, where, local)
           /\ Result = FilterPrefetched(stmt, local, raw)
           /\ \A r \in local \union raw : r.type = stmt.type /\ r \in Observed /\ r \in UNION server
<1>1. stmt \in Statements /\ stmt.command \in Queries /\ Prepared(stmt, where)
  BY DEF IInv, RawInv, StatementInv
<1>2. HasPrefetch(stmt, where, local) /\ raw \in PrefetchedRows(stmt, where, local)
      /\ Result = Returned(stmt, where, local, raw)
  BY <1>1 DEF IInv, DoneInv
<1>3. Result = FilterPrefetched(stmt, local, raw)
  BY <1>2 DEF Returned
<1>4. \A r \in local : r.type = stmt.type
  BY <1>1 DEF IInv, LocalInv
<1>5. \A r \in raw : r.type = stmt.type
  BY <1>2, RowsOfFacts DEF PrefetchedRows
<1>6. local \in SUBSET Observed /\ raw \in SUBSET Observed /\ local \in SUBSET (UNION server) /\ raw \in SUBSET (UNION server)
  BY KnownRecords DEF IInv
<1>7. QED
  BY <1>1, <1>2, <1>3, <1>4, <1>5, <1>6

\* Where process ids are all there is, the filter works by time and name.
LEMMA FilteredByPid ==
    ASSUME NEW s, NEW rows, NEW prefetched, s.type = "process", IdAttribute("process", rows) = "pid"
    PROVE  FilterPrefetched(s, rows, prefetched) =
             IF RelationalProcesses(rows, prefetched) # {} THEN RelationalProcesses(rows, prefetched) ELSE prefetched
BY DEF FilterPrefetched

\* A record is identical to itself.
LEMMA SelfIdentical ==
    ASSUME NEW r \in Observed
    PROVE  IdenticalProcess(r, r)
<1>1. r.first \in Int /\ r.last \in Int /\ r.first <= r.last
  BY RecordFacts
<1>2. NameChanged \in Int /\ 0 < NameChanged
  BY OffsetsAssumption
<1>3. r.first - NameChanged < r.first /\ r.first < r.last + NameChanged
  BY <1>1, <1>2
<1>4. Within(r.first, r, NameChanged)
  BY <1>3 DEF Within
<1>5. QED
  BY <1>4 DEF IdenticalProcess

\* Which records are potentially identical to one of the references.
LEMMA PotentialFacts ==
    ASSUME NEW refs, NEW rows, NEW r
    PROVE  r \in PotentialIdentical(refs, rows) <=>
             /\ r \in rows /\ r.pid \notin Falsy
             /\ \E ref \in refs : ref.pid \notin Falsy /\ r.pid = ref.pid /\ IdenticalProcess(r, ref)
BY DEF PotentialIdentical, IdentifiedRows

\* Whatever is identical to an anchor is taken, the anchor included.
LEMMA AnchorsTaken ==
    ASSUME NEW rows, NEW prefetched, NEW r \in rows, r.pid \notin Falsy,
           NEW s \in prefetched, s.pid = r.pid, IdenticalProcess(s, r),
           NEW t \in prefetched, t.pid = s.pid, IdenticalProcess(t, s)
    PROVE  t \in RelationalProcesses(rows, prefetched)
<1>1. s \in PotentialIdentical(rows, prefetched)
  BY PotentialFacts
<1> DEFINE anchors == PotentialIdentical(rows, prefetched)
<1>2. s \in anchors
  BY <1>1
<1> HIDE DEF anchors
<1>3. t \in PotentialIdentical(anchors, prefetched)
  BY <1>2, PotentialFacts
<1>4. QED
  BY <1>3 DEF RelationalProcesses, anchors

\* A process that forks and then executes another program is found under both
\* names (process_identification.py).
THEOREM BothNames == Spec => []BothNamesKept
<1>1. IInv => BothNamesKept
  <2> SUFFICES ASSUME IInv, raw # {}, stage = "done", ByPid,
                      NEW r \in IdentifiedRows(local), NEW s \in raw, NEW t \in raw,
                      r.pid = s.pid, Within(s.first, r, NameChanged),
                      s.pid = t.pid, s.name = t.name, s.name \notin Falsy, Within(t.first, s, PidAndName)
               PROVE  s \in Result /\ t \in Result
    BY DEF BothNamesKept, Prefetched
  <2>1. Result = FilterPrefetched(stmt, local, raw) /\ \A q \in local \union raw : q \in Observed
    BY PrefetchedResult
  <2>2. Result = IF RelationalProcesses(local, raw) # {} THEN RelationalProcesses(local, raw) ELSE raw
    BY <2>1, FilteredByPid DEF ByPid
  <2>3. IdenticalProcess(s, r) /\ IdenticalProcess(t, s)
    BY DEF IdenticalProcess
  <2>4. IdenticalProcess(s, s)
    BY <2>1, SelfIdentical
  <2>5. r \in local /\ r.pid \notin Falsy
    BY DEF IdentifiedRows
  <2>6. s \in RelationalProcesses(local, raw) /\ t \in RelationalProcesses(local, raw)
    BY <2>3, <2>4, <2>5, AnchorsTaken
  <2>7. QED
    BY <2>2, <2>6
<1>2. QED
  BY <1>1, Invariant, PTL

\* Two records of one process id that are close enough are of one process.
LEMMA IdenticalIsSame ==
    ASSUME ReusedLate, NEW r \in UNION server, NEW s \in UNION server, r \in Observed, s \in Observed,
           r.type = "process", s.type = "process", r.pid = s.pid, IdenticalProcess(r, s)
    PROVE  r.proc = s.proc
<1> SUFFICES ASSUME r.proc # s.proc PROVE FALSE
  OBVIOUS
<1>1. r \in Rows("process", UNION server) /\ s \in Rows("process", UNION server)
  BY DEF Rows
<1>2. ~Within(r.first, s, PidNameAndPpid) /\ ~Within(s.first, r, PidNameAndPpid)
  BY <1>1 DEF ReusedLate
<1>3. r.first \in Int /\ r.last \in Int /\ r.first <= r.last /\ s.first \in Int /\ s.last \in Int /\ s.first <= s.last
  BY RecordFacts
<1>4. /\ NameChanged \in Int /\ PidAndName \in Int /\ PidAndPpid \in Int /\ PidNameAndPpid \in Int
      /\ 0 < NameChanged /\ NameChanged <= PidAndName /\ PidAndName <= PidNameAndPpid /\ PidAndPpid <= PidNameAndPpid
  BY OffsetsAssumption
<1>5. \/ Within(r.first, s, PidNameAndPpid) \/ Within(r.first, s, PidAndName) \/ Within(r.first, s, PidAndPpid)
      \/ Within(r.first, s, NameChanged) \/ Within(r.last, s, NameChanged)
  BY DEF IdenticalProcess
<1>6. PICK rf, rl, sf, sl \in Int : rf = r.first /\ rl = r.last /\ sf = s.first /\ sl = s.last
  BY <1>3
<1>7. rf <= rl /\ sf <= sl
  BY <1>3, <1>6
<1>8. /\ ~(sf - PidNameAndPpid < rf /\ rf < sl + PidNameAndPpid)
      /\ ~(rf - PidNameAndPpid < sf /\ sf < rl + PidNameAndPpid)
  BY <1>2, <1>6 DEF Within
<1>9. \/ sf - PidNameAndPpid < rf /\ rf < sl + PidNameAndPpid
      \/ sf - PidAndName < rf /\ rf < sl + PidAndName
      \/ sf - PidAndPpid < rf /\ rf < sl + PidAndPpid
      \/ sf - NameChanged < rf /\ rf < sl + NameChanged
      \/ sf - NameChanged < rl /\ rl < sl + NameChanged
  BY <1>5, <1>6 DEF Within
<1>10. QED
  BY <1>4, <1>7, <1>8, <1>9

\* Where process ids are only reused late, no other process gets into the
\* variable (process_identification.py).
THEOREM OnlyTheSameProcess == Spec => []NoStrangers
<1>1. IInv => NoStrangers
  <2> SUFFICES ASSUME IInv, raw # {}, stage = "done", ByPid, ReusedLate, RelationalProcesses(local, raw) # {},
                      NEW r \in Result
               PROVE  \E q \in local : q.proc = r.proc
    BY DEF NoStrangers, Prefetched
  <2>1. Result = FilterPrefetched(stmt, local, raw)
        /\ \A q \in local \union raw : q.type = stmt.type /\ q \in Observed /\ q \in UNION server
    BY PrefetchedResult
  <2>2. r \in RelationalProcesses(local, raw)
    BY <2>1, FilteredByPid DEF ByPid
  <2> DEFINE anchors == PotentialIdentical(local, raw)
  <2>3. r \in PotentialIdentical(anchors, raw)
    BY <2>2 DEF RelationalProcesses
  <2> HIDE DEF anchors
  <2>4. PICK a \in anchors : r.pid = a.pid /\ IdenticalProcess(r, a)
    BY <2>3, PotentialFacts
  <2>5. r \in raw
    BY <2>3, PotentialFacts
  <2>6. a \in PotentialIdentical(local, raw)
    BY DEF anchors
  <2>7. a \in raw
    BY <2>6, PotentialFacts
  <2>8. PICK q \in local : a.pid = q.pid /\ IdenticalProcess(a, q)
    BY <2>6, PotentialFacts
  <2>9. stmt.type = "process"
    BY DEF ByPid
  <2>10. r.proc = a.proc
    BY <2>1, <2>4, <2>5, <2>7, <2>9, IdenticalIsSame
  <2>11. a.proc = q.proc
    BY <2>1, <2>7, <2>8, <2>9, IdenticalIsSame
  <2>12. QED
    BY <2>8, <2>10, <2>11
<1>2. QED
  BY <1>1, Invariant, PTL

\* Whatever the prefetch brings is as the pattern it took over says.
LEMMA TakenMatches ==
    ASSUME NEW s \in Statements, NEW w, Prepared(s, w), NEW rows \in SUBSET Observed, OfType(rows, s.type),
           NEW o, Matches(o, PrefetchPattern(s, w, rows).graph), Taken(s, w) # NoGraph
    PROVE  Matches(o, Centered(Taken(s, w), s.type))
<1>1. PICK p, ext, graph, range, joined :
         /\ p = IdenticalEntities(s, rows) /\ ext = Taken(s, w)
         /\ graph = PrefetchPattern(s, w, rows).graph /\ range = PrefetchPattern(s, w, rows).range
         /\ joined = Junction("AND", Centered(p.graph, s.type), Centered(ext, s.type))
  OBVIOUS
<1>2. ext # NoGraph /\ Matches(o, graph)
  BY <1>1
<1>3. graph = joined /\ joined \in Graphs
  BY <1>1, <1>2, PrefetchPatternFacts
<1>4. Matches(o, Centered(ext, s.type))
  BY <1>1, <1>2, <1>3, MatchesOfJunction
<1>5. QED
  BY <1>1, <1>4

\* No part of a centered pattern is left to center.
LEMMA PartsAreCentered ==
    ASSUME NEW center \in Names, NEW part
    PROVE  \A g \in Graphs : Centered(g, center) = g /\ Prune(g, center, part) # NoGraph
             => Centered(Prune(g, center, part), center) = Prune(g, center, part)
<1> DEFINE S == {g \in Graphs : Centered(g, center) = g /\ Prune(g, center, part) # NoGraph
             => Centered(Prune(g, center, part), center) = Prune(g, center, part)}
<1>1. PatternDepth + 1 \in Levels /\ Graphs = Trees[PatternDepth + 1]
  BY DepthAssumption DEF Levels, Graphs
<1>2. ASSUME NEW g \in Leaves PROVE g \in S
  <2>1. g \in Graphs
    BY <1>1, Levelled
  <2>2. Prune(g, center, part) \in {g, NoGraph}
    BY OnLeaves
  <2>3. QED
    BY <2>1, <2>2
<1>3. ASSUME NEW g \in Graphs, IsJunction(g), g.lhs \in S, g.rhs \in S PROVE g \in S
  <2> SUFFICES ASSUME Centered(g, center) = g, Prune(g, center, part) # NoGraph
               PROVE  Centered(Prune(g, center, part), center) = Prune(g, center, part)
    OBVIOUS
  <2> DEFINE l == g.lhs
             r == g.rhs
             x == Prune(l, center, part)
             y == Prune(r, center, part)
  <2>1. g = Junction(g.relation, l, r)
    BY <1>3, TreeKinds, LeafKinds
  <2>2. g = Junction(g.relation, Centered(l, center), Centered(r, center))
    BY <2>1, CenteredOfJunction
  <2>3. Centered(l, center) = l /\ Centered(r, center) = r
    BY <2>2, JunctionFields
  <2>4. Prune(g, center, part) = IF x = NoGraph THEN y ELSE IF y = NoGraph THEN x ELSE Junction(g.relation, x, y)
    BY <2>1, PruneOfJunction
  <2>5. /\ x # NoGraph => Centered(x, center) = x
        /\ y # NoGraph => Centered(y, center) = y
    BY <1>3, <2>3
  <2>6. Prune(g, center, part) \in Graphs
    BY <1>1, PruneStays
  <2> HIDE DEF l, r, x, y
  <2>7. CASE x = NoGraph \/ y = NoGraph
    BY <2>4, <2>5, <2>7
  <2>8. CASE x # NoGraph /\ y # NoGraph
    <3>1. Prune(g, center, part) = Junction(g.relation, x, y)
      BY <2>4, <2>8
    <3>2. Centered(Prune(g, center, part), center) = Junction(g.relation, Centered(x, center), Centered(y, center))
      BY <2>6, <3>1, CenteredOfJunction
    <3>3. QED
      BY <2>5, <2>8, <3>1, <3>2
  <2>9. QED
    BY <2>7, <2>8
<1> HIDE DEF S
<1>4. \A g \in Graphs : g \in S
  BY <1>2, <1>3, TreeInduction
<1>5. QED
  BY <1>4 DEF S

\* What a prefetch keeps of the WHERE of a FIND (prefetch.py, do_prefetch).
THEOREM FindAsItsWhere == Spec => []FindHonorsWhere
<1>1. IInv => FindHonorsWhere
  <2> SUFFICES ASSUME IInv, stage = "done", stmt.command = "find", raw # {}, NEW r \in Result,
                      NEW ext, ext = Prune(where.graph, stmt.type, "ext"), ext # NoGraph,
                      ~MixedAlternatives(where.graph, stmt.type)
               PROVE  \E o \in server : r \in o /\ Matches(o, ext)
    BY DEF FindHonorsWhere, Finished, Prefetched
  <2>1. /\ stmt \in Statements /\ Prepared(stmt, where) /\ raw \in PrefetchedRows(stmt, where, local)
        /\ Result = FilterPrefetched(stmt, local, raw)
        /\ \A q \in local \union raw : q.type = stmt.type /\ q \in Observed
    BY PrefetchedResult
  <2>2. r \in raw
    BY <2>1, FilterKeepsSome
  <2>3. PICK pp : pp = PrefetchPattern(stmt, where, local)
    OBVIOUS
  <2>4. PICK o \in Matching(pp) : r \in o
    <3>1. PICK found : found = raw
      OBVIOUS
    <3>2. found \in RowsOf(stmt, pp)
      BY <2>1, <2>3, <3>1 DEF PrefetchedRows
    <3>3. found \in SUBSET (UNION Matching(pp))
      BY <3>2, RowsOfFacts
    <3>4. QED
      BY <2>2, <3>1, <3>3
  <2>5. o \in server /\ Matches(o, pp.graph)
    BY <2>4 DEF Matching
  <2>6. /\ stmt.type \in Names /\ where.graph \in Graphs /\ PatternDepth + 1 \in Levels
        /\ Graphs = Trees[PatternDepth + 1] /\ Centered(where.graph, stmt.type) = where.graph
    BY <2>1, StatementsAssumption, Levelled, DepthAssumption DEF Prepared, Levels, Graphs
  <2>7. local \in SUBSET Observed /\ OfType(local, stmt.type) /\ Taken(stmt, where) = where.graph
    BY <2>1 DEF OfType, Taken
  <2>8. where.graph # NoGraph
    BY OnLeaves, SpecialKinds
  <2>9. Matches(o, Centered(where.graph, stmt.type))
    BY <2>1, <2>3, <2>5, <2>7, <2>8, TakenMatches
  <2>10. Matches(o, Centered(ext, stmt.type))
    BY <2>6, <2>9, ExtendedPartMatches
  <2>11. Centered(ext, stmt.type) = ext
    <3>1. PICK part : part = "ext"
      OBVIOUS
    <3>2. QED
      BY <2>6, <3>1, PartsAreCentered
  <2>12. QED
    BY <2>4, <2>5, <2>10, <2>11
<1>2. QED
  BY <1>1, Invariant, PTL

\* An adjusted range covers what the range spans.
LEMMA AdjustedOverlaps ==
    ASSUME NEW range \in Pairs, NEW r \in Observed, range[1] <= r.first, r.last <= range[2], NEW o, r \in o
    PROVE  Overlaps(o, Adjusted(range, TimerangeStart, TimerangeStop))
<1>1. r.first \in Int /\ r.last \in Int /\ r.first <= r.last
  BY RecordFacts
<1>2. PICK first, last, a, b \in Int : first = r.first /\ last = r.last /\ a = range[1] /\ b = range[2]
  BY <1>1, PairFacts
<1>3. TimerangeStart \in Int /\ TimerangeStart <= 0 /\ TimerangeStop \in Int /\ 0 <= TimerangeStop
  BY OffsetsAssumption
<1>4. range # NoRange
  BY PairFacts
<1>5. Adjusted(range, TimerangeStart, TimerangeStop) = <<a + TimerangeStart, b + TimerangeStop>>
  BY <1>2, <1>4 DEF Adjusted
<1>6. first <= b + TimerangeStop /\ a + TimerangeStart <= last
  BY <1>1, <1>2, <1>3
<1>7. QED
  BY <1>2, <1>5, <1>6 DEF Overlaps

\* A comparison of a variable's records with what they have holds for them.
LEMMA ComparisonOfValues ==
    ASSUME NEW type \in Names, NEW attribute, NEW op \in {"=", "IN"}, NEW xs, NEW r,
           r.type = type, attribute \in DOMAIN r, r[attribute] \in xs, r[attribute] \notin Falsy,
           NEW c, c = Comparison(type, attribute, op, Literals(xs)), c \in Leaves
    PROVE  /\ \A o : r \in o => Matches(o, c)
           /\ Centered(c, type) = c
           /\ Prune(c, type, "center") = c
<1>1. IsComparison(c) /\ c.etype = type
  BY DEF Comparison, IsComparison
<1>2. Holds(r, c)
  BY EqualityHolds DEF Falsy
<1>3. \A o : r \in o => Matches(o, c)
  BY <1>1, <1>2, OnLeaves
<1>4. Centered(c, type) = c
  <2>1. Centered(c, type) = IF IsComparison(c) /\ c.etype = AnyType THEN [c EXCEPT !.etype = type] ELSE c
    BY OnLeaves
  <2>2. [c EXCEPT !.etype = type] = c
    BY DEF Comparison
  <2>3. QED
    BY <2>1, <2>2
<1>5. Prune(c, type, "center") = c
  <2>1. c \in Graphs /\ ~IsJunction(c)
    BY LeafKinds, Levelled, TreesUnfold, DepthAssumption DEF Levels
  <2>2. Preserves(c.etype, type, "center")
    BY <1>1 DEF Preserves
  <2>3. QED
    BY <1>1, <2>1, <2>2, PruneLaw
<1>6. QED
  BY <1>3, <1>4, <1>5

\* The values of the operands are finitely many.
LEMMA FlattenedFinite ==
    ASSUME NEW items, IsFiniteSet(items), NEW rows,
           \A i \in items : IsReference(i) => rows[i.variable] \in SUBSET Observed
    PROVE  IsFiniteSet(Flattened(items, rows))
<1> DEFINE f == [i \in items |-> IF IsReference(i) THEN Looked(i, rows) ELSE {i.value}]
           D == {f[i] : i \in items}
<1>1. ASSUME NEW i \in items PROVE IsFiniteSet(f[i])
  <2>1. CASE IsReference(i)
    <3> DEFINE vs == rows[i.variable]
               h == [q \in vs |-> q[i.attribute]]
               H == {h[q] : q \in vs}
    <3>1. IsFiniteSet(vs)
      BY <1>1, <2>1, ObservedFinite
    <3>2. IsFiniteSet(H)
      BY <3>1, FiniteImage
    <3>3. Looked(i, rows) \in SUBSET H
      BY DEF Looked
    <3> HIDE DEF H
    <3>4. IsFiniteSet(Looked(i, rows))
      BY <3>2, <3>3, FS_Subset
    <3>5. QED
      BY <1>1, <2>1, <3>4
  <2>2. CASE ~IsReference(i)
    <3>1. IsFiniteSet({}) /\ IsFiniteSet({} \union {i.value})
      BY FS_EmptySet, FS_AddElement
    <3>2. f[i] = {} \union {i.value}
      BY <1>1, <2>2
    <3>3. QED
      BY <3>1, <3>2
  <2>3. QED
    BY <2>1, <2>2
<1>2. IsFiniteSet(D)
  BY FiniteImage
<1>3. \A d \in D : IsFiniteSet(d)
  BY <1>1
<1>4. Flattened(items, rows) = UNION D
  BY DEF Flattened
<1> HIDE DEF D
<1>5. IsFiniteSet(UNION D)
  BY <1>2, <1>3, FS_UNION
<1>6. QED
  BY <1>4, <1>5

\* A statement that is nothing but a comparison.
LEMMA StatementComparison ==
    ASSUME NEW s \in Statements, NEW g, g = s.where.graph, IsComparison(g)
    PROVE  /\ g \in Leaves /\ g \in Graphs /\ IsFiniteSet(g.items) /\ \A c \in Comparisons(g) : IsFiniteSet(c.items)
           /\ g = Comparison(g.etype, g.attribute, g.op, g.items)
<1>1. g \in Graphs /\ \A c \in Comparisons(g) : IsFiniteSet(c.items)
  BY StatementsAssumption, Levelled, DepthAssumption DEF Levels
<1>2. g \in Leaves
  BY <1>1, TreeKinds DEF IsComparison, IsJunction
<1>3. g \in Comparisons(g)
  BY <1>2, OnLeaves DEF Comparisons
<1>4. g \in [node : {"comparison"}, etype : Names, attribute : Names, op : Ops, items : SUBSET Items]
  BY <1>2 DEF Leaves, NoGraph, Invalid, IsComparison
<1>5. g = Comparison(g.etype, g.attribute, g.op, g.items)
  BY <1>4 DEF Comparison
<1>6. QED
  BY <1>1, <1>2, <1>3, <1>5

\* A comparison with the records of a variable, dereferenced.
LEMMA ComparisonDereferenced ==
    ASSUME NEW s \in Statements, s.command = "get", NEW g, g = s.where.graph, IsComparison(g), g.op \in {"=", "IN"},
           g.etype \in {AnyType, s.type}, \A x \in Variables : rowsOf[x] \in SUBSET Observed,
           \A i \in ReferencesIn(g) : CanLookup(i, rowsOf),
           NEW i \in ReferencesIn(g), NEW r \in rowsOf[i.variable], r[i.attribute] \notin Falsy
    PROVE  \E op \in {"=", "IN"} : \E xs :
             /\ r[i.attribute] \in xs
             /\ Dereferenced(s).graph = Comparison(s.type, g.attribute, op, Literals(xs))
             /\ Dereferenced(s).graph \in Leaves
<1> DEFINE d == DerefGraph(g, rowsOf)
<1>1. /\ g \in Leaves /\ g \in Graphs /\ IsFiniteSet(g.items)
      /\ g = Comparison(g.etype, g.attribute, g.op, g.items)
  BY StatementComparison
<1>2. \A j : j \in ReferencesIn(g) <=> j \in g.items /\ IsReference(j)
  BY <1>1, RefersOnLeaf
<1>3. \A j \in ReferencesIn(g) : j.variable \in Variables
  BY StatementsAssumption
<1>4. PICK xs : xs = Flattened(g.items, rowsOf)
  OBVIOUS
<1>5. IsFiniteSet(xs)
  <2>1. \A j \in g.items : IsReference(j) => rowsOf[j.variable] \in SUBSET Observed
    BY <1>2, <1>3
  <2>2. QED
    BY <1>1, <1>4, <2>1, FlattenedFinite
<1>6. r[i.attribute] \in xs
  <2>1. i \in g.items /\ IsReference(i)
    BY <1>2
  <2>2. r[i.attribute] \in Looked(i, rowsOf)
    BY DEF Looked
  <2>3. QED
    BY <1>4, <2>1, <2>2 DEF Flattened
<1>7. d = DerefComparison(g, rowsOf)
  BY <1>1, OnLeaves
<1>8. d \in Leaves
  <2>1. Plain(g, rowsOf)
    BY StatementPlain
  <2>2. QED
    BY <1>1, <1>7, <2>1, DerefComparisonStays
<1>9. PICK op \in {"=", "IN"} : d = Comparison(g.etype, g.attribute, op, Literals(xs))
  <2>1. PICK type \in {g.etype}, attribute \in {g.attribute}, was \in {"=", "IN"}, items \in {g.items} : was = g.op
    OBVIOUS
  <2>2. \E is \in {"=", "IN"} :
          DerefComparison(Comparison(type, attribute, was, items), rowsOf) = Comparison(type, attribute, is, Literals(xs))
    BY <1>4, <1>5, <1>6, <2>1, DerefOfEquality
  <2>3. QED
    BY <1>1, <1>7, <2>1, <2>2
<1>10. Dereferenced(s).graph = Centered(d, s.type)
  <2>1. CenterOf(s) = s.type
    BY DEF CenterOf
  <2>2. QED
    BY <2>1, DereferencedFields
<1>11. s.type \in Names /\ 0 \in Levels /\ Trees[0] = Leaves
  BY StatementsAssumption, TreesUnfold, DepthAssumption DEF Levels
<1> HIDE DEF d
<1>12. Centered(d, s.type) \in Leaves
  BY <1>8, <1>11, CenteredStays
<1>13. Centered(d, s.type) = Comparison(s.type, g.attribute, op, Literals(xs))
  <2>1. Centered(d, s.type) = IF IsComparison(d) /\ d.etype = AnyType THEN [d EXCEPT !.etype = s.type] ELSE d
    BY <1>8, OnLeaves
  <2>2. IsComparison(d) /\ d.etype = g.etype
    BY <1>9 DEF Comparison, IsComparison
  <2>3. [d EXCEPT !.etype = s.type] = Comparison(s.type, g.attribute, op, Literals(xs))
    BY <1>9 DEF Comparison
  <2>4. QED
    BY <1>9, <2>1, <2>2, <2>3
<1>14. QED
  BY <1>6, <1>10, <1>12, <1>13

\* A GET by references alone finds every record it refers to (ecgpattern.py,
\* deref; declarative.py, get_timerange).
THEOREM ReferencesFound == Spec => []ReferencesCovered
<1>1. IInv => ReferencesCovered
  <2> SUFFICES ASSUME IInv, stage = "prefetch", stmt.command = "get", stmt.timerange = NoRange, stmt.limit = 0,
                      NEW g, g = stmt.where.graph, IsComparison(g), g.op \in {"=", "IN"}, g.etype \in {AnyType, stmt.type},
                      NEW i \in ReferencesIn(g), i.attribute = g.attribute, typeOf[i.variable] = stmt.type,
                      NEW r \in rowsOf[i.variable], r[i.attribute] \notin Falsy
               PROVE  r \in local
    BY DEF ReferencesCovered
  <2>1. /\ stmt \in Statements /\ where = Dereferenced(stmt) /\ local \in LocalRows(stmt, where)
        /\ \A j \in ReferencesIn(g) : CanLookup(j, rowsOf)
    BY DEF IInv, StatementInv, DerefInv, LocalInv
  <2>2. /\ \A x \in Variables : rowsOf[x] \in SUBSET Records /\ rowsOf[x] \in SUBSET Observed
        /\ \A j \in ReferencesIn(g) : j.variable \in Variables
    BY <2>1, KnownRecords, StatementsAssumption DEF IInv
  <2>3. /\ r \in Observed /\ r \in Records /\ r.type = stmt.type /\ i.attribute \in DOMAIN r
    <3>1. rowsOf[i.variable] = Rows(stmt.type, rowsOf[i.variable])
      BY <2>2 DEF IInv, TypeOK
    <3>2. r.type = stmt.type
      BY <3>1 DEF Rows
    <3>3. QED
      BY <2>1, <2>2, <3>2 DEF CanLookup
  <2>4. \E op \in {"=", "IN"} : \E xs :
          /\ r[i.attribute] \in xs
          /\ where.graph = Comparison(stmt.type, g.attribute, op, Literals(xs))
          /\ where.graph \in Leaves
    BY <2>1, <2>2, ComparisonDereferenced
  <2>5. stmt.type \in Names /\ CenterOf(stmt) = stmt.type
    BY <2>1, StatementsAssumption DEF CenterOf
  <2>6. /\ \A o : r \in o => Matches(o, where.graph)
        /\ Centered(where.graph, stmt.type) = where.graph
        /\ Prune(where.graph, stmt.type, "center") = where.graph
    <3>1. PICK op \in {"=", "IN"} : \E xs :
            /\ r[g.attribute] \in xs
            /\ where.graph = Comparison(stmt.type, g.attribute, op, Literals(xs))
      BY <2>4
    <3>2. PICK xs : r[g.attribute] \in xs /\ where.graph = Comparison(stmt.type, g.attribute, op, Literals(xs))
      BY <3>1
    <3>3. PICK type \in Names, attribute \in {g.attribute}, c \in Leaves : type = stmt.type /\ c = where.graph
      BY <2>4, <2>5
    <3>4. attribute \in DOMAIN r /\ r[attribute] \in xs /\ r[attribute] \notin Falsy /\ r.type = type
          /\ c = Comparison(type, attribute, op, Literals(xs))
      BY <2>3, <3>2, <3>3
    <3>5. /\ \A o : r \in o => Matches(o, c)
          /\ Centered(c, type) = c
          /\ Prune(c, type, "center") = c
      BY <3>4, ComparisonOfValues
    <3>6. QED
      BY <3>3, <3>5
  <2> DEFINE stix == ToStix(where, stmt.timerange, TimerangeStart, TimerangeStop)
             ranges == ReferredRanges(g, rowsOf)
  <2>7. where.timerange = MergeTimeranges(ranges) /\ where.center = stmt.type
    BY <2>1, <2>5, DereferencedFields
  <2>8. stix.graph = where.graph /\ stix.range = Adjusted(MergeTimeranges(ranges), TimerangeStart, TimerangeStop)
    BY <2>6, <2>7, ToStixFields
  <2>9. MergeTimeranges(ranges) \in Pairs
        /\ MergeTimeranges(ranges)[1] <= r.first /\ r.last <= MergeTimeranges(ranges)[2]
    <3>1. PICK tr : tr = VarTimerange(rowsOf[i.variable])
      OBVIOUS
    <3>2. IsFiniteSet(rowsOf[i.variable]) /\ rowsOf[i.variable] \in SUBSET Observed
      BY <2>2, ObservedFinite
    <3>3. tr \in Pairs /\ tr # NoRange /\ tr[1] <= r.first /\ r.last <= tr[2]
      BY <3>1, <3>2, VarTimerangeSpans
    <3>4. tr \in ranges
      BY <3>1 DEF ReferredRanges
    <3>5. ranges \in SUBSET ({NoRange} \union Pairs) /\ IsFiniteSet(ranges)
      <4>1. g \in Graphs /\ \A c \in Comparisons(g) : IsFiniteSet(c.items)
        BY <2>1, StatementComparison
      <4>2. \A j \in ReferencesIn(g) : rowsOf[j.variable] \in SUBSET Observed
        BY <2>2
      <4>3. QED
        BY <4>1, <4>2, ReferredRangesFacts
    <3> HIDE DEF ranges
    <3>6. /\ MergeTimeranges(ranges) \in Pairs
          /\ MergeTimeranges(ranges)[1] <= tr[1] /\ tr[2] <= MergeTimeranges(ranges)[2]
      BY <3>3, <3>4, <3>5, MergedSpans
    <3>7. PICK a, b, c, d, first, last \in Int :
            a = MergeTimeranges(ranges)[1] /\ b = tr[1] /\ first = r.first
            /\ c = MergeTimeranges(ranges)[2] /\ d = tr[2] /\ last = r.last
      BY <2>3, <3>3, <3>6, PairFacts, RecordFacts
    <3>8. a <= b /\ b <= first /\ last <= d /\ d <= c
      BY <3>3, <3>6, <3>7
    <3>9. a <= first /\ last <= c
      BY <3>8
    <3>10. QED
      BY <3>6, <3>7, <3>9
  <2>10. PICK o \in store : r \in o
    BY <2>3 DEF Records
  <2> HIDE DEF ranges, stix
  <2>11. Overlaps(o, stix.range)
    BY <2>3, <2>8, <2>9, <2>10, AdjustedOverlaps
  <2>12. o \in Matching(stix)
    BY <2>6, <2>8, <2>10, <2>11 DEF Matching, IInv, TypeOK
  <2>13. r \in Extracted(stmt.type, UNION Matching(stix), stix.graph)
    BY <2>3, <2>6, <2>8, <2>10, <2>12 DEF Extracted, Rows
  <2>14. local = Extracted(stmt.type, UNION Matching(stix), stix.graph)
    <3>1. PICK q : q = stix
      OBVIOUS
    <3>2. local \in RowsOf(stmt, q)
      BY <2>1, <3>1 DEF LocalRows, stix
    <3>3. Answers(q, stmt.limit) = {Matching(q)}
      BY DEF Answers
    <3>4. local = Extracted(stmt.type, UNION Matching(q), q.graph)
      BY <3>2, <3>3 DEF RowsOf
    <3>5. QED
      BY <3>1, <3>4
  <2>15. QED
    BY <2>13, <2>14
<1>2. QED
  BY <1>1, Invariant, PTL

\* The identifiers of the local rows find each of them again.
LEMMA IdentityFinds ==
    ASSUME NEW s \in Statements, NEW rows \in SUBSET Observed, OfType(rows, s.type),
           NEW id, id = IdAttribute(s.type, rows), NEW p, p = IdenticalEntities(s, rows),
           NEW r \in rows, r[id] \notin Falsy
    PROVE  /\ p.graph \in Leaves
           /\ \A o : r \in o => Matches(o, p.graph)
           /\ Centered(p.graph, s.type) = p.graph /\ Prune(p.graph, s.type, "center") = p.graph
           /\ p.timerange \in Pairs /\ p.timerange # NoRange
           /\ p.timerange[1] <= r.first /\ r.last <= p.timerange[2]
<1>1. s.type \in Names /\ IsFiniteSet(rows) /\ r \in Observed /\ r.type = s.type
  BY StatementsAssumption, ObservedFinite DEF OfType
<1>2. /\ p.graph \in Leaves
      /\ p.timerange = MergeTimeranges({VarTimerange(rows)})
      /\ Identifiers(id, rows) # {} => \E op \in {"=", "IN"} :
           p.graph = Comparison(s.type, id, op, Literals(Identifiers(id, rows)))
  BY <1>1, IdentityPattern DEF OfType
<1>3. r[id] \in Identifiers(id, rows)
  BY DEF Identifiers
<1>4. id \in DOMAIN r
  <2>1. id = "id" \/ id = "uid" \/ id = "pid"
    BY IdentityKinds
  <2>2. s.type = "process" \/ id = "id"
    BY IdentityKinds
  <2>3. QED
    BY <1>1, <2>1, <2>2, RecordFacts
<1>5. PICK op \in {"=", "IN"} : p.graph = Comparison(s.type, id, op, Literals(Identifiers(id, rows)))
  BY <1>2, <1>3
<1>6. /\ \A o : r \in o => Matches(o, p.graph)
      /\ Centered(p.graph, s.type) = p.graph
      /\ Prune(p.graph, s.type, "center") = p.graph
  <2>1. PICK type \in Names, xs \in {Identifiers(id, rows)}, c \in Leaves, attribute \in {id} :
          type = s.type /\ c = p.graph
    BY <1>1, <1>2
  <2>2. attribute \in DOMAIN r /\ r[attribute] \in xs /\ r[attribute] \notin Falsy /\ r.type = type
        /\ c = Comparison(type, attribute, op, Literals(xs))
    BY <1>1, <1>3, <1>4, <1>5, <2>1
  <2>3. /\ \A o : r \in o => Matches(o, c)
        /\ Centered(c, type) = c
        /\ Prune(c, type, "center") = c
    BY <2>2, ComparisonOfValues
  <2>4. QED
    BY <2>1, <2>3
<1>7. /\ p.timerange \in Pairs /\ p.timerange # NoRange
      /\ p.timerange[1] <= r.first /\ r.last <= p.timerange[2]
  <2>1. PICK tr : tr = VarTimerange(rows)
    OBVIOUS
  <2>2. tr \in Pairs /\ tr # NoRange /\ tr[1] <= r.first /\ r.last <= tr[2]
    BY <1>1, <2>1, VarTimerangeSpans
  <2>3. IsFiniteSet({}) /\ IsFiniteSet({} \union {tr})
    BY FS_EmptySet, FS_AddElement
  <2> DEFINE ranges == {} \union {tr}
  <2>4. p.timerange = MergeTimeranges(ranges)
    <3>1. ranges = {VarTimerange(rows)}
      BY <2>1
    <3>2. QED
      BY <1>2, <3>1
  <2>5. tr \in ranges /\ ranges \in SUBSET ({NoRange} \union Pairs) /\ IsFiniteSet(ranges)
    BY <2>2, <2>3
  <2> HIDE DEF ranges
  <2>6. /\ p.timerange \in Pairs /\ p.timerange # NoRange
        /\ p.timerange[1] <= tr[1] /\ tr[2] <= p.timerange[2]
    BY <2>2, <2>4, <2>5, MergedSpans
  <2>7. PICK a, b, c, d, first, last \in Int :
          a = p.timerange[1] /\ b = tr[1] /\ first = r.first /\ c = p.timerange[2] /\ d = tr[2] /\ last = r.last
    BY <1>1, <2>2, <2>6, PairFacts, RecordFacts
  <2>8. a <= b /\ b <= first /\ last <= d /\ d <= c
    BY <2>2, <2>6, <2>7
  <2>9. a <= first /\ last <= c
    BY <2>8
  <2>10. QED
    BY <2>6, <2>7, <2>9
<1>8. QED
  BY <1>2, <1>6, <1>7

\* Merging with another range loses nothing of it.
LEMMA JoinedSpans ==
    ASSUME NEW a \in Pairs, NEW b \in {NoRange} \union Pairs, NEW r \in Observed, a[1] <= r.first, r.last <= a[2]
    PROVE  /\ Joined(a, b) \in Pairs /\ Joined(a, b)[1] <= r.first /\ r.last <= Joined(a, b)[2]
<1> DEFINE ranges == ({} \union {a}) \union {b}
<1>1. IsFiniteSet(ranges)
  <2>1. IsFiniteSet({}) /\ IsFiniteSet({} \union {a})
    BY FS_EmptySet, FS_AddElement
  <2>2. QED
    BY <2>1, FS_AddElement
<1>2. a # NoRange /\ a \in ranges /\ ranges \in SUBSET ({NoRange} \union Pairs)
  BY PairFacts
<1>3. Joined(a, b) = MergeTimeranges(ranges)
  <2>1. ranges = {a, b}
    OBVIOUS
  <2>2. QED
    BY <2>1 DEF Joined
<1> HIDE DEF ranges
<1>4. Joined(a, b) \in Pairs /\ Joined(a, b)[1] <= a[1] /\ a[2] <= Joined(a, b)[2]
  BY <1>1, <1>2, <1>3, MergedSpans
<1>5. PICK x, y, first, last, c, d \in Int :
        x = Joined(a, b)[1] /\ y = Joined(a, b)[2] /\ first = r.first /\ last = r.last /\ c = a[1] /\ d = a[2]
  BY <1>4, PairFacts, RecordFacts
<1>6. x <= c /\ c <= first /\ last <= d /\ d <= y
  BY <1>4, <1>5
<1>7. x <= first /\ last <= y
  BY <1>6
<1>8. QED
  BY <1>4, <1>5, <1>7

\* What the local stage of a GET found, the prefetch finds again.
LEMMA PrefetchFindsAgain ==
    ASSUME NEW s \in Statements, s.command = "get", NEW w, Prepared(s, w), ~MixedAlternatives(w.graph, s.type),
           NEW rows \in SUBSET Observed, OfType(rows, s.type), NEW r \in rows, rows \in LocalRows(s, w),
           r[IdAttribute(s.type, rows)] \notin Falsy, s.limit = 0,
           NEW found \in PrefetchedRows(s, w, rows)
    PROVE  r \in found
<1> DEFINE stix == ToStix(w, s.timerange, TimerangeStart, TimerangeStop)
           pp == PrefetchPattern(s, w, rows)
           type == s.type
<1>1. /\ type \in Names /\ w.graph \in Graphs /\ w.center = type /\ Centered(w.graph, type) = w.graph
      /\ w.timerange \in {NoRange} \union Pairs /\ r \in Observed /\ r.type = type
      /\ PatternDepth \in Levels /\ PatternDepth + 1 \in Levels /\ Graphs = Trees[PatternDepth + 1]
  BY StatementsAssumption, Levelled, DepthAssumption DEF Prepared, Levels, OfType, Graphs
<1>2. PICK o \in Matching(stix) : r \in o
  <2>1. rows \in RowsOf(s, stix)
    BY DEF LocalRows
  <2> HIDE DEF stix
  <2>2. rows \in SUBSET (UNION Matching(stix))
    BY <2>1, RowsOfFacts
  <2>3. QED
    BY <2>2
<1>3. /\ o \in server /\ Matches(o, w.graph)
      /\ s.timerange # NoRange => Overlaps(o, s.timerange)
  BY <1>1, <1>2, ToStixFields DEF Matching
<1>4. PICK p, ext, graph, range, joined :
        /\ p = IdenticalEntities(s, rows) /\ ext = Taken(s, w)
        /\ graph = PrefetchPattern(s, w, rows).graph /\ range = PrefetchPattern(s, w, rows).range
        /\ joined = Junction("AND", Centered(p.graph, s.type), Centered(ext, s.type))
  OBVIOUS
<1>5. /\ graph = IF ext = NoGraph THEN Centered(p.graph, s.type) ELSE joined
      /\ range = IF s.timerange # NoRange THEN s.timerange
                 ELSE Adjusted(IF ext = NoGraph THEN p.timerange ELSE Joined(p.timerange, w.timerange),
                               TimerangeStart, TimerangeStop)
      /\ ext \in Trees[PatternDepth]
      /\ joined \in Graphs
  BY <1>4, PrefetchPatternFacts
<1>6. /\ p.graph \in Leaves
      /\ \A q : r \in q => Matches(q, p.graph)
      /\ Centered(p.graph, type) = p.graph /\ Prune(p.graph, type, "center") = p.graph
      /\ p.timerange \in Pairs /\ p.timerange # NoRange
      /\ p.timerange[1] <= r.first /\ r.last <= p.timerange[2]
  <2>1. PICK id : id = IdAttribute(s.type, rows)
    OBVIOUS
  <2>2. QED
    BY <1>4, <2>1, IdentityFinds
<1>7. ext = Prune(w.graph, type, "ext")
  BY <1>4 DEF Taken
<1> DEFINE y == Centered(ext, type)
           rest == Prune(y, type, "center")
<1>8. ext = NoGraph \/ Matches(o, y)
  <2>1. type \in Names /\ ~MixedAlternatives(w.graph, type) /\ Matches(o, Centered(w.graph, type))
    BY <1>1, <1>3
  <2> HIDE DEF type
  <2>2. QED
    BY <1>1, <1>7, <2>1, ExtendedPartMatches
<1>9. Matches({r}, rest) /\ y \in Graphs /\ rest \in Graphs
  <2>1. ext \in Graphs
    BY <1>1, <1>5, Levelled
  <2> HIDE DEF type
  <2>2. PICK one : one = {r}
    OBVIOUS
  <2>3. Matches(one, rest)
    BY <1>1, <1>7, ExtendedPartIsNotCentral
  <2>4. y \in Graphs
    BY <1>1, <2>1, CenteredStays
  <2>5. rest \in Graphs
    BY <1>1, <2>4, PruneStays
  <2>6. QED
    BY <2>2, <2>3, <2>4, <2>5
<1> HIDE DEF stix, pp
<1>10. Overlaps(o, range)
  <2>1. CASE s.timerange # NoRange
    BY <1>3, <1>5, <2>1
  <2>2. CASE s.timerange = NoRange /\ ext = NoGraph
    <3>1. PICK tr \in Pairs : tr = p.timerange
      BY <1>6
    <3>2. Overlaps(o, Adjusted(tr, TimerangeStart, TimerangeStop))
      BY <1>1, <1>2, <1>6, <3>1, AdjustedOverlaps
    <3>3. QED
      BY <1>5, <2>2, <3>1, <3>2
  <2>3. CASE s.timerange = NoRange /\ ext # NoGraph
    <3>1. PICK a \in Pairs, b \in {NoRange} \union Pairs : a = p.timerange /\ b = w.timerange
      BY <1>1, <1>6
    <3>2. PICK tr : tr = Joined(a, b)
      OBVIOUS
    <3>3. tr \in Pairs /\ tr[1] <= r.first /\ r.last <= tr[2]
      BY <1>1, <1>6, <3>1, <3>2, JoinedSpans
    <3>4. Overlaps(o, Adjusted(tr, TimerangeStart, TimerangeStop))
      BY <1>1, <1>2, <3>3, AdjustedOverlaps
    <3>5. QED
      BY <1>5, <2>3, <3>1, <3>2, <3>4
  <2>4. QED
    BY <2>1, <2>2, <2>3
<1>11. Matches(o, graph) /\ Matches({r}, Prune(graph, type, "center"))
  <2>1. PICK one : one = {r}
    OBVIOUS
  <2>2. Matches(o, p.graph) /\ Matches(one, p.graph) /\ Matches(one, rest)
    BY <1>2, <1>6, <1>9, <2>1
  <2> DEFINE pruned == Prune(graph, type, "center")
  <2>3. Matches(o, graph) /\ Matches(one, pruned)
    <3>1. CASE ext = NoGraph
      BY <1>5, <1>6, <2>2, <3>1
    <3>2. CASE ext # NoGraph
      <4>1. graph = Junction("AND", p.graph, y) /\ graph \in Graphs
        BY <1>4, <1>5, <1>6, <3>2
      <4>2. pruned \in Graphs
        BY <1>1, <4>1, PruneStays
      <4> HIDE DEF y
      <4>3. Matches(o, graph)
        BY <1>8, <2>2, <3>2, <4>1, MatchesOfJunction
      <4> HIDE DEF rest
      <4>4. pruned = IF p.graph = NoGraph THEN rest ELSE IF rest = NoGraph THEN p.graph
                     ELSE Junction("AND", p.graph, rest)
        BY <1>6, <4>1, PruneOfJunction DEF rest
      <4> HIDE DEF pruned
      <4>5. CASE pruned = rest \/ pruned = p.graph
        BY <2>2, <4>3, <4>5
      <4>6. CASE pruned = Junction("AND", p.graph, rest)
        BY <2>2, <4>2, <4>3, <4>6, MatchesOfJunction
      <4>7. QED
        BY <4>4, <4>5, <4>6
    <3>3. QED
      BY <3>1, <3>2
  <2>4. QED
    BY <2>1, <2>3
<1>12. o \in Matching(pp)
  BY <1>3, <1>4, <1>10, <1>11 DEF Matching, pp
<1>13. r \in Extracted(type, UNION Matching(pp), pp.graph)
  BY <1>1, <1>2, <1>4, <1>11, <1>12 DEF Extracted, Rows, pp
<1>14. found \in RowsOf(s, pp)
  BY DEF PrefetchedRows, pp
<1>15. found = Extracted(type, UNION Matching(pp), pp.graph)
  BY <1>14, RowsOfFacts
<1>16. QED
  BY <1>13, <1>15

\* Without a LIMIT the prefetch only adds: whatever the hunter's own pattern
\* found is in the variable (prefetch.py, do_prefetch; process_identification.py).
THEOREM GetsKeepTheirMatches == Spec => []GetKeepsItsMatches
<1>1. IInv => GetKeepsItsMatches
  <2> SUFFICES ASSUME IInv, stage = "done", stmt.command = "get", stmt.limit = 0,
                      ~MixedAlternatives(where.graph, stmt.type),
                      NEW r \in local, ~(r.type = "process" /\ r[IdAttribute("process", local)] \in Falsy)
               PROVE  r \in Result
    BY DEF GetKeepsItsMatches, Finished
  <2>1. /\ stmt \in Statements /\ stmt.command \in Queries /\ Prepared(stmt, where)
        /\ local \in LocalRows(stmt, where) /\ \A q \in local : q.type = stmt.type
        /\ Result = Returned(stmt, where, local, raw)
        /\ HasPrefetch(stmt, where, local) => raw \in PrefetchedRows(stmt, where, local)
    BY DEF IInv, StatementInv, LocalInv, DoneInv, Queries
  <2>2. local \in SUBSET Observed /\ OfType(local, stmt.type)
    BY <2>1, KnownRecords DEF IInv, OfType
  <2>3. CASE ~HasPrefetch(stmt, where, local)
    BY <2>1, <2>3 DEF Returned
  <2>4. CASE HasPrefetch(stmt, where, local)
    <3> DEFINE id == IdAttribute(stmt.type, local)
    <3>1. r \in Observed /\ r.type = stmt.type
      BY <2>1, <2>2
    <3>2. r[id] \notin Falsy
      <4>1. CASE stmt.type = "process"
        BY <3>1, <4>1
      <4>2. CASE stmt.type # "process"
        <5>1. id = "id"
          BY <4>2, IdentityKinds
        <5>2. QED
          BY <3>1, <5>1, RecordFacts
      <4>3. QED
        BY <4>1, <4>2
    <3>3. r \in raw
      BY <2>1, <2>2, <2>4, <3>2, PrefetchFindsAgain
    <3>4. Result = FilterPrefetched(stmt, local, raw)
      BY <2>1, <2>4 DEF Returned
    <3>5. CASE ~(stmt.type = "process" /\ id \notin {"id", "uid"})
      BY <3>3, <3>4, <3>5 DEF FilterPrefetched
    <3>6. CASE stmt.type = "process" /\ id \notin {"id", "uid"}
      <4>1. id = "id" \/ id = "uid" \/ id = "pid"
        BY IdentityKinds
      <4>2. id = "pid" /\ IdAttribute("process", local) = "pid"
        BY <3>6, <4>1
      <4>3. r.pid \notin Falsy
        BY <3>2, <4>2
      <4>4. IdenticalProcess(r, r)
        BY <3>1, SelfIdentical
      <4> HIDE DEF id
      <4>5. r \in RelationalProcesses(local, raw)
        BY <3>3, <4>3, <4>4, AnchorsTaken
      <4>6. QED
        BY <3>4, <3>6, <4>2, <4>5, FilteredByPid
    <3>7. QED
      BY <3>5, <3>6
  <2>5. QED
    BY <2>3, <2>4
<1>2. QED
  BY <1>1, Invariant, PTL

=============================================================================
