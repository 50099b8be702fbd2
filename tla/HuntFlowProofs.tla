---------------------------- MODULE HuntFlowProofs ----------------------------
(***************************************************************************)
(* Proofs about HuntFlow for any number of names, data sources, statements *)
(* and blocks: the merged graphs mean what executing the statements one    *)
(* after the other would mean, the variable a user gets by a name is the   *)
(* one defined last, no source or undefined name is ever doubled, and      *)
(* results are shown in the order of the statements.                       *)
(*                                                                         *)
(* compose() and execute() are the same step: the graph of the statements  *)
(* mid+1..to is merged into the graph of from..mid (MergedGraph).          *)
(***************************************************************************)
EXTENDS HuntFlow, FiniteSetTheorems, SequenceTheorems, WellFoundedInduction, TLAPS

OneCopy(g) == \A x, y \in g.nodes : SameContent(x, y) => x = y

\* What the program p says, for a program that is not the one of the state yet.
EndIn(p, s) == IF p[s].defines = {} THEN Return(s) ELSE Variable(s)

DefinersIn(p, n, from, s) == {t \in from..s : p[t].defines = {n}}

ReadsIn(p, x, n, from, s) ==
    IF DefinersIn(p, n, from, s - 1) = {}
    THEN x.kind = "reference" /\ x.name = n
    ELSE x = Variable(Max(DefinersIn(p, n, from, s - 1)))

\* A graph of the statements from..to: it has the End of each of them, every edge
\* leads to one of those, and the other nodes are references and sources.
NodesOf(p, g, from, to) ==
    /\ \A x \in g.nodes :
        /\ x.at \in 1..Len(p)
        /\ x.kind = "reference" => x.name \in Names
        /\ x.kind = "variable" => \E s \in from..to : x = Variable(s) /\ p[s].defines # {}
        /\ x.kind = "return" => \E s \in from..to : x = Return(s) /\ p[s].defines = {}
    /\ \A s \in from..to : EndIn(p, s) \in g.nodes
    /\ \A e \in g.edges : /\ e \in g.nodes \X g.nodes
                          /\ \E s \in from..to : e[2] = EndIn(p, s)
    /\ OneCopy(g)

\* A version counts the definitions of the same name that come before it in the graph.
VersionOf(p, v, from, to) ==
    \A n \in Names : \A t \in DefinersIn(p, n, from, to) :
        v[t] = Cardinality(DefinersIn(p, n, from, t - 1))

\* A statement reads what it must, and nothing else.
ReadOf(p, g, from, to) ==
    \A s \in from..to :
        /\ \A n \in p[s].uses : \E x \in Preds(g, EndIn(p, s)) : ReadsIn(p, x, n, from, s)
        /\ \A d \in p[s].source : \E x \in Preds(g, EndIn(p, s)) : x.kind = "source" /\ x.uri = d
        /\ \A x \in Preds(g, EndIn(p, s)) :
            \/ \E n \in p[s].uses : ReadsIn(p, x, n, from, s)
            \/ \E d \in p[s].source : x.kind = "source" /\ x.uri = d

ReturnsIn(p, from, s) == {t \in from..s : p[t].defines = {}}

\* The sequences of the Returns of a graph increase with the statements.
SequenceOf(p, q, from, to) ==
    \A s \in ReturnsIn(p, from, to) :
        q[s] \in Nat /\ \A t \in ReturnsIn(p, from, to) : s < t => q[s] < q[t]

GraphInv(p, v, g, from, to) ==
    NodesOf(p, g, from, to) /\ VersionOf(p, v, from, to) /\ ReadOf(p, g, from, to)

\* The statements of the block come after those of the session.
CountInv ==
    /\ program \in Seq(Statements) /\ Len(program) <= MaxStatements
    /\ executed \in 0..Len(program)
    /\ version \in [1..MaxStatements -> Nat]
    /\ \A s \in (Len(program) + 1)..MaxStatements : version[s] = 0

\* The Returns of the executed statements were shown, in their order.
ShownInv ==
    /\ sequence \in [1..MaxStatements -> Nat]
    /\ SequenceOf(program, sequence, 1, executed)
    /\ SequenceOf(program, sequence, executed + 1, Len(program))
    /\ shown \in Seq(1..executed)
    /\ \A i, j \in DOMAIN shown : i < j => shown[i] < shown[j]
    /\ ToSet(shown) = ReturnsIn(program, 1, executed)

IInv ==
    /\ CountInv
    /\ GraphInv(program, version, session, 1, executed)
    /\ GraphInv(program, version, block, executed + 1, Len(program))

-------------------------------------------------------------------------------
(* Numbers and sets of numbers. *)

LEMMA SmallestOf ==
    ASSUME NEW S \in SUBSET Nat, S # {}
    PROVE  \E x \in S : \A y \in S : x <= y
<1> DEFINE R == OpToRel(<, Nat)
<1>1. IsWellFoundedOn(R, Nat)
  BY NatLessThanWellFounded
<1>2. \A x, y \in Nat : <<x, y>> \in R <=> x < y
  BY DEF OpToRel
<1> HIDE DEF R
<1>3. PICK x \in S : \A y \in S : ~(<<y, x>> \in R)
  BY <1>1, WFMin
<1>4. \A y \in S : x <= y
  <2>1. \A y \in S : ~(y < x) /\ y \in Nat /\ x \in Nat
    BY <1>2, <1>3
  <2>2. QED
    BY <2>1
<1>5. QED
  BY <1>4

\* A set of numbers with a bound has a greatest one.
LEMMA GreatestOf ==
    ASSUME NEW D \in SUBSET Nat, D # {}, NEW b \in Nat, \A t \in D : t <= b
    PROVE  Max(D) \in D /\ \A t \in D : t <= Max(D)
<1> DEFINE S == {b - t : t \in D}
<1>1. S \in SUBSET Nat /\ S # {}
  OBVIOUS
<1>2. PICK x \in S : \A y \in S : x <= y
  BY <1>1, SmallestOf
<1>3. PICK m \in D : x = b - m
  BY <1>2
<1>4. \A t \in D : t <= m
  <2> SUFFICES ASSUME NEW t \in D PROVE t <= m
    OBVIOUS
  <2>1. b - m <= b - t /\ m \in Nat /\ t \in Nat
    BY <1>2, <1>3
  <2>2. QED
    BY <2>1
<1>5. \E z \in D : \A y \in D : z >= y
  BY <1>4
<1>6. Max(D) \in D /\ \A y \in D : Max(D) >= y
  BY <1>5 DEF Max
<1>7. \A y \in D : Max(D) \in Nat /\ y \in Nat /\ Max(D) >= y
  BY <1>6
<1>8. QED
  BY <1>6, <1>7

LEMMA GreatestIs ==
    ASSUME NEW D \in SUBSET Nat, NEW m \in D, \A t \in D : t <= m
    PROVE  Max(D) = m
<1>1. \E z \in D : \A y \in D : z >= y
  OBVIOUS
<1>2. Max(D) \in D /\ \A y \in D : Max(D) >= y
  BY <1>1 DEF Max
<1>3. Max(D) \in Nat /\ m \in Nat /\ m <= Max(D) /\ Max(D) <= m
  BY <1>2
<1>4. QED
  BY <1>3

-------------------------------------------------------------------------------
(* The definitions of a name. *)

LEMMA DefinersFacts ==
    ASSUME NEW p, NEW n, NEW from \in Nat, NEW to \in Nat
    PROVE  /\ DefinersIn(p, n, from, to) \subseteq Nat
           /\ \A t \in DefinersIn(p, n, from, to) : from <= t /\ t <= to /\ p[t].defines = {n}
           /\ IsFiniteSet(DefinersIn(p, n, from, to))
           /\ Cardinality(DefinersIn(p, n, from, to)) \in Nat
<1>1. IsFiniteSet(from..to)
  BY FS_Interval
<1>2. DefinersIn(p, n, from, to) \in SUBSET (from..to)
  BY DEF DefinersIn
<1>3. IsFiniteSet(DefinersIn(p, n, from, to))
  BY <1>1, <1>2, FS_Subset
<1>4. Cardinality(DefinersIn(p, n, from, to)) \in Nat
  BY <1>3, FS_CardinalityType
<1>5. QED
  BY <1>3, <1>4 DEF DefinersIn

\* Fewer definitions come before one of them than there are.
LEMMA FewerBefore ==
    ASSUME NEW p, NEW n, NEW from \in Nat, NEW to \in Nat, NEW t \in DefinersIn(p, n, from, to)
    PROVE  /\ Cardinality(DefinersIn(p, n, from, t - 1)) < Cardinality(DefinersIn(p, n, from, to))
           /\ Cardinality(DefinersIn(p, n, from, t - 1)) \in Nat
<1>1. t \in Nat /\ from <= t /\ t <= to /\ p[t].defines = {n}
  BY DefinersFacts
<1>2. t \notin DefinersIn(p, n, from, t - 1) /\ DefinersIn(p, n, from, t - 1) \subseteq DefinersIn(p, n, from, to)
  BY <1>1 DEF DefinersIn
<1>3. DefinersIn(p, n, from, t - 1) \cup {t} \in SUBSET DefinersIn(p, n, from, to)
  BY <1>2
<1>4. IsFiniteSet(DefinersIn(p, n, from, t - 1))
  BY <1>2, DefinersFacts, FS_Subset
<1>5. /\ IsFiniteSet(DefinersIn(p, n, from, t - 1) \cup {t})
      /\ Cardinality(DefinersIn(p, n, from, t - 1) \cup {t}) = Cardinality(DefinersIn(p, n, from, t - 1)) + 1
  BY <1>2, <1>4, FS_AddElement
<1>6. Cardinality(DefinersIn(p, n, from, t - 1) \cup {t}) <= Cardinality(DefinersIn(p, n, from, to))
  BY <1>3, DefinersFacts, FS_Subset
<1>7. Cardinality(DefinersIn(p, n, from, t - 1)) \in Nat /\ Cardinality(DefinersIn(p, n, from, to)) \in Nat
  BY <1>4, DefinersFacts, FS_CardinalityType
<1>8. QED
  BY <1>5, <1>6, <1>7

\* The definitions from two stretches of a program.
LEMMA DefinersOfBoth ==
    ASSUME NEW p, NEW n, NEW from \in Nat, NEW mid \in Nat, NEW to \in Nat, from <= mid + 1, mid <= to
    PROVE  DefinersIn(p, n, from, to) = DefinersIn(p, n, from, mid) \cup DefinersIn(p, n, mid + 1, to)
<1>1. \A t : t \in from..to <=> t \in from..mid \/ t \in (mid + 1)..to
  OBVIOUS
<1>2. QED
  BY <1>1 DEF DefinersIn

LEMMA SizeOfBoth ==
    ASSUME NEW p, NEW n, NEW from \in Nat, NEW mid \in Nat, NEW to \in Nat, from <= mid + 1, mid <= to,
           NEW a \in Nat, NEW b \in Nat, Cardinality(DefinersIn(p, n, from, mid)) = a,
           Cardinality(DefinersIn(p, n, mid + 1, to)) = b
    PROVE  Cardinality(DefinersIn(p, n, from, to)) = a + b
<1> DEFINE A == DefinersIn(p, n, from, mid)
           B == DefinersIn(p, n, mid + 1, to)
<1>1. DefinersIn(p, n, from, to) = A \cup B
  BY DefinersOfBoth
<1>2. A \cap B = {}
  BY DEF DefinersIn
<1>3. mid + 1 \in Nat
  OBVIOUS
<1>4. IsFiniteSet(A)
  BY DefinersFacts
<1>5. IsFiniteSet(B)
  BY <1>3, DefinersFacts
<1>6. Cardinality(A) = a /\ Cardinality(B) = b
  OBVIOUS
<1> HIDE DEF A, B
<1>7. Cardinality(A \cup B) = Cardinality(A) + Cardinality(B) - Cardinality(A \cap B)
  BY <1>4, <1>5, FS_Union
<1>8. Cardinality(A \cap B) = 0
  BY <1>2, FS_EmptySet
<1>9. Cardinality(A \cup B) = a + b
  BY <1>6, <1>7, <1>8
<1>10. QED
  BY <1>1, <1>9

\* Versions increase with the statements.
LEMMA VersionsRise ==
    ASSUME NEW p, NEW v, NEW n \in Names, NEW from \in Nat, NEW to \in Nat,
           VersionOf(p, v, from, to)
    PROVE  /\ \A t, u \in DefinersIn(p, n, from, to) : t < u => v[t] < v[u]
           /\ \A t \in DefinersIn(p, n, from, to) : v[t] \in Nat
<1> DEFINE D == DefinersIn(p, n, from, to)
<1>1. ASSUME NEW t \in D
      PROVE  v[t] \in Nat /\ v[t] < Cardinality(D)
  BY FewerBefore DEF VersionOf
<1>2. ASSUME NEW t \in D, NEW u \in D, t < u
      PROVE  v[t] < v[u]
  <2>0. t \in Nat /\ u \in Nat /\ from <= t /\ p[t].defines = {n}
    <3>1. D \subseteq Nat /\ \A x \in D : from <= x
      BY DefinersFacts
    <3>2. \A x \in D : p[x].defines = {n}
      BY DEF DefinersIn
    <3> HIDE DEF D
    <3>3. QED
      BY <3>1, <3>2
  <2>1. t <= u - 1 /\ u - 1 \in Nat
    BY <1>2, <2>0
  <2>2. t \in DefinersIn(p, n, from, u - 1)
    BY <2>0, <2>1 DEF DefinersIn
  <2>3. Cardinality(DefinersIn(p, n, from, t - 1)) < Cardinality(DefinersIn(p, n, from, u - 1))
    BY <2>1, <2>2, FewerBefore
  <2>4. QED
    BY <2>3 DEF VersionOf
<1>3. QED
  BY <1>1, <1>2

\* They are given out from 0 and without a gap.
LEMMA VersionsFill ==
    ASSUME NEW p, NEW v, NEW n \in Names, NEW from \in Nat, NEW to \in Nat,
           VersionOf(p, v, from, to),
           NEW c \in Nat, Cardinality(DefinersIn(p, n, from, to)) = c
    PROVE  /\ \A t \in DefinersIn(p, n, from, to) : v[t] \in 0..(c - 1)
           /\ \A k \in 0..(c - 1) : \E t \in DefinersIn(p, n, from, to) : v[t] = k
<1> DEFINE D == DefinersIn(p, n, from, to)
           T == 0..(c - 1)
           f == [t \in D |-> v[t]]
<1>1. \A t \in D : v[t] \in T
  <2> SUFFICES ASSUME NEW t \in D PROVE v[t] \in T
    OBVIOUS
  <2>1. v[t] = Cardinality(DefinersIn(p, n, from, t - 1))
    BY DEF VersionOf
  <2>2. Cardinality(DefinersIn(p, n, from, t - 1)) < c /\ Cardinality(DefinersIn(p, n, from, t - 1)) \in Nat
    BY FewerBefore
  <2>3. QED
    BY <2>1, <2>2
<1>2. /\ \A t, u \in D : t < u => v[t] < v[u]
      /\ \A t \in D : v[t] \in Nat
  BY VersionsRise
<1>3. D \subseteq Nat /\ Cardinality(D) = c
  BY DefinersFacts
<1>4. IsFiniteSet(T) /\ Cardinality(T) = c
  <2>1. IsFiniteSet(0..(c - 1)) /\ Cardinality(0..(c - 1)) = IF 0 > c - 1 THEN 0 ELSE (c - 1) - 0 + 1
    BY FS_Interval
  <2>2. QED
    BY <2>1
<1>5. f \in Injection(D, T)
  <2>1. f \in [D -> T]
    BY <1>1
  <2>2. \A t, u \in D : t # u => f[t] # f[u]
    BY <1>2, <1>3
  <2> HIDE DEF D, T, f
  <2>3. QED
    BY <2>1, <2>2 DEF Injection, IsInjective
<1>6. f \in Surjection(D, T)
  <2> HIDE DEF D, T, f
  <2>1. QED
    BY <1>3, <1>4, <1>5, FS_Injection
<1>7. \A k \in T : \E t \in D : v[t] = k
  <2>1. \A k \in T : \E t \in D : f[t] = k
    <3> HIDE DEF D, T, f
    <3>1. QED
      BY <1>6 DEF Surjection
  <2>2. QED
    BY <2>1
<1>8. QED
  BY <1>1, <1>7

\* So the greatest one is less by one than their number.
LEMMA GreatestVersion ==
    ASSUME NEW p, NEW n \in Names, NEW from \in Nat, NEW to \in Nat,
           VersionOf(p, version, from, to),
           NEW c \in Nat, Cardinality(DefinersIn(p, n, from, to)) = c, c # 0,
           NEW S, \A x \in S : \E t \in DefinersIn(p, n, from, to) : x = version[t],
           \A t \in DefinersIn(p, n, from, to) : version[t] \in S
    PROVE  Max(S) = c - 1
<1> DEFINE D == DefinersIn(p, n, from, to)
<1>1. /\ \A t \in D : version[t] \in 0..(c - 1)
      /\ \A k \in 0..(c - 1) : \E t \in D : version[t] = k
  BY VersionsFill
<1>2. (\A x \in S : \E t \in D : x = version[t]) /\ (\A t \in D : version[t] \in S)
  OBVIOUS
<1> HIDE DEF D
<1>3. \A x \in S : x \in Nat /\ x <= c - 1
  BY <1>1, <1>2
<1>4. c - 1 \in 0..(c - 1)
  OBVIOUS
<1>5. c - 1 \in S
  BY <1>1, <1>2, <1>4
<1>6. QED
  BY <1>3, <1>4, <1>5, GreatestIs

\* The last definition of two stretches is the last one of the later stretch that has any.
LEMMA LastOfBoth ==
    ASSUME NEW p, NEW n, NEW from \in Nat, NEW mid \in Nat, NEW to \in Nat, from <= mid + 1, mid <= to
    PROVE  /\ DefinersIn(p, n, mid + 1, to) = {} => DefinersIn(p, n, from, to) = DefinersIn(p, n, from, mid)
           /\ DefinersIn(p, n, mid + 1, to) # {} =>
                /\ DefinersIn(p, n, from, to) # {}
                /\ Max(DefinersIn(p, n, from, to)) = Max(DefinersIn(p, n, mid + 1, to))
<1> DEFINE A == DefinersIn(p, n, from, mid)
           B == DefinersIn(p, n, mid + 1, to)
<1>1. DefinersIn(p, n, from, to) = A \cup B
  BY DefinersOfBoth
<1>2. A \subseteq Nat /\ \A t \in A : t <= mid
  BY DefinersFacts
<1>3. mid + 1 \in Nat
  OBVIOUS
<1>4. B \subseteq Nat /\ \A t \in B : mid + 1 <= t /\ t <= to
  BY <1>3, DefinersFacts
<1> HIDE DEF A, B
<1>5. ASSUME B # {} PROVE Max(A \cup B) = Max(B)
  <2>1. Max(B) \in B /\ \A t \in B : t <= Max(B)
    BY <1>4, <1>5, GreatestOf
  <2>2. \A t \in A \cup B : t <= Max(B)
    <3>1. Max(B) \in Nat /\ mid + 1 <= Max(B)
      BY <1>4, <2>1
    <3>2. \A t \in A : t <= Max(B)
      BY <1>2, <3>1
    <3>3. QED
      BY <2>1, <3>2
  <2>3. A \cup B \in SUBSET Nat /\ Max(B) \in A \cup B
    BY <1>2, <1>4, <2>1
  <2>4. QED
    BY <2>2, <2>3, GreatestIs
<1>6. QED
  BY <1>1, <1>5 DEF A, B

-------------------------------------------------------------------------------
(* The nodes of a graph. *)

LEMMA Kinds ==
    /\ \A s : Variable(s).kind = "variable" /\ Variable(s).at = s
    /\ \A s : Return(s).kind = "return" /\ Return(s).at = s
    /\ \A p, s : EndIn(p, s).kind \in {"variable", "return"} /\ EndIn(p, s).at = s
    /\ \A p, s, n : p[s].defines = {n} => EndIn(p, s) = Variable(s)
    /\ \A x, y : SameContent(x, y) => x.kind = y.kind /\ x.kind \in {"reference", "source"}
BY DEF Variable, Return, EndIn, SameContent

\* The variables of a name are those its definitions made.
LEMMA VariablesAre ==
    ASSUME NEW p, NEW g, NEW n, NEW from \in Nat, NEW to \in Nat, NodesOf(p, g, from, to)
    PROVE  VariablesOf(g, n, p) = {Variable(t) : t \in DefinersIn(p, n, from, to)}
<1>1. ASSUME NEW v \in VariablesOf(g, n, p)
      PROVE  \E t \in DefinersIn(p, n, from, to) : v = Variable(t)
  <2>1. v \in g.nodes /\ v.kind = "variable" /\ p[v.at].defines = {n}
    BY DEF VariablesOf, OfKind
  <2>2. PICK s \in from..to : v = Variable(s)
    BY <2>1 DEF NodesOf
  <2>3. v.at = s
    BY <2>2, Kinds
  <2>4. QED
    BY <2>1, <2>2, <2>3 DEF DefinersIn
<1>2. ASSUME NEW t \in DefinersIn(p, n, from, to)
      PROVE  Variable(t) \in VariablesOf(g, n, p)
  <2>1. t \in from..to /\ p[t].defines = {n}
    BY DEF DefinersIn
  <2>2. EndIn(p, t) = Variable(t)
    BY <2>1 DEF EndIn
  <2>3. Variable(t) \in g.nodes
    BY <2>1, <2>2 DEF NodesOf
  <2>4. QED
    BY <2>1, <2>3, Kinds DEF VariablesOf, OfKind
<1>3. QED
  BY <1>1, <1>2

\* The variable with the greatest version is the one of the last definition.
LEMMA NewestIs ==
    ASSUME NEW p, NEW g, NEW n \in Names, NEW from \in Nat, NEW to \in Nat,
           NodesOf(p, g, from, to), VersionOf(p, version, from, to),
           DefinersIn(p, n, from, to) # {}
    PROVE  Newest(g, n, p) = Variable(Max(DefinersIn(p, n, from, to)))
<1> DEFINE D == DefinersIn(p, n, from, to)
           V == VariablesOf(g, n, p)
<1>1. V = {Variable(t) : t \in D}
  BY VariablesAre
<1>2. D \subseteq Nat /\ \A t \in D : t <= to
  BY DefinersFacts
<1>3. /\ \A t, u \in D : t < u => version[t] < version[u]
      /\ \A t \in D : version[t] \in Nat
  BY VersionsRise
<1>4. D # {}
  OBVIOUS
<1> HIDE DEF D
<1>5. PICK m \in Nat : m = Max(D) /\ m \in D /\ \A t \in D : t <= m
  BY <1>2, <1>4, GreatestOf
<1>6. \A t \in D : version[t] <= version[m]
  <2>1. \A t \in D : t \in Nat /\ (t < m \/ t = m)
    BY <1>2, <1>5
  <2>2. QED
    BY <1>3, <1>5, <2>1
<1>7. Variable(m) \in V /\ \A w \in V : version[w.at] <= version[Variable(m).at]
  BY <1>1, <1>5, <1>6, Kinds
<1>8. ASSUME NEW v \in V, \A w \in V : version[w.at] <= version[v.at]
      PROVE  v = Variable(m)
  <2>1. PICK t \in D : v = Variable(t) /\ v.at = t
    BY <1>1, Kinds
  <2>2. version[m] <= version[t]
    BY <1>7, <1>8, <2>1, Kinds
  <2>3. ~(t < m)
    BY <1>3, <1>5, <2>2
  <2>4. t = m
    BY <1>2, <1>5, <2>3
  <2>5. QED
    BY <2>1, <2>4
<1>9. Newest(g, n, p) = Variable(m)
  <2> HIDE DEF V
  <2>1. \E v \in V : \A w \in V : version[w.at] <= version[v.at]
    BY <1>7
  <2>2. /\ Newest(g, n, p) \in V
        /\ \A w \in V : version[w.at] <= version[Newest(g, n, p).at]
    BY <2>1 DEF Newest, V
  <2>3. QED
    BY <1>8, <2>2
<1>10. QED
  BY <1>5, <1>9 DEF D

-------------------------------------------------------------------------------
(* What merging does to a node. *)

\* A node that is merged is one of the graph, or itself if the graph has no copy of it.
LEMMA PlacedIsThere ==
    ASSUME NEW p, NEW g, NEW x, NEW from \in Nat, NEW to \in Nat,
           NodesOf(p, g, from, to), VersionOf(p, version, from, to),
           x.kind = "reference" => x.name \in Names
    PROVE  \/ Placed(g, x, p) \in g.nodes
           \/ Placed(g, x, p) = x /\ ~\E y \in g.nodes : SameContent(x, y)
<1>1. CASE x.kind = "reference" /\ VariablesOf(g, x.name, p) # {}
  <2>1. DefinersIn(p, x.name, from, to) # {}
    BY <1>1, VariablesAre
  <2>2. Newest(g, x.name, p) = Variable(Max(DefinersIn(p, x.name, from, to)))
    BY <1>1, <2>1, NewestIs
  <2>3. Max(DefinersIn(p, x.name, from, to)) \in DefinersIn(p, x.name, from, to)
    BY <2>1, DefinersFacts, GreatestOf
  <2>4. Newest(g, x.name, p) \in VariablesOf(g, x.name, p)
    BY <2>2, <2>3, VariablesAre
  <2>5. QED
    BY <1>1, <2>4 DEF Placed, VariablesOf, OfKind
<1>2. CASE ~(x.kind = "reference" /\ VariablesOf(g, x.name, p) # {})
  <2>1. CASE x.kind \in {"reference", "source"}
    <3>1. Placed(g, x, p) = Singleton(g, x)
      BY <1>2, <2>1 DEF Placed
    <3>2. QED
      BY <3>1 DEF Singleton
  <2>2. CASE x.kind \notin {"reference", "source"}
    <3>1. Placed(g, x, p) = x
      BY <1>2, <2>2 DEF Placed
    <3>2. QED
      BY <2>2, <3>1 DEF SameContent
  <2>3. QED
    BY <2>1, <2>2
<1>3. QED
  BY <1>1, <1>2

\* What merging makes of a node that is no reference.
LEMMA PlacedIs ==
    ASSUME NEW p, NEW g, NEW x
    PROVE  /\ x.kind \in {"variable", "return"} => Placed(g, x, p) = x
           /\ x.kind = "source" =>
                Placed(g, x, p).kind = "source" /\ Placed(g, x, p).uri = x.uri
<1>1. ASSUME x.kind \in {"variable", "return"} PROVE Placed(g, x, p) = x
  BY <1>1 DEF Placed
<1>2. Singleton(g, x) = x \/ SameContent(x, Singleton(g, x))
  BY DEF Singleton
<1>3. ASSUME x.kind = "source"
      PROVE  Placed(g, x, p).kind = "source" /\ Placed(g, x, p).uri = x.uri
  BY <1>2, <1>3 DEF Placed, SameContent
<1>4. QED
  BY <1>1, <1>3

\* What it makes of a reference to a name the graph does or does not define.
LEMMA PlacedReference ==
    ASSUME NEW p, NEW g, NEW x, NEW n \in Names, NEW from \in Nat, NEW to \in Nat,
           NodesOf(p, g, from, to), VersionOf(p, version, from, to),
           x.kind = "reference", x.name = n
    PROVE  IF DefinersIn(p, n, from, to) = {}
           THEN Placed(g, x, p).kind = "reference" /\ Placed(g, x, p).name = n
           ELSE Placed(g, x, p) = Variable(Max(DefinersIn(p, n, from, to)))
<1>1. CASE DefinersIn(p, n, from, to) = {}
  <2>1. VariablesOf(g, n, p) = {}
    BY <1>1, VariablesAre
  <2>2. Singleton(g, x) = x \/ SameContent(x, Singleton(g, x))
    BY DEF Singleton
  <2>3. QED
    BY <1>1, <2>1, <2>2 DEF Placed, SameContent
<1>2. CASE DefinersIn(p, n, from, to) # {}
  <2>1. VariablesOf(g, n, p) # {}
    BY <1>2, VariablesAre
  <2>2. Newest(g, n, p) = Variable(Max(DefinersIn(p, n, from, to)))
    BY <1>2, NewestIs
  <2>3. QED
    BY <1>2, <2>1, <2>2 DEF Placed
<1>3. QED
  BY <1>1, <1>2

\* A statement of the merged graph reads what it must when it read what it must before.
LEMMA PlacedReads ==
    ASSUME NEW p, NEW g, NEW x, NEW n \in Names, NEW from \in Nat, NEW mid \in Nat, NEW s \in Nat,
           from <= mid + 1, mid + 1 <= s,
           NodesOf(p, g, from, mid), VersionOf(p, version, from, mid),
           ReadsIn(p, x, n, mid + 1, s)
    PROVE  ReadsIn(p, Placed(g, x, p), n, from, s)
<1>1. s - 1 \in Nat /\ mid <= s - 1
  OBVIOUS
<1>2. /\ DefinersIn(p, n, mid + 1, s - 1) = {} => DefinersIn(p, n, from, s - 1) = DefinersIn(p, n, from, mid)
      /\ DefinersIn(p, n, mid + 1, s - 1) # {} =>
            /\ DefinersIn(p, n, from, s - 1) # {}
            /\ Max(DefinersIn(p, n, from, s - 1)) = Max(DefinersIn(p, n, mid + 1, s - 1))
  BY <1>1, LastOfBoth
<1>3. CASE DefinersIn(p, n, mid + 1, s - 1) = {}
  <2>1. x.kind = "reference" /\ x.name = n
    BY <1>3 DEF ReadsIn
  <2>2. IF DefinersIn(p, n, from, mid) = {}
        THEN Placed(g, x, p).kind = "reference" /\ Placed(g, x, p).name = n
        ELSE Placed(g, x, p) = Variable(Max(DefinersIn(p, n, from, mid)))
    BY <2>1, PlacedReference
  <2>3. QED
    BY <1>2, <1>3, <2>2 DEF ReadsIn
<1>4. CASE DefinersIn(p, n, mid + 1, s - 1) # {}
  <2>1. x = Variable(Max(DefinersIn(p, n, mid + 1, s - 1)))
    BY <1>4 DEF ReadsIn
  <2>2. x.kind = "variable"
    BY <2>1, Kinds
  <2>3. Placed(g, x, p) = x
    BY <2>2 DEF Placed
  <2>4. QED
    BY <1>2, <1>4, <2>1, <2>3 DEF ReadsIn
<1>5. QED
  BY <1>3, <1>4

-------------------------------------------------------------------------------
(* Merging the graph h of the statements mid+1..to into the graph g of from..mid. *)

MergePremise(p, g, h, from, mid, to) ==
    /\ p \in Seq(Statements)
    /\ from \in Nat /\ mid \in Nat /\ to \in Nat
    /\ 1 <= from /\ from <= mid + 1 /\ mid <= to /\ to <= Len(p) /\ to <= MaxStatements
    /\ version \in [1..MaxStatements -> Nat]
    /\ GraphInv(p, version, g, from, mid)
    /\ GraphInv(p, version, h, mid + 1, to)

LEMMA EndPlaced ==
    ASSUME NEW p, NEW g, NEW s
    PROVE  Placed(g, EndIn(p, s), p) = EndIn(p, s)
<1>1. EndIn(p, s).kind \notin {"reference", "source"}
  BY Kinds
<1>2. QED
  BY <1>1 DEF Placed

\* A node of the merged graph is one of g, or one of h that g has no copy of.
LEMMA MergedFrom ==
    ASSUME NEW p, NEW g, NEW h, NEW from \in Nat, NEW mid \in Nat, NEW to \in Nat,
           MergePremise(p, g, h, from, mid, to),
           NEW x \in Merged(g, h, p).nodes
    PROVE  \/ x \in g.nodes
           \/ x \in h.nodes /\ ~\E y \in g.nodes : SameContent(x, y)
<1>1. CASE x \in g.nodes
  BY <1>1
<1>2. CASE \E z \in h.nodes : x = Placed(g, z, p)
  <2>1. PICK z \in h.nodes : x = Placed(g, z, p)
    BY <1>2
  <2>2. z.kind = "reference" => z.name \in Names
    BY DEF MergePremise, GraphInv, NodesOf
  <2>3. NodesOf(p, g, from, mid) /\ VersionOf(p, version, from, mid) /\ from \in Nat /\ mid \in Nat
    BY DEF MergePremise, GraphInv
  <2>4. \/ Placed(g, z, p) \in g.nodes
        \/ Placed(g, z, p) = z /\ ~\E y \in g.nodes : SameContent(z, y)
    BY <2>2, <2>3, PlacedIsThere
  <2>5. QED
    BY <2>1, <2>4
<1>3. QED
  BY <1>1, <1>2 DEF Merged

LEMMA MergedNodes ==
    ASSUME NEW p, NEW g, NEW h, NEW from \in Nat, NEW mid \in Nat, NEW to \in Nat,
           MergePremise(p, g, h, from, mid, to)
    PROVE  NodesOf(p, Merged(g, h, p), from, to)
<1> DEFINE m == Merged(g, h, p)
<1>1. /\ from \in Nat /\ mid \in Nat /\ to \in Nat /\ from <= mid + 1 /\ mid <= to
      /\ NodesOf(p, g, from, mid) /\ NodesOf(p, h, mid + 1, to)
  BY DEF MergePremise, GraphInv
<1>2. \A s : s \in from..to <=> s \in from..mid \/ s \in (mid + 1)..to
  BY <1>1
<1>3. /\ m.nodes = g.nodes \cup {Placed(g, x, p) : x \in h.nodes}
      /\ m.edges = g.edges \cup {<<Placed(g, e[1], p), Placed(g, e[2], p)>> : e \in h.edges}
  BY DEF Merged
<1>4. \A x \in m.nodes :
        \/ x \in g.nodes
        \/ x \in h.nodes /\ ~\E y \in g.nodes : SameContent(x, y)
  BY MergedFrom
<1> HIDE DEF m
<1>5. ASSUME NEW x \in m.nodes
      PROVE  /\ x.at \in 1..Len(p)
             /\ x.kind = "reference" => x.name \in Names
             /\ x.kind = "variable" => \E s \in from..to : x = Variable(s) /\ p[s].defines # {}
             /\ x.kind = "return" => \E s \in from..to : x = Return(s) /\ p[s].defines = {}
  <2>1. CASE x \in g.nodes
    BY <1>1, <1>2, <2>1 DEF NodesOf
  <2>2. CASE x \in h.nodes
    BY <1>1, <1>2, <2>2 DEF NodesOf
  <2>3. QED
    BY <1>4, <2>1, <2>2
<1>6. ASSUME NEW s \in from..to
      PROVE  EndIn(p, s) \in m.nodes
  <2>1. CASE s \in from..mid
    BY <1>1, <1>3, <2>1 DEF NodesOf
  <2>2. CASE s \in (mid + 1)..to
    <3>1. EndIn(p, s) \in h.nodes
      BY <1>1, <2>2 DEF NodesOf
    <3>2. QED
      BY <1>3, <3>1, EndPlaced
  <2>3. QED
    BY <1>2, <2>1, <2>2
<1>7. ASSUME NEW e \in m.edges
      PROVE  e \in m.nodes \X m.nodes /\ \E s \in from..to : e[2] = EndIn(p, s)
  <2>1. CASE e \in g.edges
    <3>1. e \in g.nodes \X g.nodes /\ \E s \in from..mid : e[2] = EndIn(p, s)
      BY <1>1, <2>1 DEF NodesOf
    <3>2. QED
      BY <1>2, <1>3, <3>1
  <2>2. CASE \E f \in h.edges : e = <<Placed(g, f[1], p), Placed(g, f[2], p)>>
    <3>1. PICK f \in h.edges : e = <<Placed(g, f[1], p), Placed(g, f[2], p)>>
      BY <2>2
    <3>2. f \in h.nodes \X h.nodes
      BY <1>1 DEF NodesOf
    <3>3. PICK s \in (mid + 1)..to : f[2] = EndIn(p, s)
      BY <1>1 DEF NodesOf
    <3>4. e[2] = EndIn(p, s)
      BY <3>1, <3>3, EndPlaced
    <3>5. Placed(g, f[1], p) \in m.nodes /\ Placed(g, f[2], p) \in m.nodes
      BY <1>3, <3>2
    <3>6. QED
      BY <1>2, <3>1, <3>4, <3>5
  <2>3. QED
    BY <1>3, <2>1, <2>2
<1>8. OneCopy(m)
  <2> SUFFICES ASSUME NEW x \in m.nodes, NEW y \in m.nodes, SameContent(x, y)
               PROVE  x = y
    BY DEF OneCopy
  <2>1. SameContent(y, x)
    BY DEF SameContent
  <2>2. CASE x \in g.nodes
    <3>1. y \in g.nodes
      BY <1>4, <2>1, <2>2
    <3>2. QED
      BY <1>1, <2>2, <3>1 DEF NodesOf, OneCopy
  <2>3. CASE y \in g.nodes
    <3>1. x \in g.nodes
      BY <1>4, <2>3
    <3>2. QED
      BY <1>1, <2>3, <3>1 DEF NodesOf, OneCopy
  <2>4. CASE x \in h.nodes /\ y \in h.nodes
    BY <1>1, <2>4 DEF NodesOf, OneCopy
  <2>5. QED
    BY <1>4, <2>2, <2>3, <2>4
<1>9. NodesOf(p, m, from, to)
  BY <1>5, <1>6, <1>7, <1>8 DEF NodesOf
<1>10. QED
  BY <1>9 DEF m

\* What a statement of the merged graph reads.
LEMMA MergedReads ==
    ASSUME NEW p, NEW g, NEW h, NEW from \in Nat, NEW mid \in Nat, NEW to \in Nat,
           MergePremise(p, g, h, from, mid, to),
           NEW s \in from..to
    PROVE  /\ s \in from..mid => Preds(Merged(g, h, p), EndIn(p, s)) = Preds(g, EndIn(p, s))
           /\ s \in (mid + 1)..to => Preds(Merged(g, h, p), EndIn(p, s))
                                       = {Placed(g, x, p) : x \in Preds(h, EndIn(p, s))}
<1> DEFINE m == Merged(g, h, p)
           end == EndIn(p, s)
<1>1. /\ from \in Nat /\ mid \in Nat /\ to \in Nat
      /\ NodesOf(p, g, from, mid) /\ NodesOf(p, h, mid + 1, to)
  BY DEF MergePremise, GraphInv
<1>2. /\ \A e \in g.edges : \E t \in from..mid : e[2] = EndIn(p, t)
      /\ \A e \in h.edges : \E t \in (mid + 1)..to : e[2] = EndIn(p, t)
  BY <1>1 DEF NodesOf
<1>3. m.edges = g.edges \cup {<<Placed(g, e[1], p), Placed(g, e[2], p)>> : e \in h.edges}
  BY DEF Merged
<1>4. \A t : EndIn(p, t) = end => t = s
  BY Kinds
<1>5. \A e \in h.edges : Placed(g, e[2], p) = e[2]
  BY <1>2, EndPlaced
<1> HIDE DEF m, end
<1>6. ASSUME s \in from..mid
      PROVE  Preds(m, end) = Preds(g, end)
  <2>1. \A e \in h.edges : e[2] # end
    <3>1. s \notin (mid + 1)..to
      BY <1>1, <1>6
    <3>2. QED
      BY <1>2, <1>4, <3>1
  <2>2. {e \in m.edges : e[2] = end} = {e \in g.edges : e[2] = end}
    BY <1>3, <1>5, <2>1
  <2>3. QED
    BY <2>2 DEF Preds
<1>7. ASSUME s \in (mid + 1)..to
      PROVE  Preds(m, end) = {Placed(g, x, p) : x \in Preds(h, end)}
  <2>1. \A e \in g.edges : e[2] # end
    <3>1. s \notin from..mid
      BY <1>1, <1>7
    <3>2. QED
      BY <1>2, <1>4, <3>1
  <2>2. ASSUME NEW y \in Preds(m, end)
        PROVE  \E x \in Preds(h, end) : y = Placed(g, x, p)
    <3>1. PICK e \in m.edges : e[2] = end /\ y = e[1]
      BY DEF Preds
    <3>2. PICK f \in h.edges : e = <<Placed(g, f[1], p), Placed(g, f[2], p)>>
      BY <1>3, <2>1, <3>1
    <3>3. f[2] = end /\ y = Placed(g, f[1], p)
      BY <1>5, <3>1, <3>2
    <3>4. f[1] \in Preds(h, end)
      BY <3>3 DEF Preds
    <3>5. QED
      BY <3>3, <3>4
  <2>3. ASSUME NEW x \in Preds(h, end)
        PROVE  Placed(g, x, p) \in Preds(m, end)
    <3>1. PICK f \in h.edges : f[2] = end /\ x = f[1]
      BY DEF Preds
    <3>2. <<Placed(g, f[1], p), Placed(g, f[2], p)>> \in m.edges
      BY <1>3
    <3>3. <<Placed(g, x, p), end>> \in m.edges
      BY <1>5, <3>1, <3>2
    <3>4. QED
      BY <3>3 DEF Preds
  <2>4. QED
    BY <2>2, <2>3
<1>8. QED
  BY <1>6, <1>7 DEF m, end

LEMMA MergedReadOf ==
    ASSUME NEW p, NEW g, NEW h, NEW from \in Nat, NEW mid \in Nat, NEW to \in Nat,
           MergePremise(p, g, h, from, mid, to)
    PROVE  ReadOf(p, Merged(g, h, p), from, to)
<1>1. /\ from \in Nat /\ mid \in Nat /\ to \in Nat /\ from <= mid + 1 /\ mid <= to /\ to <= Len(p)
      /\ 1 <= from /\ p \in Seq(Statements)
      /\ NodesOf(p, g, from, mid) /\ VersionOf(p, version, from, mid)
      /\ ReadOf(p, g, from, mid) /\ ReadOf(p, h, mid + 1, to)
  BY DEF MergePremise, GraphInv
<1> SUFFICES ASSUME NEW s \in from..to
             PROVE  LET read == Preds(Merged(g, h, p), EndIn(p, s))
                    IN  /\ \A n \in p[s].uses : \E x \in read : ReadsIn(p, x, n, from, s)
                        /\ \A d \in p[s].source : \E x \in read : x.kind = "source" /\ x.uri = d
                        /\ \A x \in read :
                            \/ \E n \in p[s].uses : ReadsIn(p, x, n, from, s)
                            \/ \E d \in p[s].source : x.kind = "source" /\ x.uri = d
  BY DEF ReadOf
<1> DEFINE read == Preds(Merged(g, h, p), EndIn(p, s))
<1>2. s \in Nat /\ s \in 1..Len(p) /\ (s \in from..mid \/ s \in (mid + 1)..to)
  BY <1>1
<1>3. p[s].uses \subseteq Names
  BY <1>1, <1>2 DEF Statements
<1>4. CASE s \in from..mid
  <2>1. read = Preds(g, EndIn(p, s))
    BY <1>4, MergedReads
  <2>2. QED
    BY <1>1, <1>4, <2>1 DEF ReadOf
<1>5. CASE s \in (mid + 1)..to
  <2>1. read = {Placed(g, x, p) : x \in Preds(h, EndIn(p, s))}
    BY <1>5, MergedReads
  <2>2. mid + 1 <= s
    BY <1>1, <1>5
  <2>3. \A x : \A n \in p[s].uses :
            ReadsIn(p, x, n, mid + 1, s) => ReadsIn(p, Placed(g, x, p), n, from, s)
    BY <1>1, <1>2, <1>3, <2>2, PlacedReads
  <2>4. \A x, d : x.kind = "source" /\ x.uri = d =>
                    Placed(g, x, p).kind = "source" /\ Placed(g, x, p).uri = d
    BY PlacedIs
  <2> DEFINE before == Preds(h, EndIn(p, s))
  <2>5. /\ \A n \in p[s].uses : \E x \in before : ReadsIn(p, x, n, mid + 1, s)
        /\ \A d \in p[s].source : \E x \in before : x.kind = "source" /\ x.uri = d
        /\ \A x \in before :
            \/ \E n \in p[s].uses : ReadsIn(p, x, n, mid + 1, s)
            \/ \E d \in p[s].source : x.kind = "source" /\ x.uri = d
    BY <1>1, <1>5 DEF ReadOf
  <2> HIDE DEF read, before
  <2>6. read = {Placed(g, x, p) : x \in before}
    BY <2>1 DEF before
  <2>7. \A n \in p[s].uses : \E x \in read : ReadsIn(p, x, n, from, s)
    BY <2>3, <2>5, <2>6
  <2>8. \A d \in p[s].source : \E x \in read : x.kind = "source" /\ x.uri = d
    BY <2>4, <2>5, <2>6
  <2>9. ASSUME NEW x \in read
        PROVE  \/ \E n \in p[s].uses : ReadsIn(p, x, n, from, s)
               \/ \E d \in p[s].source : x.kind = "source" /\ x.uri = d
    <3>1. PICK y \in before : x = Placed(g, y, p)
      BY <2>6
    <3>2. QED
      BY <2>3, <2>4, <2>5, <3>1
  <2>10. QED
    BY <2>7, <2>8, <2>9 DEF read
<1>6. QED
  BY <1>2, <1>4, <1>5

-------------------------------------------------------------------------------
(* The versions after merging h into g. *)

\* Of a statement that is no variable of h, the version stays.
LEMMA VersionStays ==
    ASSUME NEW p, NEW g, NEW h, NEW s \in 1..MaxStatements,
           version \in [1..MaxStatements -> Nat], Variable(s) \notin h.nodes
    PROVE  ShiftedVersions(g, h, p)[s] = version[s]
BY DEF ShiftedVersions

\* The definitions in h are counted on from those in g.
LEMMA VersionShifts ==
    ASSUME NEW p, NEW g, NEW h, NEW from \in Nat, NEW mid \in Nat, NEW to \in Nat,
           MergePremise(p, g, h, from, mid, to),
           NEW n \in Names, NEW s \in DefinersIn(p, n, mid + 1, to)
    PROVE  ShiftedVersions(g, h, p)[s] = version[s] + Cardinality(DefinersIn(p, n, from, mid))
<1> DEFINE A == DefinersIn(p, n, from, mid)
<1>1. /\ from \in Nat /\ mid \in Nat /\ to \in Nat /\ to <= MaxStatements
      /\ version \in [1..MaxStatements -> Nat]
      /\ NodesOf(p, g, from, mid) /\ NodesOf(p, h, mid + 1, to)
      /\ VersionOf(p, version, from, mid)
  BY DEF MergePremise, GraphInv
<1>2. s \in (mid + 1)..to /\ p[s].defines = {n}
  BY DEF DefinersIn
<1>3. s \in DOMAIN version /\ version[s] \in Nat /\ MaxStatements \in Nat
  BY <1>1, <1>2, HuntAssumption
<1>4. Variable(s) \in h.nodes
  <2>1. EndIn(p, s) = Variable(s)
    BY <1>2 DEF EndIn
  <2>2. QED
    BY <1>1, <1>2, <2>1 DEF NodesOf
<1>5. VariablesOf(g, n, p) = {Variable(t) : t \in A}
  BY <1>1, VariablesAre
<1>6. {w \in OfKind(g, "variable") : p[w.at].defines = p[s].defines} = VariablesOf(g, n, p)
  BY <1>2 DEF VariablesOf
<1>7. (\E k \in p[s].defines : VariablesOf(g, k, p) # {}) <=> A # {}
  BY <1>2, <1>5
<1>8. IsFiniteSet(A) /\ Cardinality(A) \in Nat
  BY <1>1, DefinersFacts
<1>9. CASE A = {}
  <2>1. Cardinality(A) = 0
    BY <1>9, FS_EmptySet
  <2>2. ShiftedVersions(g, h, p)[s] = version[s]
    BY <1>3, <1>7, <1>9 DEF ShiftedVersions
  <2>3. QED
    BY <1>3, <2>1, <2>2
<1>10. CASE A # {}
  <2>1. PICK c \in Nat : Cardinality(A) = c /\ c # 0
    BY <1>8, <1>10, FS_EmptySet
  <2> DEFINE S == {version[w.at] : w \in VariablesOf(g, n, p)}
  <2>2. /\ \A x \in S : \E t \in A : x = version[t]
        /\ \A t \in A : version[t] \in S
    BY <1>5, Kinds
  <2>3. ShiftedVersions(g, h, p)[s] = version[s] + 1 + Max(S)
    BY <1>3, <1>4, <1>6, <1>7, <1>10 DEF ShiftedVersions
  <2> HIDE DEF S
  <2>4. Max(S) = c - 1
    BY <1>1, <2>1, <2>2, GreatestVersion
  <2>5. QED
    BY <1>3, <2>1, <2>3, <2>4
<1>11. QED
  BY <1>9, <1>10

LEMMA MergedVersions ==
    ASSUME NEW p, NEW g, NEW h, NEW from \in Nat, NEW mid \in Nat, NEW to \in Nat,
           MergePremise(p, g, h, from, mid, to)
    PROVE  /\ VersionOf(p, ShiftedVersions(g, h, p), from, to)
           /\ ShiftedVersions(g, h, p) \in [1..MaxStatements -> Nat]
           /\ \A s \in (to + 1)..MaxStatements : ShiftedVersions(g, h, p)[s] = version[s]
<1> DEFINE v == ShiftedVersions(g, h, p)
<1>1. /\ from \in Nat /\ mid \in Nat /\ to \in Nat /\ from <= mid + 1 /\ mid <= to /\ to <= Len(p)
      /\ 1 <= from /\ to <= MaxStatements /\ p \in Seq(Statements)
      /\ version \in [1..MaxStatements -> Nat]
      /\ NodesOf(p, h, mid + 1, to)
      /\ VersionOf(p, version, from, mid) /\ VersionOf(p, version, mid + 1, to)
  BY DEF MergePremise, GraphInv
<1>2. MaxStatements \in Nat /\ mid + 1 \in Nat
  BY <1>1, HuntAssumption
<1>3. \A s : Variable(s) \in h.nodes =>
                s \in (mid + 1)..to /\ \E n \in Names : s \in DefinersIn(p, n, mid + 1, to)
  <2> SUFFICES ASSUME NEW s, Variable(s) \in h.nodes
               PROVE  s \in (mid + 1)..to /\ \E n \in Names : s \in DefinersIn(p, n, mid + 1, to)
    OBVIOUS
  <2>1. PICK t \in (mid + 1)..to : Variable(s) = Variable(t) /\ p[t].defines # {}
    BY <1>1, Kinds DEF NodesOf
  <2>2. s = t
    BY <2>1, Kinds
  <2>3. p[s] \in Statements
    BY <1>1, <2>1, <2>2
  <2>4. p[s].defines \in SUBSET Names /\ Cardinality(p[s].defines) <= 1 /\ p[s].defines # {}
    BY <2>1, <2>2, <2>3 DEF Statements
  <2>5. PICK n \in Names : p[s].defines = {n}
    <3>1. IsFiniteSet(p[s].defines)
      BY <2>4, FS_Subset, HuntAssumption
    <3>2. PICK c \in Nat : c = Cardinality(p[s].defines)
      BY <3>1, FS_CardinalityType
    <3>3. c # 0 /\ c <= 1
      BY <2>4, <3>1, <3>2, FS_EmptySet
    <3>4. Cardinality(p[s].defines) = 1
      BY <3>2, <3>3
    <3>5. QED
      BY <2>4, <3>1, <3>4, FS_Singleton
  <2>6. QED
    BY <2>1, <2>2, <2>5 DEF DefinersIn
<1>4. \A s \in 1..MaxStatements : Variable(s) \notin h.nodes => v[s] = version[s]
  BY <1>1, VersionStays
<1>5. \A n \in Names : \A s \in DefinersIn(p, n, mid + 1, to) :
            v[s] = version[s] + Cardinality(DefinersIn(p, n, from, mid))
  BY VersionShifts
<1>6. DOMAIN v = 1..MaxStatements /\ v = [s \in DOMAIN v |-> v[s]]
  BY <1>1 DEF ShiftedVersions
<1> HIDE DEF v
<1>7. v \in [1..MaxStatements -> Nat]
  <2> SUFFICES ASSUME NEW s \in 1..MaxStatements PROVE v[s] \in Nat
    BY <1>6
  <2>1. CASE Variable(s) \notin h.nodes
    BY <1>1, <1>4, <2>1
  <2>2. CASE Variable(s) \in h.nodes
    <3>1. PICK n \in Names : s \in DefinersIn(p, n, mid + 1, to)
      BY <1>3, <2>2
    <3>2. Cardinality(DefinersIn(p, n, from, mid)) \in Nat
      BY <1>1, DefinersFacts
    <3>3. QED
      BY <1>1, <1>5, <3>1, <3>2
  <2>3. QED
    BY <2>1, <2>2
<1>8. \A s \in (to + 1)..MaxStatements : v[s] = version[s]
  BY <1>1, <1>2, <1>3, <1>4
<1>9. VersionOf(p, v, from, to)
  <2> SUFFICES ASSUME NEW n \in Names, NEW t \in DefinersIn(p, n, from, to)
               PROVE  v[t] = Cardinality(DefinersIn(p, n, from, t - 1))
    BY DEF VersionOf
  <2>1. t \in from..to /\ p[t].defines = {n} /\ t \in Nat
    BY <1>1 DEF DefinersIn
  <2>2. CASE t <= mid
    <3>1. t \in DefinersIn(p, n, from, mid) /\ t \notin (mid + 1)..to /\ t \in 1..MaxStatements
      BY <1>1, <1>2, <2>1, <2>2 DEF DefinersIn
    <3>2. v[t] = version[t]
      BY <1>3, <1>4, <3>1
    <3>3. QED
      BY <1>1, <3>1, <3>2 DEF VersionOf
  <2>3. CASE mid < t
    <3>1. t \in DefinersIn(p, n, mid + 1, to) /\ t - 1 \in Nat /\ mid <= t - 1
      BY <1>1, <2>1, <2>3 DEF DefinersIn
    <3>2. v[t] = version[t] + Cardinality(DefinersIn(p, n, from, mid))
      BY <1>5, <3>1
    <3>3. version[t] = Cardinality(DefinersIn(p, n, mid + 1, t - 1))
      BY <1>1, <3>1 DEF VersionOf
    <3>4. PICK u \in Nat : u = t - 1
      BY <3>1
    <3>5. PICK a \in Nat : Cardinality(DefinersIn(p, n, from, mid)) = a
      BY DefinersFacts
    <3>6. PICK b \in Nat : Cardinality(DefinersIn(p, n, mid + 1, u)) = b
      BY <1>2, DefinersFacts
    <3>7. from <= mid + 1 /\ mid <= u
      BY <1>1, <3>1, <3>4
    <3>8. Cardinality(DefinersIn(p, n, from, u)) = a + b
      BY <3>5, <3>6, <3>7, SizeOfBoth
    <3>9. QED
      BY <3>2, <3>3, <3>4, <3>5, <3>6, <3>8
  <2>4. QED
    BY <1>1, <2>1, <2>2, <2>3
<1>10. QED
  BY <1>7, <1>8, <1>9 DEF v

\* The merged graph is one of the statements of both.
LEMMA MergedGraph ==
    ASSUME NEW p, NEW g, NEW h, NEW from \in Nat, NEW mid \in Nat, NEW to \in Nat,
           MergePremise(p, g, h, from, mid, to)
    PROVE  GraphInv(p, ShiftedVersions(g, h, p), Merged(g, h, p), from, to)
BY MergedNodes, MergedVersions, MergedReadOf DEF GraphInv

-------------------------------------------------------------------------------
(* A program that grows, and the graph of one statement. *)

\* What a graph says of its statements stays true when others follow them.
LEMMA StillTheGraph ==
    ASSUME NEW p, NEW q, NEW v, NEW w, NEW g, NEW from \in Nat, NEW to \in Nat,
           p \in Seq(Statements), q \in Seq(Statements), Len(p) <= Len(q),
           1 <= from, to <= Len(p),
           \A s \in 1..Len(p) : q[s] = p[s],
           \A s \in from..to : w[s] = v[s],
           GraphInv(p, v, g, from, to)
    PROVE  GraphInv(q, w, g, from, to)
<1>1. NodesOf(p, g, from, to) /\ VersionOf(p, v, from, to) /\ ReadOf(p, g, from, to)
  BY DEF GraphInv
<1>2. PICK l \in Nat : l = Len(p)
  OBVIOUS
<1>3. \A s \in from..to : s \in Nat /\ s \in 1..Len(p) /\ q[s] = p[s] /\ EndIn(q, s) = EndIn(p, s)
  BY <1>2 DEF EndIn
<1>4. \A n : \A s \in Nat : s <= to => DefinersIn(q, n, from, s) = DefinersIn(p, n, from, s)
  <2> SUFFICES ASSUME NEW n, NEW s \in Nat, s <= to
               PROVE  DefinersIn(q, n, from, s) = DefinersIn(p, n, from, s)
    OBVIOUS
  <2>1. \A t \in from..s : q[t] = p[t]
    BY <1>3
  <2>2. QED
    BY <2>1 DEF DefinersIn
<1>5. \A n : \A s \in from..to : DefinersIn(q, n, from, s - 1) = DefinersIn(p, n, from, s - 1)
  <2> SUFFICES ASSUME NEW n, NEW s \in from..to
               PROVE  DefinersIn(q, n, from, s - 1) = DefinersIn(p, n, from, s - 1)
    OBVIOUS
  <2>1. s - 1 \in Nat /\ s - 1 <= to
    OBVIOUS
  <2>2. QED
    BY <1>4, <2>1
<1>6. NodesOf(q, g, from, to)
  <2>1. \A x \in g.nodes : x.at \in 1..Len(q)
    <3>1. \A i : i \in 1..Len(p) => i \in 1..Len(q)
      BY <1>2
    <3>2. QED
      BY <1>1, <3>1 DEF NodesOf
  <2>2. \A x \in g.nodes :
            /\ x.kind = "reference" => x.name \in Names
            /\ x.kind = "variable" => \E s \in from..to : x = Variable(s) /\ q[s].defines # {}
            /\ x.kind = "return" => \E s \in from..to : x = Return(s) /\ q[s].defines = {}
    BY <1>1, <1>3 DEF NodesOf
  <2>3. \A s \in from..to : EndIn(q, s) \in g.nodes
    BY <1>1, <1>3 DEF NodesOf
  <2>4. \A e \in g.edges : e \in g.nodes \X g.nodes /\ \E s \in from..to : e[2] = EndIn(q, s)
    BY <1>1, <1>3 DEF NodesOf
  <2>5. OneCopy(g)
    BY <1>1 DEF NodesOf
  <2>6. QED
    BY <2>1, <2>2, <2>3, <2>4, <2>5 DEF NodesOf
<1>7. VersionOf(q, w, from, to)
  <2> SUFFICES ASSUME NEW n \in Names, NEW t \in DefinersIn(q, n, from, to)
               PROVE  w[t] = Cardinality(DefinersIn(q, n, from, t - 1))
    BY DEF VersionOf
  <2>1. t \in DefinersIn(p, n, from, to)
    BY <1>4
  <2>2. t \in from..to
    BY DEF DefinersIn
  <2>3. v[t] = Cardinality(DefinersIn(p, n, from, t - 1))
    BY <1>1, <2>1 DEF VersionOf
  <2>4. DefinersIn(q, n, from, t - 1) = DefinersIn(p, n, from, t - 1)
    BY <1>5, <2>2
  <2>5. QED
    BY <2>2, <2>3, <2>4
<1>8. ReadOf(q, g, from, to)
  <2>1. \A s \in from..to : \A x, n : ReadsIn(p, x, n, from, s) <=> ReadsIn(q, x, n, from, s)
    <3> SUFFICES ASSUME NEW s \in from..to, NEW x, NEW n
                 PROVE  ReadsIn(p, x, n, from, s) <=> ReadsIn(q, x, n, from, s)
      OBVIOUS
    <3>1. DefinersIn(q, n, from, s - 1) = DefinersIn(p, n, from, s - 1)
      BY <1>5
    <3>2. QED
      BY <3>1 DEF ReadsIn
  <2>2. QED
    BY <1>1, <1>3, <2>1 DEF ReadOf
<1>9. QED
  BY <1>6, <1>7, <1>8 DEF GraphInv

\* The graph compile.py makes of the last statement is a graph of that statement.
LEMMA CompiledGraph ==
    ASSUME NEW p \in Seq(Statements), NEW k \in Nat, k = Len(p), 1 <= k, version[k] = 0
    PROVE  GraphInv(p, version, Compiled(k, p[k]), k, k)
<1> DEFINE h == Compiled(k, p[k])
           read == {Reference(n, k) : n \in p[k].uses} \cup {Source(d, k) : d \in p[k].source}
           end == EndIn(p, k)
<1>1. h.nodes = read \cup {end} /\ h.edges = read \X {end}
  BY DEF Compiled, EndIn
<1>2. p[k] \in Statements
  OBVIOUS
<1>3. p[k].uses \subseteq Names /\ p[k].source \subseteq DataSources
  BY <1>2 DEF Statements
<1>4. \A x \in read :
        /\ x.at = k
        /\ \/ x.kind = "reference" /\ x.name \in p[k].uses /\ x = Reference(x.name, k)
           \/ x.kind = "source" /\ x.uri \in p[k].source /\ x = Source(x.uri, k)
  BY DEF Reference, Source
<1>5. /\ \A n \in p[k].uses : Reference(n, k) \in read
      /\ \A d \in p[k].source : Source(d, k) \in read
  OBVIOUS
<1>6. end.kind \in {"variable", "return"} /\ end.at = k
  BY Kinds
<1>7. /\ end.kind = "variable" => end = Variable(k) /\ p[k].defines # {}
      /\ end.kind = "return" => end = Return(k) /\ p[k].defines = {}
  BY Kinds DEF EndIn
<1>8. \A s : s \in k..k <=> s = k
  OBVIOUS
<1> HIDE DEF h, read
<1>9. NodesOf(p, h, k, k)
  <2>1. ASSUME NEW x \in h.nodes
        PROVE  /\ x.at \in 1..Len(p)
               /\ x.kind = "reference" => x.name \in Names
               /\ x.kind = "variable" => \E s \in k..k : x = Variable(s) /\ p[s].defines # {}
               /\ x.kind = "return" => \E s \in k..k : x = Return(s) /\ p[s].defines = {}
    <3> HIDE DEF end
    <3>1. k \in 1..Len(p)
      OBVIOUS
    <3>2. CASE x \in read
      BY <1>3, <1>4, <3>1, <3>2
    <3>3. CASE x = end
      BY <1>6, <1>7, <1>8, <3>1, <3>3
    <3>4. QED
      BY <1>1, <3>2, <3>3
  <2>2. \A s \in k..k : EndIn(p, s) \in h.nodes
    BY <1>1, <1>8
  <2>3. \A e \in h.edges : e \in h.nodes \X h.nodes /\ \E s \in k..k : e[2] = EndIn(p, s)
    BY <1>1, <1>8
  <2>4. OneCopy(h)
    <3> SUFFICES ASSUME NEW x \in h.nodes, NEW y \in h.nodes, SameContent(x, y) PROVE x = y
      BY DEF OneCopy
    <3>1. x.kind = y.kind /\ x.kind \in {"reference", "source"}
      BY Kinds
    <3>2. x \in read /\ y \in read
      BY <1>1, <1>6, <3>1
    <3>3. QED
      BY <1>4, <3>2 DEF SameContent
  <2>5. QED
    BY <2>1, <2>2, <2>3, <2>4 DEF NodesOf
<1>10. \A n : DefinersIn(p, n, k, k - 1) = {}
  BY DEF DefinersIn
<1>11. VersionOf(p, version, k, k)
  <2> SUFFICES ASSUME NEW n \in Names, NEW t \in DefinersIn(p, n, k, k)
               PROVE  version[t] = Cardinality(DefinersIn(p, n, k, t - 1))
    BY DEF VersionOf
  <2>1. t = k
    BY <1>8 DEF DefinersIn
  <2>2. QED
    BY <1>10, <2>1, FS_EmptySet
<1>12. Preds(h, end) = read
  <2> HIDE DEF end
  <2>1. ASSUME NEW x \in read PROVE x \in Preds(h, end)
    <3>1. <<x, end>> \in h.edges /\ <<x, end>>[2] = end /\ <<x, end>>[1] = x
      BY <1>1
    <3>2. QED
      BY <3>1 DEF Preds
  <2>2. ASSUME NEW x \in Preds(h, end) PROVE x \in read
    <3>1. PICK e \in h.edges : x = e[1]
      BY DEF Preds
    <3>2. QED
      BY <1>1, <3>1
  <2>3. QED
    BY <2>1, <2>2
<1>13. ReadOf(p, h, k, k)
  <2>1. \A x : \A n \in p[k].uses : x.kind = "reference" /\ x.name = n => ReadsIn(p, x, n, k, k)
    BY <1>10 DEF ReadsIn
  <2>2. \A n \in p[k].uses : \E x \in read : ReadsIn(p, x, n, k, k)
    <3>1. \A n : Reference(n, k).kind = "reference" /\ Reference(n, k).name = n
      BY DEF Reference
    <3>2. QED
      BY <1>5, <2>1, <3>1
  <2>3. \A d \in p[k].source : \E x \in read : x.kind = "source" /\ x.uri = d
    BY <1>5 DEF Source
  <2>4. \A x \in read :
            \/ \E n \in p[k].uses : ReadsIn(p, x, n, k, k)
            \/ \E d \in p[k].source : x.kind = "source" /\ x.uri = d
    BY <1>4, <2>1
  <2> HIDE DEF end
  <2>5. \A s \in k..k : s = k /\ Preds(h, EndIn(p, s)) = read
    BY <1>8, <1>12 DEF end
  <2>6. QED
    BY <2>2, <2>3, <2>4, <2>5 DEF ReadOf
<1>14. QED
  BY <1>9, <1>11, <1>13 DEF GraphInv, h

-------------------------------------------------------------------------------
(* The inductive invariant. *)

LEMMA InitInv == Init => IInv
<1> SUFFICES ASSUME Init PROVE IInv
  OBVIOUS
<1>1. /\ program = <<>> /\ executed = 0 /\ block = EmptyGraph /\ session = EmptyGraph
      /\ version = [s \in 1..MaxStatements |-> 0]
  BY DEF Init
<1>2. Len(program) = 0 /\ program \in Seq(Statements)
  BY <1>1
<1>3. CountInv
  BY <1>1, <1>2, HuntAssumption DEF CountInv
<1>4. NodesOf(program, EmptyGraph, 1, 0)
  BY DEF NodesOf, OneCopy, EmptyGraph
<1>5. VersionOf(program, version, 1, 0) /\ ReadOf(program, EmptyGraph, 1, 0)
  BY DEF VersionOf, ReadOf, DefinersIn
<1>6. executed + 1 = 1
  BY <1>1
<1>7. QED
  BY <1>1, <1>2, <1>3, <1>4, <1>5, <1>6 DEF IInv, GraphInv

LEMMA NothingInBlock ==
    ASSUME NEW p, NEW v, NEW k \in Nat
    PROVE  GraphInv(p, v, EmptyGraph, k + 1, k)
<1>1. \A s : s \notin (k + 1)..k
  OBVIOUS
<1>2. NodesOf(p, EmptyGraph, k + 1, k)
  BY <1>1 DEF NodesOf, OneCopy, EmptyGraph
<1>3. VersionOf(p, v, k + 1, k) /\ ReadOf(p, EmptyGraph, k + 1, k)
  BY <1>1 DEF VersionOf, ReadOf, DefinersIn
<1>4. QED
  BY <1>2, <1>3 DEF GraphInv

\* execute() merges the block into the session.
LEMMA ExecuteInv == IInv /\ Execute => IInv'
<1> SUFFICES ASSUME IInv, Execute PROVE IInv'
  OBVIOUS
<1>1. /\ program \in Seq(Statements) /\ Len(program) <= MaxStatements
      /\ executed \in 0..Len(program)
      /\ version \in [1..MaxStatements -> Nat]
      /\ \A s \in (Len(program) + 1)..MaxStatements : version[s] = 0
      /\ GraphInv(program, version, session, 1, executed)
      /\ GraphInv(program, version, block, executed + 1, Len(program))
  BY DEF IInv, CountInv
<1>2. /\ version' = ShiftedVersions(session, block, program)
      /\ session' = Merged(session, block, program)
      /\ executed' = Len(program) /\ block' = EmptyGraph /\ program' = program
  BY DEF Execute
<1>3. PICK l \in Nat : Len(program) = l
  BY <1>1
<1>4. PICK e \in Nat : executed = e /\ e <= l
  BY <1>1, <1>3
<1>5. MergePremise(program, session, block, 1, e, l)
  <2>1. 1 <= 1 /\ 1 <= e + 1 /\ e <= l /\ l <= Len(program) /\ l <= MaxStatements /\ 1 \in Nat
    BY <1>1, <1>3, <1>4
  <2>2. QED
    BY <1>1, <1>3, <1>4, <2>1 DEF MergePremise
<1>6. /\ GraphInv(program, version', session', 1, l)
      /\ version' \in [1..MaxStatements -> Nat]
      /\ \A s \in (l + 1)..MaxStatements : version'[s] = version[s]
  BY <1>2, <1>5, MergedGraph, MergedVersions
<1>7. CountInv'
  <2>1. executed' \in 0..Len(program')
    BY <1>2, <1>3
  <2>2. \A s \in (Len(program') + 1)..MaxStatements : version'[s] = 0
    BY <1>1, <1>2, <1>3, <1>6
  <2>3. QED
    BY <1>1, <1>2, <1>6, <2>1, <2>2 DEF CountInv
<1>8. GraphInv(program', version', session', 1, executed')
  BY <1>2, <1>3, <1>6
<1>9. GraphInv(program', version', block', executed' + 1, Len(program'))
  <2>1. GraphInv(program', version', EmptyGraph, l + 1, l)
    BY NothingInBlock
  <2>2. QED
    BY <1>2, <1>3, <2>1
<1>10. QED
  BY <1>7, <1>8, <1>9 DEF IInv

\* compose() merges the graph of one more statement into the block.
LEMMA ComposeInv ==
    ASSUME NEW st \in Statements, IInv, Compose(st)
    PROVE  IInv'
<1>1. /\ program \in Seq(Statements) /\ Len(program) <= MaxStatements
      /\ executed \in 0..Len(program)
      /\ version \in [1..MaxStatements -> Nat]
      /\ \A s \in (Len(program) + 1)..MaxStatements : version[s] = 0
      /\ GraphInv(program, version, session, 1, executed)
      /\ GraphInv(program, version, block, executed + 1, Len(program))
  BY DEF IInv, CountInv
<1>2. PICK l \in Nat : Len(program) = l
  BY <1>1
<1>3. PICK e \in Nat : executed = e /\ e <= l
  BY <1>1, <1>2
<1>4. PICK p \in Seq(Statements) : p = Append(program, st)
  <2>1. Append(program, st) \in Seq(Statements)
    BY <1>1
  <2>2. QED
    BY <2>1
<1>5. Len(p) = l + 1 /\ p[l + 1] = st /\ \A s \in 1..l : p[s] = program[s]
  BY <1>1, <1>2, <1>4
<1> DEFINE h == Compiled(l + 1, st)
<1>6. /\ Len(program) < MaxStatements
      /\ program' = p
      /\ version' = ShiftedVersions(block, h, p)
      /\ block' = Merged(block, h, p)
      /\ executed' = executed /\ session' = session
  BY <1>2, <1>4 DEF Compose
<1>7. l < MaxStatements /\ MaxStatements \in Nat /\ l + 1 \in Nat /\ e + 1 \in Nat
  BY <1>2, <1>6, HuntAssumption
<1>8. GraphInv(p, version, block, e + 1, l)
  <2>1. /\ Len(program) <= Len(p) /\ 1 <= e + 1 /\ l <= Len(program)
        /\ \A s \in 1..Len(program) : p[s] = program[s]
    BY <1>2, <1>5, <1>7
  <2>2. GraphInv(program, version, block, e + 1, l)
    BY <1>1, <1>2, <1>3
  <2>3. QED
    BY <1>1, <1>4, <1>7, <2>1, <2>2, StillTheGraph
<1>9. GraphInv(p, version, h, l + 1, l + 1)
  <2>1. version[l + 1] = 0
    BY <1>1, <1>2, <1>7
  <2>2. 1 <= l + 1 /\ l + 1 = Len(p)
    BY <1>5
  <2>3. GraphInv(p, version, Compiled(l + 1, p[l + 1]), l + 1, l + 1)
    BY <1>7, <2>1, <2>2, CompiledGraph
  <2>4. QED
    BY <1>5, <2>3
<1>10. MergePremise(p, block, h, e + 1, l, l + 1)
  <2>1. 1 <= e + 1 /\ e + 1 <= l + 1 /\ l <= l + 1 /\ l + 1 <= Len(p) /\ l + 1 <= MaxStatements
    BY <1>3, <1>5, <1>7
  <2>2. QED
    BY <1>1, <1>7, <1>8, <1>9, <2>1 DEF MergePremise
<1> HIDE DEF h
<1>11. /\ GraphInv(p, version', block', e + 1, l + 1)
       /\ version' \in [1..MaxStatements -> Nat]
       /\ \A s \in (l + 2)..MaxStatements : version'[s] = version[s]
  <2>1. /\ GraphInv(p, version', block', e + 1, l + 1)
        /\ version' \in [1..MaxStatements -> Nat]
        /\ \A s \in ((l + 1) + 1)..MaxStatements : version'[s] = version[s]
    BY <1>6, <1>7, <1>10, MergedGraph, MergedVersions
  <2>2. QED
    BY <2>1
<1>12. GraphInv(p, version', session, 1, e)
  <2>1. \A s \in 1..e : version'[s] = version[s]
    <3> SUFFICES ASSUME NEW s \in 1..e PROVE version'[s] = version[s]
      OBVIOUS
    <3>1. s \in 1..MaxStatements /\ s # l + 1
      BY <1>3, <1>7
    <3>2. Variable(s) \notin h.nodes
      <4>1. \A x \in h.nodes : x.kind = "variable" => x = Variable(l + 1)
        BY DEF h, Compiled, Reference, Source, Return
      <4>2. QED
        BY <3>1, <4>1, Kinds
    <3>3. QED
      BY <1>1, <1>6, <3>1, <3>2, VersionStays
  <2>2. /\ Len(program) <= Len(p) /\ e <= Len(program) /\ 1 <= 1 /\ 1 \in Nat
        /\ \A s \in 1..Len(program) : p[s] = program[s]
    BY <1>2, <1>3, <1>5
  <2>3. GraphInv(program, version, session, 1, e)
    BY <1>1, <1>3
  <2>4. PICK w : version' = w
    OBVIOUS
  <2>5. PICK one \in Nat : 1 = one
    OBVIOUS
  <2>6. /\ \A s \in one..e : w[s] = version[s]
        /\ GraphInv(program, version, session, one, e)
        /\ 1 <= one
    BY <2>1, <2>3, <2>4, <2>5
  <2>7. GraphInv(p, w, session, one, e)
    BY <1>1, <1>4, <2>2, <2>6, StillTheGraph
  <2>8. QED
    BY <2>4, <2>5, <2>7
<1>13. CountInv'
  <2>1. program' \in Seq(Statements) /\ Len(program') = l + 1
    BY <1>5, <1>6
  <2>2. Len(program') <= MaxStatements /\ executed' \in 0..Len(program')
    BY <1>3, <1>6, <1>7, <2>1
  <2>3. \A s \in (Len(program') + 1)..MaxStatements : version'[s] = 0
    BY <1>1, <1>2, <1>11, <2>1
  <2>4. QED
    BY <1>11, <2>1, <2>2, <2>3 DEF CountInv
<1>14. GraphInv(program', version', session', 1, executed')
  BY <1>3, <1>6, <1>12
<1>15. GraphInv(program', version', block', executed' + 1, Len(program'))
  BY <1>3, <1>5, <1>6, <1>11
<1>16. QED
  BY <1>13, <1>14, <1>15 DEF IInv

LEMMA NextInv == IInv /\ [Next]_vars => IInv'
<1> SUFFICES ASSUME IInv, [Next]_vars PROVE IInv'
  OBVIOUS
<1>1. CASE Execute
  BY <1>1, ExecuteInv
<1>2. CASE \E st \in Statements : Compose(st)
  BY <1>2, ComposeInv
<1>3. CASE UNCHANGED vars
  <2>1. program' = program /\ executed' = executed /\ version' = version
        /\ block' = block /\ session' = session
    BY <1>3 DEF vars
  <2>2. QED
    BY <2>1 DEF IInv, CountInv
<1>4. QED
  BY <1>1, <1>2, <1>3 DEF Next

\* Both graphs stay graphs of the statements they stand for.
THEOREM InductiveInvariant == Spec => []IInv
BY InitInv, NextInv, PTL DEF Spec

-------------------------------------------------------------------------------
(* What the invariant says to a user. *)

\* What is read as a name is one node, and is read as no other name.
LEMMA ReadAsOne ==
    ASSUME NEW p, NEW g, NEW from \in Nat, NEW s \in Nat, 1 <= s, OneCopy(g),
           NEW x \in g.nodes, NEW y \in g.nodes, NEW n, NEW k
    PROVE  /\ ReadsIn(p, x, n, from, s) => x.kind # "source"
           /\ ReadsIn(p, x, n, from, s) /\ ReadsIn(p, y, n, from, s) => x = y
           /\ ReadsIn(p, x, n, from, s) /\ ReadsIn(p, x, k, from, s) => n = k
<1>1. \A i : DefinersIn(p, i, from, s - 1) # {} =>
                /\ Max(DefinersIn(p, i, from, s - 1)) \in DefinersIn(p, i, from, s - 1)
                /\ p[Max(DefinersIn(p, i, from, s - 1))].defines = {i}
  <2> SUFFICES ASSUME NEW i, DefinersIn(p, i, from, s - 1) # {}
               PROVE  /\ Max(DefinersIn(p, i, from, s - 1)) \in DefinersIn(p, i, from, s - 1)
                      /\ p[Max(DefinersIn(p, i, from, s - 1))].defines = {i}
    OBVIOUS
  <2>1. s - 1 \in Nat
    OBVIOUS
  <2>2. /\ DefinersIn(p, i, from, s - 1) \subseteq Nat
        /\ \A t \in DefinersIn(p, i, from, s - 1) : t <= s - 1
    BY <2>1, DefinersFacts
  <2>3. Max(DefinersIn(p, i, from, s - 1)) \in DefinersIn(p, i, from, s - 1)
    BY <2>1, <2>2, GreatestOf
  <2>4. QED
    BY <2>3 DEF DefinersIn
<1>2. ASSUME ReadsIn(p, x, n, from, s)
      PROVE  x.kind # "source"
  BY <1>2, Kinds DEF ReadsIn
<1>3. ASSUME ReadsIn(p, x, n, from, s), ReadsIn(p, y, n, from, s)
      PROVE  x = y
  <2>1. CASE DefinersIn(p, n, from, s - 1) = {}
    <3>1. SameContent(x, y)
      BY <1>3, <2>1 DEF ReadsIn, SameContent
    <3>2. QED
      BY <3>1 DEF OneCopy
  <2>2. CASE DefinersIn(p, n, from, s - 1) # {}
    BY <1>3, <2>2 DEF ReadsIn
  <2>3. QED
    BY <2>1, <2>2
<1>4. ASSUME ReadsIn(p, x, n, from, s), ReadsIn(p, x, k, from, s)
      PROVE  n = k
  <2>1. CASE x.kind = "reference"
    <3>1. x.name = n /\ x.name = k
      BY <1>4, <2>1, Kinds DEF ReadsIn
    <3>2. QED
      BY <3>1
  <2>2. CASE x.kind # "reference"
    <3>1. /\ DefinersIn(p, n, from, s - 1) # {} /\ x = Variable(Max(DefinersIn(p, n, from, s - 1)))
          /\ DefinersIn(p, k, from, s - 1) # {} /\ x = Variable(Max(DefinersIn(p, k, from, s - 1)))
      BY <1>4, <2>2 DEF ReadsIn
    <3>2. x.at = Max(DefinersIn(p, n, from, s - 1)) /\ x.at = Max(DefinersIn(p, k, from, s - 1))
      BY <3>1, Kinds
    <3>3. p[x.at].defines = {n} /\ p[x.at].defines = {k}
      BY <1>1, <3>1, <3>2
    <3>4. QED
      BY <3>3
  <2>3. QED
    BY <2>1, <2>2
<1>5. QED
  BY <1>2, <1>3, <1>4

\* A set as large as the one a function maps onto it one to one.
LEMMA SameSize ==
    ASSUME NEW S, NEW T, NEW f \in [S -> T], IsFiniteSet(S),
           \A x, y \in S : f[x] = f[y] => x = y,
           \A t \in T : \E x \in S : f[x] = t
    PROVE  IsFiniteSet(T) /\ Cardinality(T) = Cardinality(S)
<1>1. f \in Injection(S, T) /\ f \in Surjection(S, T)
  BY DEF Injection, Surjection, IsInjective
<1>2. QED
  BY <1>1, FS_Surjection

\* A statement reads as many nodes as it uses names and sources.
LEMMA ReadCount ==
    ASSUME NEW p \in Seq(Statements), NEW g, NEW from \in Nat, NEW to \in Nat,
           1 <= from, to <= Len(p), NodesOf(p, g, from, to), ReadOf(p, g, from, to),
           NEW s \in from..to
    PROVE  Cardinality(Preds(g, EndIn(p, s))) = Cardinality(p[s].uses) + Cardinality(p[s].source)
<1> DEFINE read == Preds(g, EndIn(p, s))
           U == p[s].uses
           D == p[s].source
           V == {x \in read : x.kind # "source"}
           W == {x \in read : x.kind = "source"}
           f == [n \in U |-> CHOOSE x \in read : ReadsIn(p, x, n, from, s)]
           h == [d \in D |-> CHOOSE x \in read : x.kind = "source" /\ x.uri = d]
<1>1. s \in Nat /\ 1 <= s /\ p[s] \in Statements
  <2>1. PICK l \in Nat : Len(p) = l
    OBVIOUS
  <2>2. s \in 1..Len(p)
    BY <2>1
  <2>3. QED
    BY <2>2
<1>2. IsFiniteSet(U) /\ IsFiniteSet(D)
  <2>1. U \in SUBSET Names /\ D \in SUBSET DataSources
    BY <1>1 DEF Statements
  <2>2. IsFiniteSet(U)
    BY <2>1, FS_Subset, HuntAssumption
  <2>3. IsFiniteSet(D)
    BY <2>1, FS_Subset, HuntAssumption
  <2>4. QED
    BY <2>2, <2>3
<1>3. read \subseteq g.nodes
  <2>1. \A e \in g.edges : e[1] \in g.nodes
    BY DEF NodesOf
  <2>2. QED
    BY <2>1 DEF Preds
<1>4. /\ \A n \in U : \E x \in read : ReadsIn(p, x, n, from, s)
      /\ \A d \in D : \E x \in read : x.kind = "source" /\ x.uri = d
      /\ \A x \in read :
            \/ \E n \in U : ReadsIn(p, x, n, from, s)
            \/ \E d \in D : x.kind = "source" /\ x.uri = d
  BY DEF ReadOf
<1>5. OneCopy(g)
  BY DEF NodesOf
<1>6. /\ \A x \in read : \A n : ReadsIn(p, x, n, from, s) => x.kind # "source"
      /\ \A x, y \in read : \A n :
            ReadsIn(p, x, n, from, s) /\ ReadsIn(p, y, n, from, s) => x = y
      /\ \A x \in read : \A n, k :
            ReadsIn(p, x, n, from, s) /\ ReadsIn(p, x, k, from, s) => n = k
  BY <1>1, <1>3, <1>5, ReadAsOne
<1> HIDE DEF read, U, D
<1>7. \A n \in U : f[n] \in read /\ ReadsIn(p, f[n], n, from, s)
  BY <1>4
<1>8. IsFiniteSet(V) /\ Cardinality(V) = Cardinality(U)
  <2>1. \A n \in U : f[n] \in V
    BY <1>6, <1>7
  <2>2. \A n, k \in U : f[n] = f[k] => n = k
    BY <1>6, <1>7
  <2>3. \A x \in V : \E n \in U : f[n] = x
    <3> SUFFICES ASSUME NEW x \in V PROVE \E n \in U : f[n] = x
      OBVIOUS
    <3>1. PICK n \in U : ReadsIn(p, x, n, from, s)
      BY <1>4
    <3>2. f[n] = x
      BY <1>6, <1>7, <3>1
    <3>3. QED
      BY <3>2
  <2>4. f \in [U -> V]
    BY <2>1
  <2> HIDE DEF f, V
  <2>5. QED
    BY <1>2, <2>2, <2>3, <2>4, SameSize
<1>9. \A d \in D : h[d] \in read /\ h[d].kind = "source" /\ h[d].uri = d
  BY <1>4
<1>10. IsFiniteSet(W) /\ Cardinality(W) = Cardinality(D)
  <2>1. \A d \in D : h[d] \in W
    BY <1>9
  <2>2. \A d, k \in D : h[d] = h[k] => d = k
    BY <1>9
  <2>3. \A x \in W : \E d \in D : h[d] = x
    <3> SUFFICES ASSUME NEW x \in W PROVE \E d \in D : h[d] = x
      OBVIOUS
    <3>1. PICK d \in D : x.kind = "source" /\ x.uri = d
      BY <1>4, <1>6
    <3>2. SameContent(h[d], x) /\ h[d] \in g.nodes /\ x \in g.nodes
      BY <1>3, <1>9, <3>1 DEF SameContent
    <3>3. h[d] = x
      BY <1>5, <3>2 DEF OneCopy
    <3>4. QED
      BY <3>3
  <2>4. h \in [D -> W]
    BY <2>1
  <2> HIDE DEF h, W
  <2>5. QED
    BY <1>2, <2>2, <2>3, <2>4, SameSize
<1>11. read = V \cup W /\ V \cap W = {}
  OBVIOUS
<1> HIDE DEF V, W
<1>12. Cardinality(V \cup W) = Cardinality(V) + Cardinality(W) - Cardinality(V \cap W)
  BY <1>8, <1>10, FS_Union
<1>13. Cardinality(V \cap W) = 0 /\ Cardinality(V) \in Nat /\ Cardinality(W) \in Nat
  BY <1>8, <1>10, <1>11, FS_EmptySet, FS_CardinalityType
<1>14. Cardinality(read) = Cardinality(V) + Cardinality(W)
  BY <1>11, <1>12, <1>13
<1>15. QED
  BY <1>8, <1>10, <1>14 DEF read, U, D

LEMMA InOrder ==
    ASSUME NEW g, NEW from \in Nat, NEW to \in Nat, 1 <= from, to <= Len(program),
           program \in Seq(Statements), NodesOf(program, g, from, to), ReadOf(program, g, from, to)
    PROVE  ResolvedInOrder(g, from, to)
<1> SUFFICES ASSUME NEW s \in from..to
             PROVE  LET read == Preds(g, End(s))
                    IN  /\ \A n \in program[s].uses : \E x \in read : ReadsAs(x, n, from, s)
                        /\ \A d \in program[s].source : \E x \in read : x.kind = "source" /\ x.uri = d
                        /\ Cardinality(read) = Cardinality(program[s].uses) + Cardinality(program[s].source)
  BY DEF ResolvedInOrder
<1>1. End(s) = EndIn(program, s)
  BY DEF End, EndIn
<1>2. \A x, n : ReadsAs(x, n, from, s) <=> ReadsIn(program, x, n, from, s)
  BY DEF ReadsAs, ReadsIn, Definers, DefinersIn
<1>3. Cardinality(Preds(g, End(s))) = Cardinality(program[s].uses) + Cardinality(program[s].source)
  BY <1>1, ReadCount
<1>4. QED
  BY <1>1, <1>2, <1>3 DEF ReadOf

\* Merging means what executing the statements one by one would mean: in any split of
\* a hunt into blocks, a statement reads the last value a name had before it.
THEOREM ReadsLastValue == Spec => []ReadsLikeSequential
<1>1. IInv => ReadsLikeSequential
  <2> SUFFICES ASSUME IInv PROVE ReadsLikeSequential
    OBVIOUS
  <2>1. PICK l \in Nat : Len(program) = l /\ program \in Seq(Statements)
    BY DEF IInv, CountInv
  <2>2. PICK e \in Nat : executed = e /\ e <= l
    BY <2>1 DEF IInv, CountInv
  <2>3. PICK one \in Nat : 1 = one
    OBVIOUS
  <2>4. ResolvedInOrder(session, one, e)
    <3>1. /\ NodesOf(program, session, one, e) /\ ReadOf(program, session, one, e)
          /\ 1 <= one /\ e <= Len(program)
      BY <2>1, <2>2, <2>3 DEF IInv, GraphInv
    <3>2. QED
      BY <2>1, <3>1, InOrder
  <2>5. ResolvedInOrder(block, e + 1, l)
    <3>1. PICK k \in Nat : e + 1 = k
      BY <2>2
    <3>2. /\ NodesOf(program, block, k, l) /\ ReadOf(program, block, k, l)
          /\ 1 <= k /\ l <= Len(program)
      BY <2>1, <2>2, <3>1 DEF IInv, GraphInv
    <3>3. ResolvedInOrder(block, k, l)
      BY <2>1, <3>2, InOrder
    <3>4. QED
      BY <3>1, <3>3
  <2>6. QED
    BY <2>1, <2>2, <2>3, <2>4, <2>5 DEF ReadsLikeSequential
<1>2. QED
  BY <1>1, InductiveInvariant, PTL

\* The variable found by a name is the one of the last executed definition, and the
\* versions of a name are 0, 1, 2, ... without one given out twice.
THEOREM LastDefinitionFound == Spec => []NewestIsLastDefined
<1>1. IInv => NewestIsLastDefined
  <2> SUFFICES ASSUME IInv, NEW n \in Names, Definers(n, 1, executed) # {}
               PROVE  /\ Newest(session, n, program) = Variable(Max(Definers(n, 1, executed)))
                      /\ {version[t] : t \in Definers(n, 1, executed)}
                           = 0..(Cardinality(Definers(n, 1, executed)) - 1)
    BY DEF NewestIsLastDefined
  <2>1. PICK e \in Nat : executed = e
    BY DEF IInv, CountInv
  <2>2. PICK one \in Nat : 1 = one
    OBVIOUS
  <2>3. NodesOf(program, session, one, e) /\ VersionOf(program, version, one, e)
    BY <2>1, <2>2 DEF IInv, GraphInv
  <2>4. Definers(n, 1, executed) = DefinersIn(program, n, one, e)
    BY <2>1, <2>2 DEF Definers, DefinersIn
  <2>5. Newest(session, n, program) = Variable(Max(DefinersIn(program, n, one, e)))
    BY <2>3, <2>4, NewestIs
  <2>6. PICK c \in Nat : Cardinality(DefinersIn(program, n, one, e)) = c
    BY DefinersFacts
  <2>7. PICK p, v : program = p /\ version = v
    OBVIOUS
  <2>8. VersionOf(p, v, one, e) /\ Cardinality(DefinersIn(p, n, one, e)) = c
    BY <2>3, <2>6, <2>7
  <2>9. /\ \A t \in DefinersIn(p, n, one, e) : v[t] \in 0..(c - 1)
        /\ \A k \in 0..(c - 1) : \E t \in DefinersIn(p, n, one, e) : v[t] = k
    BY <2>8, VersionsFill
  <2>10. {v[t] : t \in DefinersIn(p, n, one, e)} = 0..(c - 1)
    BY <2>9
  <2>11. {version[t] : t \in Definers(n, 1, executed)} = 0..(c - 1)
    BY <2>4, <2>7, <2>10
  <2>12. QED
    BY <2>4, <2>5, <2>6, <2>11
<1>2. QED
  BY <1>1, InductiveInvariant, PTL

\* No graph ever holds a source or an undefined name twice.
THEOREM NoCopies == Spec => []OneCopyOfEachSource
<1>1. IInv => OneCopyOfEachSource
  BY DEF IInv, GraphInv, NodesOf, OneCopy, OneCopyOfEachSource
<1>2. QED
  BY <1>1, InductiveInvariant, PTL

-------------------------------------------------------------------------------
(* The order of the results. *)

LEMMA ReturnsFacts ==
    ASSUME NEW p, NEW from \in Nat, NEW to \in Nat
    PROVE  /\ ReturnsIn(p, from, to) \in SUBSET Nat
           /\ ReturnsIn(p, from, to) \in SUBSET (from..to)
           /\ IsFiniteSet(ReturnsIn(p, from, to))
<1>1. ReturnsIn(p, from, to) \in SUBSET (from..to)
  BY DEF ReturnsIn
<1>2. IsFiniteSet(from..to)
  BY FS_Interval
<1>3. IsFiniteSet(ReturnsIn(p, from, to))
  BY <1>1, <1>2, FS_Subset
<1>4. QED
  BY <1>1, <1>3

\* The Returns of a graph are those of its statements that define nothing.
LEMMA ReturnsAre ==
    ASSUME NEW p, NEW g, NEW from \in Nat, NEW to \in Nat, NodesOf(p, g, from, to)
    PROVE  /\ \A r \in OfKind(g, "return") : r.at \in ReturnsIn(p, from, to)
           /\ \A s : Return(s) \in g.nodes <=> s \in ReturnsIn(p, from, to)
<1>1. ASSUME NEW r \in g.nodes, r.kind = "return"
      PROVE  r.at \in ReturnsIn(p, from, to)
  <2>1. PICK s \in from..to : r = Return(s) /\ p[s].defines = {}
    BY <1>1 DEF NodesOf
  <2>2. QED
    BY <2>1, Kinds DEF ReturnsIn
<1>2. ASSUME NEW s \in ReturnsIn(p, from, to)
      PROVE  Return(s) \in g.nodes
  <2>1. s \in from..to /\ EndIn(p, s) = Return(s)
    BY DEF ReturnsIn, EndIn
  <2>2. QED
    BY <2>1 DEF NodesOf
<1>3. \A s : Return(s) \in g.nodes => s \in ReturnsIn(p, from, to)
  BY <1>1, Kinds
<1>4. QED
  BY <1>1, <1>2, <1>3 DEF OfKind

\* The sequences of the merged Returns start above all those of the graph.
LEMMA GreatestSequence ==
    ASSUME NEW p, NEW g, NEW from \in Nat, NEW to \in Nat, NodesOf(p, g, from, to),
           SequenceOf(p, sequence, from, to)
    PROVE  /\ MaxReturnSequence(g) \in Int /\ -1 <= MaxReturnSequence(g)
           /\ \A s \in ReturnsIn(p, from, to) : sequence[s] <= MaxReturnSequence(g)
<1> DEFINE R == ReturnsIn(p, from, to)
           S == {-1} \cup {sequence[r.at] : r \in OfKind(g, "return")}
<1>1. \A x : x \in S <=> x = -1 \/ \E s \in R : x = sequence[s]
  <2>1. /\ \A r \in OfKind(g, "return") : r.at \in R
        /\ \A s : Return(s) \in g.nodes <=> s \in R
    BY ReturnsAre
  <2>2. \A s \in R : Return(s) \in OfKind(g, "return") /\ Return(s).at = s
    BY <2>1, Kinds DEF OfKind
  <2> HIDE DEF R
  <2>3. QED
    BY <2>1, <2>2
<1>2. MaxReturnSequence(g) = Max(S)
  BY DEF MaxReturnSequence
<1>3. \A s \in R : sequence[s] \in Nat /\ \A t \in R : s < t => sequence[s] < sequence[t]
  BY DEF SequenceOf
<1>4. R \in SUBSET Nat /\ \A s \in R : s <= to
  BY ReturnsFacts
<1> HIDE DEF R, S
<1>5. \E z \in S : \A y \in S : z >= y
  <2>1. CASE R = {}
    BY <1>1, <2>1
  <2>2. CASE R # {}
    <3>1. PICK m \in Nat : m = Max(R) /\ m \in R /\ \A s \in R : s <= m
      BY <1>4, <2>2, GreatestOf
    <3>2. \A s \in R : sequence[s] <= sequence[m]
      <4>1. \A s \in R : s < m \/ s = m
        BY <1>4, <3>1
      <4>2. QED
        BY <1>3, <3>1, <4>1
    <3>3. sequence[m] \in S /\ sequence[m] \in Nat
      BY <1>1, <1>3, <3>1
    <3>4. \A y \in S : sequence[m] >= y
      BY <1>1, <1>3, <3>1, <3>2, <3>3
    <3>5. QED
      BY <3>3, <3>4
  <2>3. QED
    BY <2>1, <2>2
<1>6. Max(S) \in S /\ \A y \in S : Max(S) >= y
  BY <1>5 DEF Max
<1>7. Max(S) \in Int
  BY <1>1, <1>3, <1>6
<1>8. -1 <= Max(S) /\ \A s \in R : sequence[s] <= Max(S)
  BY <1>1, <1>3, <1>6, <1>7
<1>9. QED
  BY <1>2, <1>7, <1>8 DEF R

\* Merging keeps the order of the Returns.
LEMMA MergedSequences ==
    ASSUME NEW p, NEW g, NEW h, NEW from \in Nat, NEW mid \in Nat, NEW to \in Nat,
           from <= mid + 1, mid <= to, to <= MaxStatements, 1 <= from,
           NodesOf(p, g, from, mid), NodesOf(p, h, mid + 1, to),
           sequence \in [1..MaxStatements -> Nat],
           SequenceOf(p, sequence, from, mid), SequenceOf(p, sequence, mid + 1, to)
    PROVE  /\ ShiftedSequences(g, h) \in [1..MaxStatements -> Nat]
           /\ SequenceOf(p, ShiftedSequences(g, h), from, to)
<1> DEFINE A == ReturnsIn(p, from, mid)
           B == ReturnsIn(p, mid + 1, to)
           q == ShiftedSequences(g, h)
<1>1. PICK m \in Int : MaxReturnSequence(g) = m /\ -1 <= m /\ \A s \in A : sequence[s] <= m
  BY GreatestSequence
<1>2. mid + 1 \in Nat /\ MaxStatements \in Nat
  BY HuntAssumption
<1>3. \A s : Return(s) \in h.nodes <=> s \in B
  <2>1. PICK k \in Nat : mid + 1 = k
    BY <1>2
  <2>2. NodesOf(p, h, k, to)
    BY <2>1
  <2>3. \A s : Return(s) \in h.nodes <=> s \in ReturnsIn(p, k, to)
    BY <2>2, ReturnsAre
  <2>4. QED
    BY <2>1, <2>3
<1>4. /\ DOMAIN q = 1..MaxStatements
      /\ q = [s \in DOMAIN q |-> q[s]]
      /\ \A s \in 1..MaxStatements :
            q[s] = IF Return(s) \in h.nodes THEN sequence[s] + MaxReturnSequence(g) + 1 ELSE sequence[s]
  BY DEF ShiftedSequences
<1>5. /\ \A s : s \in A => s \in from..mid /\ s \in 1..MaxStatements /\ s \in Nat
      /\ \A s : s \in B => s \in (mid + 1)..to /\ s \in 1..MaxStatements /\ s \in Nat
      /\ \A s : s \in ReturnsIn(p, from, to) => s \in A \/ s \in B
  <2>1. \A s : s \in from..to => s \in from..mid \/ s \in (mid + 1)..to
    OBVIOUS
  <2>2. QED
    BY <1>2, <2>1 DEF ReturnsIn
<1>6. /\ \A s \in A : sequence[s] \in Nat /\ \A t \in A : s < t => sequence[s] < sequence[t]
      /\ \A s \in B : sequence[s] \in Nat /\ \A t \in B : s < t => sequence[s] < sequence[t]
  BY DEF SequenceOf
<1>7. \A s \in A : s \notin B
  BY <1>5
<1> HIDE DEF A, B, q
<1>8. \A s \in 1..MaxStatements :
        /\ s \in B => q[s] = sequence[s] + m + 1
        /\ s \notin B => q[s] = sequence[s]
  BY <1>1, <1>3, <1>4
<1>9. q \in [1..MaxStatements -> Nat]
  <2> SUFFICES ASSUME NEW s \in 1..MaxStatements PROVE q[s] \in Nat
    BY <1>4
  <2>1. sequence[s] \in Nat
    OBVIOUS
  <2>2. QED
    BY <1>1, <1>8, <2>1
<1>10. SequenceOf(p, q, from, to)
  <2> SUFFICES ASSUME NEW s \in ReturnsIn(p, from, to)
               PROVE  q[s] \in Nat /\ \A t \in ReturnsIn(p, from, to) : s < t => q[s] < q[t]
    BY DEF SequenceOf
  <2>1. s \in 1..MaxStatements /\ q[s] \in Nat
    BY <1>5, <1>9
  <2>2. ASSUME NEW t \in ReturnsIn(p, from, to), s < t
        PROVE  q[s] < q[t]
    <3>1. CASE s \in A /\ t \in A
      BY <1>5, <1>6, <1>7, <1>8, <2>2, <3>1
    <3>2. CASE s \in B /\ t \in B
      <4>1. sequence[s] \in Nat /\ sequence[t] \in Nat /\ sequence[s] < sequence[t]
        BY <1>6, <2>2, <3>2
      <4>2. q[s] = sequence[s] + m + 1 /\ q[t] = sequence[t] + m + 1
        BY <1>5, <1>8, <3>2
      <4>3. QED
        BY <4>1, <4>2
    <3>3. CASE s \in A /\ t \in B
      <4>1. sequence[s] \in Nat /\ sequence[t] \in Nat /\ sequence[s] <= m
        BY <1>1, <1>6, <3>3
      <4>2. q[s] = sequence[s] /\ q[t] = sequence[t] + m + 1
        BY <1>5, <1>7, <1>8, <3>3
      <4>3. QED
        BY <4>1, <4>2
    <3>4. ~(s \in B /\ t \in A)
      BY <1>5, <2>2
    <3>5. QED
      BY <1>5, <3>1, <3>2, <3>3, <3>4
  <2>3. QED
    BY <2>1, <2>2
<1>11. QED
  BY <1>9, <1>10 DEF q

\* A finite set of numbers can be enumerated in increasing order.
LEMMA Enumeration ==
    ASSUME NEW b \in Nat, NEW Q \in SUBSET (0..b)
    PROVE  \E q \in [1..Cardinality(Q) -> Q] : \A i, j \in DOMAIN q : i < j => q[i] < q[j]
<1> DEFINE Ordered(R) == \E q \in [1..Cardinality(R) -> R] : \A i, j \in DOMAIN q : i < j => q[i] < q[j]
           Bad == {R \in SUBSET (0..b) : ~Ordered(R)}
           Sizes == {Cardinality(R) : R \in Bad}
<1>1. \A R \in SUBSET (0..b) : IsFiniteSet(R) /\ Cardinality(R) \in Nat
  <2>1. IsFiniteSet(0..b)
    BY FS_Interval
  <2>2. QED
    BY <2>1, FS_Subset, FS_CardinalityType
<1> SUFFICES ASSUME Bad # {} PROVE FALSE
  OBVIOUS
<1> HIDE DEF Ordered
<1>2. Sizes \in SUBSET Nat /\ Sizes # {}
  BY <1>1
<1>3. PICK k \in Sizes : \A x \in Sizes : k <= x
  BY <1>2, SmallestOf
<1>4. PICK R \in Bad : Cardinality(R) = k
  BY <1>3
<1>5. k \in Nat /\ IsFiniteSet(R) /\ R \in SUBSET Nat /\ R \in SUBSET (0..b) /\ ~Ordered(R)
  BY <1>1, <1>4
<1> HIDE DEF Bad, Sizes
<1>6. CASE R = {}
  <2>1. k = 0
    BY <1>4, <1>6, FS_EmptySet
  <2>2. 1..0 = {}
    OBVIOUS
  <2> DEFINE q == [i \in 1..0 |-> i]
  <2>3. q \in [1..0 -> R] /\ \A i, j \in DOMAIN q : i < j => q[i] < q[j]
    BY <2>2
  <2>4. Ordered(R)
    BY <1>4, <2>1, <2>3 DEF Ordered
  <2>5. QED
    BY <1>5, <2>4
<1>7. CASE R # {}
  <2>0. \A x \in R : x <= b
    BY <1>5
  <2>1. PICK m \in Nat : m = Max(R) /\ m \in R /\ \A x \in R : x <= m
    BY <2>0, <1>5, <1>7, GreatestOf
  <2> DEFINE T == R \ {m}
  <2>2. Cardinality(T) = k - 1
    BY <1>4, <1>5, <2>1, FS_RemoveElement
  <2>3. T \in SUBSET (0..b)
    BY <1>5
  <2>4. k - 1 \in Nat
    BY <1>1, <2>2, <2>3
  <2>5. Ordered(T)
    <3> SUFFICES ASSUME ~Ordered(T) PROVE FALSE
      OBVIOUS
    <3>1. T \in Bad
      BY <2>3 DEF Bad
    <3>2. k - 1 \in Sizes
      BY <2>2, <3>1 DEF Sizes
    <3>3. k <= k - 1
      BY <1>3, <3>2
    <3>4. QED
      BY <1>5, <3>3
  <2>6. PICK q \in [1..(k - 1) -> T] : \A i, j \in DOMAIN q : i < j => q[i] < q[j]
    BY <2>2, <2>5 DEF Ordered
  <2> DEFINE r == [i \in 1..k |-> IF i = k THEN m ELSE q[i]]
  <2>7. \A i \in 1..k : i # k => i \in 1..(k - 1)
    BY <1>5
  <2>8. \A i \in 1..(k - 1) : q[i] \in R /\ q[i] \in Nat /\ q[i] < m
    <3>1. \A x \in T : x \in R /\ x \in Nat /\ x < m
      BY <1>5, <2>1
    <3> HIDE DEF T
    <3>2. QED
      BY <2>6, <3>1
  <2>9. r \in [1..k -> R]
    BY <2>1, <2>7, <2>8
  <2>10. ASSUME NEW i \in 1..k, NEW j \in 1..k, i < j
         PROVE  r[i] < r[j]
    <3>1. i \in 1..(k - 1) /\ r[i] = q[i]
      BY <1>5, <2>10
    <3>2. CASE j = k
      BY <2>8, <3>1, <3>2
    <3>3. CASE j # k
      <4>1. j \in 1..(k - 1) /\ r[j] = q[j]
        BY <2>7, <3>3
      <4>2. QED
        BY <2>6, <2>10, <3>1, <4>1
    <3>4. QED
      BY <3>2, <3>3
  <2>11. \A i, j \in DOMAIN r : i < j => r[i] < r[j]
    BY <2>10
  <2> HIDE DEF r
  <2>12. Ordered(R)
    BY <1>4, <2>9, <2>11 DEF Ordered
  <2>13. QED
    BY <1>5, <2>12
<1>8. QED
  BY <1>6, <1>7

\* get_returns(): the Returns of the block, each once, in the order of their statements.
LEMMA ReturnsSorted ==
    ASSUME NEW k \in Nat, NEW l \in Nat, NodesOf(program, block, k, l),
           SequenceOf(program, sequence', k, l),
           NEW c \in Nat, Cardinality(ReturnsIn(program, k, l)) = c
    PROVE  /\ ReturnsInOrder \in [1..c -> ReturnsIn(program, k, l)]
           /\ \A i, j \in 1..c : i < j => ReturnsInOrder[i] < ReturnsInOrder[j]
           /\ \A s \in ReturnsIn(program, k, l) : \E i \in 1..c : ReturnsInOrder[i] = s
<1> DEFINE R == ReturnsIn(program, k, l)
           Sorted(q) == \A i, j \in DOMAIN q : i < j => q[i] # q[j] /\ sequence'[q[i]] <= sequence'[q[j]]
<1>1. {r.at : r \in OfKind(block, "return")} = R
  <2>1. /\ \A r \in OfKind(block, "return") : r.at \in R
        /\ \A s : Return(s) \in block.nodes <=> s \in R
    BY ReturnsAre
  <2>2. \A s \in R : Return(s) \in OfKind(block, "return") /\ Return(s).at = s
    BY <2>1, Kinds DEF OfKind
  <2> HIDE DEF R
  <2>3. QED
    BY <2>1, <2>2
<1>2. ReturnsInOrder = CHOOSE q \in [1..c -> R] : Sorted(q)
  BY <1>1 DEF ReturnsInOrder
<1>3. R \in SUBSET Nat /\ R \in SUBSET (0..l) /\ IsFiniteSet(R)
  <2>1. R \in SUBSET (k..l) /\ IsFiniteSet(R)
    BY ReturnsFacts
  <2>2. QED
    BY <2>1
<1>4. \A s, t \in R : s < t => sequence'[s] <= sequence'[t] /\ ~(sequence'[t] <= sequence'[s])
  <2> SUFFICES ASSUME NEW s \in R, NEW t \in R, s < t
               PROVE  sequence'[s] <= sequence'[t] /\ ~(sequence'[t] <= sequence'[s])
    OBVIOUS
  <2>1. sequence'[s] \in Nat /\ sequence'[t] \in Nat /\ sequence'[s] < sequence'[t]
    BY DEF SequenceOf
  <2>2. QED
    BY <2>1
<1>5. Cardinality(R) = c
  OBVIOUS
<1> HIDE DEF R
<1>6. \E q \in [1..c -> R] : Sorted(q)
  <2>1. PICK q \in [1..Cardinality(R) -> R] : \A i, j \in DOMAIN q : i < j => q[i] < q[j]
    BY <1>3, Enumeration
  <2>2. \A i \in DOMAIN q : q[i] \in R /\ q[i] \in Nat
    BY <1>3
  <2>3. Sorted(q)
    BY <1>4, <2>1, <2>2
  <2>4. QED
    BY <1>5, <2>1, <2>3
<1> HIDE DEF Sorted
<1>7. PICK q \in [1..c -> R] : q = ReturnsInOrder /\ Sorted(q)
  BY <1>2, <1>6
<1>8. ASSUME NEW i \in 1..c, NEW j \in 1..c, i < j
      PROVE  q[i] < q[j]
  <2>1. q[i] # q[j] /\ sequence'[q[i]] <= sequence'[q[j]]
    BY <1>7, <1>8 DEF Sorted
  <2>2. q[i] \in R /\ q[j] \in R /\ q[i] \in Nat /\ q[j] \in Nat
    BY <1>3, <1>7
  <2>3. ~(q[j] < q[i])
    BY <1>4, <2>1, <2>2
  <2>4. QED
    BY <2>1, <2>2, <2>3
<1>9. \A s \in R : \E i \in 1..c : q[i] = s
  <2>1. q \in Injection(1..c, R)
    <3>1. \A i, j \in 1..c : i # j => q[i] # q[j]
      <4> SUFFICES ASSUME NEW i \in 1..c, NEW j \in 1..c, i < j PROVE q[i] # q[j]
        OBVIOUS
      <4>1. q[i] < q[j] /\ q[i] \in Nat /\ q[j] \in Nat
        BY <1>3, <1>7, <1>8
      <4>2. QED
        BY <4>1
    <3>2. QED
      BY <1>7, <3>1 DEF Injection, IsInjective
  <2>2. Cardinality(1..c) = c
    <3>1. Cardinality(1..c) = IF 1 > c THEN 0 ELSE c - 1 + 1
      BY FS_Interval
    <3>2. QED
      BY <3>1
  <2>3. q \in Surjection(1..c, R)
    BY <1>3, <1>5, <2>1, <2>2, FS_Injection
  <2>4. QED
    BY <2>3 DEF Surjection
<1>10. QED
  BY <1>7, <1>8, <1>9 DEF R

LEMMA ShownInit == Init => ShownInv
<1> SUFFICES ASSUME Init PROVE ShownInv
  OBVIOUS
<1>1. /\ program = <<>> /\ executed = 0 /\ shown = <<>>
      /\ sequence = [s \in 1..MaxStatements |-> 0]
  BY DEF Init
<1>2. ReturnsIn(program, 1, 0) = {} /\ Len(program) = 0
  BY <1>1 DEF ReturnsIn
<1>3. SequenceOf(program, sequence, 1, 0)
  BY <1>2 DEF SequenceOf
<1>4. shown \in Seq(1..executed) /\ DOMAIN shown = {}
  BY <1>1
<1>5. ToSet(shown) = {}
  BY <1>4 DEF ToSet
<1>6. executed + 1 = 1
  BY <1>1
<1>7. QED
  BY <1>1, <1>2, <1>3, <1>4, <1>5, <1>6 DEF ShownInv

\* Every block continues the results where the last one ended.
LEMMA ShownExecute == IInv /\ ShownInv /\ Execute => ShownInv'
<1> SUFFICES ASSUME IInv, ShownInv, Execute PROVE ShownInv'
  OBVIOUS
<1>1. PICK l \in Nat : Len(program) = l /\ program \in Seq(Statements) /\ l <= MaxStatements
  BY DEF IInv, CountInv
<1>2. PICK e \in Nat : executed = e /\ e <= l
  BY <1>1 DEF IInv, CountInv
<1>3. PICK one \in Nat : 1 = one
  OBVIOUS
<1>4. PICK k \in Nat : e + 1 = k
  OBVIOUS
<1>5. NodesOf(program, session, one, e) /\ NodesOf(program, block, e + 1, l)
  BY <1>1, <1>2, <1>3 DEF IInv, GraphInv
<1>6. /\ sequence \in [1..MaxStatements -> Nat]
      /\ SequenceOf(program, sequence, one, e)
      /\ SequenceOf(program, sequence, e + 1, l)
      /\ shown \in Seq(1..e)
      /\ \A i, j \in DOMAIN shown : i < j => shown[i] < shown[j]
      /\ ToSet(shown) = ReturnsIn(program, one, e)
  BY <1>1, <1>2, <1>3 DEF ShownInv
<1>7. /\ sequence' = ShiftedSequences(session, block)
      /\ shown' = shown \o ReturnsInOrder
      /\ executed' = Len(program) /\ program' = program
  BY DEF Execute
<1>8. /\ sequence' \in [1..MaxStatements -> Nat]
      /\ SequenceOf(program, sequence', one, l)
  <2>1. one <= e + 1 /\ e <= l /\ l <= MaxStatements /\ 1 <= one
    BY <1>1, <1>2, <1>3
  <2>2. QED
    BY <1>5, <1>6, <1>7, <2>1, MergedSequences
<1>9. /\ \A s : s \in ReturnsIn(program, k, l) => s \in ReturnsIn(program, one, l) /\ e < s /\ s \in 1..l
      /\ \A s : s \in ReturnsIn(program, one, e) => s \in ReturnsIn(program, one, l) /\ s <= e /\ s \in 1..l
      /\ \A s : s \in ReturnsIn(program, one, l) =>
            s \in ReturnsIn(program, one, e) \/ s \in ReturnsIn(program, k, l)
  BY <1>2, <1>3, <1>4 DEF ReturnsIn
<1>10. SequenceOf(program, sequence', k, l)
  BY <1>8, <1>9 DEF SequenceOf
<1> DEFINE R == ReturnsIn(program, k, l)
<1>11. PICK c \in Nat : Cardinality(R) = c
  BY ReturnsFacts, FS_CardinalityType
<1>12. PICK q : ReturnsInOrder = q
  OBVIOUS
<1>13. /\ q \in [1..c -> R]
       /\ \A i, j \in 1..c : i < j => q[i] < q[j]
       /\ \A s \in R : \E i \in 1..c : q[i] = s
  <2>1. NodesOf(program, block, k, l)
    BY <1>4, <1>5
  <2>2. /\ ReturnsInOrder \in [1..c -> R]
        /\ \A i, j \in 1..c : i < j => ReturnsInOrder[i] < ReturnsInOrder[j]
        /\ \A s \in R : \E i \in 1..c : ReturnsInOrder[i] = s
    BY <1>10, <1>11, <2>1, ReturnsSorted
  <2>3. QED
    BY <1>12, <2>2
<1> HIDE DEF R
<1>14. PICK m \in Nat : Len(shown) = m /\ DOMAIN shown = 1..m
  BY <1>6
<1>15. \A s \in R : e < s /\ s \in 1..l /\ s \in Nat
  BY <1>9 DEF R
<1>16. q \in Seq(1..l) /\ Len(q) = c
  BY <1>13, <1>15
<1>17. \A i \in 1..m : shown[i] \in 1..e
  BY <1>6, <1>14
<1>18. shown \in Seq(1..l)
  <2>1. \A i \in 1..m : shown[i] \in 1..l
    BY <1>2, <1>17
  <2>2. QED
    BY <1>6, <1>14, <2>1
<1>19. /\ shown' \in Seq(1..l)
       /\ Len(shown') = m + c
       /\ \A i \in 1..(m + c) : shown'[i] = IF i <= m THEN shown[i] ELSE q[i - m]
  BY <1>7, <1>12, <1>14, <1>16, <1>18, ConcatProperties
<1>20. DOMAIN shown' = 1..(m + c)
  BY <1>19
<1>21. ASSUME NEW i \in 1..(m + c), NEW j \in 1..(m + c), i < j
       PROVE  shown'[i] < shown'[j]
  <2>1. CASE j <= m
    <3>1. i \in 1..m /\ j \in 1..m /\ i <= m
      BY <1>21, <2>1
    <3>2. shown'[i] = shown[i] /\ shown'[j] = shown[j]
      BY <1>19, <2>1, <3>1
    <3>3. shown[i] < shown[j]
      BY <1>6, <1>14, <1>21, <3>1
    <3>4. QED
      BY <3>2, <3>3
  <2>2. CASE i <= m /\ m < j
    <3>1. shown'[i] \in 1..e
      <4>1. i \in 1..m /\ shown'[i] = shown[i]
        BY <1>19, <2>2
      <4>2. QED
        BY <1>17, <4>1
    <3>2. j - m \in 1..c /\ shown'[j] = q[j - m]
      BY <1>19, <2>2
    <3>3. shown'[j] \in Nat /\ e < shown'[j]
      BY <1>13, <1>15, <3>2
    <3>4. QED
      BY <3>1, <3>3
  <2>3. CASE m < i
    <3>1. i - m \in 1..c /\ j - m \in 1..c /\ i - m < j - m
      BY <1>21, <2>3
    <3>2. shown'[i] = q[i - m] /\ shown'[j] = q[j - m]
      BY <1>19, <1>21, <2>3
    <3>3. QED
      BY <1>13, <3>1, <3>2
  <2>4. QED
    BY <1>21, <2>1, <2>2, <2>3
<1>22. ToSet(shown') = ReturnsIn(program, one, l)
  <2>1. ToSet(shown') = {shown'[i] : i \in 1..(m + c)}
    BY <1>20 DEF ToSet
  <2>2. \A s : s \in ReturnsIn(program, one, e) <=> \E i \in 1..m : shown[i] = s
    BY <1>6, <1>14 DEF ToSet
  <2>3. ASSUME NEW i \in 1..(m + c) PROVE shown'[i] \in ReturnsIn(program, one, l)
    <3>1. CASE i <= m
      BY <1>9, <1>19, <2>2, <3>1
    <3>2. CASE m < i
      <4>1. i - m \in 1..c /\ shown'[i] = q[i - m]
        BY <1>19, <3>2
      <4>2. QED
        BY <1>9, <1>13, <4>1 DEF R
    <3>3. QED
      BY <3>1, <3>2
  <2>4. ASSUME NEW s \in ReturnsIn(program, one, l)
        PROVE  \E i \in 1..(m + c) : shown'[i] = s
    <3>1. CASE s \in ReturnsIn(program, one, e)
      <4>1. PICK i \in 1..m : shown[i] = s
        BY <2>2, <3>1
      <4>2. i \in 1..(m + c) /\ shown'[i] = s
        BY <1>19, <4>1
      <4>3. QED
        BY <4>2
    <3>2. CASE s \in R
      <4>1. PICK i \in 1..c : q[i] = s
        BY <1>13, <3>2
      <4>2. m + i \in 1..(m + c) /\ ~(m + i <= m) /\ (m + i) - m = i
        OBVIOUS
      <4>3. shown'[m + i] = s
        BY <1>19, <4>1, <4>2
      <4>4. QED
        BY <4>2, <4>3
    <3>3. QED
      BY <1>9, <3>1, <3>2 DEF R
  <2>5. QED
    BY <2>1, <2>3, <2>4
<1>23. SequenceOf(program', sequence', executed' + 1, Len(program'))
  <2>1. ReturnsIn(program, l + 1, l) = {}
    BY DEF ReturnsIn
  <2>2. QED
    BY <1>1, <1>7, <2>1 DEF SequenceOf
<1>24. /\ SequenceOf(program', sequence', 1, executed')
       /\ shown' \in Seq(1..executed')
       /\ ToSet(shown') = ReturnsIn(program', 1, executed')
  BY <1>1, <1>3, <1>7, <1>8, <1>19, <1>22
<1>25. \A i, j \in DOMAIN shown' : i < j => shown'[i] < shown'[j]
  BY <1>20, <1>21
<1>26. QED
  BY <1>8, <1>23, <1>24, <1>25 DEF ShownInv

\* A statement that is only composed shows nothing, and changes no earlier sequence.
LEMMA ShownCompose ==
    ASSUME NEW st \in Statements, IInv, ShownInv, Compose(st)
    PROVE  ShownInv'
<1>1. PICK l \in Nat : Len(program) = l /\ program \in Seq(Statements)
  BY DEF IInv, CountInv
<1>2. PICK e \in Nat : executed = e /\ e <= l
  BY <1>1 DEF IInv, CountInv
<1>3. PICK one \in Nat : 1 = one
  OBVIOUS
<1>4. PICK p \in Seq(Statements) : p = Append(program, st)
  <2>1. Append(program, st) \in Seq(Statements)
    BY <1>1
  <2>2. QED
    BY <2>1
<1>5. Len(p) = l + 1 /\ p[l + 1] = st /\ \A s \in 1..l : p[s] = program[s]
  BY <1>1, <1>4
<1>0. PICK a \in Nat, b \in Nat : e + 1 = a /\ l + 1 = b
  OBVIOUS
<1> DEFINE h == Compiled(l + 1, st)
<1>6. /\ Len(program) < MaxStatements
      /\ program' = p
      /\ sequence' = ShiftedSequences(block, h)
      /\ executed' = executed /\ shown' = shown
  BY <1>1, <1>4 DEF Compose
<1>7. l < MaxStatements /\ MaxStatements \in Nat /\ b \in Nat /\ a \in Nat /\ l <= b
      /\ a <= b /\ b <= MaxStatements /\ 1 <= a
  BY <1>0, <1>1, <1>2, <1>6, HuntAssumption
<1>8. /\ sequence \in [1..MaxStatements -> Nat]
      /\ SequenceOf(program, sequence, one, e)
      /\ SequenceOf(program, sequence, a, l)
      /\ shown \in Seq(1..e)
      /\ \A i, j \in DOMAIN shown : i < j => shown[i] < shown[j]
      /\ ToSet(shown) = ReturnsIn(program, one, e)
  BY <1>0, <1>1, <1>2, <1>3 DEF ShownInv
<1>9. ReturnsIn(p, one, e) = ReturnsIn(program, one, e) /\ ReturnsIn(p, a, l) = ReturnsIn(program, a, l)
  <2>1. \A s : s \in one..e => s \in 1..l
    BY <1>2, <1>3
  <2>2. \A s : s \in a..l => s \in 1..l
    BY <1>7
  <2>3. QED
    BY <1>5, <2>1, <2>2 DEF ReturnsIn
<1>10. SequenceOf(p, sequence, one, e) /\ SequenceOf(p, sequence, a, l)
  BY <1>8, <1>9 DEF SequenceOf
<1>11. GraphInv(p, version, block, a, l)
  <2>1. /\ Len(program) <= Len(p) /\ l <= Len(program)
        /\ \A s \in 1..Len(program) : p[s] = program[s]
    BY <1>1, <1>5
  <2>2. GraphInv(program, version, block, a, l)
    BY <1>0, <1>1, <1>2 DEF IInv
  <2>3. QED
    BY <1>1, <1>4, <1>7, <2>1, <2>2, StillTheGraph
<1>12. GraphInv(p, version, h, l + 1, b)
  <2>1. version[b] = 0
    BY <1>0, <1>1, <1>7 DEF IInv, CountInv
  <2>2. b = Len(p) /\ 1 <= b
    BY <1>0, <1>5
  <2>3. h = Compiled(b, p[b])
    BY <1>0, <1>5
  <2> HIDE DEF h
  <2>4. GraphInv(p, version, h, b, b)
    BY <1>7, <2>1, <2>2, <2>3, CompiledGraph
  <2>5. QED
    BY <1>0, <2>4
<1>13. SequenceOf(p, sequence, l + 1, b)
  <2>1. \A s, t \in (l + 1)..b : ~(s < t) /\ s \in 1..MaxStatements
    BY <1>0, <1>7
  <2>2. \A s \in (l + 1)..b : sequence[s] \in Nat
    BY <1>8, <2>1
  <2>3. QED
    BY <2>1, <2>2 DEF SequenceOf, ReturnsIn
<1> HIDE DEF h
<1>14. /\ sequence' \in [1..MaxStatements -> Nat]
       /\ SequenceOf(p, sequence', a, b)
       /\ \A s \in 1..l : sequence'[s] = sequence[s]
  <2>1. NodesOf(p, block, a, l) /\ NodesOf(p, h, l + 1, b)
    BY <1>11, <1>12 DEF GraphInv
  <2>2. a <= l + 1
    BY <1>0, <1>7
  <2>3. /\ ShiftedSequences(block, h) \in [1..MaxStatements -> Nat]
        /\ SequenceOf(p, ShiftedSequences(block, h), a, b)
        /\ \A s \in 1..l : ShiftedSequences(block, h)[s] = sequence[s]
    <3>1. l <= b /\ b <= MaxStatements /\ 1 <= a
      BY <1>7
    <3>2. /\ sequence \in [1..MaxStatements -> Nat]
          /\ SequenceOf(p, sequence, a, l) /\ SequenceOf(p, sequence, l + 1, b)
      BY <1>8, <1>10, <1>13
    <3>3. SequenceOf(p, ShiftedSequences(block, h), a, b)
      BY <2>1, <2>2, <3>1, <3>2, MergedSequences
    <3>4. ShiftedSequences(block, h) \in [1..MaxStatements -> Nat]
      BY <2>1, <2>2, <3>1, <3>2, MergedSequences
    <3>5. \A s \in 1..l : ShiftedSequences(block, h)[s] = sequence[s]
      <4> SUFFICES ASSUME NEW s \in 1..l PROVE ShiftedSequences(block, h)[s] = sequence[s]
        OBVIOUS
      <4>1. Return(s) \notin h.nodes
        <5>1. \A x \in h.nodes : x.kind = "return" => x = Return(l + 1)
          BY DEF h, Compiled, Reference, Source, Variable
        <5>2. s # l + 1
          OBVIOUS
        <5>3. QED
          BY <5>1, <5>2, Kinds
      <4>2. s \in 1..MaxStatements
        BY <1>7
      <4>3. QED
        BY <3>2, <4>1, <4>2 DEF ShiftedSequences
    <3>6. QED
      BY <3>3, <3>4, <3>5
  <2>4. QED
    BY <1>6, <2>3
<1>15. SequenceOf(p, sequence', one, e)
  <2>1. \A s \in ReturnsIn(p, one, e) : s \in 1..l
    BY <1>2, <1>3 DEF ReturnsIn
  <2>2. \A s \in ReturnsIn(p, one, e) : sequence'[s] = sequence[s]
    BY <1>14, <2>1
  <2>3. QED
    BY <1>10, <2>2 DEF SequenceOf
<1>16. SequenceOf(program', sequence', 1, executed') /\ ToSet(shown') = ReturnsIn(program', 1, executed')
  BY <1>2, <1>3, <1>6, <1>8, <1>9, <1>15
<1>17. SequenceOf(program', sequence', executed' + 1, Len(program'))
  BY <1>0, <1>2, <1>5, <1>6, <1>14
<1>18. shown' \in Seq(1..executed') /\ \A i, j \in DOMAIN shown' : i < j => shown'[i] < shown'[j]
  BY <1>2, <1>6, <1>8
<1>19. QED
  BY <1>14, <1>16, <1>17, <1>18 DEF ShownInv

LEMMA ShownNext == IInv /\ ShownInv /\ [Next]_vars => ShownInv'
<1> SUFFICES ASSUME IInv, ShownInv, [Next]_vars PROVE ShownInv'
  OBVIOUS
<1>1. CASE Execute
  BY <1>1, ShownExecute
<1>2. CASE \E st \in Statements : Compose(st)
  BY <1>2, ShownCompose
<1>3. CASE UNCHANGED vars
  <2>1. program' = program /\ executed' = executed /\ sequence' = sequence /\ shown' = shown
    BY <1>3 DEF vars
  <2>2. QED
    BY <2>1 DEF ShownInv
<1>4. QED
  BY <1>1, <1>2, <1>3 DEF Next

\* Results are shown in the order of the statements, whatever the split into blocks,
\* and every executed DISP or EXPLAIN has been shown.
THEOREM ResultsInOrder == Spec => []ShownInOrder
<1>1. ShownInv => ShownInOrder
  <2> SUFFICES ASSUME ShownInv PROVE ShownInOrder
    OBVIOUS
  <2>1. /\ SequenceOf(program, sequence, 1, executed)
        /\ \A i, j \in DOMAIN shown : i < j => shown[i] < shown[j]
        /\ ToSet(shown) = ReturnsIn(program, 1, executed)
    BY DEF ShownInv
  <2>2. \A i \in DOMAIN shown : shown[i] \in ReturnsIn(program, 1, executed)
    BY <2>1 DEF ToSet
  <2>3. \A i, j \in DOMAIN shown : i < j => sequence[shown[i]] < sequence[shown[j]]
    BY <2>1, <2>2 DEF SequenceOf
  <2>4. QED
    BY <2>1, <2>3 DEF ShownInOrder, ReturnsIn
<1>2. QED
  BY <1>1, InitInv, NextInv, ShownInit, ShownNext, PTL DEF Spec

===============================================================================
