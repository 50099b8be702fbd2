--------------------------- MODULE HuntSessionProofs ---------------------------
(***************************************************************************)
(* Proofs about HuntSession for any number of statements, displays and     *)
(* interfaces, and for graphs of any shape.                                *)
(***************************************************************************)
EXTENDS HuntSession, FiniteSetTheorems, WellFoundedInduction, TLAPS

-----------------------------------------------------------------------------
(* Numbers, and searches. *)

\* A set of numbers has a smallest one.
LEMMA SmallestOf ==
    ASSUME NEW S \in SUBSET Nat, S # {}
    PROVE  \E x \in S : \A y \in S : x <= y
<1> DEFINE R == OpToRel(<, Nat)
<1>1. IsWellFoundedOn(R, Nat)
  BY NatLessThanWellFounded
<1>2. \A x, y \in Nat : <<x, y>> \in R <=> x < y
  BY DEF OpToRel
<1> HIDE DEF R
<1>3. PICK x \in S : \A y \in S : ~(<<y, x>> \in R)
  BY <1>1, WFMin
<1>4. \A y \in S : ~(y < x) /\ y \in Nat /\ x \in Nat
  BY <1>2, <1>3
<1>5. \A y \in S : x <= y
  BY <1>4
<1>6. QED
  BY <1>5

\* Induction, for a set instead of a predicate.
LEMMA UpTo ==
    ASSUME NEW S, NEW top \in Nat, 0 \in S, \A n \in Nat : n < top /\ n \in S => n + 1 \in S
    PROVE  \A n \in 0..top : n \in S
<1> DEFINE Bad == {n \in 0..top : n \notin S}
<1> SUFFICES ASSUME Bad # {} PROVE FALSE
  OBVIOUS
<1>0. Bad \in SUBSET Nat
  OBVIOUS
<1>1. PICK n \in Bad : \A m \in Bad : n <= m
  BY <1>0, SmallestOf
<1>2. n \in Nat /\ n # 0 /\ n <= top /\ n \notin S
  BY <1>1
<1>3. n - 1 \in Nat /\ n - 1 < top /\ n - 1 \in 0..top /\ (n - 1) + 1 = n
  BY <1>2
<1>4. n - 1 \notin Bad
  BY <1>1, <1>2, <1>3
<1>5. n - 1 \in S
  BY <1>3, <1>4
<1>6. QED
  BY <1>2, <1>3, <1>5

\* A set whose members have numbers has a member with the smallest one.
LEMMA LowestOf ==
    ASSUME NEW S, NEW h, \A n \in S : h[n] \in Nat, S # {}
    PROVE  \E n \in S : \A m \in S : h[n] <= h[m]
<1> DEFINE H == {h[n] : n \in S}
<1>1. H \in SUBSET Nat /\ H # {}
  OBVIOUS
<1>2. PICK x \in H : \A y \in H : x <= y
  BY <1>1, SmallestOf
<1>3. PICK n \in S : x = h[n]
  OBVIOUS
<1>4. \A m \in S : h[n] <= h[m]
  BY <1>2, <1>3
<1>5. QED
  BY <1>4

\* The number of steps a search takes at most.
Longest == 3 * StatementCount + 1

LEMMA LongestIsNat == Longest \in Nat /\ 3 * StatementCount + 2 = Longest + 1
  BY SessionAssumption DEF Longest

\* What one step of a search gives.
LEMMA FurtherFacts ==
    ASSUME NEW step, NEW search
    PROVE  /\ Further(step, search).all = search.all \cup UNION {step[n] : n \in search.last}
           /\ Further(step, search).last = (UNION {step[n] : n \in search.last}) \ search.all
<1> DEFINE new == (UNION {step[n] : n \in search.last}) \ search.all
<1>1. Further(step, search) = [all |-> search.all \cup new, last |-> new]
  BY Zenon DEF Further
<1>2. /\ Further(step, search).all = search.all \cup new
      /\ Further(step, search).last = new
  <2> HIDE DEF new
  <2>1. QED
    BY <1>1
<1>3. search.all \cup new = search.all \cup UNION {step[n] : n \in search.last}
  OBVIOUS
<1>4. QED
  BY <1>2, <1>3, Zenon

\* What a search does: it starts from ns, and goes on at most Longest times.
LEMMA SearchesUnfold ==
    ASSUME NEW step, NEW ns
    PROVE  \E f : /\ Closure(step, ns) = UNION {search.all : search \in f[Longest]}
                  /\ f[0] = {[all |-> ns, last |-> ns]}
                  /\ \A d \in 0..Longest : d # 0 => f[d] = {Further(step, search) : search \in f[d - 1]}
<1> DEFINE First == {[all |-> ns, last |-> ns]}
           Grown(s) == {Further(step, search) : search \in s}
           Level(f, n) == IF n = 0 THEN First ELSE Grown(f[n - 1])
           Good == {k \in Nat : \E f : f = [n \in 0..k |-> Level(f, n)]}
           top == Longest
<1>0. top \in Nat
  BY LongestIsNat
<1>1. 0 \in Good
  <2> DEFINE f == [n \in 0..0 |-> First]
  <2>1. f = [n \in 0..0 |-> Level(f, n)]
    OBVIOUS
  <2> HIDE DEF f, Level
  <2>2. 0 \in {k \in Nat : \E h : h = [n \in 0..k |-> Level(h, n)]}
    BY <2>1
  <2>3. QED
    BY <2>2
<1>2. \A k \in Nat : k < top /\ k \in Good => k + 1 \in Good
  <2> SUFFICES ASSUME NEW k \in Nat, k \in Good PROVE k + 1 \in Good
    OBVIOUS
  <2>1. PICK f : f = [n \in 0..k |-> Level(f, n)]
    OBVIOUS
  <2> DEFINE g == [n \in 0..(k + 1) |-> Level(f, n)]
  <2>2. \A n \in 0..(k + 1) : n # 0 => n - 1 \in 0..k /\ n - 1 \in 0..(k + 1)
    OBVIOUS
  <2> HIDE DEF Level
  <2>3. \A n \in 0..k : f[n] = Level(f, n) /\ n \in 0..(k + 1)
    BY <2>1
  <2> USE DEF Level
  <2> HIDE DEF Grown, First
  <2>4. \A n \in 0..(k + 1) : Level(f, n) = Level(g, n)
    BY <2>2, <2>3
  <2>5. g = [n \in 0..(k + 1) |-> Level(g, n)]
    BY <2>4
  <2> HIDE DEF g, Level
  <2>6. k + 1 \in {i \in Nat : \E h : h = [n \in 0..i |-> Level(h, n)]}
    BY <2>5
  <2>7. QED
    BY <2>6
<1>3. top \in Good
  <2> HIDE DEF Good
  <2>1. \A n \in 0..top : n \in Good
    BY <1>0, <1>1, <1>2, UpTo
  <2>2. QED
    BY <1>0, <2>1
<1> DEFINE t == CHOOSE f : f = [d \in 0..(3 * StatementCount + 1) |->
                  IF d = 0 THEN {[all |-> ns, last |-> ns]}
                  ELSE {Further(step, search) : search \in f[d - 1]}]
<1>4. t = [n \in 0..top |-> Level(t, n)]
  <2>1. PICK h : h = [n \in 0..top |-> Level(h, n)]
    BY <1>3
  <2>2. t = [d \in 0..(3 * StatementCount + 1) |->
                  IF d = 0 THEN {[all |-> ns, last |-> ns]}
                  ELSE {Further(step, search) : search \in t[d - 1]}]
    BY <2>1, Zenon DEF Longest
  <2>3. QED
    BY <2>2, Zenon DEF Longest
<1>5. Closure(step, ns) = UNION {search.all : search \in t[Longest]}
  BY Zenon DEF Closure, Longest
<1> HIDE DEF t
<1>6. \A n \in 0..top : t[n] = Level(t, n)
  <2> HIDE DEF Level
  <2>1. QED
    BY <1>4
<1>7. 0 \in 0..top
  BY <1>0
<1>8. QED
  <2> HIDE DEF Grown, First
  <2>1. t[0] = First
    BY <1>6, <1>7
  <2>2. \A d \in 0..Longest : d # 0 => t[d] = Grown(t[d - 1])
    BY <1>6
  <2> USE DEF Grown, First
  <2>3. QED
    BY <1>5, <2>1, <2>2, Zenon

\* A search that goes up (or down) through numbered nodes reaches everything there is
\* to reach: what is left to go on from at the end has the highest number.
LEMMA ClosureFacts ==
    ASSUME NEW S, NEW step \in [S -> SUBSET S], NEW ns \in SUBSET S,
           NEW h \in [S -> 1..(Longest + 1)],
           \A n \in S : \A m \in step[n] : h[n] < h[m]
    PROVE  LET reached == Closure(step, ns)
           IN  /\ ns \subseteq reached
               /\ reached \subseteq S
               /\ \A n \in reached : step[n] \subseteq reached
<1> DEFINE reached == Closure(step, ns)
<1>0. Longest \in Nat
  BY LongestIsNat
<1>1. PICK f : /\ Closure(step, ns) = UNION {search.all : search \in f[Longest]}
               /\ f[0] = {[all |-> ns, last |-> ns]}
               /\ \A d \in 0..Longest : d # 0 => f[d] = {Further(step, search) : search \in f[d - 1]}
  BY SearchesUnfold
<1> DEFINE Fine(s, d) == /\ ns \subseteq s.all
                         /\ s.all \subseteq S
                         /\ s.last \subseteq s.all
                         /\ \A n \in s.all \ s.last : step[n] \subseteq s.all
                         /\ \A n \in s.last : h[n] >= d + 1
           Right == {d \in Nat : \E s : f[d] = {s} /\ Fine(s, d)}
<1>2. 0 \in Right
  <2> DEFINE s == [all |-> ns, last |-> ns]
  <2>1. s.all = ns /\ s.last = ns
    OBVIOUS
  <2>2. f[0] = {s}
    BY <1>1
  <2> HIDE DEF s
  <2>3. Fine(s, 0)
    BY <2>1
  <2>4. QED
    BY <2>2, <2>3
<1>3. ASSUME NEW d \in Nat, d < Longest, d \in Right PROVE d + 1 \in Right
  <2>1. PICK s : f[d] = {s} /\ Fine(s, d)
    BY <1>3
  <2> DEFINE t == Further(step, s)
  <2>2. d + 1 \in 0..Longest /\ d + 1 # 0 /\ (d + 1) - 1 = d
    BY <1>0, <1>3
  <2>3. f[d + 1] = {Further(step, search) : search \in f[d]}
    BY <1>1, <2>2
  <2>4. f[d + 1] = {t}
    BY <2>1, <2>3
  <2>5. /\ t.all = s.all \cup UNION {step[n] : n \in s.last}
        /\ t.last = (UNION {step[n] : n \in s.last}) \ s.all
    BY FurtherFacts
  <2> HIDE DEF t
  <2>6. UNION {step[n] : n \in s.last} \subseteq S
    BY <2>1
  <2>7. ns \subseteq t.all /\ t.all \subseteq S /\ t.last \subseteq t.all
    BY <2>1, <2>5, <2>6
  <2>8. ASSUME NEW n \in t.all \ t.last PROVE step[n] \subseteq t.all
    <3>1. n \in s.all
      BY <2>5
    <3>2. CASE n \in s.last
      BY <2>5, <3>2
    <3>3. CASE n \notin s.last
      BY <2>1, <2>5, <3>1, <3>3
    <3>4. QED
      BY <3>2, <3>3
  <2>9. ASSUME NEW m \in t.last PROVE h[m] >= (d + 1) + 1
    <3>1. PICK n \in s.last : m \in step[n]
      BY <2>5
    <3>2. n \in S /\ h[n] >= d + 1
      BY <2>1
    <3>3. h[n] < h[m] /\ h[n] \in Nat /\ h[m] \in Nat
      BY <3>1, <3>2, <1>0
    <3>4. QED
      BY <3>2, <3>3
  <2>10. Fine(t, d + 1)
    BY <2>7, <2>8, <2>9
  <2>11. QED
    BY <2>4, <2>10
<1>4. Longest \in Right
  <2> HIDE DEF Right
  <2>1. \A d \in 0..Longest : d \in Right
    BY <1>0, <1>2, <1>3, UpTo
  <2>2. QED
    BY <1>0, <2>1
<1>5. PICK s : f[Longest] = {s} /\ Fine(s, Longest)
  BY <1>4
<1>6. reached = s.all
  BY <1>1, <1>5
<1>7. ASSUME NEW n \in s.all PROVE step[n] \subseteq s.all
  <2>1. CASE n \notin s.last
    BY <1>5, <2>1
  <2>2. CASE n \in s.last
    <3>1. n \in S /\ h[n] >= Longest + 1
      BY <1>5, <2>2
    <3>2. \A m \in step[n] : h[n] < h[m] /\ h[m] \in 1..(Longest + 1) /\ h[n] \in 1..(Longest + 1)
      BY <3>1
    <3>3. step[n] = {}
      BY <1>0, <3>1, <3>2
    <3>4. QED
      BY <3>3
  <2>3. QED
    BY <2>1, <2>2
<1>8. QED
  BY <1>5, <1>6, <1>7

\* A search reaches nothing beyond a set that holds its start and is not left.
LEMMA ClosureLeast ==
    ASSUME NEW step, NEW ns, NEW K, ns \subseteq K, \A n \in K : step[n] \subseteq K
    PROVE  Closure(step, ns) \subseteq K
<1>0. Longest \in Nat
  BY LongestIsNat
<1>1. PICK f : /\ Closure(step, ns) = UNION {search.all : search \in f[Longest]}
               /\ f[0] = {[all |-> ns, last |-> ns]}
               /\ \A d \in 0..Longest : d # 0 => f[d] = {Further(step, search) : search \in f[d - 1]}
  BY SearchesUnfold
<1> DEFINE Inside == {d \in Nat : \A s \in f[d] : s.all \subseteq K /\ s.last \subseteq K}
<1>2. 0 \in Inside
  BY <1>1
<1>3. ASSUME NEW d \in Nat, d < Longest, d \in Inside PROVE d + 1 \in Inside
  <2>1. d + 1 \in 0..Longest /\ d + 1 # 0 /\ (d + 1) - 1 = d
    BY <1>0, <1>3
  <2>2. f[d + 1] = {Further(step, search) : search \in f[d]}
    BY <1>1, <2>1
  <2>3. ASSUME NEW s \in f[d] PROVE Further(step, s).all \subseteq K /\ Further(step, s).last \subseteq K
    <3>1. s.all \subseteq K /\ s.last \subseteq K
      BY <1>3
    <3>2. UNION {step[n] : n \in s.last} \subseteq K
      BY <3>1
    <3>3. QED
      BY <3>1, <3>2, FurtherFacts
  <2>4. QED
    BY <2>2, <2>3
<1>4. Longest \in Inside
  <2> HIDE DEF Inside
  <2>1. \A d \in 0..Longest : d \in Inside
    BY <1>0, <1>2, <1>3, UpTo
  <2>2. QED
    BY <1>0, <2>1
<1>5. QED
  BY <1>1, <1>4

-----------------------------------------------------------------------------
(* The graph of a program. *)

\* A number for each node that grows along the edges.
Rank(n) ==
    CASE n.kind = "variable" -> 3 * n.at
      [] n.kind = "filter" -> 3 * n.at - 1
      [] n.kind = "attrs" -> 3 * n.at - 2
      [] n.kind = "explain" -> Longest
      [] n.kind = "return" -> Longest + 1
      [] OTHER -> 1

\* What the rest of this module needs to know of a graph.
Shaped ==
    /\ \A n \in Nodes : Rank(n) \in 1..(Longest + 1)
    /\ \A n \in Nodes : \A p \in Preds(n) : p \in Nodes /\ n \in Succs(p) /\ Rank(p) < Rank(n)
    /\ \A n \in Nodes : \A s \in Succs(n) : s \in Nodes /\ n \in Preds(s)
    /\ \A n \in Nodes : IsSource(n) => Preds(n) = {} /\ InterfaceOf(n) \in Interfaces
    /\ \A n \in Nodes : ~IsSource(n) => Preds(n) # {}
    /\ \A n \in Nodes : n.kind \in {"variable", "source"} \/ \A s, t \in Succs(n) : s = t
    /\ \A n \in Nodes : (\A p \in Preds(n) : p.kind # "attrs") => \A p, q \in Preds(n) : p = q
    /\ \A n \in Nodes : \A p \in Preds(n) : p.kind = "attrs" => n = Filter(p.at)
    /\ \A n \in Nodes : n.kind = "attrs" => \A p \in Preds(n) : p.kind = "variable"
    /\ \A n \in Nodes : n.kind = "source" => InterfaceOf(n) # Cache
    /\ Return(1) \in Nodes

HasFilter(p, i) == p[i].kind = "get" \/ p[i].ref # 0

\* What a statement starts from, when every name is defined.
LEMMA TrunkFacts ==
    ASSUME NEW p \in Programs, NEW i \in 1..StatementCount, ~UndefinedNames
    PROVE  \/ /\ Trunk(p, i) = Construct(i)
              /\ ~HasFilter(p, i) /\ p[i].ref = 0
           \/ /\ \E d \in DataSources : Trunk(p, i) = Source(d)
              /\ HasFilter(p, i) /\ p[i].ref \in 0..(i - 1)
           \/ /\ \E v \in 1..(i - 1) : Trunk(p, i) = Variable(v)
              /\ p[i].ref \in 0..(i - 1)
              /\ HasFilter(p, i) <=> p[i].ref # 0
<1>1. p[i] \in Statement(i)
  BY DEF Programs
<1>2. CASE p[i] \in [kind : {"new"}, var : {0}, ref : {0}]
  <2>1. p[i].kind = "new" /\ p[i].ref = 0
    BY <1>2
  <2>2. QED
    BY <2>1 DEF Trunk, HasFilter
<1>3. CASE p[i] \in [kind : {"get"}, from : DataSources, ref : 0..(i - 1)]
  <2>1. p[i].kind = "get" /\ p[i].ref \in 0..(i - 1) /\ p[i].from \in DataSources
    BY <1>3
  <2>2. QED
    BY <2>1 DEF Trunk, HasFilter
<1>4. CASE p[i] \in [kind : {"derive"}, ref : 0..(i - 1), var : 1..(i - 1)]
  <2>1. p[i].kind = "derive" /\ p[i].ref \in 0..(i - 1) /\ p[i].var \in 1..(i - 1)
    BY <1>4
  <2>2. p[i].var # 0
    BY <2>1
  <2>3. Trunk(p, i) = Variable(p[i].var)
    BY <2>1, <2>2 DEF Trunk
  <2>4. QED
    BY <2>1, <2>3 DEF HasFilter
<1>5. QED
  <2>1. Statement(i) = [kind : {"new"}, var : {0}, ref : {0}]
                       \cup [kind : {"get"}, from : DataSources, ref : 0..(i - 1)]
                       \cup [kind : {"derive"}, ref : 0..(i - 1), var : 1..(i - 1)]
    BY DEF Statement
  <2>2. QED
    BY <1>1, <1>2, <1>3, <1>4, <2>1

\* Is there an edge from a to b in the graph of program p and displays ds?
Edge(p, ds, a, b) ==
    \/ \E i \in 1..StatementCount :
         \/ HasFilter(p, i) /\ a = Trunk(p, i) /\ b = Filter(i)
         \/ HasFilter(p, i) /\ a = Filter(i) /\ b = Variable(i)
         \/ ~HasFilter(p, i) /\ a = Trunk(p, i) /\ b = Variable(i)
         \/ p[i].ref # 0 /\ a = Variable(p[i].ref) /\ b = ProjectAttrs(i)
         \/ p[i].ref # 0 /\ a = ProjectAttrs(i) /\ b = Filter(i)
    \/ \E k \in 1..DisplayCount :
         \/ ds[k].explain /\ a = Variable(ds[k].var) /\ b = Explain(k)
         \/ ds[k].explain /\ a = Explain(k) /\ b = Return(k)
         \/ ~ds[k].explain /\ a = Variable(ds[k].var) /\ b = Return(k)

\* The edges of a program's graph.
LEMMA EdgeShapes ==
    ASSUME NEW p, NEW ds, irgraph = GraphOf(p, ds), NEW a, NEW b
    PROVE  <<a, b>> \in irgraph <=> Edge(p, ds, a, b)
<1>1. <<a, b>> \in irgraph <=>
        \/ \E i \in 1..StatementCount : <<a, b>> \in StatementEdges(p, i)
        \/ \E k \in 1..DisplayCount : <<a, b>> \in DisplayEdges(k, ds[k])
  BY DEF GraphOf
<1>2. ASSUME NEW i \in 1..StatementCount
      PROVE  <<a, b>> \in StatementEdges(p, i) <=>
                  \/ HasFilter(p, i) /\ a = Trunk(p, i) /\ b = Filter(i)
                  \/ HasFilter(p, i) /\ a = Filter(i) /\ b = Variable(i)
                  \/ ~HasFilter(p, i) /\ a = Trunk(p, i) /\ b = Variable(i)
                  \/ p[i].ref # 0 /\ a = Variable(p[i].ref) /\ b = ProjectAttrs(i)
                  \/ p[i].ref # 0 /\ a = ProjectAttrs(i) /\ b = Filter(i)
  BY DEF StatementEdges, Branch, HasFilter
<1>3. ASSUME NEW k \in 1..DisplayCount
      PROVE  <<a, b>> \in DisplayEdges(k, ds[k]) <=>
                  \/ ds[k].explain /\ a = Variable(ds[k].var) /\ b = Explain(k)
                  \/ ds[k].explain /\ a = Explain(k) /\ b = Return(k)
                  \/ ~ds[k].explain /\ a = Variable(ds[k].var) /\ b = Return(k)
  BY DEF DisplayEdges
<1>4. QED
  BY <1>1, <1>2, <1>3 DEF Edge

\* The kinds of nodes, each told from the others.
LEMMA NodeFacts ==
    ASSUME NEW i, NEW j
    PROVE  /\ Variable(i).kind = "variable" /\ Variable(i).at = i
           /\ Filter(i).kind = "filter" /\ Filter(i).at = i
           /\ ProjectAttrs(i).kind = "attrs" /\ ProjectAttrs(i).at = i
           /\ Construct(i).kind = "construct" /\ Construct(i).at = i
           /\ Source(i).kind = "source" /\ Source(i).at = i
           /\ Explain(i).kind = "explain" /\ Explain(i).at = i
           /\ Return(i).kind = "return" /\ Return(i).at = i
  BY DEF Variable, Filter, ProjectAttrs, Construct, Source, Explain, Return, Node

LEMMA RankFacts ==
    ASSUME NEW i
    PROVE  /\ Rank(Variable(i)) = 3 * i
           /\ Rank(Filter(i)) = 3 * i - 1
           /\ Rank(ProjectAttrs(i)) = 3 * i - 2
           /\ Rank(Explain(i)) = Longest
           /\ Rank(Return(i)) = Longest + 1
           /\ Rank(Construct(i)) = 1
           /\ Rank(Source(i)) = 1
  BY NodeFacts DEF Rank

\* Every graph of a program has the shape.
LEMMA GraphIsShaped ==
    ASSUME NEW p \in Programs, NEW ds \in [1..DisplayCount -> Display], irgraph = GraphOf(p, ds),
           ~UndefinedNames
    PROVE  Shaped
<1>0. /\ \A a, b : <<a, b>> \in irgraph <=> Edge(p, ds, a, b)
      /\ \A e \in irgraph : e = <<e[1], e[2]>>
  <2>1. ASSUME NEW a, NEW b PROVE <<a, b>> \in irgraph <=> Edge(p, ds, a, b)
    BY EdgeShapes
  <2>2. ASSUME NEW e \in irgraph PROVE e = <<e[1], e[2]>>
    <3>1. \/ \E i \in 1..StatementCount : e \in StatementEdges(p, i)
          \/ \E k \in 1..DisplayCount : e \in DisplayEdges(k, ds[k])
      BY DEF GraphOf
    <3>2. QED
      BY <3>1 DEF StatementEdges, DisplayEdges, Branch
  <2>3. QED
    BY <2>1, <2>2
<1>1. /\ \A n, a : a \in Preds(n) <=> Edge(p, ds, a, n)
      /\ \A n, b : b \in Succs(n) <=> Edge(p, ds, n, b)
      /\ \A n : n \in Nodes <=> \E m : Edge(p, ds, m, n) \/ Edge(p, ds, n, m)
  <2>1. \A n, a : a \in Preds(n) <=> <<a, n>> \in irgraph
    BY <1>0 DEF Preds
  <2>2. \A n, b : b \in Succs(n) <=> <<n, b>> \in irgraph
    <3>1. ASSUME NEW n, NEW b PROVE b \in Succs(n) <=> <<n, b>> \in irgraph
      <4>1. ASSUME <<n, b>> \in irgraph PROVE b \in Succs(n)
        <5>1. <<n, b>> \in {f \in irgraph : f[1] = n} /\ <<n, b>>[2] = b
          BY <4>1
        <5>2. QED
          BY <5>1, Zenon DEF Succs
      <4>2. ASSUME b \in Succs(n) PROVE <<n, b>> \in irgraph
        <5>1. PICK e \in irgraph : e[1] = n /\ b = e[2]
          BY <4>2 DEF Succs
        <5>2. QED
          BY <5>1, <1>0
      <4>3. QED
        BY <4>1, <4>2
    <3>2. QED
      BY <3>1
  <2>3. ASSUME NEW n PROVE n \in Nodes <=> \E m : <<m, n>> \in irgraph \/ <<n, m>> \in irgraph
    <3>1. n \in Nodes <=> \E e \in irgraph : n \in {e[1], e[2]}
      BY DEF Nodes
    <3>2. QED
      BY <3>1, <1>0
  <2>4. QED
    BY <1>0, <2>1, <2>2, <2>3
<1>2. ASSUME NEW a, NEW b, Edge(p, ds, a, b)
      PROVE  \/ \E i \in 1..StatementCount :
                  /\ b = Filter(i)
                  /\ \/ \E d \in DataSources : a = Source(d)
                     \/ \E v \in 1..(i - 1) : a = Variable(v) /\ p[i].ref # 0
                     \/ a = ProjectAttrs(i) /\ p[i].ref # 0
             \/ \E i \in 1..StatementCount :
                  /\ b = Variable(i)
                  /\ \/ a = Filter(i)
                     \/ a = Construct(i)
                     \/ \E v \in 1..(i - 1) : a = Variable(v)
             \/ \E i \in 1..StatementCount :
                  /\ b = ProjectAttrs(i)
                  /\ p[i].ref \in 1..(i - 1) /\ a = Variable(p[i].ref)
             \/ \E k \in 1..DisplayCount :
                  /\ b = Explain(k) /\ ds[k].explain
                  /\ ds[k].var \in 1..StatementCount /\ a = Variable(ds[k].var)
             \/ \E k \in 1..DisplayCount :
                  /\ b = Return(k)
                  /\ \/ a = Explain(k) /\ ds[k].explain
                     \/ ds[k].var \in 1..StatementCount /\ a = Variable(ds[k].var) /\ ~ds[k].explain
  <2>1. ASSUME NEW k \in 1..DisplayCount PROVE ds[k].var \in 1..StatementCount
    BY DEF Display
  <2>2. CASE \E k \in 1..DisplayCount :
                  \/ ds[k].explain /\ a = Variable(ds[k].var) /\ b = Explain(k)
                  \/ ds[k].explain /\ a = Explain(k) /\ b = Return(k)
                  \/ ~ds[k].explain /\ a = Variable(ds[k].var) /\ b = Return(k)
    BY <2>1, <2>2
  <2>3. ASSUME NEW i \in 1..StatementCount,
                  \/ HasFilter(p, i) /\ a = Trunk(p, i) /\ b = Filter(i)
                  \/ HasFilter(p, i) /\ a = Filter(i) /\ b = Variable(i)
                  \/ ~HasFilter(p, i) /\ a = Trunk(p, i) /\ b = Variable(i)
                  \/ p[i].ref # 0 /\ a = Variable(p[i].ref) /\ b = ProjectAttrs(i)
                  \/ p[i].ref # 0 /\ a = ProjectAttrs(i) /\ b = Filter(i)
        PROVE  \/ /\ b = Filter(i)
                  /\ \/ \E d \in DataSources : a = Source(d)
                     \/ \E v \in 1..(i - 1) : a = Variable(v) /\ p[i].ref # 0
                     \/ a = ProjectAttrs(i) /\ p[i].ref # 0
               \/ /\ b = Variable(i)
                  /\ \/ a = Filter(i)
                     \/ a = Construct(i)
                     \/ \E v \in 1..(i - 1) : a = Variable(v)
               \/ /\ b = ProjectAttrs(i)
                  /\ p[i].ref \in 1..(i - 1) /\ a = Variable(p[i].ref)
    <3>1. p[i].ref # 0 => p[i].ref \in 1..(i - 1)
      BY TrunkFacts
    <3>2. QED
      BY <2>3, <3>1, TrunkFacts DEF HasFilter
  <2>4. QED
    BY <1>2, <2>2, <2>3 DEF Edge
<1>3. /\ \A i \in 1..StatementCount :
           /\ 3 * i \in 1..(Longest + 1) /\ 3 * i - 1 \in 1..(Longest + 1) /\ 3 * i - 2 \in 1..(Longest + 1)
           /\ 3 * i < Longest /\ 1 < 3 * i - 1
           /\ \A v \in 1..(i - 1) : 3 * v < 3 * i - 2 /\ v \in 1..StatementCount
      /\ Longest \in 1..(Longest + 1) /\ Longest + 1 \in 1..(Longest + 1) /\ 1 \in 1..(Longest + 1)
  BY SessionAssumption DEF Longest
<1>4. ASSUME NEW a, NEW b, Edge(p, ds, a, b)
      PROVE  Rank(a) \in 1..(Longest + 1) /\ Rank(b) \in 1..(Longest + 1) /\ Rank(a) < Rank(b)
  <2>1. CASE \E i \in 1..StatementCount :
                  /\ b = Filter(i)
                  /\ \/ \E d \in DataSources : a = Source(d)
                     \/ \E v \in 1..(i - 1) : a = Variable(v) /\ p[i].ref # 0
                     \/ a = ProjectAttrs(i) /\ p[i].ref # 0
    BY <2>1, <1>3, RankFacts
  <2>2. CASE \E i \in 1..StatementCount :
                  /\ b = Variable(i)
                  /\ \/ a = Filter(i)
                     \/ a = Construct(i)
                     \/ \E v \in 1..(i - 1) : a = Variable(v)
    BY <2>2, <1>3, RankFacts
  <2>3. CASE \E i \in 1..StatementCount :
                  /\ b = ProjectAttrs(i)
                  /\ p[i].ref \in 1..(i - 1) /\ a = Variable(p[i].ref)
    BY <2>3, <1>3, RankFacts
  <2>4. CASE \E k \in 1..DisplayCount :
                  /\ b = Explain(k) /\ ds[k].explain
                  /\ ds[k].var \in 1..StatementCount /\ a = Variable(ds[k].var)
    BY <2>4, <1>3, RankFacts
  <2>5. CASE \E k \in 1..DisplayCount :
                  /\ b = Return(k)
                  /\ \/ a = Explain(k) /\ ds[k].explain
                     \/ ds[k].var \in 1..StatementCount /\ a = Variable(ds[k].var) /\ ~ds[k].explain
    BY <2>5, <1>3, RankFacts, LongestIsNat
  <2>6. QED
    BY <1>2, <1>4, <2>1, <2>2, <2>3, <2>4, <2>5
<1>5. \A n \in Nodes : Rank(n) \in 1..(Longest + 1)
  BY <1>1, <1>4
<1>6. \A n \in Nodes : \A m \in Preds(n) : m \in Nodes /\ n \in Succs(m) /\ Rank(m) < Rank(n)
  BY <1>1, <1>4
<1>7. \A n \in Nodes : \A m \in Succs(n) : m \in Nodes /\ n \in Preds(m)
  BY <1>1, <1>4
<1>8. ASSUME NEW n \in Nodes, IsSource(n) PROVE Preds(n) = {} /\ InterfaceOf(n) \in Interfaces
  <2>1. n.kind \in {"source", "construct"}
    BY <1>8 DEF IsSource
  <2>2. \A m : ~Edge(p, ds, m, n)
    BY <1>2, <2>1, NodeFacts
  <2>3. PICK m : Edge(p, ds, n, m)
    BY <1>1, <2>2
  <2>4. n.kind = "source" => \E d \in DataSources : n = Source(d)
    BY <1>2, <2>3, NodeFacts
  <2>5. InterfaceOf(n) \in Interfaces
    BY <2>1, <2>4, NodeFacts DEF InterfaceOf, Interfaces
  <2>6. QED
    BY <1>1, <2>2, <2>5
<1>9. ASSUME NEW n \in Nodes, ~IsSource(n) PROVE Preds(n) # {}
  <2>1. CASE \E m : Edge(p, ds, m, n)
    BY <1>1, <2>1
  <2>2. CASE \E m : Edge(p, ds, n, m)
    <3>1. PICK m : Edge(p, ds, n, m)
      BY <2>2
    <3>2. n.kind \notin {"source", "construct"}
      BY <1>9 DEF IsSource
    <3>3. \/ \E i \in 1..StatementCount : n = Filter(i) /\ m = Variable(i)
          \/ \E i \in 1..StatementCount : n = ProjectAttrs(i) /\ p[i].ref # 0
          \/ \E i \in 1..StatementCount : n = Variable(i)
          \/ \E k \in 1..DisplayCount : n = Explain(k) /\ ds[k].explain
      BY <1>2, <1>3, <3>1, <3>2, NodeFacts
    <3>4. ASSUME NEW i \in 1..StatementCount, n = Filter(i), m = Variable(i) PROVE Edge(p, ds, Trunk(p, i), n)
      <4>1. HasFilter(p, i)
        <5>1. SUFFICES ASSUME ~HasFilter(p, i) PROVE FALSE
          OBVIOUS
        <5>2. PICK j \in 1..StatementCount :
                  \/ HasFilter(p, j) /\ n = Trunk(p, j) /\ m = Filter(j)
                  \/ HasFilter(p, j) /\ n = Filter(j) /\ m = Variable(j)
                  \/ ~HasFilter(p, j) /\ n = Trunk(p, j) /\ m = Variable(j)
                  \/ p[j].ref # 0 /\ n = Variable(p[j].ref) /\ m = ProjectAttrs(j)
                  \/ p[j].ref # 0 /\ n = ProjectAttrs(j) /\ m = Filter(j)
          BY <3>1, <3>4, NodeFacts DEF Edge
        <5>3. m.kind = "variable" /\ m.at = i /\ n.kind = "filter" /\ n.at = i
          BY <3>4, NodeFacts
        <5>4. ~(n = Trunk(p, j))
          BY <5>3, TrunkFacts, NodeFacts
        <5>5. HasFilter(p, j) /\ j = i
          BY <5>2, <5>3, <5>4, NodeFacts
        <5>6. QED
          BY <5>1, <5>5
      <4>2. QED
        BY <3>4, <4>1 DEF Edge
    <3>5. ASSUME NEW i \in 1..StatementCount, n = ProjectAttrs(i), p[i].ref # 0
          PROVE Edge(p, ds, Variable(p[i].ref), n)
      BY <3>5 DEF Edge
    <3>6. ASSUME NEW i \in 1..StatementCount, n = Variable(i) PROVE \E a : Edge(p, ds, a, n)
      <4>1. CASE HasFilter(p, i)
        <5>1. Edge(p, ds, Filter(i), n)
          BY <3>6, <4>1 DEF Edge
        <5>2. QED
          BY <5>1
      <4>2. CASE ~HasFilter(p, i)
        <5>1. Edge(p, ds, Trunk(p, i), n)
          BY <3>6, <4>2 DEF Edge
        <5>2. QED
          BY <5>1
      <4>3. QED
        BY <4>1, <4>2
    <3>7. ASSUME NEW k \in 1..DisplayCount, n = Explain(k), ds[k].explain
          PROVE Edge(p, ds, Variable(ds[k].var), n)
      BY <3>7 DEF Edge
    <3>8. QED
      BY <1>1, <3>3, <3>4, <3>5, <3>6, <3>7
  <2>3. QED
    BY <1>1, <2>1, <2>2
<1>10. ASSUME NEW n \in Nodes, n.kind \notin {"variable", "source"}, NEW s \in Succs(n), NEW t \in Succs(n)
       PROVE  s = t
  <2>1. ASSUME NEW b, Edge(p, ds, n, b)
        PROVE  \/ n.kind = "filter" /\ b = Variable(n.at)
               \/ n.kind = "construct" /\ b = Variable(n.at)
               \/ n.kind = "attrs" /\ b = Filter(n.at)
               \/ n.kind = "explain" /\ b = Return(n.at)
    BY <1>10, <1>2, <2>1, NodeFacts
  <2>2. Edge(p, ds, n, s) /\ Edge(p, ds, n, t)
    BY <1>1
  <2>3. QED
    BY <2>1, <2>2
<1>11. ASSUME NEW n \in Nodes, \A m \in Preds(n) : m.kind # "attrs", NEW s \in Preds(n), NEW t \in Preds(n)
       PROVE  s = t
  <2>1. ASSUME NEW a, Edge(p, ds, a, n), a.kind # "attrs"
        PROVE  \/ /\ n.kind = "filter" /\ n.at \in 1..StatementCount /\ a = Trunk(p, n.at)
               \/ /\ n.kind = "variable" /\ n.at \in 1..StatementCount
                  /\ HasFilter(p, n.at) => a = Filter(n.at)
                  /\ ~HasFilter(p, n.at) => a = Trunk(p, n.at)
               \/ n.kind = "attrs" /\ a = Variable(p[n.at].ref)
               \/ n.kind = "explain" /\ a = Variable(ds[n.at].var)
               \/ /\ n.kind = "return"
                  /\ ds[n.at].explain => a = Explain(n.at)
                  /\ ~ds[n.at].explain => a = Variable(ds[n.at].var)
    BY <2>1, NodeFacts DEF Edge
  <2>2. Edge(p, ds, s, n) /\ Edge(p, ds, t, n) /\ s.kind # "attrs" /\ t.kind # "attrs"
    BY <1>1, <1>11
  <2>3. QED
    BY <2>1, <2>2
<1>12. ASSUME NEW n \in Nodes, NEW m \in Preds(n), m.kind = "attrs" PROVE n = Filter(m.at)
  BY <1>1, <1>2, <1>12, NodeFacts
<1>13. ASSUME NEW n \in Nodes, n.kind = "attrs", NEW m \in Preds(n) PROVE m.kind = "variable"
  BY <1>1, <1>2, <1>13, NodeFacts
<1>14. ASSUME NEW n \in Nodes, n.kind = "source" PROVE InterfaceOf(n) # Cache
  <2>1. PICK m : Edge(p, ds, n, m) \/ Edge(p, ds, m, n)
    BY <1>1
  <2>2. \E d \in DataSources : n = Source(d)
    BY <1>2, <2>1, <1>14, NodeFacts
  <2>3. QED
    BY <1>14, <2>2, NodeFacts, SessionAssumption DEF InterfaceOf
<1>15. Return(1) \in Nodes
  <2>1. 1 \in 1..DisplayCount
    BY SessionAssumption
  <2>2. Edge(p, ds, Explain(1), Return(1)) \/ Edge(p, ds, Variable(ds[1].var), Return(1))
    BY <2>1 DEF Edge
  <2>3. QED
    BY <1>1, <2>2
<1>16. QED
  BY <1>5, <1>6, <1>7, <1>8, <1>9, <1>10, <1>11, <1>12, <1>13, <1>14, <1>15 DEF Shaped

-----------------------------------------------------------------------------
(* Searches in such a graph. *)

\* A set of nodes has one of the lowest rank, and one of the highest.
LEMMA LowestNode ==
    ASSUME Shaped, NEW S \in SUBSET Nodes, S # {}
    PROVE  /\ \E n \in S : \A m \in S : Rank(n) <= Rank(m)
           /\ \E n \in S : \A m \in S : Rank(m) <= Rank(n)
<1> DEFINE up == [n \in Nodes |-> Rank(n)]
           down == [n \in Nodes |-> Longest + 1 - Rank(n)]
<1>1. \A n \in Nodes : Rank(n) \in 1..(Longest + 1)
  BY DEF Shaped
<1>2. \A n \in S : up[n] \in Nat /\ up[n] = Rank(n)
  BY <1>1
<1>3. \A n \in S : down[n] \in Nat /\ down[n] = Longest + 1 - Rank(n)
  BY <1>1, LongestIsNat
<1> HIDE DEF up, down
<1>4. PICK n \in S : \A m \in S : up[n] <= up[m]
  BY <1>2, LowestOf
<1>5. PICK x \in S : \A m \in S : down[x] <= down[m]
  BY <1>3, LowestOf
<1>6. \A m \in S : Rank(m) <= Rank(x)
  <2>1. \A m \in S : Rank(m) \in Int /\ m \in Nodes
    BY <1>1
  <2>2. QED
    BY <1>3, <1>5, <2>1, LongestIsNat
<1>7. \A m \in S : Rank(n) <= Rank(m)
  BY <1>2, <1>4
<1>8. QED
  BY <1>6, <1>7

\* find_cached_dependent_subgraph_of_node(): the node itself, and with a node that is
\* not cached what it reads; any other node is read by one that is not cached.
LEMMA NeededFacts ==
    ASSUME Shaped, NEW c, NEW n \in Nodes
    PROVE  /\ n \in Needed(n, c)
           /\ Needed(n, c) \subseteq Nodes
           /\ \A m \in Needed(n, c) \ c : Preds(m) \subseteq Needed(n, c)
           /\ \A m \in Needed(n, c) : m # n => \E s \in Succs(m) : s \in Needed(n, c) \ c
<1> DEFINE step == [m \in Nodes |-> IF m \in c THEN {} ELSE Preds(m)]
           h == [m \in Nodes |-> Longest + 2 - Rank(m)]
           reached == Needed(n, c)
           start == {n}
<1>1. \A m \in Nodes : step[m] = IF m \in c THEN {} ELSE Preds(m)
  OBVIOUS
<1>2. step \in [Nodes -> SUBSET Nodes]
  BY DEF Shaped
<1>3. h \in [Nodes -> 1..(Longest + 1)]
  BY LongestIsNat DEF Shaped
<1>4. \A m \in Nodes : \A p \in step[m] : h[m] < h[p]
  <2>1. \A m \in Nodes : Rank(m) \in 1..(Longest + 1)
    BY DEF Shaped
  <2>2. \A m \in Nodes : \A p \in Preds(m) : p \in Nodes /\ Rank(p) < Rank(m)
    BY DEF Shaped
  <2>3. QED
    BY <2>1, <2>2, LongestIsNat
<1>5. reached = Closure(step, start)
  BY Zenon DEF Needed
<1>6. start \in SUBSET Nodes /\ n \in start /\ \A m \in start : m = n
  OBVIOUS
<1> HIDE DEF step, h, reached, start
<1>7. /\ start \subseteq reached
      /\ reached \subseteq Nodes
      /\ \A m \in reached : step[m] \subseteq reached
  BY <1>2, <1>3, <1>4, <1>5, <1>6, ClosureFacts
<1>8. \A m \in reached : m # n => \E s \in Succs(m) : s \in reached \ c
  <2> DEFINE K == {m \in reached : m = n \/ \E s \in Succs(m) : s \in reached \ c}
  <2>1. start \subseteq K
    BY <1>6, <1>7
  <2>2. ASSUME NEW m \in K, NEW p \in step[m] PROVE p \in K
    <3>1. m \notin c /\ p \in Preds(m) /\ m \in Nodes /\ p \in reached
      BY <1>1, <1>7, <2>2
    <3>2. m \in Succs(p)
      BY <3>1 DEF Shaped
    <3>3. QED
      BY <3>1, <3>2
  <2> HIDE DEF K
  <2>3. Closure(step, start) \subseteq K
    BY <2>1, <2>2, ClosureLeast
  <2>4. QED
    BY <1>5, <2>3 DEF K
<1>9. QED
  BY <1>1, <1>6, <1>7, <1>8 DEF reached

\* The more is cached, the less is needed.
LEMMA NeededShrinks ==
    ASSUME Shaped, NEW c, NEW d, c \subseteq d, NEW n \in Nodes
    PROVE  Needed(n, d) \subseteq Needed(n, c)
<1> DEFINE step == [m \in Nodes |-> IF m \in d THEN {} ELSE Preds(m)]
<1>1. /\ n \in Needed(n, c)
      /\ Needed(n, c) \subseteq Nodes
      /\ \A m \in Needed(n, c) \ c : Preds(m) \subseteq Needed(n, c)
  BY NeededFacts
<1>2. \A m \in Needed(n, c) : step[m] \subseteq Needed(n, c)
  BY <1>1
<1>3. Needed(n, d) = Closure(step, {n})
  BY Zenon DEF Needed
<1> HIDE DEF step
<1>4. {n} \subseteq Needed(n, c)
  BY <1>1
<1>5. QED
  BY <1>2, <1>3, <1>4, ClosureLeast

\* The nodes below ns: with a node each of its successors that is not cached, and
\* nothing but ns that is not below one of them.
LEMMA ImpactedFacts ==
    ASSUME Shaped, NEW c, NEW base \in SUBSET Nodes, NEW ns \in SUBSET base
    PROVE  /\ ns \subseteq Impacted(ns, base, c)
           /\ Impacted(ns, base, c) \subseteq base
           /\ \A n \in Impacted(ns, base, c) : \A s \in Succs(n) : s \in base \ c => s \in Impacted(ns, base, c)
           /\ \A n \in Impacted(ns, base, c) : n \notin ns =>
                n \notin c /\ \E p \in Preds(n) : p \in Impacted(ns, base, c)
<1> DEFINE step == [m \in Nodes |-> (Succs(m) \cap base) \ c]
           h == [m \in Nodes |-> Rank(m)]
           reached == Impacted(ns, base, c)
<1>1. \A m \in Nodes : step[m] = (Succs(m) \cap base) \ c
  OBVIOUS
<1>2. step \in [Nodes -> SUBSET Nodes]
  OBVIOUS
<1>3. h \in [Nodes -> 1..(Longest + 1)]
  BY DEF Shaped
<1>4. \A m \in Nodes : \A s \in step[m] : h[m] < h[s]
  <2>1. \A m \in Nodes : \A s \in Succs(m) : s \in Nodes /\ m \in Preds(s)
    BY DEF Shaped
  <2>2. \A m \in Nodes : \A p \in Preds(m) : p \in Nodes /\ Rank(p) < Rank(m)
    BY DEF Shaped
  <2>3. QED
    BY <2>1, <2>2
<1>5. reached = Closure(step, ns)
  BY Zenon DEF Impacted
<1> HIDE DEF step, h, reached
<1>6. ns \in SUBSET Nodes
  OBVIOUS
<1>7. /\ ns \subseteq reached
      /\ reached \subseteq Nodes
      /\ \A m \in reached : step[m] \subseteq reached
  BY <1>2, <1>3, <1>4, <1>5, <1>6, ClosureFacts
<1>8. \A n \in reached : n \in base /\ (n \notin ns => n \notin c /\ \E p \in Preds(n) : p \in reached)
  <2> DEFINE K == {m \in reached : m \in base /\ (m \notin ns => m \notin c /\ \E p \in Preds(m) : p \in reached)}
  <2>1. ns \subseteq K
    BY <1>7
  <2>2. ASSUME NEW m \in K, NEW s \in step[m] PROVE s \in K
    <3>1. s \in Succs(m) /\ s \in base /\ s \notin c /\ m \in Nodes /\ s \in reached
      BY <1>1, <1>7, <2>2
    <3>2. m \in Preds(s)
      BY <3>1 DEF Shaped
    <3>3. QED
      BY <3>1, <3>2
  <2> HIDE DEF K
  <2>3. Closure(step, ns) \subseteq K
    BY <2>1, <2>2, ClosureLeast
  <2>4. QED
    BY <1>5, <2>3 DEF K
<1>9. QED
  BY <1>1, <1>7, <1>8 DEF reached

\* The evaluation of ns gets to its sinks, and from a node that is not cached to those
\* of ns that it reads; a set of nodes with both has all of them.
LEMMA VisitedFacts ==
    ASSUME Shaped, NEW c, NEW ns \in SUBSET Nodes
    PROVE  /\ Sinks(ns) \subseteq Visited(ns, c)
           /\ Visited(ns, c) \subseteq ns
           /\ \A n \in Visited(ns, c) \ c : Preds(n) \cap ns \subseteq Visited(ns, c)
           /\ \A K : /\ Sinks(ns) \subseteq K
                     /\ \A n \in K \cap ns : n \notin c => Preds(n) \cap ns \subseteq K
                     => Visited(ns, c) \subseteq K
<1> DEFINE step == [m \in Nodes |-> IF m \in c THEN {} ELSE Preds(m) \cap ns]
           h == [m \in Nodes |-> Longest + 2 - Rank(m)]
           reached == Visited(ns, c)
<1>1. \A m \in Nodes : step[m] = IF m \in c THEN {} ELSE Preds(m) \cap ns
  OBVIOUS
<1>2. step \in [Nodes -> SUBSET Nodes]
  BY DEF Shaped
<1>3. h \in [Nodes -> 1..(Longest + 1)]
  BY LongestIsNat DEF Shaped
<1>4. \A m \in Nodes : \A p \in step[m] : h[m] < h[p]
  <2>1. \A m \in Nodes : Rank(m) \in 1..(Longest + 1)
    BY DEF Shaped
  <2>2. \A m \in Nodes : \A p \in Preds(m) : p \in Nodes /\ Rank(p) < Rank(m)
    BY DEF Shaped
  <2>3. QED
    BY <2>1, <2>2, LongestIsNat
<1>5. reached = Closure(step, Sinks(ns))
  BY Zenon DEF Visited
<1> HIDE DEF step, h, reached
<1>6. Sinks(ns) \in SUBSET Nodes /\ Sinks(ns) \subseteq ns
  BY DEF Sinks
<1>7. /\ Sinks(ns) \subseteq reached
      /\ reached \subseteq Nodes
      /\ \A m \in reached : step[m] \subseteq reached
  BY <1>2, <1>3, <1>4, <1>5, <1>6, ClosureFacts
<1>8. ASSUME NEW K, Sinks(ns) \subseteq K, \A n \in K \cap ns : n \notin c => Preds(n) \cap ns \subseteq K
      PROVE  reached \subseteq K /\ reached \subseteq ns
  <2> DEFINE L == K \cap ns
  <2>1. Sinks(ns) \subseteq L
    BY <1>6, <1>8
  <2>2. \A n \in L : step[n] \subseteq L
    BY <1>1, <1>8
  <2> HIDE DEF L
  <2>3. Closure(step, Sinks(ns)) \subseteq L
    BY <2>1, <2>2, ClosureLeast
  <2>4. QED
    BY <1>5, <2>3 DEF L
<1>9. reached \subseteq ns
  BY <1>6, <1>8
<1>10. QED
  BY <1>1, <1>7, <1>8, <1>9 DEF reached

-----------------------------------------------------------------------------
(* The cut: what find_dependent_subgraphs_of_node() makes of the graph below the *)
(* first Return when the nodes of c are cached.                                  *)

First == Return(1)
Base(c) == Needed(First, c)
BySource(c) == [i \in Interfaces |-> Impacted(SourcesOf(i, Base(c)), Base(c), c)]
Starts(c) == DefaultStarts(Base(c), c, BySource(c))
Impact(c) == [BySource(c) EXCEPT ![Cache] = @ \cup Impacted(Starts(c), Base(c), c)]
Own(i, c) == Impact(c)[i] \ Shared(Impact(c))
Given(i, c) == Own(i, c) \cup CachedInputs(i, Own(i, c), c)
Part(i, c) == Given(i, c) \cup Auxiliaries(Given(i, c))

LEMMA BaseFacts ==
    ASSUME Shaped, NEW c
    PROVE  /\ First \in Base(c)
           /\ Base(c) \subseteq Nodes
           /\ \A m \in Base(c) \ c : Preds(m) \subseteq Base(c)
           /\ \A m \in Base(c) : m # First => \E s \in Succs(m) : s \in Base(c) \ c
<1>1. First \in Nodes
  BY DEF Shaped, First
<1>2. QED
  BY <1>1, NeededFacts DEF Base

\* The nodes that an interface has to do with by its sources.
LEMMA BySourceFacts ==
    ASSUME Shaped, NEW c, NEW i \in Interfaces
    PROVE  /\ \A n \in Base(c) : IsSource(n) /\ InterfaceOf(n) = i => n \in BySource(c)[i]
           /\ BySource(c)[i] \subseteq Base(c)
           /\ \A n \in BySource(c)[i] : \A s \in Succs(n) : s \in Base(c) \ c => s \in BySource(c)[i]
           /\ \A n \in BySource(c)[i] :
                \/ IsSource(n) /\ InterfaceOf(n) = i
                \/ n \notin c /\ \E p \in Preds(n) : p \in BySource(c)[i]
<1> DEFINE sources == SourcesOf(i, Base(c))
<1>1. Base(c) \in SUBSET Nodes
  BY BaseFacts
<1>2. sources \in SUBSET Base(c) /\ \A n : n \in sources <=> n \in Base(c) /\ IsSource(n) /\ InterfaceOf(n) = i
  BY DEF SourcesOf
<1>3. BySource(c)[i] = Impacted(sources, Base(c), c)
  BY DEF BySource
<1> HIDE DEF sources
<1>4. /\ sources \subseteq BySource(c)[i]
      /\ BySource(c)[i] \subseteq Base(c)
      /\ \A n \in BySource(c)[i] : \A s \in Succs(n) : s \in Base(c) \ c => s \in BySource(c)[i]
      /\ \A n \in BySource(c)[i] : n \notin sources =>
           n \notin c /\ \E p \in Preds(n) : p \in BySource(c)[i]
  BY <1>1, <1>2, <1>3, ImpactedFacts
<1>5. QED
  BY <1>2, <1>4

\* The cached nodes that an evaluation in the cache starts from: those that no node
\* below a source reads.  None of them is a source.
LEMMA StartsFacts ==
    ASSUME Shaped, NEW c
    PROVE  /\ Starts(c) \subseteq Base(c) \cap c
           /\ \A n \in Base(c) \cap c : n \notin Starts(c) <=>
                \E i \in Interfaces : \E m \in BySource(c)[i] \ c : n \in Preds(m)
           /\ \A n \in Starts(c) : ~IsSource(n)
<1> DEFINE reading == UNION {BySource(c)[i] : i \in Interfaces}
<1>1. Starts(c) = (Base(c) \cap c) \ ReadBy(reading, c)
  BY Zenon DEF Starts, DefaultStarts
<1>2. \A n : n \in ReadBy(reading, c) <=> \E m \in reading \ c : n \in Preds(m)
  BY DEF ReadBy
<1>3. \A m : m \in reading <=> \E i \in Interfaces : m \in BySource(c)[i]
  OBVIOUS
<1> HIDE DEF reading
<1>4. \A n \in Base(c) \cap c : n \notin Starts(c) <=>
                \E i \in Interfaces : \E m \in BySource(c)[i] \ c : n \in Preds(m)
  BY <1>1, <1>2, <1>3
<1>5. ASSUME NEW n \in Starts(c), IsSource(n) PROVE FALSE
  <2>1. n \in Base(c) /\ n \in c /\ n \in Nodes
    BY <1>1, BaseFacts
  <2>2. n # First
    BY <1>5, NodeFacts DEF First, IsSource
  <2>3. PICK s \in Succs(n) : s \in Base(c) \ c
    BY <2>1, <2>2, BaseFacts
  <2>4. InterfaceOf(n) \in Interfaces
    BY <1>5, <2>1 DEF Shaped
  <2>5. n \in BySource(c)[InterfaceOf(n)]
    BY <1>5, <2>1, <2>4, BySourceFacts
  <2>6. s \in BySource(c)[InterfaceOf(n)]
    BY <2>3, <2>4, <2>5, BySourceFacts
  <2>7. n \in Preds(s)
    BY <2>1, <2>3 DEF Shaped
  <2>8. QED
    BY <1>4, <2>1, <2>3, <2>4, <2>6, <2>7
<1>6. QED
  BY <1>1, <1>4, <1>5

\* Why an interface has to do with a node: it is one of its sources, a start of the
\* cache, or not cached and below another one.
LEMMA ImpactFacts ==
    ASSUME Shaped, NEW c, NEW i \in Interfaces
    PROVE  /\ BySource(c)[i] \subseteq Impact(c)[i]
           /\ i # Cache => Impact(c)[i] = BySource(c)[i]
           /\ i = Cache => Starts(c) \subseteq Impact(c)[i]
           /\ Impact(c)[i] \subseteq Base(c)
           /\ \A n \in Impact(c)[i] : \A s \in Succs(n) : s \in Base(c) \ c => s \in Impact(c)[i]
           /\ \A n \in Impact(c)[i] :
                \/ IsSource(n) /\ InterfaceOf(n) = i
                \/ i = Cache /\ n \in Starts(c)
                \/ ~IsSource(n) /\ n \notin c /\ \E p \in Preds(n) : p \in Impact(c)[i]
<1> DEFINE below == Impacted(Starts(c), Base(c), c)
<1>1. Base(c) \in SUBSET Nodes /\ Starts(c) \in SUBSET Base(c)
  BY BaseFacts, StartsFacts
<1>2. /\ Starts(c) \subseteq below
      /\ below \subseteq Base(c)
      /\ \A n \in below : \A s \in Succs(n) : s \in Base(c) \ c => s \in below
      /\ \A n \in below : n \notin Starts(c) => n \notin c /\ \E p \in Preds(n) : p \in below
  BY <1>1, ImpactedFacts
<1>3. /\ i # Cache => Impact(c)[i] = BySource(c)[i]
      /\ i = Cache => Impact(c)[i] = BySource(c)[i] \cup below
  <2>1. DOMAIN BySource(c) = Interfaces
    BY DEF BySource
  <2> HIDE DEF below
  <2>2. Impact(c) = [BySource(c) EXCEPT ![Cache] = @ \cup below]
    BY Zenon DEF Impact, below
  <2>3. QED
    BY <2>1, <2>2
<1> HIDE DEF below
<1>4. /\ BySource(c)[i] \subseteq Base(c)
      /\ \A n \in BySource(c)[i] : \A s \in Succs(n) : s \in Base(c) \ c => s \in BySource(c)[i]
      /\ \A n \in BySource(c)[i] :
                \/ IsSource(n) /\ InterfaceOf(n) = i
                \/ n \notin c /\ \E p \in Preds(n) : p \in BySource(c)[i]
  BY BySourceFacts
<1>5. \A n \in Base(c) : \A p \in Preds(n) : ~IsSource(n)
  BY <1>1 DEF Shaped
<1>6. CASE i # Cache
  BY <1>3, <1>4, <1>5, <1>6
<1>7. CASE i = Cache
  <2>1. Impact(c)[i] = BySource(c)[i] \cup below
    BY <1>3, <1>7
  <2>2. QED
    BY <2>1, <1>2, <1>4, <1>5, <1>7
<1>8. QED
  BY <1>6, <1>7

\* A source is only its own interface's, and that has to do with it.
LEMMA SourcesImpact ==
    ASSUME Shaped, NEW c, NEW n \in Base(c), IsSource(n)
    PROVE  /\ InterfaceOf(n) \in Interfaces
           /\ n \in Impact(c)[InterfaceOf(n)]
           /\ \A i \in Interfaces : n \in Impact(c)[i] => InterfaceOf(n) = i
<1>1. n \in Nodes
  BY BaseFacts
<1>2. InterfaceOf(n) \in Interfaces
  BY <1>1 DEF Shaped
<1>3. n \in Impact(c)[InterfaceOf(n)]
  BY <1>2, BySourceFacts, ImpactFacts
<1>4. \A i \in Interfaces : n \in Impact(c)[i] => InterfaceOf(n) = i
  BY ImpactFacts, StartsFacts
<1>5. QED
  BY <1>2, <1>3, <1>4

\* What is an interface's own is no other's.
LEMMA OwnFacts ==
    ASSUME NEW c, NEW i \in Interfaces, NEW n
    PROVE  n \in Own(i, c) <=> n \in Impact(c)[i] /\ \A j \in Interfaces : n \in Impact(c)[j] => j = i
<1>1. \A m : m \in Shared(Impact(c)) <=>
         \E j, k \in Interfaces : j # k /\ m \in Impact(c)[j] /\ m \in Impact(c)[k]
  BY DEF Shared
<1>2. QED
  BY <1>1 DEF Own

-----------------------------------------------------------------------------
(* What a catalog is like during the first display. *)

Foreign == Interfaces \ {Cache}

\* A node with a single input that is still needed has it ahead of it, too: if the
\* input was put into the cache, so was the node, or what needed it.
OneInput(c) ==
    \A n \in Base(c) \ c :
        ~IsSource(n) /\ (\A p \in Preds(n) : p.kind # "attrs") =>
            \A p \in Preds(n) : p \in c => IsSource(p)

\* The nodes w[i] were evaluated by interface i without being put into the cache.
\* What of them is still needed is still below a source of i, and of no other.
Evaluated(c, w) ==
    \A i \in Foreign : \A n \in w[i] :
        /\ IsSource(n) => InterfaceOf(n) = i
        /\ \A p \in Preds(n) : (IsSource(p) => InterfaceOf(p) = i) /\ (p \notin c => p \in w[i])
        /\ n \in Base(c) \ c => IsSource(n) \/ \E p \in Preds(n) : IsSource(p) \/ p \in w[i] \ c

\* A variable that is not cached, read by a cached node, is one of those.
Explained(c, w) ==
    \A n \in c : \A p \in Preds(n) \ c : p.kind = "variable" => \E i \in Foreign : p \in w[i]

Settled(c, w) == OneInput(c) /\ Evaluated(c, w) /\ Explained(c, w)

\* Every node that has to be evaluated is below a source or a start of the cache.
LEMMA AllImpacted ==
    ASSUME Shaped, NEW c, OneInput(c), NEW n \in Base(c) \ c
    PROVE  \E i \in Interfaces : n \in Impact(c)[i]
<1> DEFINE Free == {m \in Base(c) \ c : \A i \in Interfaces : m \notin Impact(c)[i]}
<1> SUFFICES ASSUME Free # {} PROVE FALSE
  OBVIOUS
<1>0. Base(c) \subseteq Nodes /\ Cache \in Interfaces
  BY BaseFacts DEF Interfaces
<1>1. PICK m \in Free : \A x \in Free : Rank(m) <= Rank(x)
  <2>1. Free \in SUBSET Nodes
    BY <1>0
  <2> HIDE DEF Free
  <2>2. QED
    BY <2>1, LowestNode
<1>2. m \in Base(c) /\ m \notin c /\ m \in Nodes /\ \A i \in Interfaces : m \notin Impact(c)[i]
  BY <1>0
<1>3. ~IsSource(m)
  BY <1>2, SourcesImpact
<1>4. Preds(m) \subseteq Base(c) /\ Preds(m) # {}
  BY <1>2, <1>3, BaseFacts DEF Shaped
<1>5. ASSUME NEW p \in Preds(m) PROVE \A i \in Interfaces : p \notin Impact(c)[i]
  <2>1. m \in Succs(p)
    BY <1>2 DEF Shaped
  <2>2. QED
    BY <1>2, <2>1, ImpactFacts
<1>6. ASSUME NEW p \in Preds(m) PROVE p \in c /\ ~IsSource(p)
  <2>1. p \in Base(c) /\ Rank(p) < Rank(m) /\ Rank(p) \in Int /\ Rank(m) \in Int
    BY <1>0, <1>2, <1>4 DEF Shaped
  <2>2. ~IsSource(p)
    BY <1>5, <2>1, SourcesImpact
  <2>3. p \notin Free
    BY <1>1, <2>1
  <2>4. QED
    BY <1>5, <2>1, <2>2, <2>3
<1>7. PICK p \in Preds(m) : p.kind = "attrs"
  BY <1>2, <1>3, <1>4, <1>6 DEF OneInput
<1>8. p \in Base(c) \cap c /\ p \notin Starts(c)
  BY <1>0, <1>4, <1>5, <1>6, ImpactFacts
<1>9. PICK i \in Interfaces : \E x \in BySource(c)[i] \ c : p \in Preds(x)
  BY <1>8, StartsFacts
<1>10. PICK x \in BySource(c)[i] \ c : p \in Preds(x)
  BY <1>9
<1>11. x \in Nodes
  BY <1>0, BySourceFacts
<1>12. x = m
  BY <1>2, <1>7, <1>10, <1>11 DEF Shaped
<1>13. QED
  BY <1>2, <1>12, ImpactFacts

\* What one interface alone has to do with gets all of its inputs from it, but for
\* those that are cached.
LEMMA OwnInputs ==
    ASSUME Shaped, NEW c, OneInput(c), NEW i \in Interfaces, NEW n \in Own(i, c) \ c
    PROVE  \A p \in Preds(n) : /\ p \in Base(c)
                               /\ p \notin c => p \in Own(i, c)
                               /\ IsSource(p) => InterfaceOf(p) = i
<1>1. n \in Impact(c)[i] /\ \A j \in Interfaces : n \in Impact(c)[j] => j = i
  BY OwnFacts
<1>2. n \in Base(c) \ c /\ n \in Nodes
  BY <1>1, ImpactFacts, BaseFacts
<1> TAKE p \in Preds(n)
<1>3. p \in Base(c) /\ n \in Succs(p)
  BY <1>2, BaseFacts DEF Shaped
<1>4. \A j \in Interfaces : p \in Impact(c)[j] => j = i
  BY <1>1, <1>2, <1>3, ImpactFacts
<1>5. ASSUME p \notin c PROVE p \in Own(i, c)
  <2>1. PICK j \in Interfaces : p \in Impact(c)[j]
    BY <1>3, <1>5, AllImpacted
  <2>2. QED
    BY <1>4, <2>1, OwnFacts
<1>6. ASSUME IsSource(p) PROVE InterfaceOf(p) = i
  BY <1>3, <1>4, <1>6, SourcesImpact
<1>7. QED
  BY <1>3, <1>5, <1>6

\* It gets with them what has no other input.
LEMMA OwnOutputs ==
    ASSUME Shaped, NEW c, NEW i \in Interfaces, NEW n \in Own(i, c), NEW s \in Succs(n),
           s \in Base(c) \ c, \A p \in Preds(s) : p.kind # "attrs"
    PROVE  s \in Own(i, c)
<1>1. n \in Impact(c)[i] /\ \A j \in Interfaces : n \in Impact(c)[j] => j = i
  BY OwnFacts
<1>2. s \in Impact(c)[i] /\ s \in Nodes
  BY <1>1, ImpactFacts, BaseFacts
<1>3. n \in Nodes
  BY <1>1, ImpactFacts, BaseFacts
<1>4. n \in Preds(s)
  BY <1>3 DEF Shaped
<1>5. \A p \in Preds(s) : p = n
  BY <1>2, <1>4 DEF Shaped
<1>6. ~IsSource(s) /\ s \notin Starts(c)
  BY <1>2, <1>4, StartsFacts DEF Shaped
<1>7. \A j \in Interfaces : s \in Impact(c)[j] => n \in Impact(c)[j]
  BY <1>5, <1>6, ImpactFacts
<1>8. QED
  BY <1>1, <1>2, <1>7, OwnFacts

\* What an interface has evaluated, and is needed again, it is given again.
LEMMA EvaluatedIsOwn ==
    ASSUME Shaped, NEW c, NEW w, Evaluated(c, w), NEW i \in Foreign, NEW n \in w[i], n \in Base(c) \ c
    PROVE  n \in Own(i, c)
<1>0. Base(c) \subseteq Nodes /\ i \in Interfaces /\ i # Cache
  BY BaseFacts DEF Foreign
<1>1. ASSUME NEW m \in w[i], m \in Base(c) \ c PROVE m \in BySource(c)[i]
  <2> DEFINE Free == {x \in w[i] : x \in Base(c) \ c /\ x \notin BySource(c)[i]}
  <2> SUFFICES ASSUME Free # {} PROVE FALSE
    BY <1>1
  <2>1. PICK x \in Free : \A y \in Free : Rank(x) <= Rank(y)
    <3>1. Free \in SUBSET Nodes
      BY <1>0
    <3> HIDE DEF Free
    <3>2. QED
      BY <3>1, LowestNode
  <2>2. x \in w[i] /\ x \in Base(c) \ c /\ x \notin BySource(c)[i] /\ x \in Nodes
    BY <1>0
  <2>3. ~IsSource(x)
    BY <1>0, <2>2, BySourceFacts DEF Evaluated
  <2>4. PICK p \in Preds(x) : IsSource(p) \/ p \in w[i] \ c
    BY <2>2, <2>3 DEF Evaluated
  <2>5. p \in Base(c) /\ x \in Succs(p) /\ Rank(p) < Rank(x) /\ Rank(p) \in Int /\ Rank(x) \in Int
    BY <1>0, <2>2, BaseFacts DEF Shaped
  <2>6. p \in BySource(c)[i]
    <3>1. CASE IsSource(p)
      BY <1>0, <2>2, <2>5, <3>1, BySourceFacts DEF Evaluated
    <3>2. CASE p \in w[i] \ c
      BY <2>1, <2>5, <3>2
    <3>3. QED
      BY <2>4, <3>1, <3>2
  <2>7. QED
    BY <1>0, <2>2, <2>5, <2>6, BySourceFacts
<1>2. ASSUME NEW j \in Interfaces, j # i, NEW m \in w[i], m \in Base(c) \ c, m \in Impact(c)[j] PROVE FALSE
  <2> DEFINE Both == {x \in w[i] : x \in Base(c) \ c /\ x \in Impact(c)[j]}
  <2>1. PICK x \in Both : \A y \in Both : Rank(x) <= Rank(y)
    <3>1. Both \in SUBSET Nodes /\ Both # {}
      BY <1>0, <1>2
    <3> HIDE DEF Both
    <3>2. QED
      BY <3>1, LowestNode
  <2>2. x \in w[i] /\ x \in Base(c) \ c /\ x \in Impact(c)[j] /\ x \in Nodes
    BY <1>0
  <2>3. ~IsSource(x)
    BY <1>2, <2>2, SourcesImpact DEF Evaluated
  <2>4. x \notin Starts(c)
    BY <2>2, StartsFacts
  <2>5. PICK p \in Preds(x) : p \in Impact(c)[j]
    BY <2>2, <2>3, <2>4, ImpactFacts
  <2>6. p \in Base(c) /\ p \in Nodes /\ Rank(p) < Rank(x) /\ Rank(p) \in Int /\ Rank(x) \in Int
    BY <1>0, <2>2, BaseFacts DEF Shaped
  <2>7. ~IsSource(p)
    BY <1>2, <2>2, <2>5, <2>6, SourcesImpact DEF Evaluated
  <2>8. CASE p \notin c
    <3>1. p \in w[i]
      BY <2>2, <2>8 DEF Evaluated
    <3>2. QED
      BY <2>1, <2>5, <2>6, <2>8, <3>1
  <2>9. CASE p \in c
    <3>1. p \in Starts(c)
      BY <2>5, <2>7, <2>9, ImpactFacts
    <3>2. x \in BySource(c)[i] \ c
      BY <1>1, <2>2
    <3>3. QED
      BY <1>0, <2>6, <2>9, <3>1, <3>2, StartsFacts
  <2>10. QED
    BY <2>8, <2>9
<1>3. QED
  BY <1>0, <1>1, <1>2, OwnFacts, ImpactFacts

-----------------------------------------------------------------------------
(* The subgraphs of a cut, and their evaluation. *)

LEMMA AuxiliariesFacts ==
    ASSUME NEW ns, NEW n
    PROVE  n \in Auxiliaries(ns) <=>
             \E m \in ns : m.kind = "attrs" /\ Filter(m.at) \in ns /\ n \in Preds(m) /\ n.kind = "variable"
<1> DEFINE S == {m \in ns : m.kind = "attrs" /\ Filter(m.at) \in ns}
<1>1. Auxiliaries(ns) = {p \in UNION {Preds(m) : m \in S} : p.kind = "variable"}
  BY Zenon DEF Auxiliaries
<1>2. n \in UNION {Preds(m) : m \in S} <=> \E m \in S : n \in Preds(m)
  OBVIOUS
<1>3. QED
  BY <1>1, <1>2

\* What a subgraph consists of.
LEMMA PartFacts ==
    ASSUME Shaped, NEW c, NEW i \in Interfaces
    PROVE  /\ Own(i, c) \subseteq Base(c)
           /\ \A n : n \in Given(i, c) <=>
                \/ n \in Own(i, c)
                \/ i # Cache /\ n \in c /\ \E m \in Own(i, c) \ c : n \in Preds(m)
           /\ \A n : n \in Part(i, c) <=>
                \/ n \in Given(i, c)
                \/ \E a \in Given(i, c) : /\ a.kind = "attrs" /\ Filter(a.at) \in Given(i, c)
                                          /\ n \in Preds(a) /\ n.kind = "variable"
           /\ Part(i, c) \subseteq Nodes
<1>1. Own(i, c) \subseteq Base(c)
  BY ImpactFacts, OwnFacts
<1>2. \A n : n \in CachedInputs(i, Own(i, c), c) <=>
               i # Cache /\ n \in c /\ \E m \in Own(i, c) \ c : n \in Preds(m)
  <2>1. \A n : n \in ReadBy(Own(i, c), c) <=> \E m \in Own(i, c) \ c : n \in Preds(m)
    BY DEF ReadBy
  <2>2. QED
    BY <2>1 DEF CachedInputs
<1>3. \A n : n \in Given(i, c) <=>
                \/ n \in Own(i, c)
                \/ i # Cache /\ n \in c /\ \E m \in Own(i, c) \ c : n \in Preds(m)
  BY <1>2 DEF Given
<1>4. \A n : n \in Part(i, c) <=>
                \/ n \in Given(i, c)
                \/ \E a \in Given(i, c) : /\ a.kind = "attrs" /\ Filter(a.at) \in Given(i, c)
                                          /\ n \in Preds(a) /\ n.kind = "variable"
  BY AuxiliariesFacts DEF Part
<1>5. Given(i, c) \subseteq Nodes
  <2>1. \A m \in Own(i, c) : m \in Nodes /\ Preds(m) \subseteq Nodes
    BY <1>1, BaseFacts DEF Shaped
  <2>2. QED
    BY <1>3, <2>1
<1>6. Part(i, c) \subseteq Nodes
  BY <1>4, <1>5 DEF Shaped
<1>7. QED
  BY <1>1, <1>3, <1>4, <1>6

\* Of its nodes that are not cached the evaluation only gets to the interface's own.
LEMMA VisitedIsOwn ==
    ASSUME Shaped, NEW c, OneInput(c), NEW i \in Interfaces, NEW d, c \subseteq d, Own(i, c) \cap d \subseteq c
    PROVE  Visited(Part(i, c), d) \ d \subseteq Own(i, c) \ c
<1> DEFINE ns == Part(i, c)
           K == {n \in ns : n \in Own(i, c) \/ n \in d}
<1>0. ns \in SUBSET Nodes
  BY PartFacts
<1>1. ASSUME NEW n \in Sinks(ns) PROVE n \in K
  <2>1. n \in ns /\ Succs(n) \cap ns = {}
    BY DEF Sinks
  <2>2. ASSUME NEW a \in Given(i, c), n \in Preds(a) PROVE FALSE
    <3>1. a \in ns /\ a \in Nodes
      BY <1>0, PartFacts
    <3>2. a \in Succs(n)
      BY <2>2, <3>1 DEF Shaped
    <3>3. QED
      BY <2>1, <3>1, <3>2
  <2>3. n \in Given(i, c)
    BY <2>1, <2>2, PartFacts
  <2>4. QED
    BY <2>1, <2>3, PartFacts
<1>2. ASSUME NEW n \in K, n \notin d, NEW p \in Preds(n), p \in ns PROVE p \in K
  <2>1. n \in Own(i, c) \ c
    BY <1>2
  <2>2. p \notin c => p \in Own(i, c)
    BY <2>1, OwnInputs
  <2>3. QED
    BY <1>2, <2>2
<1> HIDE DEF ns, K
<1>3. Visited(ns, d) \subseteq K
  <2>1. Sinks(ns) \subseteq K
    BY <1>1
  <2>2. \A n \in K \cap ns : n \notin d => Preds(n) \cap ns \subseteq K
    BY <1>2 DEF K
  <2>3. \A L : /\ Sinks(ns) \subseteq L
               /\ \A n \in L \cap ns : n \notin d => Preds(n) \cap ns \subseteq L
               => Visited(ns, d) \subseteq L
    BY <1>0, VisitedFacts
  <2>4. QED
    BY <2>1, <2>2, <2>3
<1>4. QED
  BY <1>3 DEF K, ns

\* A subgraph is evaluated by the interface it was cut for.
LEMMA InterfaceOfPart ==
    ASSUME Shaped, NEW c, OneInput(c), NEW i \in Interfaces, Part(i, c) # {}
    PROVE  InterfaceFor(Part(i, c)) = i
<1> DEFINE ns == Part(i, c)
<1>1. ASSUME NEW n \in ns, IsSource(n) PROVE InterfaceOf(n) = i
  <2>1. n.kind # "variable"
    BY <1>1 DEF IsSource
  <2>2. n \in Given(i, c)
    BY <2>1, PartFacts
  <2>3. CASE n \in Own(i, c)
    <3>1. n \in Base(c) /\ n \in Impact(c)[i]
      BY <2>3, PartFacts, OwnFacts
    <3>2. QED
      BY <1>1, <3>1, SourcesImpact
  <2>4. CASE n \notin Own(i, c)
    <3>1. PICK m \in Own(i, c) \ c : n \in Preds(m)
      BY <2>2, <2>4, PartFacts
    <3>2. QED
      BY <1>1, <3>1, OwnInputs
  <2>5. QED
    BY <2>3, <2>4
<1>2. ASSUME i # Cache PROVE \E n \in ns : IsSource(n)
  <2>1. Own(i, c) # {}
    BY PartFacts
  <2>2. Own(i, c) \in SUBSET Nodes
    BY PartFacts, BaseFacts
  <2>3. PICK n \in Own(i, c) : \A m \in Own(i, c) : Rank(n) <= Rank(m)
    BY <2>1, <2>2, LowestNode
  <2>4. n \in ns /\ n \in Impact(c)[i] /\ n \in Nodes
    BY <2>2, PartFacts, OwnFacts
  <2>5. CASE IsSource(n)
    BY <2>4, <2>5
  <2>6. CASE ~IsSource(n)
    <3>1. n \notin c /\ \E p \in Preds(n) : p \in Impact(c)[i]
      BY <1>2, <2>4, <2>6, ImpactFacts
    <3>2. PICK p \in Preds(n) : p \in Impact(c)[i]
      BY <3>1
    <3>3. p \in Base(c) /\ Rank(p) < Rank(n) /\ Rank(p) \in Int /\ Rank(n) \in Int
      BY <2>4, <3>2, ImpactFacts DEF Shaped
    <3>4. CASE IsSource(p)
      <4>1. p \in Own(i, c)
        BY <3>2, <3>3, <3>4, SourcesImpact, OwnFacts
      <4>2. QED
        BY <3>4, <4>1, PartFacts
    <3>5. CASE ~IsSource(p)
      <4>1. p \notin c
        BY <1>2, <3>2, <3>5, ImpactFacts
      <4>2. p \in Own(i, c)
        BY <3>1, <4>1, OwnInputs
      <4>3. QED
        BY <2>3, <3>3, <4>2
    <3>6. QED
      BY <3>4, <3>5
  <2>7. QED
    BY <2>5, <2>6
<1> HIDE DEF ns
<1>3. CASE \E n \in ns : IsSource(n)
  <2> DEFINE x == CHOOSE n \in ns : IsSource(n)
  <2>1. InterfaceFor(ns) = InterfaceOf(x)
    BY <1>3 DEF InterfaceFor
  <2>2. x \in ns /\ IsSource(x)
    BY <1>3
  <2>3. QED
    BY <1>1, <2>1, <2>2 DEF ns
<1>4. CASE ~\E n \in ns : IsSource(n)
  <2>1. InterfaceFor(ns) = Cache
    BY <1>4 DEF InterfaceFor
  <2>2. QED
    BY <1>2, <1>4, <2>1 DEF ns
<1>5. QED
  BY <1>3, <1>4

\* What a subgraph lacks is cached, and another interface than the cache lacks nothing.
LEMMA PartEvaluable ==
    ASSUME Shaped, NEW c, OneInput(c), NEW i \in Interfaces, Part(i, c) # {},
           NEW d, c \subseteq d, Own(i, c) \cap d \subseteq c
    PROVE  /\ \A n \in Visited(Part(i, c), d) \ d : Preds(n) \subseteq Part(i, c) \cup d
           /\ InterfaceFor(Part(i, c)) # Cache => Evaluable(Part(i, c), d)
<1> DEFINE ns == Part(i, c)
<1>1. ASSUME NEW n \in Visited(ns, d) \ d PROVE Preds(n) \subseteq ns \cup d
  <2>1. n \in Own(i, c) \ c
    BY VisitedIsOwn
  <2>2. \A p \in Preds(n) : p \notin c => p \in Own(i, c)
    BY <2>1, OwnInputs
  <2>3. QED
    BY <2>2, PartFacts
<1>2. ASSUME InterfaceFor(ns) # Cache PROVE Evaluable(ns, d)
  <2>1. i # Cache
    BY <1>2, InterfaceOfPart
  <2>2. ASSUME NEW n \in Visited(ns, d) \ d PROVE HasInputs(n, ns)
    <3>1. n \in Own(i, c) \ c
      BY VisitedIsOwn
    <3>2. \A p \in Preds(n) : p \in Given(i, c)
      BY <2>1, <3>1, OwnInputs, PartFacts
    <3>3. n \in Given(i, c) /\ n \in Nodes
      BY <3>1, PartFacts, BaseFacts
    <3>4. ASSUME NEW p \in Preds(n), p.kind = "attrs", NEW v \in Preds(p) PROVE v \in ns
      <4>1. n = Filter(p.at) /\ p \in Nodes
        BY <3>3, <3>4 DEF Shaped
      <4>2. v.kind = "variable"
        BY <3>4, <4>1 DEF Shaped
      <4>3. QED
        BY <3>2, <3>3, <3>4, <4>1, <4>2, PartFacts
    <3>5. Preds(n) \subseteq ns
      BY <3>2, PartFacts
    <3> HIDE DEF ns
    <3>6. QED
      BY <3>4, <3>5 DEF HasInputs
  <2> HIDE DEF ns
  <2>3. \A n, x : ResolvedOnce(n, ns, x)
    BY <1>2 DEF ResolvedOnce
  <2>4. Stuck(ns, d) = {}
    BY <2>2, <2>3 DEF Stuck
  <2>5. QED
    BY <2>4 DEF Evaluable
<1>3. QED
  BY <1>1, <1>2

\* What Evaluate() adds to the catalog is of what the evaluation gets to: the results of
\* an interface that is not the cache, or the data of NEW.
LEMMA AddedFacts ==
    ASSUME Shaped, NEW c, OneInput(c), NEW i \in Interfaces, Part(i, c) # {}, NEW d
    PROVE  /\ Added(Part(i, c), d) \subseteq Visited(Part(i, c), d)
           /\ i # Cache => Added(Part(i, c), d) = Sinks(Part(i, c))
           /\ i = Cache => \A n \in Added(Part(i, c), d) : n.kind = "construct"
<1> DEFINE ns == Part(i, c)
<1>1. InterfaceFor(ns) = i
  BY InterfaceOfPart
<1>2. Sinks(ns) \subseteq Visited(ns, d)
  BY PartFacts, VisitedFacts
<1> HIDE DEF ns
<1>3. CASE i # Cache
  <2>1. SideEffects(ns, d) = {} /\ Kept(ns) = Sinks(ns)
    BY <1>1, <1>3 DEF SideEffects, Kept
  <2>2. QED
    BY <1>2, <1>3, <2>1 DEF Added, ns
<1>4. CASE i = Cache
  <2>1. SideEffects(ns, d) = {n \in Visited(ns, d) \ d : n.kind = "construct"} /\ Kept(ns) = {}
    BY <1>1, <1>4 DEF SideEffects, Kept
  <2>2. QED
    BY <1>2, <1>4, <2>1 DEF Added, ns
<1>5. QED
  BY <1>3, <1>4

-----------------------------------------------------------------------------
(* An evaluation in a cut made when the nodes of c were cached, those of d being so *)
(* by now.                                                                          *)

\* What was evaluated before the cut and is still needed is its interface's own.
Kin(w, c) == \A i \in Foreign : \A n \in w[i] : n \in Base(c) \ c => n \in Own(i, c)

\* What interface i has evaluated in the end.
Grown(w, i, c) == [j \in Foreign |-> IF j = i THEN w[j] \cup (Own(i, c) \ c) ELSE w[j]]

\* What is added to the catalog is the interface's own.
LEMMA AddedIsOwn ==
    ASSUME Shaped, NEW c, OneInput(c), NEW i \in Interfaces, Part(i, c) # {},
           NEW d, c \subseteq d, Own(i, c) \cap d \subseteq c
    PROVE  Added(Part(i, c), d) \ d \subseteq Own(i, c) \ c
<1>1. Added(Part(i, c), d) \subseteq Visited(Part(i, c), d)
  BY AddedFacts
<1>2. Visited(Part(i, c), d) \ d \subseteq Own(i, c) \ c
  BY VisitedIsOwn
<1>3. QED
  BY <1>1, <1>2

\* What is needed when more is cached was needed and not cached before.
LEMMA StillNeeded ==
    ASSUME Shaped, NEW c, NEW d, c \subseteq d, NEW n, n \in Base(d) \ d
    PROVE  n \in Base(c) \ c
<1>1. First \in Nodes
  BY DEF Shaped, First
<1>2. QED
  BY <1>1, NeededShrinks DEF Base

\* No node with a single input is left behind.
LEMMA EvaluateOneInput ==
    ASSUME Shaped, NEW c, NEW w, Settled(c, w), NEW i \in Interfaces, Part(i, c) # {},
           NEW d, c \subseteq d, Own(i, c) \cap d \subseteq c, OneInput(d), First \notin Part(i, c)
    PROVE  OneInput(d \cup Added(Part(i, c), d))
<1> DEFINE ns == Part(i, c)
           e == d \cup Added(ns, d)
<1>0. OneInput(c) /\ d \subseteq e /\ Base(d) \subseteq Nodes
  BY BaseFacts DEF Settled
<1>1. /\ Added(ns, d) \ d \subseteq Own(i, c) \ c
      /\ i # Cache => Added(ns, d) = Sinks(ns)
      /\ i = Cache => \A n \in Added(ns, d) : n.kind = "construct"
  BY <1>0, AddedFacts, AddedIsOwn
<1>2. Own(i, c) \subseteq ns
  BY PartFacts
<1> SUFFICES ASSUME NEW n \in Base(e) \ e, ~IsSource(n), \A p \in Preds(n) : p.kind # "attrs",
                    NEW p \in Preds(n), p \in e, ~IsSource(p)
             PROVE  FALSE
  BY DEF OneInput
<1>3. n \in Base(d) \ d /\ n \in Base(c) \ c
  BY <1>0, StillNeeded
<1>4. p \notin d
  BY <1>3 DEF OneInput
<1>5. p \in Added(ns, d) /\ p \in Own(i, c)
  BY <1>1, <1>4
<1>6. n \in Succs(p) /\ n \in Nodes
  BY <1>0, <1>3 DEF Shaped
<1>7. n \in Own(i, c)
  BY <1>0, <1>3, <1>5, <1>6, OwnOutputs
<1>8. CASE i # Cache
  <2>1. p \in Sinks(ns) /\ n \in ns
    BY <1>1, <1>2, <1>5, <1>7, <1>8
  <2> HIDE DEF ns
  <2>2. QED
    BY <1>6, <2>1 DEF Sinks
<1>9. CASE i = Cache
  BY <1>1, <1>5, <1>9 DEF IsSource
<1>10. QED
  BY <1>8, <1>9

\* What other interfaces have evaluated is still below their sources.
LEMMA EvaluateEvaluated ==
    ASSUME Shaped, NEW c, OneInput(c), NEW i \in Interfaces, Part(i, c) # {},
           NEW d, c \subseteq d, Own(i, c) \cap d \subseteq c, NEW w, Evaluated(d, w), Kin(w, c)
    PROVE  Evaluated(d \cup Added(Part(i, c), d), Grown(w, i, c))
<1> DEFINE ns == Part(i, c)
           e == d \cup Added(ns, d)
           g == Grown(w, i, c)
<1>0. /\ d \subseteq e /\ Base(c) \subseteq Nodes
      /\ Own(i, c) \subseteq Base(c) /\ Own(i, c) \subseteq ns
  BY BaseFacts, PartFacts
<1>1. /\ Added(ns, d) \ d \subseteq Own(i, c) \ c
      /\ i # Cache => Added(ns, d) = Sinks(ns)
  BY AddedFacts, AddedIsOwn
<1>2. \A j \in Foreign : g[j] = IF j = i THEN w[j] \cup (Own(i, c) \ c) ELSE w[j]
  BY DEF Grown
<1> HIDE DEF g
\* What was put into the catalog just now is read by none of the interface's own.
<1>3. ASSUME i # Cache, NEW n \in Own(i, c), NEW p \in Preds(n), p \in e PROVE p \in d
  <2>1. n \in Succs(p) /\ n \in ns
    BY <1>0, <1>3 DEF Shaped
  <2>2. p \in e \ d => p \in Sinks(ns)
    BY <1>1, <1>3
  <2> HIDE DEF ns, e
  <2>3. p \notin Sinks(ns)
    BY <2>1 DEF Sinks
  <2>4. QED
    BY <1>3, <2>2, <2>3
<1>4. ASSUME NEW j \in Foreign, NEW n \in w[j]
      PROVE  /\ IsSource(n) => InterfaceOf(n) = j
             /\ \A p \in Preds(n) : (IsSource(p) => InterfaceOf(p) = j) /\ (p \notin e => p \in g[j])
             /\ n \in Base(e) \ e => IsSource(n) \/ \E p \in Preds(n) : IsSource(p) \/ p \in g[j] \ e
  <2>1. /\ IsSource(n) => InterfaceOf(n) = j
        /\ \A p \in Preds(n) : (IsSource(p) => InterfaceOf(p) = j) /\ (p \notin d => p \in w[j])
        /\ n \in Base(d) \ d => IsSource(n) \/ \E p \in Preds(n) : IsSource(p) \/ p \in w[j] \ d
    BY <1>4 DEF Evaluated
  <2>2. w[j] \subseteq g[j]
    BY <1>2, <1>4
  <2>3. ASSUME n \in Base(e) \ e, ~IsSource(n) PROVE \E p \in Preds(n) : IsSource(p) \/ p \in g[j] \ e
    <3>1. n \in Base(d) \ d /\ n \in Base(c) \ c
      BY <1>0, <2>3, StillNeeded
    <3>2. PICK p \in Preds(n) : IsSource(p) \/ p \in w[j] \ d
      BY <2>1, <2>3, <3>1
    <3>3. ASSUME p \in w[j] \ d, p \in e PROVE FALSE
      <4>1. p \in Own(i, c) \ c
        BY <1>1, <3>3
      <4>2. p \in Base(c) \ c
        BY <1>0, <4>1
      <4>3. p \in Own(j, c) /\ n \in Own(j, c)
        BY <1>4, <3>1, <3>3, <4>2 DEF Kin
      <4>4. j = i /\ i # Cache
        BY <1>4, <4>1, <4>3, OwnFacts DEF Foreign
      <4>5. QED
        BY <1>3, <3>3, <4>3, <4>4
    <3>4. QED
      BY <2>2, <3>2, <3>3
  <2>4. QED
    BY <1>0, <2>1, <2>2, <2>3
<1>5. ASSUME i \in Foreign, NEW n \in Own(i, c) \ c
      PROVE  /\ IsSource(n) => InterfaceOf(n) = i
             /\ \A p \in Preds(n) : (IsSource(p) => InterfaceOf(p) = i) /\ (p \notin e => p \in g[i])
             /\ n \in Base(e) \ e => IsSource(n) \/ \E p \in Preds(n) : IsSource(p) \/ p \in g[i] \ e
  <2>1. Own(i, c) \ c \subseteq g[i]
    BY <1>2, <1>5
  <2>2. n \in Impact(c)[i] /\ n \in Base(c) /\ i # Cache
    BY <1>0, <1>5, OwnFacts DEF Foreign
  <2>3. IsSource(n) => InterfaceOf(n) = i
    BY <2>2, SourcesImpact
  <2>4. \A p \in Preds(n) : (IsSource(p) => InterfaceOf(p) = i) /\ (p \notin c => p \in Own(i, c))
    BY <1>5, OwnInputs
  <2>5. ASSUME ~IsSource(n) PROVE \E p \in Preds(n) : IsSource(p) \/ p \in g[i] \ e
    <3>1. PICK p \in Preds(n) : p \in Impact(c)[i]
      BY <2>2, <2>5, ImpactFacts
    <3>2. CASE IsSource(p)
      BY <3>2
    <3>3. CASE ~IsSource(p)
      <4>1. p \notin c
        BY <2>2, <3>1, <3>3, ImpactFacts
      <4>2. p \in Own(i, c)
        BY <2>4, <4>1
      <4>3. p \notin d
        BY <4>1, <4>2
      <4>4. p \notin e
        BY <1>3, <1>5, <2>2, <4>3
      <4>5. QED
        BY <2>1, <4>1, <4>2, <4>4
    <3>4. QED
      BY <3>2, <3>3
  <2>6. QED
    BY <1>0, <2>1, <2>3, <2>4, <2>5
<1>6. ASSUME NEW j \in Foreign, NEW n \in g[j]
      PROVE  /\ IsSource(n) => InterfaceOf(n) = j
             /\ \A p \in Preds(n) : (IsSource(p) => InterfaceOf(p) = j) /\ (p \notin e => p \in g[j])
             /\ n \in Base(e) \ e => IsSource(n) \/ \E p \in Preds(n) : IsSource(p) \/ p \in g[j] \ e
  <2>1. CASE n \in w[j]
    BY <1>4, <2>1
  <2>2. CASE n \notin w[j]
    <3>1. j = i /\ n \in Own(i, c) \ c
      BY <1>2, <1>6, <2>2
    <3>2. QED
      BY <1>5, <3>1
  <2>3. QED
    BY <2>1, <2>2
<1> HIDE DEF e
<1>7. Evaluated(e, g)
  BY <1>6 DEF Evaluated
<1>8. QED
  BY <1>7 DEF e, g

\* What is read by a new entry of the catalog is cached, too, or was evaluated.
LEMMA EvaluateExplained ==
    ASSUME Shaped, NEW c, OneInput(c), NEW i \in Interfaces, Part(i, c) # {},
           NEW d, c \subseteq d, Own(i, c) \cap d \subseteq c, NEW w, Explained(d, w)
    PROVE  Explained(d \cup Added(Part(i, c), d), Grown(w, i, c))
<1> DEFINE ns == Part(i, c)
           e == d \cup Added(ns, d)
           g == Grown(w, i, c)
<1>0. d \subseteq e /\ ns \in SUBSET Nodes /\ Own(i, c) \subseteq ns /\ Base(c) \subseteq Nodes /\ Own(i, c) \subseteq Base(c)
  BY PartFacts, BaseFacts
<1>1. /\ Added(ns, d) \ d \subseteq Own(i, c) \ c
      /\ Added(ns, d) \subseteq Visited(ns, d)
      /\ i = Cache => \A n \in Added(ns, d) : n.kind = "construct"
  BY AddedFacts, AddedIsOwn
<1>2. \A j \in Foreign : g[j] = IF j = i THEN w[j] \cup (Own(i, c) \ c) ELSE w[j]
  BY DEF Grown
<1> HIDE DEF g
<1>3. ASSUME NEW n \in e, NEW p \in Preds(n), p \notin e, p.kind = "variable"
      PROVE  \E j \in Foreign : p \in g[j]
  <2>1. CASE n \in d
    <3>1. PICK j \in Foreign : p \in w[j]
      BY <1>0, <1>3, <2>1 DEF Explained
    <3>2. QED
      BY <1>2, <3>1
  <2>2. CASE n \notin d
    <3>1. n \in Added(ns, d) /\ n \in Own(i, c) \ c /\ n \in Visited(ns, d) /\ n \in Nodes
      BY <1>0, <1>1, <1>3, <2>2
    <3>2. p \in Own(i, c) \ c
      BY <1>0, <1>3, <3>1, OwnInputs
    <3>3. CASE i # Cache
      <4>1. i \in Foreign
        BY <3>3 DEF Foreign
      <4>2. QED
        BY <1>2, <3>2, <4>1
    <3>4. CASE i = Cache
      <4>1. IsSource(n)
        BY <1>1, <3>1, <3>4 DEF IsSource
      <4>2. QED
        BY <1>3, <3>1, <4>1 DEF Shaped
    <3>5. QED
      BY <3>3, <3>4
  <2>3. QED
    BY <2>1, <2>2
<1> HIDE DEF e
<1>4. Explained(e, g)
  BY <1>3 DEF Explained
<1>5. QED
  BY <1>4 DEF e, g

\* An interface's own nodes are still its own by name: what was evaluated before the
\* cut, or of this one, keeps to its interface.
LEMMA KinGrows ==
    ASSUME NEW c, NEW i \in Interfaces, NEW w, Kin(w, c)
    PROVE  Kin(Grown(w, i, c), c)
<1> DEFINE g == Grown(w, i, c)
<1>1. \A j \in Foreign : g[j] = IF j = i THEN w[j] \cup (Own(i, c) \ c) ELSE w[j]
  BY DEF Grown
<1> HIDE DEF g
<1>2. Kin(g, c)
  BY <1>1 DEF Kin
<1>3. QED
  BY <1>2 DEF g

-----------------------------------------------------------------------------
(* The invariant of the first display. *)

\* No step changes the graph, nor then anything that is read off it.
LEMMA SameEdges ==
    ASSUME irgraph' = irgraph
    PROVE  /\ \A n : Preds(n)' = Preds(n)
           /\ \A n : Succs(n)' = Succs(n)
           /\ Nodes' = Nodes
  BY DEF Preds, Succs, Nodes

LEMMA SameNeeded ==
    ASSUME irgraph' = irgraph, NEW n, NEW c
    PROVE  Needed(n, c)' = Needed(n, c)
<1>1. [m \in Nodes |-> IF m \in c THEN {} ELSE Preds(m)]' = [m \in Nodes |-> IF m \in c THEN {} ELSE Preds(m)]
  BY SameEdges
<1>2. QED
  BY <1>1, Zenon DEF Needed

LEMMA SameImpacted ==
    ASSUME irgraph' = irgraph, NEW ns, NEW base, NEW c
    PROVE  Impacted(ns, base, c)' = Impacted(ns, base, c)
<1>1. [m \in Nodes |-> (Succs(m) \cap base) \ c]' = [m \in Nodes |-> (Succs(m) \cap base) \ c]
  BY SameEdges
<1>2. QED
  BY <1>1, Zenon DEF Impacted

LEMMA SameCut ==
    ASSUME irgraph' = irgraph, NEW c
    PROVE  /\ Base(c)' = Base(c)
           /\ \A i : Own(i, c)' = Own(i, c)
           /\ \A i : Part(i, c)' = Part(i, c)
<1>1. Base(c)' = Base(c)
  BY SameNeeded DEF Base, First
<1>2. \A ns, base : Impacted(ns, base, c)' = Impacted(ns, base, c)
  BY SameImpacted
<1>3. BySource(c)' = BySource(c)
  BY <1>1, <1>2 DEF BySource
<1>4. \A ns, x : ReadBy(ns, x)' = ReadBy(ns, x)
  BY SameEdges DEF ReadBy
<1>5. Starts(c)' = Starts(c)
  BY <1>1, <1>3, <1>4 DEF Starts, DefaultStarts
<1>6. Impact(c)' = Impact(c)
  BY <1>1, <1>2, <1>3, <1>5 DEF Impact
<1>7. \A i : Own(i, c)' = Own(i, c)
  BY <1>6 DEF Own
<1>8. \A i : Given(i, c)' = Given(i, c)
  BY <1>4, <1>7 DEF Given, CachedInputs
<1>9. \A ns : Auxiliaries(ns)' = Auxiliaries(ns)
  BY SameEdges DEF Auxiliaries
<1>10. \A i : Part(i, c)' = Part(i, c)
  BY <1>8, <1>9 DEF Part
<1>11. QED
  BY <1>1, <1>7, <1>10

LEMMA SameSettled ==
    ASSUME irgraph' = irgraph, NEW c, NEW w
    PROVE  /\ Settled(c, w)' <=> Settled(c, w)
           /\ Kin(w, c)' <=> Kin(w, c)
           /\ Shaped' <=> Shaped
<1>1. OneInput(c)' <=> OneInput(c)
  BY SameEdges, SameCut DEF OneInput
<1>2. Evaluated(c, w)' <=> Evaluated(c, w)
  BY SameEdges, SameCut DEF Evaluated
<1>3. Explained(c, w)' <=> Explained(c, w)
  BY SameEdges, SameCut DEF Explained
<1>4. Kin(w, c)' <=> Kin(w, c)
  BY SameCut DEF Kin
<1>5. Shaped' <=> Shaped
  BY SameEdges DEF Shaped
<1>6. QED
  BY <1>1, <1>2, <1>3, <1>4, <1>5 DEF Settled

\* When the cut was made the nodes of c were cached; now those of d are.  What is
\* left of it no evaluation since has touched.
Cutting(c, u, d, w) ==
    /\ c \subseteq d
    /\ Settled(c, u)
    /\ Settled(d, w)
    /\ Kin(w, c)
    /\ \A ns \in pending : \E i \in Interfaces : ns = Part(i, c) /\ ns # {} /\ Own(i, c) \cap d \subseteq c

FirstInv ==
    /\ next \in Nat /\ next >= 1
    /\ Shaped
    /\ pc # "evaluate" => pending = {}
    /\ next = 1 /\ pc = "idle" => cached = {}
    /\ next = 1 /\ pc = "segment" => \E d, w : Catalog = d /\ Settled(d, w)
    /\ next = 1 /\ pc = "evaluate" => \E c, u, d, w : Catalog = d /\ Cutting(c, u, d, w)

LEMMA FirstInit ==
    ASSUME Init, ~UndefinedNames
    PROVE  FirstInv
<1>1. PICK p \in Programs : irgraph = GraphOf(p, displays)
  BY DEF Init
<1>2. displays \in [1..DisplayCount -> Display]
  BY DEF Init
<1>3. Shaped
  BY <1>1, <1>2, GraphIsShaped
<1>4. QED
  BY <1>3 DEF Init, FirstInv

LEMMA FirstBegin ==
    ASSUME FirstInv, Begin
    PROVE  FirstInv'
<1>1. irgraph' = irgraph /\ next' = next /\ pc' = "segment" /\ pending' = {} /\ Shaped'
  BY SameSettled DEF FirstInv, Begin
<1>2. ASSUME next = 1 PROVE \E d, w : Catalog' = d /\ Settled(d, w)'
  <2> DEFINE w == [i \in Foreign |-> {}]
  <2>1. Catalog' = {}
    BY <1>2 DEF FirstInv, Begin, Catalog, Explaining
  <2>2. OneInput({}) /\ Evaluated({}, w) /\ Explained({}, w)
    BY DEF OneInput, Evaluated, Explained
  <2> HIDE DEF w
  <2>3. \A d : d = {} => Settled(d, w)'
    BY <1>1, <2>2, SameSettled DEF Settled
  <2>4. QED
    BY <2>1, <2>3
<1>3. QED
  BY <1>1, <1>2 DEF FirstInv

\* Each subgraph of the cut is what one interface may evaluate alone.
LEMMA CutFacts ==
    ASSUME NEW c, NEW ns \in Cut(Impact(c), c)
    PROVE  \E i \in Interfaces : ns = Part(i, c) /\ ns # {}
<1> DEFINE own == [i \in Interfaces |-> Impact(c)[i] \ Shared(Impact(c))]
           given == [i \in Interfaces |-> own[i] \cup CachedInputs(i, own[i], c)]
<1>1. \A i \in Interfaces : own[i] = Own(i, c)
  BY DEF Own
<1>2. \A i \in Interfaces : given[i] = own[i] \cup CachedInputs(i, own[i], c)
  OBVIOUS
<1>3. ns \in {x \in {given[i] \cup Auxiliaries(given[i]) : i \in Interfaces} : Cardinality(x) > 1}
  BY Zenon DEF Cut
<1> HIDE DEF own, given
<1>4. \A i \in Interfaces : given[i] = Given(i, c)
  BY <1>1, <1>2 DEF Given
<1>5. PICK i \in Interfaces : ns = given[i] \cup Auxiliaries(given[i])
  BY <1>3
<1>6. Cardinality(ns) > 1
  BY <1>3
<1>7. ns # {}
  BY <1>6, FS_EmptySet
<1>8. QED
  BY <1>4, <1>5, <1>7 DEF Part

LEMMA FirstSegment ==
    ASSUME FirstInv, Segment
    PROVE  FirstInv'
<1>1. irgraph' = irgraph /\ next' = next /\ pc' = "evaluate" /\ Shaped' /\ Catalog' = Catalog
  BY SameSettled DEF FirstInv, Segment, Catalog, Explaining
<1>2. ASSUME next = 1 PROVE \E c, u, d, w : Catalog' = d /\ Cutting(c, u, d, w)'
  <2>1. PICK d, w : Catalog = d /\ Settled(d, w)
    BY <1>2 DEF FirstInv, Segment
  <2>2. pending' = Cut(Impact(d), d)
    <3>1. PICK base \in {Needed(Return(next), d)} :
            \E bySource \in {[i \in Interfaces |-> Impacted(SourcesOf(i, base), base, d)]} :
            \E starts \in {DefaultStarts(base, d, bySource)} :
            \E impacted \in {[bySource EXCEPT ![Cache] = @ \cup Impacted(starts, base, d)]} :
               pending' = Cut(impacted, d)
      BY <2>1 DEF Segment
    <3>2. PICK bySource \in {[i \in Interfaces |-> Impacted(SourcesOf(i, base), base, d)]} :
            \E starts \in {DefaultStarts(base, d, bySource)} :
            \E impacted \in {[bySource EXCEPT ![Cache] = @ \cup Impacted(starts, base, d)]} :
               pending' = Cut(impacted, d)
      BY <3>1
    <3>3. PICK starts \in {DefaultStarts(base, d, bySource)} :
            \E impacted \in {[bySource EXCEPT ![Cache] = @ \cup Impacted(starts, base, d)]} :
               pending' = Cut(impacted, d)
      BY <3>2
    <3>4. base = Base(d)
      BY <1>2, <3>1 DEF Base, First
    <3>5. bySource = BySource(d)
      BY <3>2, <3>4 DEF BySource
    <3>6. starts = Starts(d)
      BY <3>3, <3>4, <3>5 DEF Starts
    <3>7. [bySource EXCEPT ![Cache] = @ \cup Impacted(starts, base, d)] = Impact(d)
      BY <3>4, <3>5, <3>6, Zenon DEF Impact
    <3>8. QED
      BY <3>3, <3>7
  <2>3. \A ns \in pending' : \E i \in Interfaces : ns = Part(i, d)' /\ ns # {} /\ Own(i, d)' \cap d \subseteq d
    BY <1>1, <2>2, CutFacts, SameCut
  <2>4. Kin(w, d)
    BY <2>1, EvaluatedIsOwn DEF FirstInv, Kin, Settled
  <2>5. Settled(d, w)' /\ Kin(w, d)'
    BY <1>1, <2>1, <2>4, SameSettled
  <2>6. Cutting(d, w, d, w)'
    BY <2>3, <2>5 DEF Cutting
  <2>7. QED
    BY <1>1, <2>1, <2>6
<1>3. QED
  BY <1>1, <1>2 DEF FirstInv

LEMMA FirstLoopAgain ==
    ASSUME FirstInv, LoopAgain
    PROVE  FirstInv'
<1>1. irgraph' = irgraph /\ next' = next /\ pc' = "segment" /\ pending' = {} /\ Shaped' /\ Catalog' = Catalog
  BY SameSettled DEF FirstInv, LoopAgain, Catalog, Explaining
<1>2. ASSUME next = 1 PROVE \E d, w : Catalog' = d /\ Settled(d, w)'
  <2>1. PICK c, u, d, w : Catalog = d /\ Cutting(c, u, d, w)
    BY <1>2 DEF FirstInv, LoopAgain
  <2>2. Settled(d, w)'
    BY <1>1, <2>1, SameSettled DEF Cutting
  <2>3. QED
    BY <1>1, <2>1, <2>2
<1>3. QED
  BY <1>1, <1>2 DEF FirstInv

\* A display that has ended is not the first any more.
LEMMA FirstEnd ==
    ASSUME FirstInv, NEW how, End(how), irgraph' = irgraph
    PROVE  FirstInv'
<1>1. next' \in Nat /\ next' >= 1 /\ next' # 1 /\ pc' = "idle" /\ pending' = {}
  BY DEF FirstInv, End
<1>2. Shaped'
  BY SameSettled DEF FirstInv
<1>3. QED
  BY <1>1, <1>2 DEF FirstInv

LEMMA FirstEvaluate ==
    ASSUME FirstInv, NEW ns \in pending, Evaluate(ns)
    PROVE  FirstInv'
<1>1. CASE Return(next) \in ns
  <2>1. End("shown") /\ irgraph' = irgraph
    BY <1>1 DEF Evaluate
  <2>2. QED
    BY <2>1, FirstEnd
<1>2. CASE Return(next) \notin ns
  <2>1. /\ irgraph' = irgraph /\ next' = next /\ pc' = "evaluate" /\ pc = "evaluate"
        /\ pending' = pending \ {ns} /\ displays' = displays
        /\ Put(Added(ns, Catalog), Added(ns, Catalog))
    BY <1>2 DEF Evaluate
  <2>2. Catalog' = Catalog \cup Added(ns, Catalog) /\ Shaped'
    BY <2>1, SameSettled DEF FirstInv, Put, Catalog, Explaining
  <2>3. ASSUME next = 1 PROVE \E c, u, d, w : Catalog' = d /\ Cutting(c, u, d, w)'
    <3>1. PICK c, u, d, w : Catalog = d /\ Cutting(c, u, d, w)
      BY <2>1, <2>3 DEF FirstInv
    <3>2. PICK i \in Interfaces : ns = Part(i, c) /\ ns # {} /\ Own(i, c) \cap d \subseteq c
      BY <3>1 DEF Cutting
    <3> DEFINE added == Added(ns, d)
               g == Grown(w, i, c)
    <3>3. /\ Shaped /\ Settled(c, u) /\ OneInput(c) /\ Kin(w, c) /\ c \subseteq d
          /\ OneInput(d) /\ Evaluated(d, w) /\ Explained(d, w) /\ First \notin ns
      BY <1>2, <2>3, <3>1 DEF FirstInv, Cutting, Settled, First
    <3>4. OneInput(d \cup added)
      BY <3>2, <3>3, EvaluateOneInput
    <3>5. Evaluated(d \cup added, g)
      BY <3>2, <3>3, EvaluateEvaluated
    <3>6. Explained(d \cup added, g)
      BY <3>2, <3>3, EvaluateExplained
    <3>7. Kin(g, c)
      BY <3>3, KinGrows
    <3>8. added \ d \subseteq Own(i, c)
      BY <3>2, <3>3, AddedIsOwn
    <3> HIDE DEF added, g
    <3>9. PICK e : e = d \cup added
      OBVIOUS
    <3>10. Catalog' = e
      BY <2>2, <3>1, <3>9 DEF added
    <3>11. PICK v : v = g
      OBVIOUS
    <3>12. Settled(e, v) /\ Kin(v, c)
      BY <3>4, <3>5, <3>6, <3>7, <3>9, <3>11 DEF Settled
    <3>13. Settled(e, v)' /\ Kin(v, c)' /\ Settled(c, u)'
      BY <2>1, <3>3, <3>12, SameSettled
    <3>14. ASSUME NEW other \in pending'
           PROVE  \E j \in Interfaces : other = Part(j, c)' /\ other # {} /\ Own(j, c)' \cap e \subseteq c
      <4>1. other \in pending /\ other # ns
        BY <2>1
      <4>2. PICK j \in Interfaces : other = Part(j, c) /\ other # {} /\ Own(j, c) \cap d \subseteq c
        BY <3>1, <4>1 DEF Cutting
      <4>3. j # i
        BY <3>2, <4>1, <4>2
      <4>4. \A n : ~(n \in Own(i, c) /\ n \in Own(j, c))
        BY <4>3, OwnFacts
      <4>5. Own(j, c) \cap e \subseteq c
        BY <3>8, <3>9, <4>2, <4>4
      <4>6. QED
        BY <2>1, <4>2, <4>5, SameCut
    <3>15. c \subseteq e
      BY <3>3, <3>9
    <3>16. Cutting(c, u, e, v)'
      BY <3>13, <3>14, <3>15 DEF Cutting
    <3>17. QED
      BY <3>10, <3>16
  <2>4. QED
    BY <2>1, <2>2, <2>3 DEF FirstInv
<1>3. QED
  BY <1>1, <1>2

LEMMA FirstNext == FirstInv /\ [Next]_vars => FirstInv'
<1> SUFFICES ASSUME FirstInv, [Next]_vars PROVE FirstInv'
  OBVIOUS
<1>1. CASE Begin
  BY <1>1, FirstBegin
<1>2. CASE Segment
  BY <1>2, FirstSegment
<1>3. CASE LoopAgain
  BY <1>3, FirstLoopAgain
<1>4. ASSUME NEW ns \in pending, Evaluate(ns) PROVE FirstInv'
  BY <1>4, FirstEvaluate
<1>5. ASSUME NEW ns \in pending, Raise(ns) PROVE FirstInv'
  <2>1. End("raised") /\ irgraph' = irgraph
    BY <1>5 DEF Raise
  <2>2. QED
    BY <2>1, FirstEnd
<1>6. CASE UNCHANGED vars
  <2>1. /\ irgraph' = irgraph /\ next' = next /\ pc' = pc /\ pending' = pending /\ cached' = cached
        /\ Catalog' = Catalog
    BY <1>6 DEF vars, Catalog, Explaining
  <2>2. Shaped'
    BY <2>1, SameSettled DEF FirstInv
  <2>3. ASSUME next = 1, pc = "segment" PROVE \E d, w : Catalog' = d /\ Settled(d, w)'
    <3>1. PICK d, w : Catalog = d /\ Settled(d, w)
      BY <2>3 DEF FirstInv
    <3>2. QED
      BY <2>1, <3>1, SameSettled
  <2>4. ASSUME next = 1, pc = "evaluate" PROVE \E c, u, d, w : Catalog' = d /\ Cutting(c, u, d, w)'
    <3>1. PICK c, u, d, w : Catalog = d /\ Cutting(c, u, d, w)
      BY <2>4 DEF FirstInv
    <3>2. Cutting(c, u, d, w)'
      BY <2>1, <3>1, SameSettled, SameCut DEF Cutting
    <3>3. QED
      BY <2>1, <3>1, <3>2
  <2>5. QED
    BY <2>1, <2>2, <2>3, <2>4 DEF FirstInv
<1>7. QED
  BY <1>1, <1>2, <1>3, <1>4, <1>5, <1>6 DEF Next

LEMMA FirstEvaluable == FirstInv => FirstSubgraphsEvaluable
<1> SUFFICES ASSUME FirstInv, next = 1, NEW ns \in pending
             PROVE  /\ \A n \in Visited(ns, Catalog) \ Catalog : Preds(n) \subseteq ns \cup Catalog
                    /\ InterfaceFor(ns) # Cache => Evaluable(ns, Catalog)
  BY DEF FirstSubgraphsEvaluable
<1>1. PICK c, u, d, w : Catalog = d /\ Cutting(c, u, d, w)
  BY DEF FirstInv
<1>2. PICK i \in Interfaces : ns = Part(i, c) /\ ns # {} /\ Own(i, c) \cap d \subseteq c
  BY <1>1 DEF Cutting
<1>3. Shaped /\ OneInput(c) /\ c \subseteq d
  BY <1>1 DEF FirstInv, Cutting, Settled
<1>4. /\ \A n \in Visited(ns, d) \ d : Preds(n) \subseteq ns \cup d
      /\ InterfaceFor(ns) # Cache => Evaluable(ns, d)
  BY <1>2, <1>3, PartEvaluable
<1>5. QED
  BY <1>1, <1>4

\* find_dependent_subgraphs_of_node() in the first display, for programs of any size in
\* which every name is defined, any data sources and any
\* interleaving of failures: whatever subgraph is evaluated, nothing in it is got to
\* before its inputs are in the subgraph or in the cache, and an interface other than
\* the cache is given all it needs.
THEOREM FirstDisplay ==
    ASSUME ~UndefinedNames
    PROVE  Spec => []FirstSubgraphsEvaluable
<1>1. Init => FirstInv
  BY FirstInit
<1>2. QED
  BY <1>1, FirstNext, FirstEvaluable, PTL DEF Spec

-----------------------------------------------------------------------------
(* What failures leave in the catalog. *)

Lost == cached \ stored

Failed == {k \in 1..DisplayCount : outcome[k] = "raised" /\ ~displays[k].explain}

\* OneLossPerFailure, with the types it needs: a display fails after those before it.
LossInv ==
    /\ IsFiniteSet(Lost)
    /\ Cardinality(Lost) <= Cardinality(Failed)
    /\ next \in 1..(DisplayCount + 1)
    /\ pc # "idle" => next <= DisplayCount
    /\ pc # "evaluate" => pending = {}
    /\ outcome \in [1..DisplayCount -> {"none", "shown", "raised"}]
    /\ \A k \in 1..DisplayCount : k >= next => outcome[k] = "none"

\* There are finitely many failed displays.
LEMMA FailedFinite == IsFiniteSet(Failed) /\ Cardinality(Failed) \in Nat
<1>1. IsFiniteSet(1..DisplayCount)
  BY SessionAssumption, FS_Interval
<1>2. Failed \subseteq 1..DisplayCount
  BY DEF Failed
<1>3. IsFiniteSet(Failed)
  BY <1>1, <1>2, FS_Subset
<1>4. QED
  BY <1>3, FS_CardinalityType

LEMMA LossInit == Init => LossInv
<1> SUFFICES ASSUME Init PROVE LossInv
  OBVIOUS
<1>1. Lost = {}
  BY DEF Init, Lost
<1>2. IsFiniteSet(Lost) /\ Cardinality(Lost) = 0
  BY <1>1, FS_EmptySet
<1>3. QED
  BY <1>2, FailedFinite, SessionAssumption DEF Init, LossInv

\* What storing loses: nothing, but of what was entered without its data.
LEMMA PutLoses ==
    ASSUME NEW entries, NEW lost, lost \subseteq entries, Put(entries, entries \ lost)
    PROVE  /\ Explaining => Lost' = Lost
           /\ Lost' \subseteq Lost \cup lost
<1>1. CASE Explaining
  BY <1>1 DEF Put, Lost
<1>2. CASE ~Explaining
  BY <1>2 DEF Put, Lost
<1>3. QED
  BY <1>1, <1>2

\* The end of a display makes it a failed one, or leaves the others as they are.
LEMMA EndCounts ==
    ASSUME LossInv, pc = "evaluate", NEW how \in {"shown", "raised"}, End(how), displays' = displays
    PROVE  /\ Cardinality(Failed') = Cardinality(Failed) + (IF how = "raised" /\ ~Explaining THEN 1 ELSE 0)
           /\ next' \in 1..(DisplayCount + 1) /\ pc' = "idle" /\ pending' = {}
           /\ outcome' \in [1..DisplayCount -> {"none", "shown", "raised"}]
           /\ \A k \in 1..DisplayCount : k >= next' => outcome'[k] = "none"
<1>1. /\ next \in 1..DisplayCount /\ next' = next + 1 /\ pc' = "idle" /\ pending' = {}
      /\ outcome' = [outcome EXCEPT ![next] = how] /\ outcome[next] = "none"
  BY SessionAssumption DEF LossInv, End
<1>2. /\ outcome' \in [1..DisplayCount -> {"none", "shown", "raised"}]
      /\ outcome'[next] = how
      /\ \A k \in 1..DisplayCount : k # next => outcome'[k] = outcome[k]
  BY <1>1 DEF LossInv
<1>3. CASE how = "raised" /\ ~Explaining
  <2>1. Failed' = Failed \cup {next} /\ next \notin Failed
    BY <1>1, <1>2, <1>3 DEF Failed, Explaining
  <2>2. Cardinality(Failed \cup {next}) = Cardinality(Failed) + 1
    BY <2>1, FailedFinite, FS_AddElement
  <2>3. QED
    BY <1>1, <1>2, <1>3, <2>1, <2>2, SessionAssumption DEF LossInv
<1>4. CASE ~(how = "raised" /\ ~Explaining)
  <2>1. Failed' = Failed
    BY <1>1, <1>2, <1>4 DEF Failed, Explaining
  <2>2. QED
    BY <1>1, <1>2, <1>4, <2>1, FailedFinite, SessionAssumption DEF LossInv
<1>5. QED
  BY <1>3, <1>4

LEMMA LossNext == LossInv /\ [Next]_vars => LossInv'
<1> SUFFICES ASSUME LossInv, [Next]_vars PROVE LossInv'
  OBVIOUS
<1>0. IsFiniteSet(Lost) /\ Cardinality(Lost) \in Nat /\ Cardinality(Failed) \in Nat
  BY FailedFinite, FS_CardinalityType DEF LossInv
<1>1. CASE Begin \/ Segment \/ LoopAgain \/ UNCHANGED vars
  <2>1. /\ UNCHANGED <<cached, stored, outcome, displays, next>>
        /\ pc' # "idle" => next <= DisplayCount
        /\ pc' # "evaluate" => pending' = {}
    BY <1>1 DEF Begin, Segment, LoopAgain, vars, LossInv
  <2>2. Lost' = Lost /\ Failed' = Failed
    BY <2>1 DEF Lost, Failed
  <2>3. QED
    BY <2>1, <2>2 DEF LossInv
<1>2. ASSUME NEW ns \in pending, Evaluate(ns) PROVE LossInv'
  <2>1. \A added : added = added \ {}
    OBVIOUS
  <2>2. Lost' \subseteq Lost
    <3>1. PICK added : Put(added, added)
      BY <1>2 DEF Evaluate
    <3>2. Put(added, added \ {})
      BY <2>1, <3>1
    <3>3. Lost' \subseteq Lost \cup {}
      BY <3>2, PutLoses
    <3>4. QED
      BY <3>3
  <2>3. IsFiniteSet(Lost') /\ Cardinality(Lost') <= Cardinality(Lost)
    BY <1>0, <2>2, FS_Subset
  <2>4. Cardinality(Lost') \in Nat
    BY <2>3, FS_CardinalityType
  <2>5. CASE End("shown")
    <3>1. Cardinality(Failed') = Cardinality(Failed)
      BY <1>0, <1>2, <2>5, EndCounts DEF Evaluate
    <3>2. QED
      BY <1>0, <1>2, <2>3, <2>4, <2>5, <3>1, EndCounts DEF Evaluate, LossInv
  <2>6. CASE pending' = pending \ {ns} /\ UNCHANGED <<next, pc, outcome>>
    <3>1. Failed' = Failed
      BY <1>2, <2>6 DEF Failed, Evaluate
    <3>2. QED
      BY <1>0, <2>3, <2>4, <2>6, <3>1, <1>2 DEF LossInv, Evaluate
  <2>7. QED
    BY <1>2, <2>5, <2>6 DEF Evaluate
<1>3. ASSUME NEW ns \in pending, Raise(ns) PROVE LossInv'
  <2>1. PICK entries \in SUBSET Added(ns, Catalog) :
            \E lost \in {{}} \cup {{n} : n \in entries} : Put(entries, entries \ lost)
    BY <1>3 DEF Raise
  <2>2. PICK lost \in {{}} \cup {{n} : n \in entries} : Put(entries, entries \ lost)
    BY <2>1
  <2>3. PICK n : lost \subseteq {n} /\ lost \subseteq entries
    BY <2>2
  <2>4. Lost' \subseteq Lost \cup {n} /\ (Explaining => Lost' = Lost)
    BY <2>2, <2>3, PutLoses
  <2>5. IsFiniteSet(Lost \cup {n}) /\ Cardinality(Lost \cup {n}) <= Cardinality(Lost) + 1
    BY <1>0, FS_AddElement
  <2>6. Cardinality(Lost \cup {n}) \in Nat
    BY <2>5, FS_CardinalityType
  <2>7. IsFiniteSet(Lost') /\ Cardinality(Lost') <= Cardinality(Lost \cup {n})
    BY <2>4, <2>5, FS_Subset
  <2>8. Cardinality(Lost') \in Nat
    BY <2>7, FS_CardinalityType
  <2>9. Cardinality(Lost') <= Cardinality(Lost) + (IF Explaining THEN 0 ELSE 1)
    BY <1>0, <2>4, <2>5, <2>6, <2>7, <2>8
  <2>10. End("raised") /\ displays' = displays /\ pc = "evaluate"
    BY <1>3 DEF Raise
  <2>11. Cardinality(Failed') = Cardinality(Failed) + (IF Explaining THEN 0 ELSE 1)
    BY <2>10, EndCounts
  <2>12. Cardinality(Lost') <= Cardinality(Failed')
    BY <1>0, <2>8, <2>9, <2>11 DEF LossInv
  <2>13. QED
    BY <2>7, <2>10, <2>12, EndCounts DEF LossInv
<1>4. QED
  BY <1>1, <1>2, <1>3 DEF Next

\* However displays fail, explained ones or not, and whatever a failure has left behind
\* for the next: the entries of the session's catalog without data are at most as many
\* as the DISPs that raised.
THEOREM LossesCounted == Spec => []OneLossPerFailure
<1>1. LossInv => OneLossPerFailure
  BY DEF LossInv, OneLossPerFailure, Lost, Failed
<1>2. QED
  BY <1>1, LossInit, LossNext, PTL DEF Spec

===============================================================================
