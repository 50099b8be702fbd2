------------------------------ MODULE HuntSession ------------------------------
(***************************************************************************)
(* How a session of the next-generation Kestrel evaluates its Returns      *)
(* (session.py, ir/graph.py, cache/).  evaluate_instruction() loops: it    *)
(* cuts the instructions a Return depends on into subgraphs that one       *)
(* interface can evaluate alone, has them evaluated, puts the results into *)
(* the cache, and starts over until the Return itself was evaluated.       *)
(*                                                                         *)
(* The cache, SqliteCache, is an interface, too, and keeps nothing of what *)
(* it evaluates but the data of NEW.  EXPLAIN takes the same loop with a   *)
(* virtual copy of the cache's catalog.                                    *)
(*                                                                         *)
(* The graph is that of a whole program; module HuntFlow shows how it      *)
(* comes about.  ProjectEntity, Sort, Limit and Offset have one            *)
(* predecessor and one successor like the Variable behind them, and are    *)
(* drawn as one node with it.                                              *)
(***************************************************************************)
EXTENDS Integers, Sequences, FiniteSets

CONSTANTS
    DataSources,     \* pairs <<interface, data source name>>
    Cache,           \* CACHE_INTERFACE_IDENTIFIER
    StatementCount,  \* variables a program defines
    DisplayCount,    \* DISP and EXPLAIN commands
    UndefinedNames,  \* may a program refer to a name nobody defines?
    Explains         \* may a display be an EXPLAIN?

ASSUME SessionAssumption ==
    /\ StatementCount \in Nat \ {0}
    /\ DisplayCount \in Nat \ {0}
    /\ \A d \in DataSources : d[1] # Cache
    /\ UndefinedNames \in BOOLEAN
    /\ Explains \subseteq BOOLEAN

Interfaces == {d[1] : d \in DataSources} \cup {Cache}

VARIABLES
    irgraph,  \* Session.irgraph, as its set of edges
    displays, \* the displays: their variable, and whether it is only explained
    next,     \* the display being evaluated
    pc,       \* "idle", "segment" or "evaluate"
    pending,  \* subgraphs of this pass not yet evaluated, as sets of nodes
    cached,   \* nodes in the catalog of the session's cache
    virtual,  \* nodes in the catalog of the virtual copy
    stored,   \* nodes the session's cache has the data of
    outcome   \* how each display ended

vars == <<irgraph, displays, next, pc, pending, cached, virtual, stored, outcome>>

-------------------------------------------------------------------------------
\* Statement i is NEW, GET from a data source, or an expression on variable
\* `var'; ref is the variable its filter refers to (0: none).  var is 0 when the
\* name is undefined.
Statement(i) ==
    [kind : {"new"}, var : {0}, ref : {0}]
    \cup [kind : {"get"}, from : DataSources, ref : 0..(i - 1)]
    \cup [kind : {"derive"}, ref : 0..(i - 1),
          var : (1..(i - 1)) \cup (IF UndefinedNames THEN {0} ELSE {})]

Display == [var : 1..StatementCount, explain : Explains]

Node(kind, at) == [kind |-> kind, at |-> at]
Variable(i) == Node("variable", i)
Filter(i) == Node("filter", i)
ProjectAttrs(i) == Node("attrs", i)
Construct(i) == Node("construct", i)
Reference(i) == Node("reference", i)
Source(d) == Node("source", d)
Explain(k) == Node("explain", k)
Return(k) == Node("return", k)

IsSource(n) == n.kind \in {"source", "construct"}

InterfaceOf(n) == IF n.kind = "source" THEN n.at[1] ELSE Cache

\* The node that statement i of program p starts from.
Trunk(p, i) ==
    CASE p[i].kind = "new" -> Construct(i)
      [] p[i].kind = "get" -> Source(p[i].from)
      [] OTHER -> IF p[i].var = 0 THEN Reference(i) ELSE Variable(p[i].var)

Branch(p, i) ==
    IF p[i].ref = 0 THEN {}
    ELSE {<<Variable(p[i].ref), ProjectAttrs(i)>>, <<ProjectAttrs(i), Filter(i)>>}

StatementEdges(p, i) ==
    IF p[i].kind = "get" \/ p[i].ref # 0
    THEN {<<Trunk(p, i), Filter(i)>>, <<Filter(i), Variable(i)>>} \cup Branch(p, i)
    ELSE {<<Trunk(p, i), Variable(i)>>}

DisplayEdges(k, d) ==
    IF d.explain
    THEN {<<Variable(d.var), Explain(k)>>, <<Explain(k), Return(k)>>}
    ELSE {<<Variable(d.var), Return(k)>>}

GraphOf(p, ds) ==
    UNION ({StatementEdges(p, i) : i \in 1..StatementCount}
           \cup {DisplayEdges(k, ds[k]) : k \in 1..DisplayCount})

Programs ==
    {p \in [1..StatementCount -> Statement(StatementCount)] :
        \A i \in 1..StatementCount : p[i] \in Statement(i)}

Preds(n) == {e[1] : e \in {f \in irgraph : f[2] = n}}

Succs(n) == {e[2] : e \in {f \in irgraph : f[1] = n}}

Nodes == UNION {{e[1], e[2]} : e \in irgraph}

\* The nodes that step leads to from those of ns, ns included.  A search goes on from
\* what it has reached last; the longest path goes through three nodes of each
\* statement and two of a display.
Further(step, search) ==
    LET new == (UNION {step[n] : n \in search.last}) \ search.all
    IN  [all |-> search.all \cup new, last |-> new]

Closure(step, ns) ==
    LET searches[d \in 0..(3 * StatementCount + 1)] ==
            IF d = 0 THEN {[all |-> ns, last |-> ns]}
            ELSE {Further(step, search) : search \in searches[d - 1]}
    IN  UNION {search.all : search \in searches[3 * StatementCount + 1]}

-------------------------------------------------------------------------------
\* find_cached_dependent_subgraph_of_node(): what n depends on, but nothing that
\* only cached nodes depend on.
Needed(n, catalog) ==
    Closure([m \in Nodes |-> IF m \in catalog THEN {} ELSE Preds(m)], {n})

\* The nodes below ns in that graph: the edges into cached nodes are cut.
Impacted(ns, base, catalog) ==
    Closure([m \in Nodes |-> (Succs(m) \cap base) \ catalog], ns)

SourcesOf(i, base) == {n \in base : IsSource(n) /\ InterfaceOf(n) = i}

ReadBy(ns, catalog) == UNION {Preds(n) : n \in ns \ catalog}

\* The cached nodes that start an evaluation in the cache: not those read directly
\* by a node that some interface already has to do with.
DefaultStarts(base, catalog, bySource) ==
    (base \cap catalog) \ ReadBy(UNION {bySource[i] : i \in Interfaces}, catalog)

\* Mutated form: a node impacted by two interfaces is left to both.
SharedNone(impacted) == {}

\* The nodes that two interfaces have to do with.
Shared(impacted) ==
    {n \in UNION {impacted[i] : i \in Interfaces} :
        \E i, j \in Interfaces : i # j /\ n \in impacted[i] /\ n \in impacted[j]}

\* The cached nodes that the nodes ns of interface i read; the cache gets none.
CachedInputs(i, ns, catalog) == IF i = Cache THEN {} ELSE catalog \cap ReadBy(ns, catalog)

\* The Variables behind the projections of ns whose Filter is in ns as well.
Auxiliaries(ns) ==
    {p \in UNION {Preds(n) : n \in {m \in ns : m.kind = "attrs" /\ Filter(m.at) \in ns}} :
        p.kind = "variable"}

\* What each interface may evaluate alone, more than a single node.
Cut(impacted, catalog) ==
    LET own == [i \in Interfaces |-> impacted[i] \ Shared(impacted)]
        given == [i \in Interfaces |-> own[i] \cup CachedInputs(i, own[i], catalog)]
    IN  {ns \in {given[i] \cup Auxiliaries(given[i]) : i \in Interfaces} : Cardinality(ns) > 1}

-------------------------------------------------------------------------------
\* IRGraphEvaluable: the interface of the sources, or else the cache.
InterfaceFor(ns) ==
    IF \E n \in ns : IsSource(n)
    THEN InterfaceOf(CHOOSE n \in ns : IsSource(n))
    ELSE Cache

Sinks(ns) == {n \in ns : Succs(n) \cap ns = {}}

\* The nodes _evaluate_instruction_in_graph() gets to from the sinks of ns: it goes
\* no further than what is in the catalog.  Any other interface has to take cached
\* nodes as given, too (OpenSearchInterface raises when it meets one).
Visited(ns, catalog) ==
    Closure([m \in Nodes |-> IF m \in catalog THEN {} ELSE Preds(m) \cap ns], Sinks(ns))

\* What the cache itself adds to its catalog when it evaluates ns.
SideEffects(ns, catalog) ==
    IF InterfaceFor(ns) # Cache THEN {}
    ELSE {n \in Visited(ns, catalog) \ catalog : n.kind = "construct"}

\* Mutated form: the results of other interfaces are only shown.
KeptNot(ns) == {}

\* The catalog gets every result of an interface that is not the cache.
Kept(ns) == IF InterfaceFor(ns) # Cache THEN Sinks(ns) ELSE {}

Added(ns, catalog) == SideEffects(ns, catalog) \cup Kept(ns)

-------------------------------------------------------------------------------
Init ==
    /\ displays \in [1..DisplayCount -> Display]
    /\ \E p \in Programs : irgraph = GraphOf(p, displays)
    /\ next = 1
    /\ pc = "idle"
    /\ pending = {}
    /\ cached = {}
    /\ virtual = {}
    /\ stored = {}
    /\ outcome = [k \in 1..DisplayCount |-> "none"]

Explaining == displays[next].explain

Catalog == IF Explaining THEN virtual ELSE cached

\* Mutated form: the copy of the cache shares its catalog with the original.
PutShared(entries, data) ==
    /\ cached' = cached \cup entries
    /\ virtual' = virtual \cup entries
    /\ stored' = IF Explaining THEN stored ELSE (stored \ entries) \cup data

\* __setitem__() of the cache for each of `entries': it makes the entry of the catalog
\* first, and then the table, whose making may raise; `data' are those that have theirs.
\* The virtual copy stores no data.
Put(entries, data) ==
    IF Explaining
    THEN virtual' = virtual \cup entries /\ UNCHANGED <<cached, stored>>
    ELSE /\ cached' = cached \cup entries
         /\ stored' = (stored \ entries) \cup data
         /\ UNCHANGED virtual

\* evaluate_instruction() is called for the next Return.
Begin ==
    /\ pc = "idle"
    /\ next <= DisplayCount
    /\ virtual' = IF Explaining THEN cached ELSE {}
    /\ pc' = "segment"
    /\ UNCHANGED <<irgraph, displays, next, pending, cached, stored, outcome>>

\* The head of `while True': find_dependent_subgraphs_of_node(), with its locals.
Segment ==
    /\ pc = "segment"
    /\ \E base \in {Needed(Return(next), Catalog)} :
       \E bySource \in {[i \in Interfaces |-> Impacted(SourcesOf(i, base), base, Catalog)]} :
       \E starts \in {DefaultStarts(base, Catalog, bySource)} :
       \E impacted \in {[bySource EXCEPT ![Cache] = @ \cup Impacted(starts, base, Catalog)]} :
          pending' = Cut(impacted, Catalog)
    /\ pc' = "evaluate"
    /\ UNCHANGED <<irgraph, displays, next, cached, virtual, stored, outcome>>

LoopAgain ==
    /\ pc = "evaluate"
    /\ pending = {}
    /\ pc' = "segment"
    /\ UNCHANGED <<irgraph, displays, next, pending, cached, virtual, stored, outcome>>

End(how) ==
    /\ outcome' = [outcome EXCEPT ![next] = how]
    /\ next' = next + 1
    /\ pc' = "idle"
    /\ pending' = {}

\* get_trunk_n_branches() finds the trunk and every branch of n in ns, and the
\* Variable behind each branch, by which it tells the branches apart.
HasInputs(n, ns) ==
    /\ Preds(n) \subseteq ns
    /\ n.kind = "filter" =>
         \A p \in Preds(n) : p.kind = "attrs" => Preds(p) \subseteq ns

\* The evaluation of `expanded' gets to n more than once, by the trunk and by a branch
\* or by two branches: a node on a way from n to the sinks is read by two others.
VisitedAgain(n, expanded) ==
    LET step == [m \in Nodes |-> Succs(m) \cap expanded]
    IN  \E m \in Closure(step, {n}) : Cardinality(step[m]) > 1

\* SqliteCache resolves the references of a Filter in place, and finds none of them
\* when it gets to the Filter again.
ResolvedOnce(n, ns, expanded) ==
    \/ InterfaceFor(ns) # Cache
    \/ n.kind = "filter" /\ Cardinality(Preds(n)) > 1 => ~VisitedAgain(n, expanded)

\* The instructions whose evaluation raises: an input or a reference is not found.
Stuck(ns, catalog) ==
    LET expanded == Visited(ns, catalog) \ catalog
    IN  {n \in expanded :
            ~IsSource(n) /\ ~(HasInputs(n, ns) /\ ResolvedOnce(n, ns, expanded))}

Evaluable(ns, catalog) == Stuck(ns, catalog) = {}

\* evaluate_graph() or explain_graph() of the interface returns, and the results
\* are put into the cache.
Evaluate(ns) ==
    /\ pc = "evaluate"
    /\ ns \in pending
    /\ Evaluable(ns, Catalog)
    /\ Put(Added(ns, Catalog), Added(ns, Catalog))
    /\ IF Return(next) \in ns
       THEN End("shown")
       ELSE /\ pending' = pending \ {ns}
            /\ UNCHANGED <<next, pc, outcome>>
    /\ UNCHANGED <<irgraph, displays>>

\* The interface raises, always when an input is missing, or the storing of what it
\* returns does: the display is abandoned.  What was put into the cache before stays,
\* and so does the entry of what could not be stored, the last one.
Raise(ns) ==
    /\ pc = "evaluate"
    /\ ns \in pending
    /\ \E entries \in SUBSET Added(ns, Catalog) :
       \E lost \in {{}} \cup {{n} : n \in entries} : Put(entries, entries \ lost)
    /\ End("raised")
    /\ UNCHANGED <<irgraph, displays>>

Next ==
    \/ Begin
    \/ Segment
    \/ LoopAgain
    \/ \E ns \in pending : Evaluate(ns) \/ Raise(ns)

\* The session's only thread keeps running.
Spec == Init /\ [][Next]_vars /\ WF_vars(Next)

-------------------------------------------------------------------------------
\* Type invariant.
TypeOK ==
    /\ displays \in [1..DisplayCount -> Display]
    /\ next \in 1..(DisplayCount + 1)
    /\ pc \in {"idle", "segment", "evaluate"}
    /\ \A ns \in pending : ns \subseteq Nodes
    /\ pc # "evaluate" => pending = {}
    /\ cached \subseteq Nodes
    /\ virtual \subseteq Nodes
    /\ stored \subseteq Nodes
    /\ outcome \in [1..DisplayCount -> {"none", "shown", "raised"}]

\* ir/graph.py, find_dependent_subgraphs_of_node(): "Find dependency subgraphs that
\* do not have further dependency".  When its turn comes, whatever was cached
\* meanwhile, each subgraph can be evaluated as it is.  It does not hold of every
\* session: the README tells where it fails, and a part of it is checked.
SubgraphsEvaluable == \A ns \in pending : Evaluable(ns, Catalog)

\* What holds in the first display of every session: nothing is evaluated before what
\* it depends on is in the same subgraph or in the cache, and an interface other than
\* the cache is given all of that and can evaluate it.
FirstSubgraphsEvaluable ==
    next = 1 =>
        \A ns \in pending :
            /\ \A n \in Visited(ns, Catalog) \ Catalog : Preds(n) \subseteq ns \cup Catalog
            /\ InterfaceFor(ns) # Cache => Evaluable(ns, Catalog)

\* cache/base.py, __iter__(): "Return UUIDs of instructions cached".  It does not hold
\* of every session: SqliteCache makes the entry before the table.
CatalogHasData == cached \subseteq stored

\* What is left of it: a DISP that raises loses the data of one entry at most, and
\* neither an EXPLAIN, raising or not, nor a DISP that ends well loses any.
OneLossPerFailure ==
    Cardinality(cached \ stored)
        <= Cardinality({k \in 1..DisplayCount : outcome[k] = "raised" /\ ~displays[k].explain})

\* ir/graph.py, find_dependent_subgraphs_of_node(): "After iterations of return and
\* evaluation of returned dependent subgraphs, the node can finally be evaluated in
\* the last return".  It does not hold of every session either.
EveryDisplayEnds == <>(next > DisplayCount)

\* Statement i is a GET.
IsGet(i) == \E n \in Preds(Filter(i)) : n.kind = "source"

\* It does hold where a GET only refers to variables of other GETs: each pass of the
\* loop then leaves something new in the catalog, or is the last one.
GetsReferToGets ==
    \A i, j \in 1..StatementCount :
        IsGet(i) /\ ProjectAttrs(i) \in Preds(Filter(i)) /\ Variable(j) \in Preds(ProjectAttrs(i))
            => IsGet(j)

DisplaysOfGetsEnd == GetsReferToGets => EveryDisplayEnds

===============================================================================
