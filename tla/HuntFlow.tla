------------------------------- MODULE HuntFlow -------------------------------
(***************************************************************************)
(* How a session of the next-generation Kestrel turns huntflow blocks into *)
(* one graph of instructions (ir/graph.py, frontend/compile.py).  Each     *)
(* statement is compiled into a graph of its own, in which every variable  *)
(* it uses is a Reference.  compose() merges the statements of a block one *)
(* by one into the block's graph, and update() merges the block into the   *)
(* graph of the session.  A Reference is replaced by the newest Variable   *)
(* of its name when the graph it is merged into has one.                   *)
(*                                                                         *)
(* The instructions of a statement between what it reads and the Variable  *)
(* or Return at its end belong to that statement alone; they are drawn as  *)
(* one node with that end.  The version of a Variable and the sequence of  *)
(* a Return are attributes that update() changes in place.                 *)
(***************************************************************************)
EXTENDS Integers, Sequences, FiniteSets, FiniteSetsExt, SequencesExt

CONSTANTS
    Names,        \* variable names
    DataSources,  \* data source URIs
    MaxStatements \* bound on the statements of a session

ASSUME HuntAssumption ==
    /\ MaxStatements \in Nat
    /\ IsFiniteSet(Names)
    /\ IsFiniteSet(DataSources)

\* A statement that defines no name is a DISP or EXPLAIN and ends in a Return.
Statements == {st \in [defines : SUBSET Names, uses : SUBSET Names, source : SUBSET DataSources] :
                 /\ Cardinality(st.defines) <= 1
                 /\ Cardinality(st.source) <= 1
                 /\ st.uses \cup st.source # {}}

VARIABLES
    program,  \* the statements parsed so far
    executed, \* how many of them the session has executed
    version,  \* Variable.version, by statement
    sequence, \* Return.sequence, by statement
    block,    \* graph of the block being compiled
    session,  \* Session.irgraph
    shown     \* statements whose Return was evaluated, in that order

vars == <<program, executed, version, sequence, block, session, shown>>

-------------------------------------------------------------------------------
Variable(s) == [kind |-> "variable", at |-> s]

Return(s) == [kind |-> "return", at |-> s]

\* The node a statement ends in.
End(s) == IF program[s].defines = {} THEN Return(s) ELSE Variable(s)

Reference(n, s) == [kind |-> "reference", name |-> n, at |-> s]

Source(d, s) == [kind |-> "source", uri |-> d, at |-> s]

EmptyGraph == [nodes |-> {}, edges |-> {}]

OfKind(g, kind) == {x \in g.nodes : x.kind = kind}

VariablesOf(g, n, prog) == {v \in OfKind(g, "variable") : prog[v.at].defines = {n}}

Newest(g, n, prog) ==
    CHOOSE v \in VariablesOf(g, n, prog) :
        \A w \in VariablesOf(g, n, prog) : version[w.at] <= version[v.at]

Preds(g, x) == {e[1] : e \in {f \in g.edges : f[2] = x}}

-------------------------------------------------------------------------------
SameContent(x, y) ==
    \/ x.kind = "reference" /\ y.kind = "reference" /\ x.name = y.name
    \/ x.kind = "source" /\ y.kind = "source" /\ x.uri = y.uri

\* Mutated form: a node without predecessors is added like any other.
SingletonAdded(g, x) == x

\* _add_singleton_instruction(): the copy that is already there, or the node.
Singleton(g, x) ==
    IF \E y \in g.nodes : SameContent(x, y)
    THEN CHOOSE y \in g.nodes : SameContent(x, y)
    ELSE x

\* _add_node(): the node that stands for x in g.
Placed(g, x, prog) ==
    IF x.kind = "reference" /\ VariablesOf(g, x.name, prog) # {} THEN Newest(g, x.name, prog)
    ELSE IF x.kind \in {"reference", "source"} THEN Singleton(g, x)
    ELSE x

\* Mutated form: references are resolved after the new variables were added.
MergedVariablesFirst(g, ng, prog) ==
    LET h == [g EXCEPT !.nodes = @ \cup OfKind(ng, "variable")]
    IN  [nodes |-> g.nodes \cup {Placed(h, x, prog) : x \in ng.nodes},
         edges |-> g.edges \cup {<<Placed(h, e[1], prog), Placed(h, e[2], prog)>> : e \in ng.edges}]

\* update(): the references first, then the other nodes, then the edges.
Merged(g, ng, prog) ==
    [nodes |-> g.nodes \cup {Placed(g, x, prog) : x \in ng.nodes},
     edges |-> g.edges \cup {<<Placed(g, e[1], prog), Placed(g, e[2], prog)>> : e \in ng.edges}]

\* Mutated form: the first new version repeats the newest old one.
ShiftedVersionsOverlap(g, ng, prog) ==
    [s \in DOMAIN version |->
        IF Variable(s) \in ng.nodes /\ \E n \in prog[s].defines : VariablesOf(g, n, prog) # {}
        THEN version[s] + Max({version[v.at] : v \in {w \in OfKind(g, "variable") :
                                                        prog[w.at].defines = prog[s].defines}})
        ELSE version[s]]

\* The new versions of ng's variables continue behind those of g.
ShiftedVersions(g, ng, prog) ==
    [s \in DOMAIN version |->
        IF Variable(s) \in ng.nodes /\ \E n \in prog[s].defines : VariablesOf(g, n, prog) # {}
        THEN version[s] + 1 + Max({version[v.at] : v \in {w \in OfKind(g, "variable") :
                                                            prog[w.at].defines = prog[s].defines}})
        ELSE version[s]]

MaxReturnSequence(g) == Max({-1} \cup {sequence[r.at] : r \in OfKind(g, "return")})

\* Mutated form: the sequences of ng's returns start over.
ShiftedSequencesRestart(g, ng) == sequence

ShiftedSequences(g, ng) ==
    [s \in DOMAIN sequence |->
        IF Return(s) \in ng.nodes THEN sequence[s] + MaxReturnSequence(g) + 1 ELSE sequence[s]]

\* The graph that compile.py builds for statement s.
Compiled(s, st) ==
    LET end == IF st.defines = {} THEN Return(s) ELSE Variable(s)
        read == {Reference(n, s) : n \in st.uses} \cup {Source(d, s) : d \in st.source}
    IN  [nodes |-> read \cup {end}, edges |-> read \X {end}]

-------------------------------------------------------------------------------
Init ==
    /\ program = <<>>
    /\ executed = 0
    /\ version = [s \in 1..MaxStatements |-> 0]
    /\ sequence = [s \in 1..MaxStatements |-> 0]
    /\ block = EmptyGraph
    /\ session = EmptyGraph
    /\ shown = <<>>

\* start() composes the graph of one more statement into the block.
Compose(st) ==
    /\ Len(program) < MaxStatements
    /\ program' = Append(program, st)
    /\ LET h == Compiled(Len(program) + 1, st)
       IN  /\ version' = ShiftedVersions(block, h, program')
           /\ sequence' = ShiftedSequences(block, h)
           /\ block' = Merged(block, h, program')
    /\ UNCHANGED <<executed, session, shown>>

\* get_returns() of the block, as execute_to_generate() evaluates them: sorted by
\* their sequence.
ReturnsInOrder ==
    LET returns == {r.at : r \in OfKind(block, "return")}
    IN  CHOOSE q \in [1..Cardinality(returns) -> returns] :
            \A i, j \in DOMAIN q : i < j => q[i] # q[j] /\ sequence'[q[i]] <= sequence'[q[j]]

\* execute(): the block is merged into the session, then its returns evaluated.
Execute ==
    /\ block.nodes # {}
    /\ version' = ShiftedVersions(session, block, program)
    /\ sequence' = ShiftedSequences(session, block)
    /\ session' = Merged(session, block, program)
    /\ shown' = shown \o ReturnsInOrder
    /\ executed' = Len(program)
    /\ block' = EmptyGraph
    /\ UNCHANGED program

Next == Execute \/ \E st \in Statements : Compose(st)

Spec == Init /\ [][Next]_vars

-------------------------------------------------------------------------------
GraphOK(g) ==
    /\ \A x \in g.nodes : x.at \in 1..Len(program)
    /\ g.edges \subseteq g.nodes \X g.nodes

\* Type invariant: both graphs contain the ends of their edges.
TypeOK ==
    /\ program \in Seq(Statements)
    /\ executed \in 0..Len(program)
    /\ version \in [1..MaxStatements -> 0..MaxStatements]
    /\ sequence \in [1..MaxStatements -> 0..MaxStatements]
    /\ GraphOK(block)
    /\ GraphOK(session)
    /\ shown \in Seq(1..executed)

\* The statements from..s that define n.
Definers(n, from, s) == {t \in from..s : program[t].defines = {n}}

\* What statement s must read as n when only the statements from `from' on are
\* known: the newest definition before it, or an unresolved reference.
ReadsAs(x, n, from, s) ==
    IF Definers(n, from, s - 1) = {}
    THEN x.kind = "reference" /\ x.name = n
    ELSE x = Variable(Max(Definers(n, from, s - 1)))

ResolvedInOrder(g, from, to) ==
    \A s \in from..to :
        LET read == Preds(g, End(s))
        IN  /\ \A n \in program[s].uses : \E x \in read : ReadsAs(x, n, from, s)
            /\ \A d \in program[s].source : \E x \in read : x.kind = "source" /\ x.uri = d
            /\ Cardinality(read) = Cardinality(program[s].uses) + Cardinality(program[s].source)

\* Merging graphs means what executing the statements one after the other would
\* mean: whatever the split into blocks, a statement reads the value a name had
\* when it was reached, never a later definition and never an older one.
ReadsLikeSequential ==
    /\ ResolvedInOrder(session, 1, executed)
    /\ ResolvedInOrder(block, executed + 1, Len(program))

\* The variable a user gets by a name is the one the last executed statement
\* that defines the name has made, and no version is given out twice: get_variable()
\* never raises DuplicatedVariable.
NewestIsLastDefined ==
    \A n \in Names :
        Definers(n, 1, executed) # {} =>
            /\ Newest(session, n, program) = Variable(Max(Definers(n, 1, executed)))
            /\ {version[t] : t \in Definers(n, 1, executed)}
                 = 0..(Cardinality(Definers(n, 1, executed)) - 1)

\* A data source read by several statements, or an undefined name used by
\* several, is one node: merging never finds two copies to choose from.
OneCopyOfEachSource ==
    \A g \in {block, session} : \A x, y \in g.nodes : SameContent(x, y) => x = y

\* Results are shown in the order of the statements, across blocks.
ShownInOrder ==
    /\ \A i, j \in DOMAIN shown : i < j => shown[i] < shown[j]
    /\ \A i, j \in DOMAIN shown : i < j => sequence[shown[i]] < sequence[shown[j]]
    /\ ToSet(shown) = {s \in 1..executed : program[s].defines = {}}

===============================================================================
