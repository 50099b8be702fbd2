------------------------------- MODULE HuntQuery ------------------------------
(***************************************************************************)
(* How an interface of the next-generation Kestrel turns the instructions  *)
(* of a huntflow into one query (cache/sqlite.py on codegen/sql.py, and    *)
(* the OpenSearch interface with its ossql.py).  A translator is carried   *)
(* along the instructions from the source to the one that is evaluated,    *)
(* and each adds its clause to it.                                         *)
(*                                                                         *)
(* SqliteTranslator starts a new query at every Variable, with the one so  *)
(* far as its subquery; OpenSearchTranslator keeps the one set of clauses. *)
(* Next to the query the model computes the table that evaluating the same *)
(* instructions one after the other on data frames gives, as InMemoryCache *)
(* does.                                                                   *)
(*                                                                         *)
(* The statements are those of the parser: NEW or GET, and                 *)
(*   x = y WHERE .. ATTR .. SORT BY .. LIMIT .. OFFSET ..                  *)
(* in this order.  A display shows an expression (`built') as it stands.   *)
(***************************************************************************)
EXTENDS Tables, FiniteSets

CONSTANTS
    Backend,       \* "sqlite" or "opensearch"
    Sources,       \* the tables a program may start from
    Comparisons,   \* the comparisons with constants a filter may have
    TimeRanges,    \* pairs <<start, stop>> that GET may be limited to
    ExpOps,        \* the operators, AND or OR, that a filter may have one of
    Limits,        \* the numbers after LIMIT
    Offsets,       \* the numbers after OFFSET, 0 for no OFFSET
    MaxVariables,  \* variables a program defines before what it displays
    MaxClauses     \* clauses of an expression

Timestamp == "time"

ASSUME QueryAssumption ==
    /\ Backend \in {"sqlite", "opensearch"}
    /\ ExpOps \subseteq {"AND", "OR"}
    /\ \A n \in Limits \cup Offsets : n \in Nat
    /\ 0 \in Offsets
    /\ MaxVariables \in Nat
    /\ MaxClauses \in Nat
    /\ TimeRanges # {} => \A t \in Sources : Timestamp \in t.attrs

VARIABLES
    defined, \* the variables, in the order of their definition
    built,   \* the expression under way
    clause,  \* how far it is: the last clause it has
    clauses, \* how many it has
    getting  \* is it a GET, or NEW?

vars == <<defined, built, clause, clauses, getting>>

Sqlite == Backend = "sqlite"

\* The clauses in the order of the grammar.
None == 0
Begun == 1
Where == 2
Attr == 3
Sort == 4
Page == 5

-------------------------------------------------------------------------------
\* The translators, with the clauses they have collected.  OpenSearchTranslator
\* writes 0 for no limit.
Translator(table) ==
    [from |-> table, filters |-> {}, attrs |-> table.attrs, sorting |-> << >>,
     limit |-> IF Sqlite THEN NoLimit ELSE 0, offset |-> 0]

\* SqlTranslator.add_Filter() adds to the conjunction, OpenSearchTranslator's saves
\* the filter.
AddFilter(q, exp) == [q EXCEPT !.filters = IF Sqlite THEN @ \cup {exp} ELSE {exp}]

AddProjectAttrs(q, attrs) == [q EXCEPT !.attrs = attrs]

AddSort(q, by, direction) == [q EXCEPT !.sorting = <<by, direction>>]

AddLimit(q, n) == [q EXCEPT !.limit = n]

AddOffset(q, n) == [q EXCEPT !.offset = n]

\* add_Filter() or _render_filter(): the time range is put behind the filter.
WithTimeRange(exp, range) ==
    IF range = << >> THEN exp
    ELSE BoolExp(exp, "AND", BoolExp(Comparison(Timestamp, ">=", {range[1]}), "AND",
                                     Comparison(Timestamp, "<", {range[2]})))

\* OpenSearchTranslator._render_exp() joins texts without parentheses, so that AND
\* binds tighter than any OR: a disjunction of conjunctions.
RECURSIVE Rendered(_)
Rendered(exp) ==
    LET l == Rendered(exp.lhs)
        r == Rendered(exp.rhs)
    IN  CASE exp.op = "AND" -> Front(l) \o <<Last(l) \cup Head(r)>> \o Tail(r)
          [] exp.op = "OR" -> l \o r
          [] OTHER -> <<{exp}>>

Passes(row, exp) ==
    IF Sqlite THEN Satisfies(row, exp)
    ELSE \E conj \in ToSet(Rendered(exp)) : \A c \in conj : HoldsFor(c, row)

\* What the database answers to result().  OpenSearchTranslator writes an OFFSET
\* with a LIMIT only.
Answer(q) ==
    LET Found(row) == \A exp \in q.filters : Passes(row, exp)
        found == [q.from EXCEPT !.rows = SelectSeq(@, Found)]
        limited == Sqlite \/ q.limit # 0
    IN  Select(found, q.sorting, IF limited THEN q.offset ELSE 0,
               IF limited THEN q.limit ELSE NoLimit, q.attrs)

\* Mutated form: SqliteCache goes on with the same translator.
SameQuery(q) == q

\* The translator behind a Variable.
VariableQuery(q) == IF Sqlite THEN Translator(Answer(q)) ELSE q

-------------------------------------------------------------------------------
\* Where the evaluation of an expression is: the table it means, its query, the
\* filters whose references were resolved on the way, and whether it has raised.
At(table, query, resolved, raised) ==
    [table |-> table, query |-> query, resolved |-> resolved, raised |-> raised]

Nothing == At(EmptyTable, Translator(EmptyTable), {}, FALSE)

Init ==
    /\ defined = << >>
    /\ built = Nothing
    /\ clause = None
    /\ clauses = 0
    /\ getting = FALSE

Start(node, get) ==
    /\ clause = None
    /\ built' = node
    /\ clause' = Begun
    /\ clauses' = 0
    /\ getting' = get
    /\ UNCHANGED defined

\* NEW, or the data source of a GET.
FromSource(t) == Start(At(t, Translator(t), {}, FALSE), TRUE)

\* The variable an expression starts with.
FromVariable(i) == Start(defined[i], FALSE)

\* The clause c is the next one of the expression.
Clause(c, node) ==
    /\ clause \in Begun..(c - 1)
    /\ clauses < MaxClauses
    /\ built' = node
    /\ clause' = c
    /\ clauses' = clauses + 1
    /\ UNCHANGED <<defined, getting>>

\* Two references with the same variable and attribute cannot be told apart
\* (DuplicatedReferenceInFilter).
Duplicated(refs) ==
    \E j, k \in DOMAIN refs :
        j < k /\ refs[j].var = refs[k].var /\ refs[j].column = refs[k].column

\* resolve_references() leaves the values in the Filter it is called for.  When the
\* evaluation gets to a Filter with references again, by the trunk and by a branch or
\* by two branches, get_trunk_n_branches() finds no reference there and raises.
ResolvedTwice(refs) ==
    LET resolvedBy(j) == IF j = 0 THEN built.resolved ELSE defined[refs[j].var].resolved
    IN  \E j, k \in 0..Len(refs) : j < k /\ resolvedBy(j) \cap resolvedBy(k) # {}

\* Evaluating exp raises.  OpenSearchTranslator writes a reference as it is, which no
\* server understands.
Raises(refs) ==
    \/ Duplicated(refs)
    \/ Sqlite /\ ResolvedTwice(refs)
    \/ ~Sqlite /\ refs # << >>
    \/ \E j \in DOMAIN refs : defined[refs[j].var].raised

\* The values that the branch of a reference is evaluated to.
Branch(ref) ==
    Column(Answer(AddProjectAttrs(defined[ref.var].query, {ref.column})), ref.column)

FilterBy(exp, range) ==
    LET refs == References(exp)
        meant == Resolved(exp, [ref \in ToSet(refs) |->
                                    Column(defined[ref.var].table, ref.column)])
        asked == Resolved(exp, [ref \in ToSet(refs) |-> Branch(ref)])
    IN  At(EvalFilter(built.table, WithTimeRange(meant, range)),
           AddFilter(built.query, WithTimeRange(asked, range)),
           built.resolved
               \cup UNION {defined[refs[j].var].resolved : j \in DOMAIN refs}
               \cup (IF refs = << >> THEN {} ELSE {Len(defined) + 1}),
           built.raised \/ Raises(refs))

KnownAttrs == built.table.attrs

\* A reference compares an attribute with the same one of another variable.
FilterComparisons ==
    {c \in Comparisons : c.attr \in KnownAttrs}
    \cup UNION {{RefComparison(a, op, i, a) :
                    a \in KnownAttrs \cap defined[i].table.attrs, op \in {"IN", "NOT IN"}} :
                i \in DOMAIN defined}

FilterExps ==
    FilterComparisons
    \cup {BoolExp(l, op, r) : l \in FilterComparisons, op \in ExpOps, r \in FilterComparisons}

\* GET takes a time range, too; NEW has no clause.
WhereClause(exp, range) ==
    /\ getting => ~Sqlite
    /\ range # << >> => getting
    /\ Clause(Where, FilterBy(exp, range))

AttrClause(attrs) ==
    /\ ~getting
    /\ Clause(Attr, [built EXCEPT !.table = EvalProjectAttrs(@, attrs),
                                  !.query = AddProjectAttrs(@, attrs)])

\* Only by what orders the rows completely: the order of the others is left open.
SortClause(by, direction) ==
    /\ ~getting
    /\ Cardinality(Column(built.table, by)) = Len(built.table.rows)
    /\ Clause(Sort, [built EXCEPT !.table = EvalSort(@, by, direction),
                                  !.query = AddSort(@, by, direction)])

\* LIMIT n OFFSET m: n rows after the first m.
LimitClause(n, m) ==
    /\ getting => ~Sqlite /\ m = 0
    /\ Clause(Page, [built EXCEPT !.table = EvalLimit(EvalOffset(@, m), n),
                                  !.query = AddOffset(AddLimit(@, n), m)])

OffsetClause(m) ==
    /\ ~getting
    /\ m # 0
    /\ Clause(Page, [built EXCEPT !.table = EvalOffset(@, m), !.query = AddOffset(@, m)])

\* The expression is assigned to a variable.  GET has a WHERE.
Assign ==
    /\ clause # None
    /\ getting => Sqlite \/ clause >= Where
    /\ Len(defined) < MaxVariables
    /\ defined' = Append(defined, [built EXCEPT !.query = VariableQuery(@)])
    /\ built' = Nothing
    /\ clause' = None
    /\ clauses' = 0
    /\ getting' = FALSE

Next ==
    \/ \E t \in Sources : FromSource(t)
    \/ \E i \in DOMAIN defined : FromVariable(i)
    \/ \E exp \in FilterExps, range \in TimeRanges \cup {<< >>} : WhereClause(exp, range)
    \/ \E attrs \in (SUBSET KnownAttrs) \ {{}} : AttrClause(attrs)
    \/ \E by \in KnownAttrs, direction \in {"ASC", "DESC"} : SortClause(by, direction)
    \/ \E n \in Limits, m \in Offsets : LimitClause(n, m)
    \/ \E m \in Offsets : OffsetClause(m)
    \/ Assign

Spec == Init /\ [][Next]_vars

-------------------------------------------------------------------------------
IsTable(t) == \A k \in DOMAIN t.rows : DOMAIN t.rows[k] = t.attrs

IsNode(node) ==
    /\ IsTable(node.table)
    /\ IsTable(node.query.from)
    /\ node.query.attrs \subseteq node.query.from.attrs
    /\ node.query.limit \in Nat \cup {NoLimit}
    /\ node.query.offset \in Nat
    /\ node.resolved \subseteq 1..(MaxVariables + 1)
    /\ node.raised \in BOOLEAN

\* Type invariant; a clause only names attributes that the FROM of its query has.
TypeOK ==
    /\ Len(defined) <= MaxVariables
    /\ \A i \in DOMAIN defined : IsNode(defined[i])
    /\ IsNode(built)
    /\ clause \in None..Page
    /\ clauses \in 0..MaxClauses
    /\ getting \in BOOLEAN
    /\ \A exp \in built.query.filters :
           \A k \in DOMAIN Leaves(exp) : Leaves(exp)[k].attr \in built.query.from.attrs

\* docs/language/commands.rst, ASSIGN: "oldvar will be filtered and the result
\* assigned to newvar".  However its clauses are put together over variables and
\* references, the one query answers the table that the instructions make one after
\* the other, in the same order.
QueryMeansProgram == ~built.raised => Answer(built.query) = built.table

===============================================================================
