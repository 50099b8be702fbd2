------------------------------- MODULE Tables ---------------------------------
(***************************************************************************)
(* Tables of entities, filter expressions (ir/filter.py), the evaluation   *)
(* of instructions on data frames (interface/codegen/dataframe.py), and    *)
(* the SELECT statement as the databases evaluate it.                      *)
(*                                                                         *)
(* A table has a set of attributes and a sequence of rows.  Strings and    *)
(* numbers are integers; no entity lacks an attribute.                     *)
(***************************************************************************)
EXTENDS Integers, Sequences, SequencesExt

EmptyTable == [attrs |-> {}, rows |-> << >>]

\* The values of attribute a, once each.
Column(t, a) == {t.rows[k][a] : k \in DOMAIN t.rows}

-------------------------------------------------------------------------------
\* Filter expressions.  A comparison names its values as a set: pid = 4 is IN {4}.
Comparison(attr, op, values) == [attr |-> attr, op |-> op, values |-> values]

\* The comparison with an attribute of another variable.
RefComparison(attr, op, var, column) ==
    [attr |-> attr, op |-> op, var |-> var, column |-> column]

BoolExp(lhs, op, rhs) == [lhs |-> lhs, op |-> op, rhs |-> rhs]

IsBoolExp(exp) == exp.op \in {"AND", "OR"}

IsReference(exp) == "var" \in DOMAIN exp

\* The comparisons of exp, from left to right.
RECURSIVE Leaves(_)
Leaves(exp) ==
    IF IsBoolExp(exp) THEN Leaves(exp.lhs) \o Leaves(exp.rhs) ELSE <<exp>>

\* get_references(): the references of exp, a repeated one as often as it is there.
References(exp) == SelectSeq(Leaves(exp), IsReference)

\* resolve_references(): every reference is replaced by the values it stands for.
RECURSIVE Resolved(_, _)
Resolved(exp, values) ==
    IF IsBoolExp(exp)
    THEN BoolExp(Resolved(exp.lhs, values), exp.op, Resolved(exp.rhs, values))
    ELSE IF IsReference(exp)
         THEN Comparison(exp.attr, exp.op, values[exp])
         ELSE exp

HoldsFor(c, row) ==
    CASE c.op = "IN" -> row[c.attr] \in c.values
      [] c.op = "NOT IN" -> row[c.attr] \notin c.values
      [] c.op = "<" -> \A v \in c.values : row[c.attr] < v
      [] c.op = ">=" -> \A v \in c.values : row[c.attr] >= v

RECURSIVE Satisfies(_, _)
Satisfies(row, exp) ==
    CASE exp.op = "AND" -> Satisfies(row, exp.lhs) /\ Satisfies(row, exp.rhs)
      [] exp.op = "OR" -> Satisfies(row, exp.lhs) \/ Satisfies(row, exp.rhs)
      [] OTHER -> HoldsFor(exp, row)

-------------------------------------------------------------------------------
\* Evaluation on a data frame, an instruction at a time.
EvalFilter(t, exp) == [t EXCEPT !.rows = SelectSeq(@, LAMBDA row : Satisfies(row, exp))]

EvalProjectAttrs(t, attrs) ==
    [attrs |-> attrs,
     rows |-> [k \in DOMAIN t.rows |-> [a \in attrs |-> t.rows[k][a]]]]

\* DataFrame.head()
EvalLimit(t, n) == [t EXCEPT !.rows = IF n < Len(@) THEN SubSeq(@, 1, n) ELSE @]

\* dataframe.py has no _eval_Offset() and no _eval_Sort(): what the language means.
EvalOffset(t, n) == [t EXCEPT !.rows = SubSeq(@, n + 1, Len(@))]

EvalSort(t, by, direction) ==
    [t EXCEPT !.rows =
        SortSeq(@, LAMBDA r, s : IF direction = "ASC" THEN r[by] < s[by] ELSE r[by] > s[by])]

-------------------------------------------------------------------------------
\* ORDER BY, OFFSET, LIMIT and the columns are evaluated in this order on what WHERE has
\* found, wherever they were written.  SQLite keeps the order of a subquery's rows.
NoLimit == -1

Select(found, sorting, offset, limit, attrs) ==
    LET sorted == IF sorting = << >> THEN found ELSE EvalSort(found, sorting[1], sorting[2])
        rest == EvalOffset(sorted, offset)
    IN  EvalProjectAttrs(IF limit = NoLimit THEN rest ELSE EvalLimit(rest, limit), attrs)

===============================================================================
