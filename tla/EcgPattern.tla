----------------------------- MODULE EcgPattern -----------------------------
(***************************************************************************)
(* Extended centered graph patterns, the WHERE of Kestrel 1               *)
(* (kestrel_core/src/kestrel/syntax): trees of comparisons whose operands  *)
(* may be references to variables, what deref, pruning and merging make of *)
(* them, and the two translations, to a STIX pattern and to a firepit      *)
(* filter.  Attribute values are numbers; a record is a TLA+ record whose  *)
(* fields are its attributes, with its type, its id and the interval in    *)
(* which it was observed.                                                  *)
(***************************************************************************)
EXTENDS Integers, FiniteSets, FiniteSetsExt

CONSTANTS
  Names,          \* what variables, entity types and attributes are named
  PatternDepth    \* bound: the junctions on a way from the root to a comparison

ASSUME NamesAssumption == {"", "local", "id", "uid", "pid", "process"} \subseteq Names
ASSUME DepthAssumption == PatternDepth \in Nat

Nothing == -1              \* None: the attribute is missing in the record
Falsy == {Nothing, 0}      \* what `if v' takes for missing

-----------------------------------------------------------------------------
(* Time ranges: <<start, stop>>, or none. *)

NoRange == <<>>

MergeTimeranges(ranges) ==
  LET trs == ranges \ {NoRange}
  IN IF trs = {} THEN NoRange
     ELSE <<Min({tr[1] : tr \in trs}), Max({tr[2] : tr \in trs})>>

Adjusted(range, start, stop) ==
  IF range = NoRange THEN NoRange ELSE <<range[1] + start, range[2] + stop>>

(* A mutated form: the first time for both. *)
VarTimerangeStart(rows) == MergeTimeranges({<<r.first, Min({q.first : q \in rows})>> : r \in rows})

(* The records of a variable, summarized: when they were first and last seen. *)
VarTimerange(rows) == MergeTimeranges({<<r.first, r.last>> : r \in rows})

-----------------------------------------------------------------------------
(* The trees.  An operand is a set of items, literals and references. *)

Literal(v) == [variable |-> "", attribute |-> "", value |-> v]
Reference(x, attribute) == [variable |-> x, attribute |-> attribute, value |-> Nothing]
IsReference(item) == item.variable # ""

AnyType == ""              \* a comparison written without an entity type
Comparison(etype, attribute, op, items) ==
  [node |-> "comparison", etype |-> etype, attribute |-> attribute, op |-> op, items |-> items]
Junction(relation, lhs, rhs) ==
  [node |-> "junction", relation |-> relation, lhs |-> lhs, rhs |-> rhs]
NoGraph == [node |-> "none"]
Invalid == [node |-> "invalid"]

IsComparison(g) == g.node = "comparison"
IsJunction(g) == g.node = "junction"

ListOps == {"IN", "NOT IN"}
Ops == ListOps \union {"=", "!=", ">"}
Items == [variable : Names, attribute : Names, value : Int]
Leaves ==
  {NoGraph, Invalid} \union
  [node : {"comparison"}, etype : Names, attribute : Names, op : Ops, items : SUBSET Items]

(* The trees of so many levels of junctions; merging two adds a level. *)
Trees[n \in 0..(PatternDepth + 1)] ==
  IF n = 0 THEN Leaves
  ELSE LET ts == Trees[n - 1]
       IN ts \union [node : {"junction"}, relation : {"AND", "OR"}, lhs : ts, rhs : ts]
Graphs == Trees[PatternDepth + 1]

(* All nodes of a tree. *)
Nodes(g) ==
  LET nodes[h \in Graphs] ==
        IF IsJunction(h) THEN {h} \union nodes[h.lhs] \union nodes[h.rhs] ELSE {h}
  IN nodes[g]

Comparisons(g) == {h \in Nodes(g) : IsComparison(h)}

(* A list goes with IN, a single literal does not, a reference goes with both. *)
WellFormed(g) ==
  \A c \in Comparisons(g) :
    \/ Cardinality(c.items) > 1 /\ c.op \in ListOps
    \/ \E i \in c.items : c.items = {i} /\ (IsReference(i) \/ c.op \notin ListOps)

ReferencesIn(g) == UNION {{i \in c.items : IsReference(i)} : c \in Comparisons(g)}

-----------------------------------------------------------------------------
(* Dereferencing.  rows gives the records of every variable. *)

(* An attribute that the variable does not have raises, as no row does. *)
CanLookup(item, rows) ==
  rows[item.variable] # {} /\ \A r \in rows[item.variable] : item.attribute \in DOMAIN r

Looked(item, rows) == {r[item.attribute] : r \in rows[item.variable]} \ Falsy

Flattened(items, rows) ==
  UNION {IF IsReference(i) THEN Looked(i, rows) ELSE {i.value} : i \in items}

NoOp == ""
(* The operator that goes with so many values. *)
OpFor(op, n) ==
  CASE n = 1 -> IF op = "IN" THEN "=" ELSE IF op = "NOT IN" THEN "!=" ELSE op
    [] n > 1 /\ op \in {"=", "IN"}      -> "IN"
    [] n > 1 /\ op \in {"!=", "NOT IN"} -> "NOT IN"
    [] OTHER -> NoOp

DerefComparison(c, rows) ==
  LET xs == Flattened(c.items, rows)
      op == OpFor(c.op, Cardinality(xs))
  IN IF op = NoOp THEN Invalid ELSE Comparison(c.etype, c.attribute, op, {Literal(x) : x \in xs})

DerefJunction(g, l, r) ==
  IF Invalid \in {l, r} THEN Invalid ELSE Junction(g.relation, l, r)

DerefGraph(g, rows) ==
  LET deref[h \in Graphs] ==
        IF IsJunction(h) THEN DerefJunction(h, deref[h.lhs], deref[h.rhs])
        ELSE IF IsComparison(h) THEN DerefComparison(h, rows)
        ELSE h
  IN deref[g]

(* A pattern: a tree, the time range its references imply, and the type of *)
(* the entity in its center.                                               *)
Pattern(g) == [graph |-> g, timerange |-> NoRange, center |-> AnyType]

Deref(p, rows) ==
  [p EXCEPT !.graph = DerefGraph(@, rows),
            !.timerange = MergeTimeranges({VarTimerange(rows[i.variable]) : i \in ReferencesIn(p.graph)})]

-----------------------------------------------------------------------------
(* Pruning: the centered part of a pattern, or all but that. *)

Preserves(etype, center, part) ==
  (etype \in {AnyType, center}) <=> (part = "center")

PruneJunction(g, l, r) ==
  IF l = NoGraph THEN r ELSE IF r = NoGraph THEN l ELSE Junction(g.relation, l, r)

Prune(g, center, part) ==
  LET prune[h \in Graphs] ==
        IF IsJunction(h) THEN PruneJunction(h, prune[h.lhs], prune[h.rhs])
        ELSE IF IsComparison(h) /\ ~Preserves(h.etype, center, part) THEN NoGraph
        ELSE h
  IN prune[g]

PruneAwayCentered(p, center) == [p EXCEPT !.graph = Prune(@, center, "ext")]

(* Merging with another pattern about the same entity, which has no say when *)
(* it is empty.                                                             *)
Extend(p, other) ==
  IF other.graph = NoGraph THEN p
  ELSE [p EXCEPT !.graph = Junction("AND", @, other.graph),
                 !.timerange = MergeTimeranges({@, other.timerange}),
                 !.center = IF @ = AnyType THEN other.center ELSE @]

-----------------------------------------------------------------------------
(* The translations. *)

(* to_stix() writes the type of the center into the comparisons without one. *)
Centered(g, center) ==
  LET centered[h \in Graphs] ==
        IF IsJunction(h) THEN Junction(h.relation, centered[h.lhs], centered[h.rhs])
        ELSE IF IsComparison(h) /\ h.etype = AnyType THEN [h EXCEPT !.etype = center]
        ELSE h
  IN centered[g]

(* A mutated form: the adjustments the wrong way round. *)
ToStixInward(p, timerange, start, stop) ==
  [graph |-> Centered(p.graph, p.center),
   range |-> IF timerange # NoRange THEN timerange ELSE Adjusted(p.timerange, stop, start)]

(* The range of the statement goes before the one of the references, which *)
(* alone is adjusted.                                                      *)
ToStix(p, timerange, start, stop) ==
  [graph |-> Centered(p.graph, p.center),
   range |-> IF timerange # NoRange THEN timerange ELSE Adjusted(p.timerange, start, stop)]

(* A filter of the local store has no linked entities: to_firepit() raises. *)
FirepitCan(g, center) == \A c \in Comparisons(g) : c.etype \in {AnyType, center}

-----------------------------------------------------------------------------
(* What a comparison and a pattern say of records (firepit, data sources). *)

Holds(r, c) ==
  /\ r.type = c.etype
  /\ c.attribute \in DOMAIN r /\ r[c.attribute] # Nothing
  /\ LET v  == r[c.attribute]
         xs == {i.value : i \in c.items}
     IN CASE c.op \in {"=", "IN"}      -> v \in xs
          [] c.op \in {"!=", "NOT IN"} -> v \notin xs
          [] c.op = ">"                -> \A x \in xs : v > x

Matches(records, g) ==
  LET matches[h \in Graphs] ==
        IF IsJunction(h)
        THEN IF h.relation = "AND" THEN matches[h.lhs] /\ matches[h.rhs]
                                   ELSE matches[h.lhs] \/ matches[h.rhs]
        ELSE IsComparison(h) => \E r \in records : Holds(r, h)
  IN matches[g]
=============================================================================
