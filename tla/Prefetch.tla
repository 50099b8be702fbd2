------------------------------ MODULE Prefetch ------------------------------
(***************************************************************************)
(* What a retrieval of Kestrel 1 puts into its variable: GET and FIND run  *)
(* in two stages, the local one (a query with the hunter's pattern, or the *)
(* relations that the store already has) and the prefetch, a query of the  *)
(* data source for all records of the same entities, whose answer replaces *)
(* the local one (kestrel_core/src/kestrel/codegen).                       *)
(*                                                                         *)
(* The data source is a fixed set of observations, each a set of records:  *)
(* processes (a child and its parent) and network traffic.  Process ids    *)
(* are reused; proc, which no code reads, tells which process it really    *)
(* is.  Statements are executed one after the other, as Session does.      *)
(***************************************************************************)
EXTENDS EcgPattern, Sequences

CONSTANTS
  Observations,    \* the observations the data source may have
  Variables,
  Statements,      \* the statements as the parser returns them
  MaxStatements,   \* bound: statements of a hunt
  ExcludedEntities, PrefetchedCommands,                 \* config: prefetch
  TimerangeStart, TimerangeStop, SupportId,             \* config: stixquery
  NameChanged, PidAndName, PidAndPpid, PidNameAndPpid   \* config: process_identification

ASSUME OffsetsAssumption ==
  /\ {NameChanged, PidAndName, PidAndPpid, PidNameAndPpid} \subseteq Int
  /\ 0 < NameChanged /\ NameChanged <= PidAndName /\ PidAndName <= PidNameAndPpid /\ PidAndPpid <= PidNameAndPpid
  /\ TimerangeStart \in Int /\ TimerangeStart <= 0
  /\ TimerangeStop \in Int /\ 0 <= TimerangeStop

(* Every record has an identifier and the time it was observed; those of a *)
(* process have fields for its process id and its unique id.               *)
ASSUME ObservationsAssumption ==
  /\ IsFiniteSet(Observations)
  /\ \A o \in Observations :
       /\ IsFiniteSet(o)
       /\ \A r \in o :
            /\ {"type", "id", "first", "last"} \subseteq DOMAIN r
            /\ r.type \in Names /\ r.id \in Int \ Falsy
            /\ r.first \in Int /\ r.last \in Int /\ r.first <= r.last
            /\ r.type = "process" => {"pid", "uid"} \subseteq DOMAIN r /\ r.pid \in Int /\ r.uid \in Int

ASSUME BoundAssumption == MaxStatements \in Nat

(* The grammar: a pattern has finitely many operands, and its references   *)
(* are to attributes with plain values.                                    *)
ASSUME StatementsAssumption ==
  \A s \in Statements :
    /\ s.command \in {"get", "getfrom", "find", "assign"}
    /\ s.type \in Names /\ s.output \in Variables
    /\ s.command # "get" => s.input \in Variables
    /\ s.timerange = NoRange \/ s.timerange \in Int \X Int
    /\ s.limit \in Nat
    /\ s.where.graph \in Trees[PatternDepth] /\ s.where = Pattern(s.where.graph)
    /\ \A c \in Comparisons(s.where.graph) : IsFiniteSet(c.items)
    /\ \A i \in ReferencesIn(s.where.graph) :
         /\ i.variable \in Variables
         /\ \A r \in UNION Observations : i.attribute \in DOMAIN r => r[i.attribute] \in Int

VARIABLES
  server,   \* the observations of the data source
  store,    \* those that the session has loaded
  rowsOf,   \* the records of every variable
  typeOf,   \* its type, or NoType as long as it is not defined
  stmt,     \* the statement in execution
  where,    \* its pattern after semantics_processing()
  local,    \* the rows of x_local
  raw,      \* the rows of x_prefetch, if a prefetch happened
  stage, count

vars == <<server, store, rowsOf, typeOf, stmt, where, local, raw, stage, count>>

NoType == "none"
NoStatement == [command |-> "none"]
Records == UNION store
Rows(type, records) == {r \in records : r.type = type}

-----------------------------------------------------------------------------
(* The statements that the parser makes.  A LIMIT of 0 means the same as   *)
(* none at all.                                                            *)

Parsed(command, output, type, g, range) ==
  [command |-> command, output |-> output, type |-> type, where |-> Pattern(g), timerange |-> range,
   limit |-> 0, input |-> "", relation |-> "", reversed |-> FALSE]

Limited(s, n) == [s EXCEPT !.limit = n]

GetStatement(x, type, g, range) == Parsed("get", x, type, g, range)
GetFromStatement(x, type, y, g) == [Parsed("getfrom", x, type, g, NoRange) EXCEPT !.input = y]
FindStatement(x, type, relation, reversed, y, g, range) ==
  [Parsed("find", x, type, g, range) EXCEPT !.input = y, !.relation = relation, !.reversed = reversed]
AssignStatement(x, y, g) == [Parsed("assign", x, NoType, g, NoRange) EXCEPT !.input = y]

-----------------------------------------------------------------------------
(* The data source and the store (external). *)

Overlaps(o, range) == range = NoRange \/ \E r \in o : r.first <= range[2] /\ range[1] <= r.last

Matching(stix) == {o \in server : Overlaps(o, stix.range) /\ Matches(o, stix.graph)}

(* A LIMIT is a number of observations: that many of those that match, or  *)
(* all if there are no more.  Which ones is up to the data source.         *)
Answers(stix, limit) ==
  IF limit = 0 THEN {Matching(stix)}
  ELSE {a \in SUBSET Matching(stix) :
          Cardinality(a) = limit \/ (a = Matching(stix) /\ Cardinality(a) < limit)}

(* The view of a type: firepit looks at the part of the pattern about it. *)
Extracted(type, records, g) ==
  {r \in Rows(type, records) : Matches({r}, Prune(g, type, "center"))}

-----------------------------------------------------------------------------
(* Identity of entities. *)

IdentityAttributes(type) == IF type = "process" THEN <<"uid", "pid">> ELSE <<>>

(* The first candidate that any of the rows has; a row without it is no    *)
(* hindrance.                                                              *)
IdAttribute(type, rows) ==
  LET ids   == IdentityAttributes(type)
      found == {i \in 1..Len(ids) : \E r \in rows : r[ids[i]] \notin Falsy}
  IN IF found = {} THEN "id" ELSE ids[Min(found)]

(* The rows with a process id, which 0 is not taken for. *)
IdentifiedRows(rows) == {r \in rows : r.pid \notin Falsy}

(* The parent of a process is a record of the same observation. *)
ParentPid(r) ==
  LET pids == {p.pid : p \in {q \in Rows("process", UNION server) : q.id = r.parent}}
  IN IF pids = {} THEN Nothing ELSE CHOOSE p \in pids : TRUE

Within(t, r, offset) == r.first - offset < t /\ t < r.last + offset

(* A mutated form: name and parent are enough, at any time. *)
IdenticalProcessAnyTime(r, ref) ==
  \/ r.name \notin Falsy /\ r.name = ref.name
  \/ Within(r.first, ref, NameChanged)

IdenticalProcess(r, ref) ==
  LET sameName == r.name \notin Falsy /\ r.name = ref.name
      samePpid == ParentPid(r) \notin Falsy /\ ParentPid(r) = ParentPid(ref)
  IN \/ sameName /\ samePpid /\ Within(r.first, ref, PidNameAndPpid)
     \/ sameName /\ Within(r.first, ref, PidAndName)
     \/ samePpid /\ Within(r.first, ref, PidAndPpid)
     \/ Within(r.first, ref, NameChanged)
     \/ Within(r.last, ref, NameChanged)

PotentialIdentical(refs, rows) ==
  {r \in IdentifiedRows(rows) :
     \E ref \in IdentifiedRows(refs) : r.pid = ref.pid /\ IdenticalProcess(r, ref)}

(* A mutated form: one step, without the anchors. *)
RelationalProcessesOnce(localRows, prefetched) == PotentialIdentical(localRows, prefetched)

(* Anchors first, then all that is identical to an anchor: a process whose *)
(* name changes is found under either name.                                *)
RelationalProcesses(localRows, prefetched) ==
  PotentialIdentical(PotentialIdentical(localRows, prefetched), prefetched)

-----------------------------------------------------------------------------
(* The prefetch. *)

AttributesOf(g, type) == {c.attribute : c \in {d \in Comparisons(g) : d.etype = type}}

(* A GET by nothing but the identifier has all the records already. *)
IsDirectQuery(s, w, rows) ==
  s.command = "get" /\ AttributesOf(w.graph, s.type) = {IdAttribute(s.type, rows)}

IsPrefetchAllowed(s) == s.command \in PrefetchedCommands /\ s.type \notin ExcludedEntities

HasPrefetch(s, w, rows) ==
  /\ IsPrefetchAllowed(s)
  /\ rows # {}
  /\ ~IsDirectQuery(s, w, rows)
  /\ IdAttribute(s.type, rows) # "id" \/ SupportId

IdenticalEntities(s, rows) ==
  LET id == IdAttribute(s.type, rows)
      c  == Comparison(s.type, id, "=", {Reference("local", id)})
  IN [Deref(Pattern(c), [x \in {"local"} |-> rows]) EXCEPT !.center = s.type]

(* A mutated form: the pattern of the hunter is left out. *)
PrefetchPatternBare(s, w, rows) ==
  ToStix(IdenticalEntities(s, rows), s.timerange, TimerangeStart, TimerangeStop)

PrefetchPattern(s, w, rows) ==
  LET ext == IF s.command = "get" THEN PruneAwayCentered(w, s.type) ELSE w
  IN ToStix(Extend(IdenticalEntities(s, rows), ext), s.timerange, TimerangeStart, TimerangeStop)

(* Processes without an identifier of their own are told apart by time;    *)
(* when none is left, the answer is taken as it is.                        *)
FilterPrefetched(s, localRows, prefetched) ==
  IF s.type = "process" /\ IdAttribute(s.type, localRows) \notin {"id", "uid"}
  THEN LET found == RelationalProcesses(localRows, prefetched)
       IN IF found # {} THEN found ELSE prefetched
  ELSE prefetched

-----------------------------------------------------------------------------
(* Semantics: what is checked and completed before a statement runs. *)

Defined(x) == typeOf[x] # NoType

SupportedRelation(x, y) == x = "process" /\ y \in {"process", "network-traffic"}

CenterOf(s) == IF s.command = "assign" THEN typeOf[s.input] ELSE s.type

Dereferenced(s) ==
  LET p == Deref(s.where, rowsOf)
  IN [p EXCEPT !.center = CenterOf(s), !.graph = Centered(@, CenterOf(s))]

Accepted(s) ==
  /\ WellFormed(s.where.graph)
  /\ \A i \in ReferencesIn(s.where.graph) : Defined(i.variable) /\ CanLookup(i, rowsOf)
  /\ s.command # "get" => Defined(s.input)
  /\ s.command = "getfrom" => typeOf[s.input] = s.type
  /\ s.command = "assign" => FirepitCan(s.where.graph, CenterOf(s))
  /\ s.command = "find" /\ s.relation # "linked" =>
       IF s.reversed THEN SupportedRelation(typeOf[s.input], s.type)
                     ELSE SupportedRelation(s.type, typeOf[s.input])
  /\ DerefGraph(s.where.graph, rowsOf) # Invalid

(* A statement that is refused raises and changes nothing. *)
Start(s) ==
  /\ stage \in {"idle", "done"} /\ count < MaxStatements
  /\ Accepted(s)
  /\ stmt' = s
  /\ where' = Dereferenced(s)
  /\ local' = {} /\ raw' = {}
  /\ stage' = "local" /\ count' = count + 1
  /\ UNCHANGED <<server, store, rowsOf, typeOf>>

Bound(rows) ==
  /\ rowsOf' = [rowsOf EXCEPT ![stmt.output] = rows]
  /\ typeOf' = [typeOf EXCEPT ![stmt.output] = CenterOf(stmt)]
  /\ stage' = "done"

-----------------------------------------------------------------------------
(* The statements. *)

(* The first half of GET ... FROM a data source. *)
LocalGet ==
  /\ stage = "local" /\ stmt.command = "get"
  /\ LET stix == ToStix(where, stmt.timerange, TimerangeStart, TimerangeStop)
     IN \E answer \in Answers(stix, stmt.limit) :
          /\ store' = store \union answer
          /\ local' = Extracted(stmt.type, UNION answer, stix.graph)
  /\ stage' = "prefetch"
  /\ UNCHANGED <<server, rowsOf, typeOf, stmt, where, raw, count>>

(* The references of STIX: a process holds those of its connections, a     *)
(* child holds the one of its parent.                                      *)
Opened(x, y) == x.type = "process" /\ y.id \in x.opened
ParentOf(x, y) == y.type = "process" /\ y.parent = x.id

(* A specific relation goes from x to y, ... *)
Created(x, y) == Opened(x, y) \/ ParentOf(x, y)

(* ... the generic one joins all that was observed together. *)
Linked(x, y) == \E o \in store : {x, y} \subseteq o

Related(s, r, i) ==
  IF s.relation = "linked" THEN Linked(r, i)
  ELSE IF s.reversed THEN Created(i, r) ELSE Created(r, i)

(* The first half of FIND: what the store knows of the relation. *)
LocalFind ==
  /\ stage = "local" /\ stmt.command = "find"
  /\ local' = {r \in Rows(stmt.type, Records) : \E i \in rowsOf[stmt.input] : Related(stmt, r, i)}
  /\ stage' = "prefetch"
  /\ UNCHANGED <<server, store, rowsOf, typeOf, stmt, where, raw, count>>

(* Without input a command is skipped.  (FIND and a filter of no rows come *)
(* to the same: no rows.)                                                  *)
EmptyInput(s) == rowsOf[s.input] = {}

(* GET ... FROM a variable, which reads all entities of its type -- unless *)
(* the variable is empty.                                                  *)
GetFromVariable ==
  /\ stage = "local" /\ stmt.command = "getfrom"
  /\ Bound(IF EmptyInput(stmt) THEN {} ELSE Extracted(stmt.type, Records, where.graph))
  /\ UNCHANGED <<server, store, stmt, where, local, raw, count>>

(* x = y WHERE ..., a filter of the rows. *)
Assign ==
  /\ stage = "local" /\ stmt.command = "assign"
  /\ Bound({r \in rowsOf[stmt.input] : Matches({r}, where.graph)})
  /\ UNCHANGED <<server, store, stmt, where, local, raw, count>>

(* do_prefetch() with a pattern: query, load and filter.  The LIMIT of the *)
(* statement is that of this query, too.                                   *)
DoPrefetch ==
  /\ stage = "prefetch" /\ HasPrefetch(stmt, where, local)
  /\ LET stix == PrefetchPattern(stmt, where, local)
     IN \E answer \in Answers(stix, stmt.limit) :
          /\ store' = store \union answer
          /\ raw' = Extracted(stmt.type, UNION answer, stix.graph)
  /\ stage' = "filter"
  /\ UNCHANGED <<server, rowsOf, typeOf, stmt, where, local, count>>

Filter ==
  /\ stage = "filter"
  /\ Bound(FilterPrefetched(stmt, local, raw))
  /\ UNCHANGED <<server, store, stmt, where, local, raw, count>>

(* ... and without one: x_local becomes x. *)
KeepLocal ==
  /\ stage = "prefetch" /\ ~HasPrefetch(stmt, where, local)
  /\ Bound(local)
  /\ UNCHANGED <<server, store, stmt, where, local, raw, count>>

Init ==
  /\ server \in SUBSET Observations
  /\ store = {}
  /\ rowsOf = [x \in Variables |-> {}]
  /\ typeOf = [x \in Variables |-> NoType]
  /\ stmt = NoStatement /\ where = Pattern(NoGraph)
  /\ local = {} /\ raw = {}
  /\ stage = "idle" /\ count = 0

Next ==
  \/ \E s \in Statements : Start(s)
  \/ LocalGet \/ LocalFind \/ GetFromVariable \/ Assign
  \/ DoPrefetch \/ Filter \/ KeepLocal

Spec == Init /\ [][Next]_vars
-----------------------------------------------------------------------------
(* Properties. *)

TypeOK ==
  /\ store \subseteq server
  /\ rowsOf \in [Variables -> SUBSET Records]
  /\ \A x \in Variables : rowsOf[x] = Rows(typeOf[x], rowsOf[x])
  /\ local \union raw \subseteq Records
  /\ stage \in {"idle", "local", "prefetch", "filter", "done"} /\ count \in 0..MaxStatements

Finished(command) == stage = "done" /\ stmt.command = command
Result == rowsOf[stmt.output]
Prefetched == raw # {}
ByPid == stmt.type = "process" /\ IdAttribute("process", local) = "pid"

(* A pattern that offers a part about the entity itself as an alternative  *)
(* to one about linked entities.                                           *)
MixedAlternatives(g, center) ==
  \E h \in Nodes(g) :
    /\ IsJunction(h) /\ h.relation = "OR"
    /\ (Prune(h.lhs, center, "ext") = NoGraph) # (Prune(h.rhs, center, "ext") = NoGraph)

(* The prefetch only adds: whatever the hunter's own pattern found is in   *)
(* the variable, although the prefetch's answer replaces it -- pruning,    *)
(* the inferred time range and the telling apart of processes lose none.   *)
(* (Not so with a LIMIT, which the prefetch has as well, for records       *)
(* without the identifier that others have, and for patterns with mixed    *)
(* alternatives: see the README.)                                          *)
GetKeepsItsMatches ==
  Finished("get") /\ stmt.limit = 0 /\ ~MixedAlternatives(where.graph, stmt.type) =>
    \A r \in local :
      \/ r.type = "process" /\ r[IdAttribute("process", local)] \in Falsy
      \/ r \in Result

(* A process that forks and then executes another program is found under   *)
(* both names: of what the prefetch brought, a record next to a known one, *)
(* and every record under the name that one has, stay in the variable.     *)
BothNamesKept ==
  Prefetched /\ stage = "done" /\ ByPid =>
    \A r \in IdentifiedRows(local), s, t \in raw :
      /\ r.pid = s.pid /\ Within(s.first, r, NameChanged)
      /\ s.pid = t.pid /\ s.name = t.name /\ s.name \notin Falsy
      /\ Within(t.first, s, PidAndName)
      => {s, t} \subseteq Result

(* A process id is only reused long after: no other process has it within  *)
(* the widest window.                                                      *)
ReusedLate ==
  \A r, s \in Rows("process", UNION server) :
    r.pid = s.pid /\ r.proc # s.proc => ~Within(r.first, s, PidNameAndPpid)

(* Then no other process gets into the variable with the ones that were    *)
(* asked for, unless the filter had nothing left to return.                *)
NoStrangers ==
  Prefetched /\ stage = "done" /\ ByPid /\ ReusedLate
    /\ RelationalProcesses(local, raw) # {} =>
      {r.proc : r \in Result} \subseteq {r.proc : r \in local}

(* A GET by references alone, without a LIMIT, finds every record it       *)
(* refers to: the values and the time range are taken from all the rows of *)
(* the variable.                                                           *)
ReferencesCovered ==
  LET g == stmt.where.graph
  IN stage = "prefetch" /\ stmt.command = "get" /\ stmt.timerange = NoRange /\ stmt.limit = 0
       /\ IsComparison(g) /\ g.op \in {"=", "IN"} /\ g.etype \in {AnyType, stmt.type} =>
     \A i \in ReferencesIn(g) :
       i.attribute = g.attribute /\ typeOf[i.variable] = stmt.type =>
         {r \in rowsOf[i.variable] : r[i.attribute] \notin Falsy} \subseteq local

(* Whatever a FIND with a prefetch returns, fallback included, comes from  *)
(* observations that are as the extended part of its WHERE says, the part  *)
(* about linked entities (mixed alternatives again excepted).  The part    *)
(* about the entity itself, which the documentation says is discarded, is  *)
(* part of the pattern as well; nothing is claimed of it here.             *)
FindHonorsWhere ==
  LET ext == Prune(where.graph, stmt.type, "ext")
  IN Finished("find") /\ Prefetched /\ ext # NoGraph /\ ~MixedAlternatives(where.graph, stmt.type) =>
       \A r \in Result : \E o \in server : r \in o /\ Matches(o, ext)
=============================================================================
