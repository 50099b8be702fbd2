----------------------------- MODULE HuntVariables -----------------------------
(***************************************************************************)
(* The variables of a Kestrel 1 session (codegen/commands.py,              *)
(* codegen/prefetch.py, symboltable/, session.py).  The symbol table maps  *)
(* a variable to a VarStruct, and that names the view of the store that    *)
(* has the entities.  GET and FIND make up to three more views on the way  *)
(* to their result, rename one to the name of the variable and remove the  *)
(* others; a data source may fail in between.                              *)
(*                                                                         *)
(* One action is one statement, or what a failing statement has done when  *)
(* it raises.  A statement that raises before it has changed anything, and *)
(* DISP, INFO, DESCRIBE and SAVE, are stuttering steps.  The entities of a *)
(* view are abstracted to the statement and the stage that computed them.  *)
(***************************************************************************)
EXTENDS Integers, Sequences

CONSTANTS
    Names,         \* what a hunter calls variables, as sequences of words
    Types,         \* entity types
    DataSources,   \* data sources
    DebugMode,     \* Session.debug_mode: intermediate views are kept
    MaxStatements  \* bound on the statements of a hunt

None == <<>>         \* no view at all
NoSource == "none"   \* no data source
Default == <<"_">>   \* config["language"]["default_variable"]

Vars == Names \cup {Default}

\* The views a statement makes on the way to variable v.
Local(v) == Append(v, "local")
Prefetch(v) == Append(v, "prefetch")
PrefetchFiltered(v) == Append(v, "prefetch_filtered")

Intermediate(v) == {Local(v), Prefetch(v), PrefetchFiltered(v)}

Views == Vars \cup UNION {Intermediate(v) : v \in Vars}

\* No variable has the name of an intermediate view.  Nothing in the code keeps a
\* hunter from such names.
ASSUME HuntAssumption ==
    /\ Default \notin Names
    /\ None \notin Views
    /\ NoSource \notin DataSources
    /\ DebugMode \in BOOLEAN
    /\ MaxStatements \in Nat
    /\ \A v, w \in Vars : w \notin Intermediate(v)

VARIABLES
    symtable,   \* Session.symtable
    views,      \* the views in the store
    entities,   \* the entities of each type in the store, in whatever view
    queried,    \* the last of DataSourceManager.queried_data_sources
    statements, \* statements executed so far
    value,      \* history: what each variable was last given
    last        \* history: the variable assigned last, which `_' stands for

vars == <<symtable, views, entities, queried, statements, value, last>>

-------------------------------------------------------------------------------
Stages == {"local", "prefetched", "filtered"}

NoRows == <<0, "local">>

Rows == {NoRows} \cup ((1..MaxStatements) \X Stages)

Values == [type : Types, rows : Rows]

Nothing(t) == [type |-> t, rows |-> NoRows]

\* What the statement at hand computes in some stage.
Some(t, stage) == [type |-> t, rows |-> <<statements + 1, stage>>]

Result(t, stage) == {Nothing(t), Some(t, stage)}

NoView == [type |-> "none", rows |-> NoRows]

Undefined == [table |-> None, type |-> "none", source |-> NoSource, empty |-> TRUE]

VarStruct ==
    [table : Vars \cup {None}, type : Types, source : DataSources \cup {NoSource}, empty : BOOLEAN]

Defined(v) == symtable[v] # Undefined

Table(v) == symtable[v].table

\* What a reader of v gets.
Content(v) == IF Table(v) = None THEN Nothing(symtable[v].type) ELSE views[Table(v)]

\* The names for what v stands for.
Aliases(v) == IF v \in {last, Default} THEN {last, Default} ELSE {v}

-------------------------------------------------------------------------------
\* The store: views by name.
Stored(store, view, content) == [store EXCEPT ![view] = content]

Renamed(store, from, to) == [store EXCEPT ![to] = store[from], ![from] = NoView]

Removed(store, gone) == [n \in DOMAIN store |-> IF n \in gone THEN NoView ELSE store[n]]

\* Mutated form: the length is read before the view is replaced.
NewVarEarly(store, table, type, source) ==
    [table |-> table, type |-> type, source |-> source,
     empty |-> table = None \/ views[table].rows = NoRows]

\* new_var(): length and records_count are read from the store here, once.
NewVar(store, table, type, source) ==
    [table |-> table, type |-> type, source |-> source,
     empty |-> table = None \/ store[table].rows = NoRows]

\* _get_data_source(): the first one that the inputs have.
SourceOf(v, w) ==
    IF symtable[v].source # NoSource THEN symtable[v].source ELSE symtable[w].source

\* _skip_command_if_empty_input()
Skipped(v, w) == symtable[v].empty /\ symtable[w].empty

\* _update_symbol_table()
Bind(out, struct) ==
    symtable' = [symtable EXCEPT ![out] = struct, ![Default] = struct]

\* The statement ends with store as the views and `out' in view table, which was
\* meant to become content.
Assign(out, store, table, content, source) ==
    /\ views' = store
    /\ Bind(out, NewVar(store, table, content.type, source))
    /\ value' = [value EXCEPT ![out] = content, ![Default] = content]
    /\ last' = out
    /\ statements' = statements + 1

\* The statement yields a variable without a view.
AssignNothing(out, type, v, w) ==
    /\ Assign(out, views, None, Nothing(type), SourceOf(v, w))
    /\ UNCHANGED <<entities, queried>>

\* The statement computes content from what is in the store.
AssignView(out, content, v, w) ==
    /\ Assign(out, Stored(views, out, content), out, content, SourceOf(v, w))
    /\ UNCHANGED <<entities, queried>>

\* New entities get into the store.
Cache(contents) ==
    entities' = [t \in Types |->
                   entities[t] \cup {c.rows : c \in {d \in contents : d.type = t /\ d.rows # NoRows}}]

-------------------------------------------------------------------------------
Init ==
    /\ symtable = [v \in Vars |-> Undefined]
    /\ views = [n \in Views |-> NoView]
    /\ entities = [t \in Types |-> {}]
    /\ queried = NoSource
    /\ statements = 0
    /\ value = [v \in Vars |-> NoView]
    /\ last = Default

\* NEW and LOAD; load_data() needs a row to look at.
Load(out) ==
    /\ \E new \in {Some(t, "local") : t \in Types} :
          /\ Assign(out, Stored(views, out, new), out, new, NoSource)
          /\ Cache({new})
    /\ UNCHANGED queried

\* An expression on a variable, SORT and GROUP.
Transform(out, v) ==
    /\ Defined(v)
    /\ IF Skipped(v, v)
       THEN AssignNothing(out, symtable[v].type, v, v)
       ELSE \E new \in Result(symtable[v].type, "local") : AssignView(out, new, v, v)

\* GET from a variable, which has to be of the type, unless it is empty.
GetFrom(out, t, v) ==
    /\ Defined(v)
    /\ IF Skipped(v, v)
       THEN AssignNothing(out, t, v, v)
       ELSE /\ t = symtable[v].type
            /\ \E new \in Result(t, "local") : AssignView(out, new, v, v)

\* merge() raises if the variables differ in type, unless all are empty.
Merge(out, v, w) ==
    /\ Defined(v)
    /\ Defined(w)
    /\ IF Skipped(v, w)
       THEN AssignNothing(out, symtable[v].type, v, w)
       ELSE /\ symtable[v].type = symtable[w].type
            /\ AssignView(out, Some(symtable[v].type, "local"), v, w)

\* The store refuses to JOIN when one of the variables has no view.
Join(out, v, w) ==
    /\ Defined(v)
    /\ Defined(w)
    /\ IF Skipped(v, w)
       THEN AssignNothing(out, symtable[v].type, v, w)
       ELSE /\ None \notin {Table(v), Table(w)}
            /\ \E new \in Result(symtable[v].type, "local") : AssignView(out, new, v, w)

-------------------------------------------------------------------------------
\* Mutated form: the view keeps its intermediate name.
KeepLocalUnrenamed(out, local, source) ==
    Assign(out, Stored(views, Local(out), local), Local(out), local, source)

\* do_prefetch() without a pattern: what is in the store has to do.
KeepLocal(out, local, source) ==
    Assign(out, Renamed(Stored(views, Local(out), local), Local(out), out), out, local, source)

\* A pattern is only built from entities, for the data source they are from.
CanPrefetch(local, source) == local.rows # NoRows /\ source # NoSource

\* fine_grained_relational_process_filtering() of what was prefetched.
Identical(raw) ==
    {Nothing(raw.type)}
    \cup (IF raw.type = "process" /\ raw.rows # NoRows
          THEN {Some(raw.type, "filtered")} ELSE {})

\* Mutated form: the view with all that was prefetched is renamed, filtered or not.
FinalViewRaw(out, filtered) == Prefetch(out)

\* _filter_prefetched_process()
FinalView(out, filtered) ==
    IF filtered.rows = NoRows THEN Prefetch(out) ELSE PrefetchFiltered(out)

\* do_prefetch() with a pattern: raw is all that the data source returns, filtered
\* the processes among it that are identical to the local ones, if any is.
KeepPrefetched(out, local, source, raw, filtered) ==
    LET fetched == Stored(Stored(views, Local(out), local), Prefetch(out), raw)
        store == IF filtered.rows = NoRows THEN fetched
                 ELSE Stored(fetched, PrefetchFiltered(out), filtered)
        renamed == Renamed(store, FinalView(out, filtered), out)
    IN  /\ CanPrefetch(local, source)
        /\ Assign(out, IF DebugMode THEN renamed ELSE Removed(renamed, Intermediate(out)), out,
                  IF filtered.rows = NoRows THEN raw ELSE filtered, source)

\* The statement raises after its local stage.
LeaveLocal(out, local) ==
    /\ views' = Stored(views, Local(out), local)
    /\ statements' = statements + 1
    /\ UNCHANGED <<symtable, value, last>>

\* GET from a data source, with FROM or without.
Get(out, t, d) ==
    \E local \in Result(t, "local") :
      \/ /\ KeepLocal(out, local, d)
         /\ Cache({local})
         /\ queried' = d
      \/ \E raw \in Result(t, "prefetched") :
           \E filtered \in Identical(raw) :
              /\ KeepPrefetched(out, local, d, raw, filtered)
              /\ Cache({local, raw})
              /\ queried' = d

\* What the data source has returned cannot be loaded, or the prefetch fails.
GetRaises(out, t, d) ==
    /\ \/ /\ statements' = statements + 1
          /\ UNCHANGED <<symtable, views, entities, value, last>>
       \/ \E local \in Result(t, "local") :
            /\ CanPrefetch(local, d)
            /\ LeaveLocal(out, local)
            /\ Cache({local})
    /\ queried' = d

\* FIND; without a known type or a reference to follow it yields nothing.
Find(out, v, t) ==
    /\ Defined(v)
    /\ \/ AssignNothing(out, t, v, v)
       \/ /\ ~Skipped(v, v)
          /\ \E local \in Result(t, "local") :
               \/ /\ KeepLocal(out, local, SourceOf(v, v))
                  /\ UNCHANGED <<entities, queried>>
               \/ \E raw \in Result(t, "prefetched") :
                    \E filtered \in Identical(raw) :
                       /\ KeepPrefetched(out, local, SourceOf(v, v), raw, filtered)
                       /\ Cache({raw})
                       /\ queried' = SourceOf(v, v)

\* The query for the prefetch fails, or what it returned cannot be loaded.
FindRaises(out, v, t) ==
    /\ Defined(v)
    /\ ~Skipped(v, v)
    /\ \E local \in Result(t, "local") :
         /\ CanPrefetch(local, SourceOf(v, v))
         /\ LeaveLocal(out, local)
    /\ queried' \in {queried, SourceOf(v, v)}
    /\ UNCHANGED entities

-------------------------------------------------------------------------------
\* APPLY on v and w; replaced are those that the analytics gives new rows to.  It
\* does so one after the other until one has no view or no valid output.  The
\* VarStructs stay as they are.  The rows are supposed to be of the type of the view,
\* which the interfaces of analytics leave to the analytics.
Apply(v, w, replaced) ==
    /\ Defined(v)
    /\ Defined(w)
    /\ ~Skipped(v, w)
    /\ \A u \in replaced : Table(u) # None
    /\ views' = [n \in Views |->
                   IF \E u \in replaced : Table(u) = n
                   THEN Some(views[n].type, "local") ELSE views[n]]
    /\ value' = [n \in Vars |->
                   IF \E u \in replaced : n \in Aliases(u)
                   THEN Some(value[n].type, "local") ELSE value[n]]
    /\ Cache({Some(symtable[u].type, "local") : u \in replaced})
    /\ statements' = statements + 1
    /\ UNCHANGED <<symtable, queried, last>>

Next ==
    /\ statements < MaxStatements
    /\ \/ \E out \in Vars :
            \/ Load(out)
            \/ \E t \in Types, d \in DataSources : Get(out, t, d) \/ GetRaises(out, t, d)
            \/ \E v \in Vars :
                 \/ Transform(out, v)
                 \/ \E t \in Types : GetFrom(out, t, v) \/ Find(out, v, t) \/ FindRaises(out, v, t)
       \/ \E out \in Names, v, w \in Vars : Merge(out, v, w)
       \/ \E out, v, w \in Vars : Join(out, v, w)
       \/ \E v, w \in Vars : Apply(v, w, {v}) \/ Apply(v, w, {v, w})

Spec == Init /\ [][Next]_vars

-------------------------------------------------------------------------------
\* Type invariant.
TypeOK ==
    /\ symtable \in [Vars -> VarStruct \cup {Undefined}]
    /\ views \in [Views -> Values \cup {NoView}]
    /\ entities \in [Types -> SUBSET Rows]
    /\ queried \in DataSources \cup {NoSource}
    /\ statements \in 0..MaxStatements
    /\ value \in [Vars -> Values \cup {NoView}]
    /\ last \in Vars

\* docs/language/eav.rst, "Mutability": variables "can be partially updated, e.g.,
\* new attributes added through an analytics, and they can be overwritten by a
\* variable assignment to an existing variable".  Nothing else changes what a reader
\* of a variable gets: not the views of another statement, nor one that failed
\* half-way, nor a prefetch that was given up; and `_' is the last variable.
VariablesKeepTheirValues == \A v \in Vars : Defined(v) => Content(v) = value[v]

\* Commands decide by the VarStruct whether to run at all: none runs on a variable
\* without rows, or takes one type for another.  (How many rows there are is not
\* in the model; after analytics the length of the VarStruct may be out of date.)
StructsMatchViews ==
    \A v \in Vars : ~symtable[v].empty =>
        /\ Content(v).rows # NoRows
        /\ Content(v).type = symtable[v].type

\* FIND with a specific relation reads the view of the name of its input, and not
\* the view of the VarStruct like everyone else.  For all variables but `_' it is
\* the same.
FindReadsItsVariable ==
    \A v \in Names : ~symtable[v].empty => views[v] = value[v]

\* What `GET ... FROM v' filters: all entities of the type of v.
ReadByGet(v) == entities[symtable[v].type]

\* docs/language/commands.rst on GET: "The pool can also be an existing Kestrel
\* variable (all entities of the same type in that variable)".  It is not the
\* entities of another variable.  The code does not keep this promise: two
\* assignments from data make a state where a GET from one variable finds the
\* entities of the other, since get() hands the type of v to the store and not v.
GetReadsItsVariable ==
    \A v, w \in Names :
        v # w /\ ~symtable[v].empty /\ ~symtable[w].empty /\ value[v].rows # value[w].rows
        => value[w].rows \notin ReadByGet(v)

===============================================================================
