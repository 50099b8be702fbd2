-------------------------- MODULE HuntVariablesProofs --------------------------
(***************************************************************************)
(* Proofs about HuntVariables for any names, types, data sources and       *)
(* length of the hunt, with and without debug mode: what its run checks.   *)
(* All of it rests on which view a variable may be in, and on no           *)
(* intermediate view having the name of a variable.                        *)
(***************************************************************************)
EXTENDS HuntVariables, TLAPS

Stores == [Views -> Values \cup {NoView}]

Sources == DataSources \cup {NoSource}

\* What the properties rest on: a variable is in the view of its own name or in none,
\* and the default variable is what the last one is.
Own ==
    /\ \A v \in Vars : Defined(v) => value[v] \in Values
    /\ \A v \in Names : Table(v) \in {v, None}
    /\ Table(Default) \in {last, None}
    /\ symtable[Default] = symtable[last]
    /\ value[Default] = value[last]

IInv == TypeOK /\ VariablesKeepTheirValues /\ StructsMatchViews /\ Own

-------------------------------------------------------------------------------
\* The views of variables and the views on the way to them.
LEMMA ViewNames ==
    /\ Vars \subseteq Views
    /\ Default \in Vars /\ Names \subseteq Vars
    /\ None \notin Vars
    /\ \A v \in Vars : Intermediate(v) \subseteq Views /\ Intermediate(v) \cap Vars = {}
<1>1. Vars \subseteq Views /\ Default \in Vars /\ Names \subseteq Vars
  BY DEF Views, Vars
<1>2. \A v \in Vars : Intermediate(v) \subseteq Views
  BY DEF Views
<1>3. QED
  BY <1>1, <1>2, HuntAssumption

\* Storing a view changes that view only.
LEMMA StoredFacts ==
    ASSUME NEW store \in Stores, NEW view \in Views, NEW content \in Values
    PROVE  /\ Stored(store, view, content) \in Stores
           /\ Stored(store, view, content)[view] = content
           /\ \A n \in Views \ {view} : Stored(store, view, content)[n] = store[n]
BY DEF Stored, Stores

\* Storing a view no variable is in.
LEMMA StoredIntermediate ==
    ASSUME NEW store \in Stores, NEW view \in Views \ Vars, NEW content \in Values
    PROVE  /\ Stored(store, view, content) \in Stores
           /\ Stored(store, view, content)[view] = content
           /\ \A n \in Vars : Stored(store, view, content)[n] = store[n]
BY StoredFacts, ViewNames

\* Renaming a view changes the two views only.
LEMMA RenamedFacts ==
    ASSUME NEW store \in Stores, NEW from \in Views, NEW to \in Views, from # to
    PROVE  /\ Renamed(store, from, to) \in Stores
           /\ Renamed(store, from, to)[to] = store[from]
           /\ \A n \in Views \ {from, to} : Renamed(store, from, to)[n] = store[n]
BY DEF Renamed, Stores

\* Removing views changes no other view.
LEMMA RemovedFacts ==
    ASSUME NEW store \in Stores, NEW gone
    PROVE  /\ Removed(store, gone) \in Stores
           /\ \A n \in Views \ gone : Removed(store, gone)[n] = store[n]
BY DEF Removed, Stores

\* What a statement within the bound computes.
LEMMA Contents ==
    ASSUME statements \in 0..MaxStatements, statements < MaxStatements, NEW t \in Types
    PROVE  /\ Nothing(t) \in Values /\ Nothing(t).type = t
           /\ \A stage \in Stages :
                 /\ Some(t, stage) \in Values
                 /\ Some(t, stage).type = t
                 /\ Some(t, stage).rows # NoRows
                 /\ \A c \in Result(t, stage) : c \in Values /\ c.type = t
<1>1. statements + 1 \in 1..MaxStatements /\ statements + 1 # 0
  BY HuntAssumption
<1>2. \A stage \in Stages : <<statements + 1, stage>> \in Rows /\ <<statements + 1, stage>> # NoRows
  BY <1>1 DEF Rows, NoRows
<1>3. NoRows \in Rows
  BY DEF Rows
<1>4. QED
  BY <1>2, <1>3 DEF Nothing, Some, Result, Values

\* Caching what has the type of a view keeps the type of the store.
LEMMA CacheFacts ==
    ASSUME TypeOK, NEW contents \in SUBSET Values, Cache(contents)
    PROVE  entities' \in [Types -> SUBSET Rows]
<1>1. \A c \in contents : c.rows \in Rows
  BY DEF Values
<1>2. \A t \in Types :
        entities[t] \cup {c.rows : c \in {d \in contents : d.type = t /\ d.rows # NoRows}}
          \subseteq Rows
  BY <1>1 DEF TypeOK
<1>3. QED
  BY <1>2 DEF Cache

-------------------------------------------------------------------------------
\* A session without variables.
LEMMA InitIInv == Init => IInv
<1>1. Init => TypeOK
  BY HuntAssumption, ViewNames DEF Init, TypeOK, Rows
<1>2. Init => VariablesKeepTheirValues /\ StructsMatchViews
  BY DEF Init, VariablesKeepTheirValues, StructsMatchViews, Defined, Undefined
<1>3. Init => Own
  BY ViewNames DEF Init, Own, Defined, Table, Undefined
<1>4. QED
  BY <1>1, <1>2, <1>3 DEF IInv

\* A statement assigns out, in the view of that name or none, and has changed no
\* other view that a variable may be in.
LEMMA AssignKeepsIInv ==
    ASSUME IInv, statements < MaxStatements,
           NEW out \in Vars, NEW store \in Stores, NEW table, NEW content \in Values,
           NEW source \in Sources,
           \A n \in Vars \ {out} : store[n] = views[n],
           \/ table = None /\ content = Nothing(content.type)
           \/ table = out /\ store[out] = content,
           Assign(out, store, table, content, source),
           entities' \in [Types -> SUBSET Rows],
           queried' \in Sources
    PROVE  IInv'
<1> DEFINE struct == NewVar(store, table, content.type, source)
<1>1. TypeOK
  BY DEF IInv
<1>2. struct \in VarStruct /\ struct.table = table /\ struct.type = content.type
  BY ViewNames DEF NewVar, VarStruct, Values, Sources
<1>3. ~struct.empty => table = out /\ content.rows # NoRows
  BY DEF NewVar
<1>4. /\ symtable'[out] = struct
      /\ symtable'[Default] = struct
      /\ \A v \in Vars \ {out, Default} : symtable'[v] = symtable[v]
  BY <1>1, ViewNames DEF Assign, Bind, TypeOK
<1>5. /\ value'[out] = content
      /\ value'[Default] = content
      /\ \A v \in Vars \ {out, Default} : value'[v] = value[v]
  BY <1>1, ViewNames DEF Assign, TypeOK
<1>6. /\ last' = out
      /\ views' = store
      /\ statements' = statements + 1
  BY DEF Assign
<1>7. TypeOK'
  <2>1. symtable' \in [Vars -> VarStruct \cup {Undefined}]
    BY <1>1, <1>2 DEF Assign, Bind, TypeOK
  <2>2. value' \in [Vars -> Values \cup {NoView}]
    BY <1>1 DEF Assign, TypeOK
  <2>3. statements' \in 0..MaxStatements
    BY <1>1, <1>6, HuntAssumption DEF TypeOK
  <2>4. QED
    BY <1>6, <2>1, <2>2, <2>3 DEF TypeOK, Stores, Sources
\* Content is what it was, or what the statement has computed.
<1>8. \A v \in Vars \ {out, Default} : Content(v)' = Content(v)
  <2>1. SUFFICES ASSUME NEW v \in Vars \ {out, Default} PROVE Content(v)' = Content(v)
    OBVIOUS
  <2>2. Table(v) \in {v, None}
    BY DEF IInv, Own, Vars
  <2>3. Table(v)' = Table(v) /\ symtable'[v].type = symtable[v].type
    BY <1>4 DEF Table
  <2>4. views'[v] = views[v]
    BY <1>6
  <2>5. QED
    BY <2>2, <2>3, <2>4 DEF Content
<1>9. \A v \in {out, Default} : Content(v)' = content
  <2>1. SUFFICES ASSUME NEW v \in {out, Default} PROVE Content(v)' = content
    OBVIOUS
  <2>2. Table(v)' = table /\ symtable'[v].type = content.type
    BY <1>2, <1>4 DEF Table
  <2>3. CASE table = None /\ content = Nothing(content.type)
    BY <2>2, <2>3 DEF Content
  <2>4. CASE table = out /\ store[out] = content
    BY <2>2, <2>4, <1>6, ViewNames DEF Content
  <2>5. QED
    BY <2>3, <2>4
<1>10. VariablesKeepTheirValues'
  <2>1. SUFFICES ASSUME NEW v \in Vars, Defined(v)' PROVE Content(v)' = value'[v]
    BY DEF VariablesKeepTheirValues
  <2>2. CASE v \in {out, Default}
    BY <1>5, <1>9, <2>2
  <2>3. CASE v \notin {out, Default}
    BY <1>4, <1>5, <1>8, <2>1, <2>3 DEF IInv, VariablesKeepTheirValues, Defined
  <2>4. QED
    BY <2>2, <2>3
<1>11. StructsMatchViews'
  <2>1. SUFFICES ASSUME NEW v \in Vars, ~symtable'[v].empty
                 PROVE  Content(v)'.rows # NoRows /\ Content(v)'.type = symtable'[v].type
    BY DEF StructsMatchViews
  <2>2. CASE v \in {out, Default}
    BY <1>2, <1>3, <1>4, <1>9, <2>1, <2>2
  <2>3. CASE v \notin {out, Default}
    BY <1>4, <1>8, <2>1, <2>3 DEF IInv, StructsMatchViews
  <2>4. QED
    BY <2>2, <2>3
<1>12. Own'
  <2>1. \A v \in Vars : Defined(v)' => value'[v] \in Values
    BY <1>4, <1>5 DEF IInv, Own, Defined
  <2>2. \A v \in Names : Table(v)' \in {v, None}
    <3>1. SUFFICES ASSUME NEW v \in Names PROVE Table(v)' \in {v, None}
      OBVIOUS
    <3>2. v # Default
      BY HuntAssumption
    <3>3. CASE v = out
      BY <1>2, <1>4, <3>3 DEF Table
    <3>4. CASE v # out
      BY <1>4, <3>2, <3>4, ViewNames DEF IInv, Own, Table
    <3>5. QED
      BY <3>3, <3>4
  <2>3. Table(Default)' \in {last', None}
    BY <1>2, <1>4, <1>6 DEF Table
  <2>4. symtable'[Default] = symtable'[last'] /\ value'[Default] = value'[last']
    BY <1>4, <1>5, <1>6
  <2>5. QED
    BY <2>1, <2>2, <2>3, <2>4 DEF Own
<1>13. QED
  BY <1>7, <1>10, <1>11, <1>12 DEF IInv

\* A statement that raises has changed at most views that no variable is in.
LEMMA LeftOverKeepsIInv ==
    ASSUME IInv,
           UNCHANGED <<symtable, value, last>>,
           views' \in Stores,
           \A n \in Vars : views'[n] = views[n],
           statements' \in 0..MaxStatements,
           entities' \in [Types -> SUBSET Rows],
           queried' \in Sources
    PROVE  IInv'
<1>1. TypeOK'
  BY DEF IInv, TypeOK, Stores, Sources
<1>2. \A v \in Vars : Table(v) \in Vars \cup {None}
  BY DEF IInv, Own, TypeOK, Table, Vars
<1>3. \A v \in Vars : Content(v)' = Content(v)
  BY <1>2 DEF Content, Table
<1>4. VariablesKeepTheirValues' /\ StructsMatchViews'
  BY <1>3 DEF IInv, VariablesKeepTheirValues, StructsMatchViews, Defined
<1>5. Own'
  BY DEF IInv, Own, Defined, Table
<1>6. QED
  BY <1>1, <1>4, <1>5 DEF IInv

-------------------------------------------------------------------------------
\* What a statement reads of its input has the types it needs.
LEMMA InputFacts ==
    ASSUME IInv, NEW v \in Vars, NEW w \in Vars
    PROVE  /\ Defined(v) => symtable[v].type \in Types
           /\ SourceOf(v, w) \in Sources
BY DEF IInv, TypeOK, Defined, VarStruct, SourceOf, Undefined, Sources

\* The store of views is one.
LEMMA TypedViews == IInv => views \in Stores
BY DEF IInv, TypeOK, Stores

\* A statement that yields a variable without a view.
LEMMA AssignNothingKeepsIInv ==
    ASSUME IInv, statements < MaxStatements, NEW out \in Vars, NEW t \in Types,
           NEW v \in Vars, NEW w \in Vars, AssignNothing(out, t, v, w)
    PROVE  IInv'
<1>1. Nothing(t) \in Values /\ Nothing(t) = Nothing(Nothing(t).type)
  BY DEF Nothing, Values, Rows
<1>2. views \in Stores /\ SourceOf(v, w) \in Sources
  BY InputFacts DEF IInv, TypeOK, Stores
<1>3. entities' \in [Types -> SUBSET Rows] /\ queried' \in Sources
  BY DEF AssignNothing, IInv, TypeOK, Sources
<1>4. Assign(out, views, None, Nothing(t), SourceOf(v, w))
  BY DEF AssignNothing
<1>5. QED
  BY <1>1, <1>2, <1>3, <1>4, AssignKeepsIInv

\* A statement that computes its result from the store.
LEMMA AssignViewKeepsIInv ==
    ASSUME IInv, statements < MaxStatements, NEW out \in Vars, NEW content \in Values,
           NEW v \in Vars, NEW w \in Vars, AssignView(out, content, v, w)
    PROVE  IInv'
<1> DEFINE store == Stored(views, out, content)
<1>1. /\ store \in Stores
      /\ store[out] = content
      /\ \A n \in Vars \ {out} : store[n] = views[n]
  BY StoredFacts, ViewNames DEF IInv, TypeOK, Stores
<1>2. SourceOf(v, w) \in Sources
  BY InputFacts
<1>3. entities' \in [Types -> SUBSET Rows] /\ queried' \in Sources
  BY DEF AssignView, IInv, TypeOK, Sources
<1>4. Assign(out, store, out, content, SourceOf(v, w))
  BY DEF AssignView
<1> HIDE DEF store
<1>5. QED
  BY <1>1, <1>2, <1>3, <1>4, AssignKeepsIInv

\* The local stage is all there is to the result.
LEMMA KeepLocalKeepsIInv ==
    ASSUME IInv, statements < MaxStatements, NEW out \in Vars, NEW local \in Values,
           NEW source \in Sources, KeepLocal(out, local, source),
           entities' \in [Types -> SUBSET Rows], queried' \in Sources
    PROVE  IInv'
<1> DEFINE first == Stored(views, Local(out), local)
           store == Renamed(first, Local(out), out)
<1>1. Local(out) \in Views \ Vars
  BY ViewNames DEF Intermediate
<1>2. /\ first \in Stores
      /\ first[Local(out)] = local
      /\ \A n \in Vars : first[n] = views[n]
  BY <1>1, StoredIntermediate, TypedViews
<1> HIDE DEF first
<1>3. /\ store \in Stores
      /\ store[out] = local
      /\ \A n \in Vars \ {out} : store[n] = views[n]
  BY <1>1, <1>2, RenamedFacts, ViewNames
<1>4. Assign(out, store, out, local, source)
  BY DEF KeepLocal, first
<1> HIDE DEF store
<1>5. QED
  BY <1>3, <1>4, AssignKeepsIInv

\* The result is the prefetch; the views on the way are removed or, when debugging, left.
LEMMA KeepPrefetchedKeepsIInv ==
    ASSUME IInv, statements < MaxStatements, NEW out \in Vars, NEW local \in Values,
           NEW source \in Sources, NEW raw \in Values, NEW filtered \in Values,
           KeepPrefetched(out, local, source, raw, filtered),
           entities' \in [Types -> SUBSET Rows], queried' \in Sources
    PROVE  IInv'
<1> DEFINE first == Stored(views, Local(out), local)
           fetched == Stored(first, Prefetch(out), raw)
           store == IF filtered.rows = NoRows THEN fetched
                    ELSE Stored(fetched, PrefetchFiltered(out), filtered)
           content == IF filtered.rows = NoRows THEN raw ELSE filtered
           final == FinalView(out, filtered)
           renamed == Renamed(store, final, out)
           left == IF DebugMode THEN renamed ELSE Removed(renamed, Intermediate(out))
<1>1. /\ Local(out) \in Views \ Vars
      /\ Prefetch(out) \in Views \ Vars
      /\ PrefetchFiltered(out) \in Views \ Vars
      /\ Intermediate(out) \cap Vars = {}
  BY ViewNames DEF Intermediate
<1>2. first \in Stores /\ \A n \in Vars : first[n] = views[n]
  BY <1>1, StoredIntermediate, TypedViews
<1> HIDE DEF first
<1>3. /\ fetched \in Stores
      /\ fetched[Prefetch(out)] = raw
      /\ \A n \in Vars : fetched[n] = views[n]
  BY <1>1, <1>2, StoredFacts, ViewNames
<1> HIDE DEF fetched
<1>4. /\ store \in Stores
      /\ store[final] = content
      /\ final \in Views \ Vars
      /\ \A n \in Vars : store[n] = views[n]
  <2>1. CASE filtered.rows = NoRows
    BY <1>1, <1>3, <2>1 DEF FinalView
  <2>2. CASE filtered.rows # NoRows
    BY <1>1, <1>3, <2>2, StoredFacts, ViewNames DEF FinalView
  <2>3. QED
    BY <2>1, <2>2
<1>5. Assign(out, left, out, content, source)
  BY DEF KeepPrefetched, first, fetched
<1>6. content \in Values
  OBVIOUS
<1> HIDE DEF store, final, content
<1>7. /\ renamed \in Stores
      /\ renamed[out] = content
      /\ \A n \in Vars \ {out} : renamed[n] = views[n]
  BY <1>4, RenamedFacts, ViewNames
<1> HIDE DEF renamed
<1>8. /\ left \in Stores
      /\ left[out] = content
      /\ \A n \in Vars \ {out} : left[n] = views[n]
  BY <1>1, <1>7, RemovedFacts, ViewNames
<1> HIDE DEF left
<1>9. QED
  BY <1>5, <1>6, <1>8, AssignKeepsIInv

\* The view of the local stage is left behind.
LEMMA LeaveLocalKeepsIInv ==
    ASSUME IInv, statements < MaxStatements, NEW out \in Vars, NEW local \in Values,
           LeaveLocal(out, local),
           entities' \in [Types -> SUBSET Rows], queried' \in Sources
    PROVE  IInv'
<1>1. Local(out) \in Views \ Vars
  BY ViewNames DEF Intermediate
<1>2. views' \in Stores /\ \A n \in Vars : views'[n] = views[n]
  BY <1>1, StoredIntermediate, TypedViews DEF LeaveLocal
<1>3. statements' \in 0..MaxStatements /\ UNCHANGED <<symtable, value, last>>
  BY HuntAssumption DEF LeaveLocal, IInv, TypeOK
<1>4. QED
  BY <1>2, <1>3, LeftOverKeepsIInv

-------------------------------------------------------------------------------
\* Two variables are in one view only if they stand for the same.
LEMMA OneViewOneValue ==
    ASSUME IInv, NEW u \in Vars, NEW v \in Vars, Table(u) # None
    PROVE  v \in Aliases(u) <=> Table(v) = Table(u)
<1>1. v \in Aliases(u) => Table(v) = Table(u)
  BY DEF IInv, Own, Aliases, Table
<1>2. ASSUME Table(v) = Table(u) PROVE v \in Aliases(u)
  <2>1. CASE u \in Names /\ v \in Names
    BY <1>2, <2>1 DEF IInv, Own, Aliases
  <2>2. CASE u = Default /\ v \in Names
    BY <1>2, <2>2 DEF IInv, Own, Aliases
  <2>3. CASE u \in Names /\ v = Default
    BY <1>2, <2>3 DEF IInv, Own, Aliases
  <2>4. CASE u = Default /\ v = Default
    BY <2>4 DEF Aliases
  <2>5. QED
    BY <2>1, <2>2, <2>3, <2>4 DEF Vars
<1>3. QED
  BY <1>1, <1>2

\* An analytics changes the rows of its variables and of what shares their views.
LEMMA ApplyKeepsIInv ==
    ASSUME IInv, statements < MaxStatements, NEW v \in Vars, NEW w \in Vars,
           NEW replaced \in SUBSET {v, w}, Apply(v, w, replaced)
    PROVE  IInv'
<1> DEFINE Hit(n) == \E u \in replaced : n \in Aliases(u)
           Updated(n) == \E u \in replaced : Table(u) = n
<1>1. TypeOK /\ replaced \subseteq Vars /\ \A u \in replaced : Table(u) # None
  BY DEF IInv, Apply
<1>2. UNCHANGED <<symtable, queried, last>> /\ statements' = statements + 1
  BY DEF Apply
<1>3. \A n \in Views : views'[n] = IF Updated(n) THEN Some(views[n].type, "local") ELSE views[n]
  BY DEF Apply
<1>4. \A n \in Vars : value'[n] = IF Hit(n) THEN Some(value[n].type, "local") ELSE value[n]
  BY DEF Apply
<1>5. \A n \in Vars : Table(n) # None => /\ Table(n) \in Views
                                         /\ views[Table(n)] = value[n]
                                         /\ value[n] \in Values
  <2>1. SUFFICES ASSUME NEW n \in Vars, Table(n) # None
                 PROVE  /\ Table(n) \in Views
                        /\ views[Table(n)] = value[n]
                        /\ value[n] \in Values
    OBVIOUS
  <2>2. Defined(n)
    BY <2>1 DEF Defined, Table, Undefined
  <2>3. Table(n) \in Vars
    BY <1>1, <2>1, <2>2 DEF TypeOK, Defined, Table, VarStruct
  <2>4. Content(n) = value[n] /\ value[n] \in Values
    BY <2>2 DEF IInv, VariablesKeepTheirValues, Own
  <2>5. QED
    BY <2>1, <2>3, <2>4, ViewNames DEF Content
<1>6. \A n \in Vars : Hit(n) <=> Table(n) # None /\ Updated(Table(n))
  <2>1. \A n \in Vars, u \in replaced : n \in Aliases(u) <=> Table(n) = Table(u)
    BY <1>1, OneViewOneValue
  <2>2. QED
    BY <1>1, <2>1
<1>7. \A n \in Vars : Hit(n) => /\ Some(value[n].type, "local") \in Values
                                /\ Some(value[n].type, "local").type = value[n].type
                                /\ Some(value[n].type, "local").rows # NoRows
  <2>1. \A n \in Vars : Hit(n) => value[n].type \in Types
    BY <1>5, <1>6 DEF Values
  <2>2. statements \in 0..MaxStatements
    BY <1>1 DEF TypeOK
  <2>3. QED
    BY <2>1, <2>2, Contents DEF Stages
<1>8. \A n \in Views : Updated(n) => Some(views[n].type, "local") \in Values
  <2>1. SUFFICES ASSUME NEW n \in Views, NEW u \in replaced, Table(u) = n
                 PROVE  Some(views[n].type, "local") \in Values
    OBVIOUS
  <2>2. u \in Vars /\ Table(u) # None
    BY <1>1
  <2>3. views[n] = value[u]
    BY <1>5, <2>1, <2>2
  <2>4. Hit(u)
    BY <1>6, <2>2
  <2>5. QED
    BY <1>7, <2>2, <2>3, <2>4
\* The new rows are where the variable is, and nowhere else.
<1>9. \A n \in Vars : Table(n) # None =>
         views'[Table(n)] = IF Hit(n) THEN Some(value[n].type, "local") ELSE value[n]
  BY <1>3, <1>5, <1>6
<1>10. TypeOK'
  <2>1. views' \in [Views -> Values \cup {NoView}]
    BY <1>1, <1>3, <1>8 DEF TypeOK, Apply
  <2>2. value' \in [Vars -> Values \cup {NoView}]
    BY <1>1, <1>4, <1>7 DEF TypeOK, Apply
  <2>3. entities' \in [Types -> SUBSET Rows]
    <3>1. {Some(symtable[u].type, "local") : u \in replaced} \in SUBSET Values
      <4>1. SUFFICES ASSUME NEW u \in replaced
                     PROVE  Some(symtable[u].type, "local") \in Values
        OBVIOUS
      <4>2. u \in Vars /\ Table(u) # None
        BY <1>1
      <4>3. symtable[u].type \in Types
        BY <4>2, InputFacts DEF Defined, Table, Undefined
      <4>4. statements \in 0..MaxStatements
        BY <1>1 DEF TypeOK
      <4>5. QED
        BY <4>3, <4>4, Contents DEF Stages
    <3>2. QED
      BY <1>1, <3>1, CacheFacts DEF Apply
  <2>4. statements' \in 0..MaxStatements
    BY <1>1, <1>2, HuntAssumption DEF TypeOK
  <2>5. QED
    BY <1>1, <1>2, <2>1, <2>2, <2>3, <2>4 DEF TypeOK
<1>11. \A n \in Vars : Table(n)' = Table(n) /\ Defined(n)' = Defined(n)
  BY <1>2 DEF Table, Defined
<1>12. VariablesKeepTheirValues'
  <2>1. SUFFICES ASSUME NEW n \in Vars, Defined(n) PROVE Content(n)' = value'[n]
    BY <1>11 DEF VariablesKeepTheirValues
  <2>2. CASE Table(n) = None
    <3>1. Content(n)' = Content(n) /\ value'[n] = value[n]
      BY <1>2, <1>4, <1>6, <1>11, <2>2 DEF Content
    <3>2. QED
      BY <2>1, <3>1 DEF IInv, VariablesKeepTheirValues
  <2>3. CASE Table(n) # None
    BY <1>4, <1>9, <1>11, <2>3 DEF Content
  <2>4. QED
    BY <2>2, <2>3
<1>13. StructsMatchViews'
  <2>1. SUFFICES ASSUME NEW n \in Vars, ~symtable[n].empty
                 PROVE  Content(n)'.rows # NoRows /\ Content(n)'.type = symtable[n].type
    BY <1>2 DEF StructsMatchViews
  <2>2. Content(n).rows # NoRows /\ Content(n).type = symtable[n].type
    BY <2>1 DEF IInv, StructsMatchViews
  <2>3. Table(n) # None
    BY <2>2 DEF Content, Nothing
  <2>4. Content(n) = value[n] /\ Content(n)' = views'[Table(n)]
    BY <1>5, <1>11, <2>3 DEF Content
  <2>5. QED
    BY <1>7, <1>9, <2>2, <2>3, <2>4
<1>14. Own'
  <2>1. \A n \in Vars : Defined(n)' => value'[n] \in Values
    BY <1>4, <1>7, <1>11 DEF IInv, Own
  <2>2. value'[Default] = value'[last]
    <3>1. last \in Vars /\ Default \in Vars /\ value[Default] = value[last] /\ Table(Default) = Table(last)
      BY <1>1, ViewNames DEF IInv, Own, TypeOK, Table
    <3>2. Hit(Default) <=> Hit(last)
      BY <1>6, <3>1
    <3>3. QED
      BY <1>4, <3>1, <3>2
  <2>3. QED
    BY <1>2, <1>11, <2>1, <2>2, ViewNames DEF IInv, Own
<1>15. QED
  BY <1>10, <1>12, <1>13, <1>14 DEF IInv

-------------------------------------------------------------------------------
\* NEW and LOAD.
LEMMA LoadKeepsIInv ==
    ASSUME IInv, statements < MaxStatements, NEW out \in Vars, Load(out)
    PROVE  IInv'
<1>1. statements \in 0..MaxStatements /\ "local" \in Stages
  BY DEF IInv, TypeOK, Stages
<1>2. PICK t \in Types :
         /\ Assign(out, Stored(views, out, Some(t, "local")), out, Some(t, "local"), NoSource)
         /\ Cache({Some(t, "local")})
  BY DEF Load
<1>3. Some(t, "local") \in Values
  BY <1>1, Contents
<1>4. /\ Stored(views, out, Some(t, "local")) \in Stores
      /\ Stored(views, out, Some(t, "local"))[out] = Some(t, "local")
      /\ \A n \in Vars \ {out} : Stored(views, out, Some(t, "local"))[n] = views[n]
  BY <1>3, TypedViews, StoredFacts, ViewNames
<1>5. entities' \in [Types -> SUBSET Rows]
  BY <1>2, <1>3, CacheFacts DEF IInv
<1>6. queried' \in Sources /\ NoSource \in Sources
  BY DEF Load, IInv, TypeOK, Sources
<1>7. QED
  BY <1>2, <1>3, <1>4, <1>5, <1>6, AssignKeepsIInv

\* The statements that read variables and ask no data source.
LEMMA ReadersKeepIInv ==
    ASSUME IInv, statements < MaxStatements, NEW out \in Vars, NEW v \in Vars, NEW w \in Vars,
           NEW t \in Types,
           Transform(out, v) \/ GetFrom(out, t, v) \/ Merge(out, v, w) \/ Join(out, v, w)
    PROVE  IInv'
<1>1. Defined(v)
  BY DEF Transform, GetFrom, Merge, Join
<1>2. symtable[v].type \in Types
  BY <1>1, InputFacts
<1>3. statements \in 0..MaxStatements /\ "local" \in Stages
  BY DEF IInv, TypeOK, Stages
<1>4. \A type \in Types : \A new \in Result(type, "local") \cup {Some(type, "local")} : new \in Values
  BY <1>3, Contents
<1>5. \/ \E type \in Types, u \in Vars : AssignNothing(out, type, v, u)
      \/ \E new \in Values, u \in Vars : AssignView(out, new, v, u)
  <2>1. CASE Transform(out, v)
    BY <1>2, <1>4, <2>1 DEF Transform
  <2>2. CASE GetFrom(out, t, v)
    BY <1>4, <2>2 DEF GetFrom
  <2>3. CASE Merge(out, v, w)
    BY <1>2, <1>4, <2>3 DEF Merge
  <2>4. CASE Join(out, v, w)
    BY <1>2, <1>4, <2>4 DEF Join
  <2>5. QED
    BY <2>1, <2>2, <2>3, <2>4
<1>6. CASE \E type \in Types, u \in Vars : AssignNothing(out, type, v, u)
  BY <1>6, AssignNothingKeepsIInv
<1>7. CASE \E new \in Values, u \in Vars : AssignView(out, new, v, u)
  BY <1>7, AssignViewKeepsIInv
<1>8. QED
  BY <1>5, <1>6, <1>7

\* What the local stage and the prefetch yield.
LEMMA StageFacts ==
    ASSUME IInv, statements < MaxStatements, NEW t \in Types
    PROVE  /\ \A local \in Result(t, "local") : local \in Values
           /\ \A raw \in Result(t, "prefetched") :
                 raw \in Values /\ \A filtered \in Identical(raw) : filtered \in Values
<1>1. statements \in 0..MaxStatements /\ Stages = {"local", "prefetched", "filtered"}
  BY DEF IInv, TypeOK, Stages
<1>2. \A c \in Result(t, "local") : c \in Values
  BY <1>1, Contents
<1>3. \A raw \in Result(t, "prefetched") : raw \in Values /\ raw.type = t
  BY <1>1, Contents
<1>4. Nothing(t) \in Values /\ Some(t, "filtered") \in Values
  BY <1>1, Contents
<1>5. \A raw \in Result(t, "prefetched") : \A filtered \in Identical(raw) : filtered \in Values
  BY <1>3, <1>4 DEF Identical
<1>6. QED
  BY <1>2, <1>3, <1>5

\* GET, with and without a prefetch.
LEMMA GetKeepsIInv ==
    ASSUME IInv, statements < MaxStatements, NEW out \in Vars, NEW t \in Types,
           NEW d \in DataSources, Get(out, t, d)
    PROVE  IInv'
<1>1. d \in Sources
  BY DEF Sources
<1>2. PICK local \in Result(t, "local") :
        \/ KeepLocal(out, local, d) /\ Cache({local}) /\ queried' = d
        \/ \E raw \in Result(t, "prefetched") : \E filtered \in Identical(raw) :
              KeepPrefetched(out, local, d, raw, filtered) /\ Cache({local, raw}) /\ queried' = d
  BY DEF Get
<1>3. local \in Values
  BY StageFacts
<1>4. CASE KeepLocal(out, local, d) /\ Cache({local}) /\ queried' = d
  <2>1. entities' \in [Types -> SUBSET Rows]
    BY <1>3, <1>4, CacheFacts DEF IInv
  <2>2. QED
    BY <1>1, <1>3, <1>4, <2>1, KeepLocalKeepsIInv
<1>5. CASE \E raw \in Result(t, "prefetched") : \E filtered \in Identical(raw) :
              KeepPrefetched(out, local, d, raw, filtered) /\ Cache({local, raw}) /\ queried' = d
  <2>0. PICK raw \in Result(t, "prefetched") : \E filtered \in Identical(raw) :
           KeepPrefetched(out, local, d, raw, filtered) /\ Cache({local, raw}) /\ queried' = d
    BY <1>5
  <2>1. PICK filtered \in Identical(raw) :
           KeepPrefetched(out, local, d, raw, filtered) /\ Cache({local, raw}) /\ queried' = d
    BY <2>0
  <2>2. raw \in Values /\ filtered \in Values
    BY StageFacts
  <2>3. entities' \in [Types -> SUBSET Rows]
    BY <1>3, <2>1, <2>2, CacheFacts DEF IInv
  <2>4. QED
    BY <1>1, <1>3, <2>1, <2>2, <2>3, KeepPrefetchedKeepsIInv
<1>6. QED
  BY <1>2, <1>4, <1>5

\* GET that raises.
LEMMA GetRaisesKeepsIInv ==
    ASSUME IInv, statements < MaxStatements, NEW out \in Vars, NEW t \in Types,
           NEW d \in DataSources, GetRaises(out, t, d)
    PROVE  IInv'
<1>1. queried' \in Sources
  BY DEF GetRaises, Sources
<1>2. CASE statements' = statements + 1 /\ UNCHANGED <<symtable, views, entities, value, last>>
  <2>1. statements' \in 0..MaxStatements /\ entities' \in [Types -> SUBSET Rows]
    BY <1>2, HuntAssumption DEF IInv, TypeOK
  <2>2. QED
    BY <1>1, <1>2, <2>1, TypedViews, LeftOverKeepsIInv
<1>3. CASE \E local \in Result(t, "local") : LeaveLocal(out, local) /\ Cache({local})
  <2>1. PICK local \in Result(t, "local") : LeaveLocal(out, local) /\ Cache({local})
    BY <1>3
  <2>2. local \in Values
    BY StageFacts
  <2>3. entities' \in [Types -> SUBSET Rows]
    BY <2>1, <2>2, CacheFacts DEF IInv
  <2>4. QED
    BY <1>1, <2>1, <2>2, <2>3, LeaveLocalKeepsIInv
<1>4. QED
  BY <1>2, <1>3 DEF GetRaises

\* FIND, with and without a prefetch.
LEMMA FindKeepsIInv ==
    ASSUME IInv, statements < MaxStatements, NEW out \in Vars, NEW v \in Vars, NEW t \in Types,
           Find(out, v, t)
    PROVE  IInv'
<1> DEFINE source == SourceOf(v, v)
<1>1. source \in Sources
  BY InputFacts
<1>2. CASE AssignNothing(out, t, v, v)
  BY <1>2, AssignNothingKeepsIInv
<1>3. ASSUME NEW local \in Result(t, "local"),
             KeepLocal(out, local, source) /\ UNCHANGED <<entities, queried>>
      PROVE  IInv'
  <2>1. local \in Values
    BY StageFacts
  <2>2. entities' \in [Types -> SUBSET Rows] /\ queried' \in Sources
    BY <1>3 DEF IInv, TypeOK, Sources
  <2>3. QED
    BY <1>1, <1>3, <2>1, <2>2, KeepLocalKeepsIInv
<1>4. ASSUME NEW local \in Result(t, "local"), NEW raw \in Result(t, "prefetched"),
             NEW filtered \in Identical(raw),
             KeepPrefetched(out, local, source, raw, filtered) /\ Cache({raw}) /\ queried' = source
      PROVE  IInv'
  <2>1. local \in Values /\ raw \in Values /\ filtered \in Values
    BY StageFacts
  <2>2. entities' \in [Types -> SUBSET Rows]
    BY <1>4, <2>1, CacheFacts DEF IInv
  <2>3. QED
    BY <1>1, <1>4, <2>1, <2>2, KeepPrefetchedKeepsIInv
<1>5. QED
  BY <1>2, <1>3, <1>4 DEF Find

\* FIND that raises.
LEMMA FindRaisesKeepsIInv ==
    ASSUME IInv, statements < MaxStatements, NEW out \in Vars, NEW v \in Vars, NEW t \in Types,
           FindRaises(out, v, t)
    PROVE  IInv'
<1>1. PICK local \in Result(t, "local") : LeaveLocal(out, local)
  BY DEF FindRaises
<1>2. local \in Values
  BY StageFacts
<1>3. entities' \in [Types -> SUBSET Rows] /\ queried' \in Sources
  BY InputFacts DEF FindRaises, IInv, TypeOK, Sources
<1>4. QED
  BY <1>1, <1>2, <1>3, LeaveLocalKeepsIInv

\* Every statement, and every failing one, keeps the invariant.
LEMMA NextIInv == IInv /\ [Next]_vars => IInv'
<1>1. SUFFICES ASSUME IInv, [Next]_vars PROVE IInv'
  OBVIOUS
<1>2. CASE UNCHANGED vars
  <2>1. statements' \in 0..MaxStatements /\ entities' \in [Types -> SUBSET Rows] /\ queried' \in Sources
    BY <1>1, <1>2 DEF vars, IInv, TypeOK, Sources
  <2>2. QED
    BY <1>1, <1>2, <2>1, TypedViews, LeftOverKeepsIInv DEF vars
<1>3. CASE Next
  <2>1. statements < MaxStatements /\ Names \subseteq Vars
    BY <1>3, ViewNames DEF Next
  <2>2. ASSUME NEW out \in Vars, Load(out) PROVE IInv'
    BY <1>1, <2>1, <2>2, LoadKeepsIInv
  <2>3. ASSUME NEW out \in Vars, NEW t \in Types, NEW d \in DataSources,
               Get(out, t, d) \/ GetRaises(out, t, d)
        PROVE  IInv'
    BY <1>1, <2>1, <2>3, GetKeepsIInv, GetRaisesKeepsIInv
  <2>4. ASSUME NEW out \in Vars, NEW v \in Vars, Transform(out, v) PROVE IInv'
    <3>1. symtable[v].type \in Types
      BY <1>1, <2>4, InputFacts DEF Transform
    <3>2. QED
      BY <1>1, <2>1, <2>4, <3>1, ReadersKeepIInv
  <2>5. ASSUME NEW out \in Vars, NEW v \in Vars, NEW t \in Types,
               GetFrom(out, t, v) \/ Find(out, v, t) \/ FindRaises(out, v, t)
        PROVE  IInv'
    BY <1>1, <2>1, <2>5, ReadersKeepIInv, FindKeepsIInv, FindRaisesKeepsIInv
  <2>6. ASSUME NEW out \in Vars, NEW v \in Vars, NEW w \in Vars,
               Merge(out, v, w) \/ Join(out, v, w)
        PROVE  IInv'
    <3>1. symtable[v].type \in Types
      BY <1>1, <2>6, InputFacts DEF Merge, Join
    <3>2. QED
      BY <1>1, <2>1, <2>6, <3>1, ReadersKeepIInv
  <2>7. ASSUME NEW v \in Vars, NEW w \in Vars, Apply(v, w, {v}) \/ Apply(v, w, {v, w})
        PROVE  IInv'
    BY <1>1, <2>1, <2>7, ApplyKeepsIInv
  <2>8. QED
    BY <1>3, <2>1, <2>2, <2>3, <2>4, <2>5, <2>6, <2>7 DEF Next
<1>4. QED
  BY <1>1, <1>2, <1>3

\* A variable with rows is in the view of its own name.
LEMMA FindFollows == IInv => FindReadsItsVariable
<1>1. SUFFICES ASSUME IInv, NEW v \in Names, ~symtable[v].empty PROVE views[v] = value[v]
  BY DEF FindReadsItsVariable
<1>2. v \in Vars /\ Defined(v)
  BY <1>1, ViewNames DEF Defined, Undefined
<1>3. Content(v).rows # NoRows
  BY <1>1, <1>2 DEF IInv, StructsMatchViews
<1>4. Table(v) = v /\ v # None
  BY <1>1, <1>2, <1>3, ViewNames DEF IInv, Own, Content, Nothing
<1>5. QED
  BY <1>1, <1>2, <1>4 DEF IInv, VariablesKeepTheirValues, Content

-------------------------------------------------------------------------------
\* What all the others follow from.
THEOREM Invariant == Spec => []IInv
BY InitIInv, NextIInv, PTL DEF Spec

\* The type invariant of the symbol table and the store.
THEOREM TypeCorrect == Spec => []TypeOK
<1>1. IInv => TypeOK
  BY DEF IInv
<1>2. QED
  BY <1>1, Invariant, PTL

\* No statement, whatever it left behind, changes what another variable stands for.
THEOREM ValuesKept == Spec => []VariablesKeepTheirValues
<1>1. IInv => VariablesKeepTheirValues
  BY DEF IInv
<1>2. QED
  BY <1>1, Invariant, PTL

\* No command runs on a variable whose view has no rows, or rows of another type.
THEOREM StructsMatch == Spec => []StructsMatchViews
<1>1. IInv => StructsMatchViews
  BY DEF IInv
<1>2. QED
  BY <1>1, Invariant, PTL

\* FIND, which takes the name of a variable for that of its view, reads that variable.
THEOREM FindReads == Spec => []FindReadsItsVariable
BY Invariant, FindFollows, PTL

===============================================================================
