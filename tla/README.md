# Kestrel in TLA+

Specifications of the Kestrel threat hunting language runtime: what its data
source processes, its instruction graph, its sessions and the two queries of a
retrieval may do, the properties
that make them correct, the configurations that check them with TLC and the
proofs that TLAPS checks.

Paths are relative to the repository. `shifter/` stands for
`packages/kestrel_datasource_stixshifter/src/kestrel_datasource_stixshifter/`,
`core/` for `packages/kestrel_core/src/kestrel/` (Kestrel 1) and `next/` for
`packages-nextgen/kestrel_core/src/kestrel/` (Kestrel 2).

- [1. The system](#1-the-system)
- [2. Modules](#2-modules)
- [3. Runs](#3-runs)
- [4. Proofs](#4-proofs)
- [5. Disagreements found](#5-disagreements-found)
- [6. What is not modelled](#6-what-is-not-modelled)
- [7. Plan](#7-plan)

## 1. The system

A hunt is a sequence of blocks of statements. Kestrel 1 executes each statement
at once against a store (firepit); Kestrel 2 compiles blocks into a graph of
instructions and evaluates what a display needs, wherever the data is.

| Component | State | Operations | Interacts with | What is hard |
|---|---|---|---|---|
| STIX-shifter transmission, `shifter/worker/transmitter.py` | search id, offset, batch size, retry flag | submit, poll, retrieve pages, delete the search | data source (remote), raw records queue | a failure or timeout in any call, retries, paging against a limit, what silence means |
| STIX-shifter processes, `shifter/multiproc.py`, `worker/` | two multiprocessing queues, pool, transmitter and translator processes | start, put, get, STOP signs, join with a time limit | one another; the session's process reads | interleaving, order of STOP signs and data, death of a worker, pipes that fill, joins that wait |
| STIX-shifter query loop, `shifter/query.py` | limit left, number of records | one round per profile | store (`ingest`) | arithmetic of the limit: 0 means none |
| Next-gen compiler and graph, `next/frontend/compile.py`, `next/ir/graph.py` | nodes, edges, versions of variables, sequences of returns | compile a statement, merge graphs, dereference, segment | session | the order of merging and resolving; shared nodes; versions at two levels |
| Next-gen session and caches, `next/session.py`, `next/cache/` | the hunt's graph, the cache's catalog and data | execute a block, evaluate a return, explain, virtual copies | interfaces, caches | a loop that must make progress; what was cached before decides what is cut; failures in the middle |
| Kestrel 1 session, `core/session.py` | symbol table, store, runtime directory, debug link | execute, create variable, close | commands, managers, other sessions of the user | partial effects of a block; directories and a link shared between processes; cleaning up after others |
| Kestrel 1 commands, `core/codegen/`, `core/symboltable/` | views of the store | one function per command, prefetch | store, data sources, analytics | names of intermediate views, stale views, prefetch decisions, which records are the same process |
| Kestrel 1 patterns, `core/syntax/ecgpattern.py` | pattern trees | centre, prune, extend, dereference, render | commands | pruning and operators that change with the number of values |
| STIX bundle data source, `packages/kestrel_datasource_stixbundle` | raw files, ingest directories | query | web servers, the next query | what a failed query leaves for the next one |
| Python and Docker analytics | environment, working directory, `sys.path` | enter, execute, exit | store | partial update of variables, restoring the environment |
| OpenSearch interface, SQL and dataframe code generation | one query under construction | one clause per instruction | next-gen session | order of instructions against the fixed order of clauses |
| Jupyter kernels, command line, configuration | none beyond files | adapt protocols, read YAML | session | nothing concurrent |

What makes each of them correct:

- *transmission*: every record once, none beyond the limit, no failure passed over in
  silence (unless the process itself dies of an exception that nobody catches), every
  search deleted, an end.
- *processes*: the reader gets everything or an error, never a part in silence;
  no page twice; the query returns; workers do not outlive it.
- *query loop*: a limit neither disappears nor costs records that it allows.
- *graph*: merging blocks means what executing their statements in order means.
- *session and caches*: each subgraph can be evaluated with what it was given, and
  the loop ends; the catalog names what the cache has the data of.
- *Kestrel 1*: a name always denotes the newest result of that name, and a failed
  statement does not change what later ones see; a cached answer is the answer
  the query would get now; an analytics leaves its process as it found it.
- *a retrieval of Kestrel 1*: the prefetch adds to what the hunter's pattern found
  and loses none of it, and adds only records of the same entities.
- *sessions on one host*: nobody removes the directory of a session at work or of a
  caller, and nothing is left when all have closed.

The hazards, each at its line and with the properties that would catch it going
wrong, are listed in `PROJECT.json`.

## 2. Modules

### STIX-shifter

A GET goes to `query_datasource()`. For each profile it translates the pattern
into native queries and opens two context managers, `translate()` and
`transmit()`, which start the worker processes; it then reads translated pages
until every translator has said STOP.

- **`PacketSource`**: the abstract specification of a transmitter: pages,
  notices and ERROR packets, no page behind an ERROR, and an end, which comes after the
  last packet or, when the process dies, after any. It is all that the other processes
  may rely on.
- **`Transmitter`**: `Transmitter.run()`, `wait_datasource_search()` and
  `retrieve_data()`. The data source is external: it ends its searches by
  itself and each call may fail. One action per outcome of a call, because the
  process keeps nothing between two calls but the variables of the model:
  `SubmitQuery`, `SearchEnds` (external), `PollEnded`, `PollFails`, `ReceivePage`,
  `ReceiveNothing`, `RetryTimeout`, `ReceiveFailure`, `DeleteSearch`, `Exit`. `Die` is an
  exception that `run()` does not catch, of the constructor of the connection or of a
  key that an answer lacks: the process ends without a packet about it.
  Refines `PacketSource`.
- **`ShifterPipeline`**: pool, transmitters (as `PacketSource` lets them behave),
  translators and the reader. A multiprocessing queue is modelled by what it is:
  a bounded pipe shared by all writers and, in each writer, an unbounded buffer
  flushed by a feeder thread; `put()` never blocks, but a process only exits
  when its buffer is flushed. `join(2)` and `join(1)` may time out whenever the
  process joined is alive. Refines `ResultStream`.
- **`ResultStream`**: the abstract specification of what `query_datasource()`
  gets: pages produced and delivered, success only with every page.
- **`ShifterQuery`**: the loop over the profiles with the arithmetic of the
  limit; transmitters deliver what `WithinLimit` of `Transmitter` allows.
- **`MCShifterPipeline`**: instances for TLC.
- **`TransmitterProofs`**, **`ShifterPipelineProofs`**, **`ShifterQueryProofs`**: see
  section 4.

| Code | Model |
|---|---|
| `result_retrieval_offset`, `batch_size`, `is_retry_cycle` | `offset`, `batch`, `retried` |
| `raw_records_queue`, `translated_data_queue` | `rawBuf` and `rawPipe`, `outBuf` and `outPipe` |
| the generator `read_translated_results()` | `Read` (with `stopsRead`) |
| `finally` clauses of `transmit()` and `translate()` | `JoinPool`, `JoinTranslator` |
| an exception the worker does not catch | `Die` of `Transmitter` and `PacketSource`; `TxDies`, `TranslatorDies` |
| `profile_limit`, `num_records` | `profileLimit`, `numRecords` |

### Kestrel 1

- **`HuntVariables`**: the variables of a session. A variable is a `VarStruct` in the
  symbol table, and that names a view of the store; GET and FIND make up to three
  more views under names derived from the variable, rename one of them and remove the
  others, with calls of a data source in between that may fail. One action is one
  statement, semantics checks and update of the symbol table included: `Load` (NEW,
  LOAD), `Transform` (an expression, SORT, GROUP), `GetFrom`, `Merge`, `Join`, `Get`,
  `Find`, `Apply`; `GetRaises` and `FindRaises` are what a statement leaves that fails
  half-way. Statements run one after another in one thread, and nothing reads between
  the steps of one, so that a statement is one step. The store (firepit) is external:
  `Stored`, `Renamed` and `Removed` are what the commands use of it. The entities of a
  view are abstracted to the statement and the stage that computed them, which tells
  old contents from new, and a prefetch from a local result.
- **`EcgPattern`**: the patterns of WHERE (`core/syntax/ecgpattern.py`): trees of
  comparisons with literals and references, and what `deref`, `prune`, `extend`,
  `to_stix` and `to_firepit` make of them. References become values and a time range
  (`core/syntax/reference.py`, `core/semantics/reference.py`). Attribute values are
  numbers, and a record is a TLA+ record; texts do not occur. `Trees[d]` are the trees of
  depth `d` with names and attributes out of `Names`, and every operation on trees is a
  recursive function on `Graphs`, those of depth `PatternDepth` and one more, which is what
  a prefetch adds.
- **`Prefetch`**: what a retrieval puts into its variable. A statement goes through
  `Start` (the checks and completions of `semantics_processing()`), `LocalGet` or
  `LocalFind` (its own query, or the relations known to the store), `DoPrefetch` and
  `Filter` (the query for all records of the same entities, and the telling apart of
  processes whose ids are reused), or `KeepLocal` when no prefetch happens;
  `GetFromVariable` and `Assign` are the statements without a data source, and a
  statement on a variable without rows is skipped (`EmptyInput`). The data
  source is a set of observations (external): `Answers` is what it may return to a
  pattern, all that match or, with a LIMIT, as many of them, whichever they are; the LIMIT of
  a statement goes with both of its queries. `proc`, a field that no code reads, says
  which process a record really is about.
- **`BundleSource`**: the operators of the STIX bundle data source. `Query` gives the
  set of outcomes of `StixBundleInterface.query()`, built of one operator for each of
  its steps: whether a download is `Outdated`, what `Downloads` may leave, what the raw
  file can be `ReadAs`, `Cleaned`, the failure that removes the ingest directory.
  `Retrieved` adds the loading into the store.
- **`Analytics`**: the operators of APPLY. `PythonOutcomes` has every place where
  `__enter__` may stop (`HalfEntered`), the run and `__exit__` (`Exited`); `Stored` and
  `DockerStored` tell which variables are replaced when some of the outputs are not
  valid.
- **`HuntHost`**: the sessions of a user on one host, each a process with a runtime
  directory, over the two modules above. `Create`, `Unlink`, `Link` and `Start` are
  `Session.__init__()`, taken apart where another process can come between; `Close`,
  `Sweep` and `Swept` are `close()` with the removal of obsolete debug folders, one
  folder at a time; `Crash` is a process that is killed. `Get` and `Apply` are one
  statement with all the outcomes of its source or analytics; `BundleChanges` and
  `FiveMinutesPass` are what the source sees meanwhile.
- **`MCHuntVariables`**, **`MCPrefetch`**, **`MCHuntHost`**: instances for TLC.
- **`HuntVariablesProofs`**, **`PrefetchProofs`**, **`HuntHostProofs`**: see section 4.

`HuntVariables` says which view a name stands for, `Prefetch` what the rows in it
are; `HuntHost` leaves out variables and has what lies outside of the store.

| Code | Model |
|---|---|
| `Session.symtable`, `VarStruct.entity_table`, `.data_source` | `symtable`, fields `table`, `source` |
| `length + records_count = 0` | field `empty`; counted once, by `NewVar` |
| views of the store; `<out>_local`, `_prefetch`, `_prefetch_filtered` | `views`; `Local`, `Prefetch`, `PrefetchFiltered` |
| tables of the store, one for each type | `entities` |
| `queried_data_sources[-1]` | `queried` |
| *(nothing)* | `value`, `last`: history of what each variable was last given |
| `stmt["where"]`, `stmt["stixpattern"]` | `where`, `ToStix(where, ...)` in `Prefetch` |
| views `<out>_local` and `<out>_prefetch` | `local`, `raw` |
| `process_identification` of the configuration | `NameChanged`, `PidAndName`, `PidAndPpid`, `PidNameAndPpid` |
| `runtime_directory`, `runtime_directory_is_owned_by_upper_layer` | fields `folder`, `owned` of `sessions` |
| directories and exit markers in the temporary directory | `folders`, `exited` (the oldest first) |
| the master link | `link` |
| `downloads/`, `<query_id>/`, the store under `query_id` | fields `raw`, `asked`, `store` of a folder |
| `os.getcwd()`, `sys.path`, `os.environ`, `sys.modules` | fields `cwd`, `path`, `environ` (and `inherited`), `helper` of `around` |
| *(nothing)* | fields `due`, `spoiled` of a folder, `halfEntered` of a session, `lent`, `made`: history |

### Kestrel 2

- **`HuntFlow`**: how statements become one graph. `Compose` is one statement of
  the block under compilation (`_KestrelT.start()`), `Execute` the merge of the
  block into the session's graph with the evaluation order of its returns. The
  graph keeps the variables, references, sources and returns; the instructions
  in between neither share nor resolve names. `Merged`, `Placed`, `Singleton`,
  `ShiftedVersions` and `ShiftedSequences` are `IRGraph.update()`, `_add_node()`,
  `_add_singleton_instruction()` and the two renumbering loops.
- **`HuntSession`**: how a return is evaluated on the graph that results.
  `Segment` is `find_dependent_subgraphs_of_node()`, with one operator for each
  of its steps; `Evaluate` and `Raise` are one call of an interface and the
  storing of what it returns; `Begin` and `LoopAgain` are the loop of
  `evaluate_instruction()`. `Put` is `__setitem__()` of the cache: the entry of the
  catalog, then the table, so that `Raise`, which may come anywhere in an evaluation,
  can leave the last entry without its table. `Stuck` are the instructions whose
  evaluation raises: an input is missing, or the references of a filter were already
  replaced by an earlier visit. The initial state enumerates every program of a few
  statements and every list of a few displays. The cache is `SqliteCache`, the one that
  a session makes (`next/session.py:29`): of the things it evaluates it keeps only the
  data of NEW.
- **`HuntQuery`**: how an interface turns the instructions below a display into one
  query. A translator goes along the instructions from the source, and each action
  is one clause with the `add_...()` it comes to; `Assign` is a `Variable`, where
  `SqliteTranslator` starts a new query around the one so far and
  `OpenSearchTranslator` goes on with its one set of clauses. `Rendered` is what its
  text without parentheses means. The references of a filter are resolved by queries
  of their own (`Branch`). Beside the query the model keeps the table that
  evaluating the same instructions one after the other on data frames gives.
- **`Tables`**: tables, filter expressions with their references, evaluation on data
  frames, and SELECT as a database evaluates it (external). Filter expressions are
  trees, and the operators on them are recursive.
- **`MCHuntFlow`**, **`MCHuntSession`**, **`MCHuntQuery`**: instances for TLC.
- **`HuntFlowProofs`**, **`HuntSessionProofs`**: see section 4.

`HuntFlow` says which graph a program becomes, `HuntSession` takes the graph of a
whole program and says which parts of it are evaluated where, and `HuntQuery` says
what the evaluation of one part means.

| Code | Model |
|---|---|
| `Session.irgraph` | `session` in `HuntFlow`, `irgraph` in `HuntSession` |
| `Variable.version`, `Return.sequence` | `version`, `sequence`, by statement |
| `cache.cache_catalog` | `cached`; `virtual` for the copy EXPLAIN works on |
| the cache's tables | `stored` |
| `dep_subgraphs` of a pass | `pending` |
| `SqlTranslator.query`; `filt`, `project`, `limit` ... of `OpenSearchTranslator` | `built.query` in `HuntQuery` |
| Filters of the evaluated graph whose references are resolved | `built.resolved` |
| the data frame `InMemoryCache` would have | `built.table` |

## 3. Runs

| Run | Properties | Bounds, and why they are enough |
|---|---|---|
| `transmitter` | `TypeOK`, `EachRecordOnce`, `WithinLimit`, `SilentMeansComplete`, `OnlyFailedStatusAbandonsSearch`, `ImplementsSource`, `Terminates` | Up to 4 records, pages of 2, limits none, 1 and 3: less than a page, a page and a half, and no limit; a short page, an even and an odd end all occur. The safety properties are proved without bounds. |
| `pipeline_safety` | `StopsAfterData`, `AtMostOnce`, `OkMeansComplete`, `NothingLeftToJoin` | 2 transmitters, 2 translators, 2 pages each, pipes of 2 messages and one notice or error; no worker dies (a transmitter that dies loses its pages without a word: see hazards). Two of each process give every order of STOP signs, pages and errors that more could; the pipes are smaller than what flows through them. Transmitters are symmetric. |
| `pipeline_ends` | `ImplementsStream`, `Returns`, `WorkersEnd` | 1 transmitter, 2 translators, pipes of one message, two faults of any kind, deaths of one transmitter and one translator included. A pipe of one message makes every wait for room happen. |
| `shifter_query` | `LimitNeverVanishes`, `EnoughReturned`, `WithinFanOut` | 3 profiles, so that a limit is handed on twice; 2 native queries each; limits none to 3. |
| `hunt_flow` | `ReadsLikeSequential`, `NewestIsLastDefined`, `OneCopyOfEachSource`, `ShownInOrder` | Every program of four statements over two names and a data source, in every split into blocks: a name can be defined, used before and after, redefined in the same and in a later block, and used by two statements undefined. Names are symmetric. |
| `hunt_variables` | `VariablesKeepTheirValues`, `StructsMatchViews`, `FindReadsItsVariable` | Four statements on two variables and the default one, two types (of which process is filtered after a prefetch), one data source: a variable can be made, read, overwritten and read again, with a failure in between. Names are symmetric. Proved without bounds. |
| `prefetch` | `GetKeepsItsMatches`, `BothNamesKept`, `NoStrangers`, `ReferencesCovered`, `FindHonorsWhere` | Every subset of seven observations: a process that forks and executes, seen under both names; a child of it; another process that gets its id later; a process with id 0 and a record with a unique id; connections. Any two of 82 statements, four of them with a LIMIT of one or two, so that the second one refers to, filters or is related to what the first one has found; their patterns are leaves and junctions of two (`PatternDepth` is 1). Windows of time of 2 to 5 units: the observations fall into the narrow one, between it and the wide one, and outside; the id is reused just outside of the widest, or (with the unique id) inside. |
| `hunt_host` | `PrivateFolderStays`, `LentFolderStays`, `NothingElseIsLeft`, `SomeRacerWins`, `AnswersAreDue`, `SurroundingsRestored` | Three sessions, with and without debug mode, two ids, a directory of a caller, one debug folder left from before and one that may be kept: a session can close, another one clean up and a third one start in every order. Two statements, by one session or by two after each other in the same folder, with a local bundle and a remote one of two files, of which one changes and can be read without its end; limits none and one record; two analytics with helper modules and one parameter. The second statement meets everything the first one can leave. Statements are only followed where sessions are few and plain and there is no master link (`Working`), because nothing they leave is looked at when sessions start or end, and plain sessions do not look at the link. Sessions are symmetric. |
| `hunt_session` | `FirstSubgraphsEvaluable`, `OneLossPerFailure`, `DisplaysOfGetsEnd` | 3 variables over two interfaces, any two of DISP and EXPLAIN: the second meets what the first has cached or left after a failure; a variable is read by two others, a filter refers to a variable of the other interface. |
| `hunt_session_loops` | `EveryDisplayEnds`, violated | section 5; two statements and one DISP suffice. |
| `query_sqlite` | `QueryMeansProgram` | A table of three rows, two of one name, in no order; two variables, two clauses in each expression; a filter of up to two comparisons or references with AND or OR; limits of one and two rows behind no offset or one. A clause meets each other clause in the same expression and in the one before it, and a reference each of them. |
| `query_opensearch` | `QueryMeansProgram`, violated | One index of four events, a GET with a time range, one variable: section 5. |

What the properties say in plain words stands above each of them in its module.
`FirstSubgraphsEvaluable` is what is left of `SubgraphsEvaluable`, which fails in the ways
of section 5: in the first display nothing is evaluated before its inputs are in the same
subgraph or in the cache, and an interface other than the cache is given all of them.
That the cache's own subgraphs have their cached inputs with them is what does not hold.
The property and its theorem say nothing of a later display, whose cuts also depend on what
earlier ones have cached; on the instances of the run the second display shows no
counterexample, which is no claim about longer programs.
`OneLossPerFailure` is what is left of `CatalogHasData` (section 5): the entries without
data are no more than the DISPs that have raised. `DisplaysOfGetsEnd` is `EveryDisplayEnds`
of the programs in which a GET refers only to variables of other GETs, where each pass
leaves something new in the catalog. `SubgraphsEvaluable`, `CatalogHasData` and
`EveryDisplayEnds` themselves do not hold. `SilentMeansComplete` is about transmitters that
end of themselves: one that dies is silent, too.
`TypeOK` is checked and proved for
`Transmitter` and proved for `ShifterPipeline`, `ShifterQuery`, `HuntVariables` and
`Prefetch`; in the other modules it says what the
variables are, holds on the instances of the same run, and is not listed with them.
`GetKeepsItsMatches` excludes records without the identifier that other rows have (a
process id of 0 counts as missing), which the prefetch does not ask for, and patterns
that offer a part about the entity itself as an alternative to one about linked ones
(`core/codegen/prefetch.py:84` has a TODO on pruning), and a GET with a LIMIT, whose
prefetch may leave out what the first query has found (section 5). `ReferencesCovered`,
too, is about a GET without a LIMIT. `FindHonorsWhere` is about the part of the WHERE on linked
entities: the documentation has the part about the returned entity itself abandoned, the code
keeps it (section 5), and the property takes neither side. `NoStrangers` supposes that ids are reused
late, and that the filter of processes has left something: when it has not, the
code returns the raw answer. `AnswersAreDue` excludes answers that the
failures of section 5 have spoiled, and takes the limit of the first asking.
`QueryMeansProgram` says
nothing of an expression whose evaluation raises (`Raises` says which do). Clauses
only name attributes that the expression has, and SORT BY one whose values are
all different, because SQL leaves the order of the others open.

Deadlock is not checked: queries, displays and programs come to an end, and so
do the models.

**Fairness.** Weak fairness only. `Transmitter`: the process keeps running, and
the data source ends every search it has accepted; without that the wait loop
has no end, which is listed as a hazard. Nothing is assumed of failures.
`ShifterPipeline`: the scheduler runs every process and every feeder thread; a
transmitter goes on to its next page or its end (`Terminates` of `Transmitter`);
errors, notices and deaths are never forced. `HuntSession`: the session's only
thread keeps running; interfaces may fail but need not.

**Mutants.** For each property of a passing run a module holds a mutated form of
an operation, such as a plausible mistake would have made it (a retry that
rewinds, STOP signs before the transmitters are joined, references resolved
after the variables of the block were added, folders swept without a look at
their exit marker). `PROJECT.json` pairs them; the
property fails when the mutated form takes the place of the operation.

## 4. Proofs

Every theorem below holds for all values of the constants that the named assumption
of the module allows, and TLAPS checks it to the last leaf. Each one of a listed run's
property says of every instance what the run shows on a small one.

| Module | Theorem | Property |
|---|---|---|
| `TransmitterProofs` | `TypeCorrect` | `TypeOK` |
| | `RecordsRetrievedOnce` | `EachRecordOnce`: the pages cover every record below `offset` once and in order |
| | `LimitRespected` | `WithinLimit` |
| | `NoSilentStop` | `SilentMeansComplete`, of a transmitter that does not die |
| | `SearchesDeleted` | `OnlyFailedStatusAbandonsSearch` |
| | `TransmitterImplementsSource` | `ImplementsSource`: refines `PacketSource` |
| | `RequestsNonEmpty` | `NeverAsksForNothing` (proved only) |
| `ShifterPipelineProofs` | `InductiveInvariant`, `TypeCorrect` | `IInv`, `TypeOK` (proved only) |
| | `StopsComeLast` | `StopsAfterData` |
| | `PagesMoveOnce` | `AtMostOnce` |
| | `JoinsAreFree` | `NothingLeftToJoin` |
| | `OkIsComplete` | `OkMeansComplete`, if no transmitter may die |
| | `PipelineImplementsStream` | `ImplementsStream`: refines `ResultStream` |
| `ShifterQueryProofs` | `InductiveInvariant` | `IInv` (proved only) |
| | `LimitsStayLimits` | `LimitNeverVanishes` |
| | `FanOutBoundsLimit` | `WithinFanOut` |
| | `NoRecordLost` | `EnoughReturned` |
| `HuntVariablesProofs` | `TypeCorrect` | `TypeOK` (proved only) |
| | `ValuesKept` | `VariablesKeepTheirValues` |
| | `StructsMatch` | `StructsMatchViews` |
| | `FindReads` | `FindReadsItsVariable` |
| `PrefetchProofs` | `Invariant` | `IInv` (proved only) |
| | `TypesAreRight` | `TypeOK` (proved only) |
| | `BothNames` | `BothNamesKept` |
| | `OnlyTheSameProcess` | `NoStrangers` |
| | `FindAsItsWhere` | `FindHonorsWhere` |
| | `ReferencesFound` | `ReferencesCovered` |
| | `GetsKeepTheirMatches` | `GetKeepsItsMatches` |
| `HuntHostProofs` | `HostInvariant` | what the others rest on |
| | `LentStays` | `LentFolderStays` |
| | `RacersWin` | `SomeRacerWins` |
| | `PrivateStays` | `PrivateFolderStays` |
| | `NothingElseLeft` | `NothingElseIsLeft`, if no more folders are marked at first than are kept |
| | `SurroundingsAreRestored` | `SurroundingsRestored` |
| | `AnswersDue` | `AnswersAreDue` |
| `HuntFlowProofs` | `InductiveInvariant` | `IInv` (proved only) |
| | `ReadsLastValue` | `ReadsLikeSequential` |
| | `LastDefinitionFound` | `NewestIsLastDefined` |
| | `NoCopies` | `OneCopyOfEachSource` |
| | `ResultsInOrder` | `ShownInOrder` |
| `HuntSessionProofs` | `LossesCounted` | `OneLossPerFailure` |
| | `FirstDisplay` | `FirstSubgraphsEvaluable`, if every name a program uses is defined |

### `TransmitterProofs`

For every page size, every limit and every number of records, from
`TransmitterAssumption` (page size positive, the rest natural numbers).

None of the properties but the type invariant is inductive. That no page passes the limit
depends on the batch size shrinking in time, so `Inv` adds that in the retrieval
loop `offset < limit` and `batch <= limit - offset`; that pages do not overlap
depends on no page ending beyond `offset`; that a silent end is a complete one
depends on each way out of the loop having left an ERROR packet, reached the
limit or met an empty answer, and `Die` being the only step to the state "died", of which
nothing is said. For the last one `batch > 0` is needed: an empty
answer to a request for nothing would look like the end of the data. `NextInv`
goes through the actions; the two ways to extend `sent` (a page, or a packet
that is no page) are lemmas (`PagePut`, `NonPagePut`).

The refinement needs more of the packets than of the records (`PacketInv`): an ERROR is
the last one, an INFO packet at the end means that the retry is under way, and the last
page ends at `offset`, which is what the abstract source has counted
(`RetrievedIsOffset`). `StepsOfSource` then maps each action to a step of the source or
to none: `Exit` is its `Close`.

### `ShifterPipelineProofs`

For any finite set of native queries, any number of translators and pages and any
capacity of the pipes, from `PipelineAssumption`; `SafetySpec` is the specification
without fairness. `IInv` has one part for each place where the pieces of a query can be:

- `RawInv`: the raw queue. In the pipe STOP signs are behind all packets, and signs in
  the pipe, in the pool's buffer and taken by translators are as many as there are
  translators. No sign is put before every transmitter is gone, which is why none
  overtakes a page.
- `OutInv`: the queue of translated data. The STOP sign of a translator is behind all its
  results, and `stopsRead` is the number of translators whose sign has been read.
- `MainInv`: the reader. It ends "ok" only when it has counted every sign.
- `FaultInv`: an error that was put is on its way until the reader ends on it, and a
  transmitter leaves pages behind only because of one, or because it died.
- `PageInv`, `OnceInv`: each page that was put is on its way or ingested, in one place
  at most, unless something failed.

`StopsAfterData` is `RawInv`; `AtMostOnce` is `OnceInv` with a lemma that counts places.
`NothingLeftToJoin` and `OkMeansComplete` need all parts: when the reader has counted as
many signs as there are translators, `OutInv` leaves no translated message under way,
every translator has taken a sign, and by `RawInv` nothing is left in front of the signs.
`OkIsComplete` supposes that no transmitter may die (`MayDie`), as its run does: one
that dies loses its pages without a word. The refinement has no such hypothesis.
Each action has a lemma for each part of `IInv` that it can disturb; what they share, the
facts about sequences among it, comes first.

### `ShifterQueryProofs`

For any number of profiles, native queries and records, from `QueryAssumption`. The
invariant counts the records still under way (`Outstanding`) like those ingested:
together they stay within the fan-out times the limit (`FanOutInv`), and they are
enough for the profiles queried so far (`EnoughInv`): they fill the limit or are all that
match. Starting a profile adds what its queries will deliver, which is the smaller one of
what matches and what is left of the limit; ingesting only moves records from one side
to the other. `LimitInv` adds that a limit left untouched is the whole limit.

### `HuntVariablesProofs`

For any names, types and data sources, any number of
statements, with and without debug mode, from `HuntAssumption` (which says that no
variable has the name of an intermediate view, and what the other constants are).

`VariablesKeepTheirValues` is not inductive: in a state where two variables share a
view, the next statement would change both. `Own` adds what prevents it: a variable is in the
view of its own name or in none, and the default variable is what the last one is.
`IInv` is `TypeOK`, the two properties and `Own`; `FindReadsItsVariable` follows.
Every statement comes down to one of three lemmas: `AssignKeepsIInv` (the store it
leaves agrees with the old one on the other variables, and has the new content
under the variable's name), `LeftOverKeepsIInv` (a failed statement leaves only views
that no variable is in) and `ApplyKeepsIInv` (the rows an analytics replaces are those
of its variables and of `_` if it stands for one of them). The lemmas about the three
operations on the store tell which views they leave alone.

### `PrefetchProofs`

For any finite set of observations, any variables and statements, patterns of any depth
and any offsets of time, with and without limits: from `NamesAssumption` and `DepthAssumption` of `EcgPattern`,
and from `OffsetsAssumption` (the windows that tell processes apart widen in the order
the code tries them), `ObservationsAssumption` (the fields every record has),
`StatementsAssumption` (what the grammar lets a statement be, and that it refers to
attributes with plain values) and `BoundAssumption` of `Prefetch`.

The properties are about what the operations on patterns mean, so that the first half of
the module is about trees. The provers cannot take the library's induction, whose
hypothesis is an operator; `UpTo` and `TreeInduction` say the same of a set: a set that
has the leaves, and with two trees the junctions of them, has all trees. With it each
recursive function is shown to satisfy its equation (`PruneLaw`, `NodesLaw`,
`DerefGraphLaw`, `CenteredLaw`, `MatchesLaw`), and then no operation to make a tree deeper,
a centered tree to stay as it is, and what matches a pattern without mixed alternatives to
match its part about linked entities (`ExtendedPartMatches`).

Of an answer of the data source the proofs use no more than `AnswerFacts` and `RowsOf`: its
observations match, and without a limit it has all that do. The properties that need the
second half suppose `stmt.limit = 0`.

`IInv` follows one retrieval from stage to stage: `DataInv` (what is known comes from the
data source), `StatementInv` and `DerefInv` (the pattern is the statement's,
dereferenced with the variables as they still are), `LocalInv` and `RawInv` (what the two
queries have found), `DoneInv` (the variable is bound to what the code makes of the
two). The properties follow from `DoneInv` and from one lemma each about a stage: the
pattern of the identifiers is matched by every local row (`IdentityFinds`) and its time
range covers them (`JoinedSpans`), hence `PrefetchFindsAgain` and `GetKeepsItsMatches`;
two records that the filter of processes takes for one are of one process when ids are
reused late (`IdenticalIsSame`), hence `NoStrangers`; it always takes its own anchors
(`AnchorsTaken`), hence `BothNamesKept`; what the prefetch takes over of the WHERE is a
conjunct of its pattern (`TakenMatches`), of which what matches also matches the part about
linked entities (`ExtendedPartMatches`, and `PartsAreCentered`: to centre a part of a centered
pattern changes nothing), hence `FindHonorsWhere`; and a reference becomes
a list of the values its variable has, within the time it spans
(`ComparisonDereferenced`, `VarTimerangeSpans`), hence `ReferencesCovered`.

### `HuntHostProofs`

For any number of sessions, any folders and limits, any bundles and failures of the
network, with and without debug mode, from `HostAssumption` (a caller's directories are
not in the temporary directory; some exited sessions are kept; the markers there at first
are of different folders; limits are natural numbers, and a bundle has a first version and
those that it changes to) and `BundleAssumption` (the data paths of a source are in order,
and so are the objects of a bundle).

For `LentStays` `LentInv` adds that whoever has been given a folder that was there
knows that it is owned by the caller, and the type of the clean-up lists says that they
name folders of the temporary directory. For `RacersWin` `RaceInv` adds why the link can be there
against a session that has just removed it: another debug session has made it
since, and that one is started, or has been killed on the way. Every
action but `Create` changes one session and neither its folder nor its mode
(`Continues`), which is what the lemmas about `RaceInv` and `LentInv` need.

For `PrivateStays` `OwnInv` says where the folders come from that a clean-up may remove
(`MarkInv`): each was marked before the first session, or is that of a session that has
ended; and that a session that has not, and shares its folder with no other one that
has begun, finds it there (`HereInv`). The first part is why no clean-up takes such a
folder, even one whose list was made before the session began; it rests on lemmas about
the elements of a sequence of markers when one is taken out, put in, or the newest are
left off. `OwnKept` then does for the second part what `Advances` does for the others.

For `NothingElseLeft` `LeftInv` says that a folder in the temporary directory is marked
or in the hands of a session that has not dealt with it yet (`UsedBy`), that no folder
has two markers, and that the list of a clean-up is worked off before its session is
closed. `KeptInv` counts the markers on nobody's list: they are no more than the
configuration keeps, however the clean-ups of several sessions overlap, because each of
them lists all that were there but the newest. The hypothesis about the folders marked
at first is needed: the markers left by sessions of an earlier configuration are only
reduced when a debug session closes.

For `SurroundingsAreRestored` `AroundInv` adds that a session that has not begun has no
half-finished entry behind it; every outcome of an analytics is then either left by
`__exit__`, which puts back what `__enter__` has found, or recorded as half entered.

For `AnswersDue` the invariant is about each folder (`FolderOK`): a download is old or of a version
of the last five minutes (`Fresh`), the store has nothing under the id of a query without
an ingest directory, and what it has under that of a query with one, if nothing has
spoiled it, was due when the query was first asked. The first part is what makes the
code's comparison of dates enough, the second is what the clean-up after a failure is
for: a query that fails, leaves its directory and is asked again would break it. Both are
known of one folder, whichever session used it before, and hold on when bundles change or time passes
(`ChangesAnswers`, `TimeAnswers`). A query is followed turn by turn (`Reading`,
`Got`): after each one a path that has been read need not be fetched again, so that its file is
the one that was read, even if the path comes twice; and if all of them were whole, what
has been found is as much as the limit allows of what has been gathered from all of
them, since to limit at every turn is to limit in the end (`LimitedTwice`).

### `HuntFlowProofs`

For any finite sets of names and data sources, any number of statements and any split
into blocks, from `HuntAssumption`. The proof rests on one observation: composing a
statement into the block and merging the block into the session are the same step, the
graph of statements `mid+1..to` merged into the graph of `from..mid`
(`MergedGraph`). `GraphInv` says what the graph of `from..to` is, and merging keeps it:

- `NodesOf`: it has the node of each of those statements, every edge leads to one of
  them, and what else it has are references and sources, one of each content;
- `VersionOf`: the version of a definition is the number of definitions of the same name
  before it in the graph. Hence merging must add the *number* of the old ones, which
  is the newest old version plus one;
- `ReadOf`: a statement reads, for each name it uses, the last definition in the graph
  before it, or a reference if there is none, its source, and nothing else. A merge
  replaces exactly the references that the older graph can resolve, by the variable of
  the newest version, which by `VersionOf` is the last definition.

`ReadsLikeSequential`, `NewestIsLastDefined` and `OneCopyOfEachSource` follow from `IInv`
at `session`. `ShownInv`, for `ShownInOrder`, is an invariant of its own: the sequences
of the Returns increase with the statements in both graphs, and what was shown is
sorted and complete. `get_returns()` is `ReturnsInOrder`, the enumeration of the Returns by
sequence: one exists for any number of Returns, and with distinct sequences it is the
enumeration in the order of statements.

### `HuntSessionProofs`

For any number of statements and displays and any data sources, from `SessionAssumption`.

`OneLossPerFailure` compares two numbers that change in different steps. `LossInv` adds that
a display has no outcome before its turn, so that a failure always adds one to the failed
ones (`EndCounts`), and that what is evaluated belongs to a display that is still under way.
An evaluation that ends well loses nothing, and one that raises the last entry at most
(`PutLoses`). The shape of the graph and the cut play no part in it.

`FirstSubgraphsEvaluable` depends on both. The proof goes up in five stages.

- *Searches*. `Closure` has its start, all that its steps lead to, and nothing else
  (`ClosureFacts`, `ClosureLeast`), provided that it was given steps enough: each step goes
  to a node of a higher number, and there are `Longest` of those.
- *Graphs*. `Shaped` is what the graph of a program in which every name is defined is
  like (`GraphIsShaped`): `Rank` grows along every edge; only variables and sources are
  read by several nodes; only a filter has several inputs, a trunk and projections.
  Everything after that knows a graph by `Shaped` alone, and argues with the node of the
  lowest or the highest rank that would be an exception (`LowestNode`).
- *The cut*. `Own(i, c)` is what interface `i` alone has to do with when the nodes of `c`
  are cached, `Part(i, c)` the subgraph it is given.
- *One pass*. Whatever else was cached meanwhile, an evaluation of `Part(i, c)` only gets
  to nodes of `Own(i, c)` (`VisitedIsOwn`) and finds the inputs of each (`OwnInputs`,
  `PartEvaluable`). This supposes of `c` that every node which is needed and not
  cached is below a source or a start of the cache (`AllImpacted`), which in turn
  needs `OneInput`: if the only input of a node was cached, the node is cached or not
  needed any more. A catalog without that would leave nodes to nobody.
- *From pass to pass*. `OneInput` is not inductive: it must be known that an interface
  has left nothing behind that it has evaluated. `Settled` adds `Evaluated` and `Explained`, about nodes that an interface
  evaluated in an earlier pass and that are not in the catalog: they are still below its
  sources and below no other's, and they are the only reason why a cached node
  may have a variable for an input that is not cached. `EvaluateOneInput`,
  `EvaluateEvaluated` and `EvaluateExplained` show that an evaluation keeps them.

`FirstInv` is the invariant: `Settled` for the catalog of the moment and for that of the
last cut (`Cutting`), since the subgraphs of one cut are evaluated one after another while
the catalog grows. The hypothesis about names is needed: below an undefined one no
node is anybody's.

### Only model-checked

- Liveness: `Terminates`, `Returns`, `WorkersEnd`, `DisplaysOfGetsEnd`.
- `QueryMeansProgram` of `HuntQuery`, which rests on the recursive operators of `Tables`.

## 5. Disagreements found

1. **A filter takes the place of another** (`query_opensearch`).
   `OpenSearchTranslator.add_Filter()` (`packages-nextgen/kestrel_interface_opensearch/`
   `src/kestrel_interface_opensearch/ossql.py:171-174`) saves its filter and forgets the
   one before. After `x = GET ... WHERE name = 'a'`, `x WHERE time >= 3` shows
   events of any name; `docs/language/commands.rst:905` says that the old
   variable is filtered and the result assigned to the new one.
2. **A display may never end** (`hunt_session_loops`). What `SqliteCache` evaluates for
   another interface is not kept (`next/cache/sqlite.py:98-104`; `next/session.py:102-103`
   only stores what other interfaces return). After `x = NEW ...`,
   `y = GET ... WHERE pid = x.pid` the projection of `x` is evaluated in every pass and is
   in the catalog in none, so that the GET never gets its input and `while True`
   (`next/session.py:90-105`) goes round for ever. `next/ir/graph.py:508-511` promises that
   after iterations the node can finally be evaluated.

Other things the same models show, with no run of their own. In Kestrel 2:

- *A filtered variable is used twice*. `resolve_references()` (`next/ir/filter.py:189-190`)
  leaves the values in the filter itself, and `SqliteCache` evaluates a variable again for
  every use of it (`next/cache/sqlite.py:158-168`, where a comment says that this "allows
  using the variable as a dependent node"). With `x = NEW`, `y = x WHERE pid = x.pid`,
  `z = y WHERE pid = y.pid` the filter of `y` is met a second time without the reference
  that tells its branches apart, and the evaluation raises: `SubgraphsEvaluable` of
  `HuntSession` fails without any data source.
- *A subgraph without its input* (`next/ir/graph.py:541,556`). When the cache is the
  interface, a cached node is only brought along if no other node of the
  subgraph makes it a start. `x = NEW`, `y = GET` from an interface,
  `z = y WHERE pid = x.pid`: the second pass asks the cache for the filter of `z`
  without `y`, and the interface raises. It is `SubgraphsEvaluable` of `HuntSession` with
  data sources and without `ResolvedOnce`.
- *An entry without its data*. `SqliteCache.__setitem__()` makes the entry of the catalog
  before the table (`next/cache/sqlite.py:81-82`), and `to_sql()` raises for a cell that is a
  list or a dictionary, or when the database is locked. The entry stays: later displays
  take the instruction for cached and cannot read its table, although the catalog is what
  `next/cache/base.py:90-96` returns as the instructions cached. `CatalogHasData` fails.
- *The time range of a GET behind an OR* (`ossql.py:129-162`): texts are joined
  without parentheses, so that `a OR b` with a time range limits `b` only.
  `QueryMeansProgram` with `ExpOps = {"OR"}` fails at the GET.
- *The fixed order of OpenSearch's clauses* (`ossql.py:170-242`): a filter or a SORT
  behind a LIMIT is evaluated before it, and an OFFSET without a LIMIT is not written
  at all.
- *An undefined name* stays a `Reference`; nothing raises, no subgraph is found,
  and `while True` (`next/session.py:90`) goes round for ever. `EveryDisplayEnds` fails
  with `UndefinedNames = TRUE`, too.

In the shifter:

- *A limit is per native query* (`shifter/query.py:126`): every transmitter of a profile
  is given the whole limit, and a pattern that translates to two native queries
  returns twice as many records as `docs/language/commands.rst:129-132` says.
  `WithinLimit` of `ShifterQuery` fails; `WithinFanOut` is the bound that holds.
- *A transmitter that dies is silent*. Only the calls of a connection are looked at for
  failures; when its constructor raises (`shifter/worker/transmitter.py:85-89`), or an answer
  lacks a key, the process ends without an ERROR packet, the pool goes on as if it were
  done, and the query returns what the others have found.

In Kestrel 1:

- *GET from a variable reads every entity of its type*. `core/codegen/commands.py:309-314`
  gives the store the type of the variable and not its view. After `x = NEW ...` and
  `y = NEW ...` of one type `GET ... FROM x` finds entities of `y`;
  `docs/language/commands.rst:97-98` says "all entities of the same type in that variable".
  `GetReadsItsVariable` of `HuntVariables` fails.
- *A LIMIT costs what was found*. The prefetch of a GET with a LIMIT has the same LIMIT
  (`core/codegen/prefetch.py:95-101`), and its answer replaces the rows of the first query:
  earlier or later records of the same entities may fill it, and those that the hunter's
  pattern has found are not in the variable. `GetKeepsItsMatches` fails without
  `stmt.limit = 0`.
- *FIND keeps the centered part of its WHERE*. `docs/language/commands.rst:236-239`,
  `:249-251` and `:278-282` say that the part about the returned entity itself is abandoned; the prefetch
  only prunes it for GET (`core/codegen/prefetch.py:85`), so that it narrows what FIND
  returns. Without a prefetch FIND ignores its WHERE altogether: the relation query
  (`core/codegen/commands.py:389-414`) has no place for it.
- *A list of one* cannot be written: `name IN ('a')` is parsed to a literal
  (`core/syntax/parser.py:271-275`), which `ECGPComparison` refuses with IN.
- *Strangers through the fallback*: when the filter of processes returns nothing, all of
  the raw answer is used (`core/codegen/prefetch.py:171-176`), other processes with the same id
  included.
- *Records lost to a better identifier*: once one row has a unique id, rows without it
  are not asked for by the prefetch (`core/codegen/relations.py:109-131`) and its answer
  replaces them.
- *An id used again*: a session with the id of an earlier debug session reuses the
  folder with its exit marker, and the next clean-up removes it under the session
  (`core/session.py:209-213, 472-485`); two plain sessions with one id share a folder, and the
  first one to close removes it. Therefore `PrivateFolderStays` is about ids of one's own.
- *close() at exit*: the second call looks at the name again (`core/session.py:393`), and
  removes a folder that another process has made there since.
- *The loser of the race for the master link* raises `FileExistsError` out of the
  constructor and leaves its folder, without a marker, for ever; two sessions that clean
  up together may both try one folder, and the one that fails leaves more than the
  configured number. With `maximum_exited_session = 0` the slice `[:-0]` removes nothing.
- *Failures that are not cleaned up after*: a download that breaks off
  (`packages/kestrel_datasource_stixbundle/src/kestrel_datasource_stixbundle/interface.py:139-141`),
  ingest files that cannot be loaded and a process that is killed leave the ingest directory,
  which the comment at line 45 warns of: the next query of that id answers from what
  the store has, mostly nothing. The status of an HTTP answer is not looked at, and an error page
  is kept as the bundle until the bundle changes.
- *The query id leaves out the limit* (line 28): the same query with another limit is
  answered from the store as it is.
- *os.environ becomes a dictionary* after the first Python analytics
  (`packages/kestrel_analytics_python/src/kestrel_analytics_python/interface.py:214`): the parameters
  of the first one stay in the environment that child processes inherit, and those
  of later ones do not get there. A failed `__enter__` leaves `sys.path` and `os.environ` changed;
  a helper module of the same name is the one of the analytics that was run first
  (`sys.modules`). An analytics that returns a data frame without rows fails on
  `pop()` of an empty set.
- *Analytics that update a part of their variables*. Python analytics check and store their
  outputs one after the other (`packages/kestrel_analytics_python/src/`
  `kestrel_analytics_python/interface.py:278-296`): an invalid one raises when those before it
  have replaced their variables already. Nothing updates the `VarStruct`s of the replaced
  ones, whose number of records is that of the old rows.
- *Docker analytics* store their outputs one by one, and raise for a display they cannot
  show after the variables were replaced.

## 6. What is not modelled

- Rendering and parsing: the Lark grammars, STIX and SQL text, display objects,
  summaries, code completion, mapping tables. Conversions without state.
- Names and values that differ between Kestrel and a data source (`next/mapping/`,
  `MultiComp`), patterns (LIKE, MATCHES), absent values (NULL), and the paging of
  OpenSearch's answers: in `HuntQuery` every attribute has one name and every entity
  has each attribute.
- Reading configuration and installing connectors (`shifter/config.py`,
  `connector.py`): I/O only.
- `InMemoryCache` (`next/cache/inmemory.py`), which no session uses.
- In `HuntFlow`: a Return that raises midway through a block, after which the generator of
  `next/session.py:60-61` shows none of those behind it; a block is shown as a whole.
- Sharing of `cache.db` between sessions (tables are named after UUIDs).
- Serialization of graphs and simple-query subgraphs.
- In `Prefetch`: types with other identifiers than processes have (`Prefetch` has the two
  that the code treats specially), relations between other types, several data sources
  in one hunt, texts of patterns, a prefetch whose query fails (what it leaves is in
  `HuntVariables`). Which observations a LIMIT selects is left open.
- In `HuntVariables`: the numbers of records of a variable, of which only zero is told
  apart, and analytics that return rows of another type than the variable's, which neither
  interface compares (`interface.py:288-296` of the Python one, `:143-151` of the Docker one).
- In `HuntHost`: that `exists()` and `rmtree()`, or leaving the marker and listing the
  folders, are two calls (each pair is one step); what another session does during a GET
  or an APPLY; two live sessions that write to one store (`Sole`); an `unlink()` of the master link that is
  refused (`core/session.py:504-516`); the granularity of one
  second of `Last-Modified`; names of data paths that differ only in characters the raw file's
  name leaves out; PostgreSQL stores.
- Kestrel 1: code completion, INFO, DESCRIBE, SAVE, displays and summaries.
- Each part that is left out is in `PROJECT.json` with status `not_modelled`.

## 7. Plan

Order: what loses or corrupts a hunter's data first.

1. *done*: `PacketSource`, `Transmitter`, `ResultStream`, `ShifterPipeline`,
   `ShifterQuery`, with the proofs of all their safety properties and both refinements.
2. *done*: `HuntFlow`, `HuntSession`, `Tables`, `HuntQuery`, `HuntVariables`; the proofs of
   `HuntFlow`, `HuntSession` and `HuntVariables`.
3. *done*: `EcgPattern`, `Prefetch`; `BundleSource`, `Analytics`, `HuntHost`; the proofs of
   `Prefetch` and `HuntHost`.
4. Names and values of data sources (`next/mapping/`, `MultiComp`), as an extension of
   `HuntQuery`: a filter on mapped names selects the entities it describes.
5. `Tables` without recursive operators, as `EcgPattern` has been rewritten, and a proof of
   `QueryMeansProgram` for filters of any depth.
