------------------------------ MODULE HuntHost ------------------------------
(* Kestrel 1 sessions on one host.  Every session is a process with a       *)
(* runtime directory (session.py), all of them beside each other in the     *)
(* system's temporary directory; debug sessions share a link to the newest  *)
(* directory and clean up what earlier ones left.  A statement runs in the  *)
(* runtime directory of its session: GET asks a bundle source, which keeps  *)
(* files there (BundleSource), and APPLY runs an analytics (Analytics).     *)
EXTENDS BundleSource, Analytics, Functions

CONSTANTS
  Sessions,
  TemporaryFolders,   \* folders named after a session id, in the temporary directory
  GivenFolders,       \* folders a caller passes as runtime_dir
  DebugModes,         \* whether sessions are debug sessions
  MaximumExited,      \* config: debug.maximum_exited_session
  Limits,             \* limits of GET, NoLimit among them
  Schemes,            \* what the URI of an analytics may begin with, "" for nothing
  Interfaces,         \* schemes that an installed interface has
  DefaultScheme,      \* config: language.default_analytics_schema
  Arguments,          \* the number of variables an analytics is applied to
  Exited0,            \* folders of debug sessions that have exited before
  WorkFolder,         \* bound: statements are followed in sessions of this folder
  MaxWorking,         \* bound: and next to so many sessions, all plain ones
  MaxStatements,      \* bound: statements in a behaviour
  Changing,           \* the data paths whose bundles change
  MaxVersions         \* bound: versions of a bundle

ASSUME HostAssumption ==
  /\ MaximumExited \in Nat \ {0}
  /\ DebugModes \subseteq BOOLEAN
  /\ TemporaryFolders \cap GivenFolders = {}
  /\ Exited0 \in Seq(TemporaryFolders)
  /\ \A i, j \in DOMAIN Exited0 : Exited0[i] = Exited0[j] => i = j
  /\ Limits \subseteq Nat
  /\ Changing \subseteq AllPaths /\ MaxVersions \in Nat
  /\ \A p \in AllPaths : 1 \in Versions(p)
  /\ \A p \in Changing : 1..MaxVersions \subseteq Versions(p)

VARIABLES
  folders,     \* the runtime directories that exist, with what is in them
  exited,      \* the temporary folders with an exit marker, the oldest first
  link,        \* the master link: a folder's name (it may be gone) or NoFolder
  lent,        \* the folders that were there before any session
  sessions, around,      \* the sessions and the surroundings of their processes
  server, statements, result

vars == <<folders, exited, link, lent, sessions, around, server, statements, result>>

NoFolder == "no folder"
NoSource == "no source"
NoResult == [kind |-> "none"]
Folders == TemporaryFolders \union GivenFolders

\* What the source keeps in a folder and, beside it, what a query ought to have
\* been answered and the queries that were read from less than everything.
NewFolder ==
  [asked |-> {},                              \* queries that have an ingest directory
   store |-> [q \in QueryIds |-> {}],         \* what the store has under a query id
   raw |-> [path \in AllPaths |-> NoFile],
   due |-> [q \in QueryIds |-> {}],
   spoiled |-> {}]

Unborn == [pc |-> "new", folder |-> NoFolder, debug |-> FALSE, owned |-> FALSE, made |-> FALSE,
           closes |-> 0, todo |-> <<>>, source |-> NoSource, halfEntered |-> <<>>]
Live(s) == sessions[s].pc \in {"made", "unlinked", "linked", "open", "sweeping"}
Folder(s) == sessions[s].folder
Present(s) == Folder(s) \in DOMAIN folders

Init ==
  /\ lent \in SUBSET GivenFolders
  /\ folders = [f \in lent \union ToSet(Exited0) |-> NewFolder]
  /\ exited = Exited0
  /\ link \in {NoFolder, "gone"}
  /\ sessions = [s \in Sessions |-> Unborn]
  /\ around = [s \in Sessions |-> Surroundings("home")]
  /\ server \in [version : {[p \in AllPaths |-> 1]}, recent : {[p \in AllPaths |-> {1}]}, dated : BOOLEAN]
  /\ statements = 0
  /\ result = NoResult

\* Bound: a host on which statements are executed has few sessions, of one
\* folder, and none in debug mode (its bundles change after the first statement),
\* hence no link, which debug sessions alone look at;
\* the ways to make and end sessions are followed without statements.
Plain(s) == Folder(s) = WorkFolder /\ ~sessions[s].debug
Begun == {s \in Sessions : sessions[s].pc # "new"}
Working ==
  /\ lent = {} /\ link = NoFolder
  /\ Cardinality(Begun) <= MaxWorking /\ \A s \in Begun : Plain(s)

-----------------------------------------------------------------------------
(* Making a session *)

Goto(s, pc) == sessions' = [sessions EXCEPT ![s].pc = pc]

(* A mutated form: the two ways to get a directory are confused. *)
OwnedWhenTemporary(f) == f \in TemporaryFolders /\ f \in DOMAIN folders

\* A directory that is given and is there belongs to the caller.
OwnedByCaller(f) == f \in GivenFolders /\ f \in DOMAIN folders

With(f) ==
  [g \in DOMAIN folders \union {f} |-> IF g \in DOMAIN folders THEN folders[g] ELSE NewFolder]

\* Session.__init__(): a directory that is not there is made, any other is
\* reused.
Create(s) ==
  /\ sessions[s].pc = "new"
  /\ \E f \in Folders, debug \in DebugModes :
       /\ folders' = With(f)
       /\ sessions' = [sessions EXCEPT ![s] =
            [Unborn EXCEPT !.pc = "made", !.folder = f, !.debug = debug,
                           !.owned = OwnedByCaller(f),
                           !.made = f \notin DOMAIN folders]]
  /\ result' = NoResult
  /\ UNCHANGED <<exited, link, lent, around, server, statements>>
  /\ statements > 0 => Working'

(* A mutated form: asks exists() first, which denies a link that leads nowhere. *)
UnlinkExisting(s) ==
  /\ sessions[s].pc = "made" /\ sessions[s].debug
  /\ link' = IF link \in DOMAIN folders THEN NoFolder ELSE link
  /\ Goto(s, "unlinked") /\ result' = NoResult
  /\ UNCHANGED <<folders, exited, lent, around, server, statements>>

\* _setup_runtime_directory_master(): the link goes, wherever it leads to ...
Unlink(s) ==
  /\ sessions[s].pc = "made" /\ sessions[s].debug
  /\ link' = NoFolder
  /\ Goto(s, "unlinked") /\ result' = NoResult
  /\ UNCHANGED <<folders, exited, lent, around, server, statements>>

\* ... and is made anew, which fails when another session was faster.
Link(s) ==
  /\ sessions[s].pc = "unlinked"
  /\ IF link = NoFolder
     THEN link' = Folder(s) /\ Goto(s, "linked")
     ELSE link' = link /\ Goto(s, "beaten")
  /\ result' = NoResult
  /\ UNCHANGED <<folders, exited, lent, around, server, statements>>

\* The log file and the store are opened in the runtime directory.
Start(s) ==
  /\ sessions[s].pc = IF sessions[s].debug THEN "linked" ELSE "made"
  /\ Goto(s, IF Present(s) THEN "open" ELSE "failed")
  /\ result' = NoResult
  /\ UNCHANGED <<folders, exited, link, lent, around, server, statements>>

-----------------------------------------------------------------------------
(* Statements *)

\* Bound: what two live sessions do to one store at a time is not followed.
Sole(s) == \A t \in Sessions \ {s} : Folder(t) = Folder(s) => ~Live(t)

Executes(s) ==
  /\ sessions[s].pc = "open" /\ Sole(s)
  /\ Working /\ statements < MaxStatements
  /\ statements' = statements + 1
  /\ UNCHANGED <<exited, link, lent, server>>

\* set_current_working_directory(): without its directory nothing is executed.
NotEntered(s) ==
  /\ ~Present(s)
  /\ Executes(s)
  /\ result' = [kind |-> "raised"]
  /\ UNCHANGED <<folders, sessions, around>>

\* What the query is recorded to be due, when it is asked for the first time.
Recorded(folder, q, limit, o) ==
  IF q \in folder.asked THEN o.folder
  ELSE [o.folder EXCEPT
          !.due[q] = Due(q, limit, server),
          !.spoiled = IF o.how \in {"raised", "unloaded"} \/ (o.how = "got" /\ ~ReadWhole(o.folder, q))
                      THEN @ \union {q} ELSE @ \ {q}]

\* The data source of a GET: the last one that answered when none is named.
SourceOf(s, named) == IF named = NoSource THEN sessions[s].source ELSE named

\* GET: DataSourceManager remembers the source when its query has returned,
\* before the answer is loaded.
Get(s) ==
  /\ Present(s)
  /\ Executes(s)
  /\ \E named \in Uris \union {NoSource}, pattern \in Patterns, limit \in Limits :
       LET uri == SourceOf(s, named)
           q == <<uri, pattern>>
           here == folders[Folder(s)]
       IN IF uri = NoSource
          THEN result' = [kind |-> "raised"] /\ UNCHANGED <<folders, sessions>>
          ELSE \E o \in Retrieved(here, q, limit, server) :
                 LET after == Recorded(here, q, limit, o)
                 IN /\ folders' = [folders EXCEPT ![Folder(s)] = after]
                    /\ sessions' = IF o.how \in {"got", "unloaded"} THEN [sessions EXCEPT ![s].source = uri] ELSE sessions
                    /\ result' = IF o.how = "got"
                                 THEN [kind |-> "answer", answer |-> o.answer,
                                       due |-> after.due[q], spoiled |-> q \in after.spoiled]
                                 ELSE [kind |-> "raised"]
  /\ UNCHANGED around

\* InterfaceManager: a URI without a scheme gets the default one, if some
\* interface has that.
InterfaceOf(scheme) ==
  IF scheme = "" THEN {DefaultScheme} \cap Interfaces ELSE {scheme} \cap Interfaces

\* APPLY: the interface runs the analytics in the session's directory, and the
\* session takes the process back to where it was.
Apply(s) ==
  /\ Present(s)
  /\ Executes(s)
  /\ \E scheme \in Schemes, profile \in Profiles, parameters \in Parameters :
       LET entered == [around[s] EXCEPT !.cwd = Folder(s)]
           outcomes(i) == IF i = "python" THEN PythonOutcomes(entered, profile, parameters, Arguments)
                          ELSE DockerOutcomes(entered, Arguments)
           nothing == [after |-> entered, ok |-> FALSE, replaced |-> {}, failedIn |-> "manager"]
       IN \E o \in IF InterfaceOf(scheme) = {} THEN {nothing} ELSE UNION {outcomes(i) : i \in InterfaceOf(scheme)} :
            /\ around' = [around EXCEPT ![s] = [o.after EXCEPT !.cwd = around[s].cwd]]
            /\ sessions' = IF o.failedIn = "enter"
                           THEN [sessions EXCEPT ![s].halfEntered = Append(@, profile)] ELSE sessions
            /\ result' = [kind |-> "applied", ok |-> o.ok, replaced |-> o.replaced]
  /\ UNCHANGED folders

-----------------------------------------------------------------------------
(* Ending a session *)

Without(f) == Restrict(folders, DOMAIN folders \ {f})

\* The exit markers without that of a folder.
Unmarked(f) ==
  IF f \in ToSet(exited) THEN RemoveAt(exited, CHOOSE i \in DOMAIN exited : exited[i] = f) ELSE exited

Oldest(marked, kept) ==
  IF Len(marked) <= kept THEN <<>> ELSE SubSeq(marked, 1, Len(marked) - kept)

(* Mutated forms: one more is kept; the exit marker is not looked for. *)
ObsoleteButOne(marked) == Oldest(marked, MaximumExited + 1)
ObsoleteUnmarked(marked) ==
  Oldest(SetToSeq((DOMAIN folders \cap TemporaryFolders) \ ToSet(marked)) \o marked, MaximumExited)

\* _remove_obsolete_debug_folders(): all but the newest of the folders in the
\* temporary directory that have an exit marker.
Obsolete(marked) == Oldest(marked, MaximumExited)

\* Session.close(), called by the context manager and again when the process
\* exits: whoever made the directory removes it, or marks it in debug mode.
Close(s) ==
  /\ \/ sessions[s].pc = "open"
     \/ sessions[s].pc = "closed" /\ sessions[s].closes = 1
  /\ LET mine == Present(s) /\ ~sessions[s].owned
         marked == IF Folder(s) \in TemporaryFolders
                   THEN Append(Unmarked(Folder(s)), Folder(s)) ELSE exited
         closed == [sessions[s] EXCEPT !.pc = "closed", !.closes = @ + 1]
     IN \/ /\ ~mine
           /\ sessions' = [sessions EXCEPT ![s] = closed]
           /\ UNCHANGED <<folders, exited>>
        \/ /\ mine /\ ~sessions[s].debug
           /\ folders' = Without(Folder(s))
           /\ exited' = Unmarked(Folder(s))
           /\ sessions' = [sessions EXCEPT ![s] = closed]
        \/ /\ mine /\ sessions[s].debug
           /\ exited' = marked
           /\ sessions' = [sessions EXCEPT ![s] =
                             [closed EXCEPT !.pc = "sweeping", !.todo = Obsolete(marked)]]
           /\ UNCHANGED folders
  /\ result' = NoResult
  /\ UNCHANGED <<link, lent, around, server, statements>>

\* One obsolete folder is removed; that fails when another session has done so.
Sweep(s) ==
  /\ sessions[s].pc = "sweeping" /\ sessions[s].todo # <<>>
  /\ LET f == Head(sessions[s].todo)
     IN IF f \in DOMAIN folders
        THEN /\ folders' = Without(f)
             /\ exited' = Unmarked(f)
             /\ sessions' = [sessions EXCEPT ![s].todo = Tail(@)]
        ELSE /\ sessions' = [sessions EXCEPT ![s].pc = "disturbed"]
             /\ UNCHANGED <<folders, exited>>
  /\ result' = NoResult
  /\ UNCHANGED <<link, lent, around, server, statements>>

Swept(s) ==
  /\ sessions[s].pc = "sweeping" /\ sessions[s].todo = <<>>
  /\ Goto(s, "closed") /\ result' = NoResult
  /\ UNCHANGED <<folders, exited, link, lent, around, server, statements>>

\* The process is killed: close() is not called, the directory stays.
Crash(s) ==
  /\ Live(s)
  /\ Goto(s, "crashed") /\ result' = NoResult
  /\ UNCHANGED <<folders, exited, link, lent, around, server, statements>>

-----------------------------------------------------------------------------
(* The sources *)

BundleChanges ==
  /\ statements > 0
  /\ \E p \in Changing :
       /\ server.version[p] < MaxVersions
       /\ server' = [server EXCEPT !.version[p] = @ + 1, !.recent[p] = @ \union {server.version[p] + 1}]
  /\ result' = NoResult
  /\ UNCHANGED <<folders, exited, link, lent, sessions, around, statements>>

FiveMinutesPass ==
  /\ ~server.dated /\ statements > 0
  /\ server' = [server EXCEPT !.recent = [p \in AllPaths |-> {server.version[p]}]]
  /\ folders' = [f \in DOMAIN folders |->
                   [folders[f] EXCEPT !.raw = [p \in AllPaths |->
                      IF @[p].kind = "none" THEN NoFile ELSE [@[p] EXCEPT !.old = TRUE]]]]
  /\ result' = NoResult
  /\ UNCHANGED <<exited, link, lent, sessions, around, statements>>

Next ==
  \/ \E s \in Sessions :
       \/ Create(s) \/ Unlink(s) \/ Link(s) \/ Start(s)
       \/ NotEntered(s) \/ Get(s) \/ Apply(s)
       \/ Close(s) \/ Sweep(s) \/ Swept(s) \/ Crash(s)
  \/ BundleChanges
  \/ FiveMinutesPass

Spec == Init /\ [][Next]_vars

-----------------------------------------------------------------------------
(* Properties *)

\* The runtime directory of a session with an id of its own (a new UUID) is there
\* as long as the session is open, whatever the other sessions start, close or
\* clean up.  (The directory of an id used before is not safe: its exit marker
\* stays in it, and a clean-up that has begun may still have it on its list.)
OfItsOwn(s) ==
  /\ sessions[s].made /\ Folder(s) \notin ToSet(Exited0)
  /\ \A t \in Sessions \ {s} : Folder(t) # Folder(s)

PrivateFolderStays ==
  \A s \in Sessions : sessions[s].pc \in {"linked", "open"} /\ OfItsOwn(s) => Present(s)

\* A directory that was there before it was given to a session is its caller's:
\* no session ever removes it.
LentFolderStays == lent \subseteq DOMAIN folders

\* Once every session has closed without being disturbed, what is left in the
\* temporary directory are the folders of exited debug sessions, and no more of
\* them than the configuration wants.
NothingElseIsLeft ==
  (\A s \in Sessions : sessions[s].pc \in {"new", "closed"})
    => /\ DOMAIN folders \cap TemporaryFolders \subseteq ToSet(exited)
       /\ Cardinality(ToSet(exited) \cap TemporaryFolders) <= MaximumExited

\* A debug session is kept from starting by its link only when another debug
\* session came first: a link that is left over, even one that leads nowhere,
\* keeps nobody from starting.
SomeRacerWins ==
  \A s \in Sessions : sessions[s].pc = "beaten" =>
    \E t \in Sessions \ {s} :
      sessions[t].debug /\ sessions[t].pc \notin {"new", "made", "unlinked", "beaten"}

\* An answer is what a reader of all the data paths gets, of a version that the
\* source had when the query was first asked in this folder - however often
\* queries have failed before, and whatever was downloaded before.  Only a failure
\* that does not clean up after itself or a download that is not whole spoils it.
\* (The limit is that of the first asking as well: a later one is not heeded.)
AnswersAreDue ==
  result.kind = "answer" /\ ~result.spoiled => result.answer \in result.due

\* Between statements a process has the working directory it had, and only
\* analytics that failed while they were entered have left something in
\* sys.path or in os.environ.
SurroundingsRestored ==
  \A s \in Sessions :
    /\ around[s].cwd = "home"
    /\ around[s].path = sessions[s].halfEntered
    /\ sessions[s].halfEntered = <<>> => around[s].environ = Unchanged
=============================================================================
