----------------------------- MODULE Analytics -----------------------------
(* APPLY in Kestrel 1: a Python analytics runs inside the hunter's process, *)
(* and PythonAnalytics changes the working directory, sys.path and the      *)
(* environment around it; a Docker analytics works on files in a directory. *)
(* Each interface's execute() is an operator that gives the set of its      *)
(* outcomes.                                                                *)
EXTENDS Naturals, Sequences, FiniteSets

CONSTANTS
  Profiles,     \* the Python analytics, each with its module in a directory of its own
  Keys,         \* names of parameters, which become environment variables
  ParameterValues

Unset == 0
NoHelper == "no helper"
Unchanged == [k \in Keys |-> Unset]
Parameters == [Keys -> ParameterValues \union {Unset}]

\* What a process has around it.  Every analytics comes with a helper module
\* of the same name; sys.modules keeps the one that was imported first.
Surroundings(home) ==
  [cwd |-> home,
   environ |-> Unchanged,       \* os.environ
   inherited |-> Unchanged,     \* the environment that child processes inherit
   isProcess |-> TRUE,          \* os.environ is still the one that sets the inherited one
   path |-> <<>>,               \* what analytics have added to sys.path
   helper |-> NoHelper]         \* whose helper module is loaded

-----------------------------------------------------------------------------
(* PythonAnalytics as a context manager *)

Updated(environ, parameters) ==
  [k \in Keys |-> IF parameters[k] = Unset THEN environ[k] ELSE parameters[k]]

\* The steps of __enter__, in their order.
PathExtended(p, profile) == [p EXCEPT !.path = Append(@, profile)]
DirectoryChanged(p, profile) == [PathExtended(p, profile) EXCEPT !.cwd = profile]
ParametersSet(p, profile, parameters) ==
  [DirectoryChanged(p, profile) EXCEPT
     !.environ = Updated(@, parameters),
     !.inherited = IF p.isProcess THEN Updated(@, parameters) ELSE @]
ModuleLoaded(p, profile, parameters) ==
  LET set == ParametersSet(p, profile, parameters)
  IN [set EXCEPT !.helper = IF @ = NoHelper THEN Head(set.path) ELSE @]

\* Where __enter__ may stop: the directory is missing, the module fails before
\* or after its imports, the function is not in it.  __exit__ is not called.
HalfEntered(p, profile, parameters) ==
  {PathExtended(p, profile), ParametersSet(p, profile, parameters),
   ModuleLoaded(p, profile, parameters)}

(* A mutated form: the environment is forgotten. *)
ExitedWithParameters(p, entered) == [entered EXCEPT !.path = p.path, !.cwd = p.cwd]

\* __exit__ puts a plain copy in the place of os.environ: what is set in it
\* later, or was set before, is no longer taken to the process.
Exited(p, entered) ==
  [entered EXCEPT !.path = p.path, !.cwd = p.cwd, !.environ = p.environ, !.isProcess = FALSE]

-----------------------------------------------------------------------------
(* What an analytics returns, and which variables are then replaced *)

\* Data frames (with or without "id" and one "type"), displays, and whether
\* the function failed, took other arguments or returned something else.
Returns(n) ==
  [frames : UNION {[1..m -> BOOLEAN] : m \in 0..(n + 1)}, displays : 0..2, failed : BOOLEAN]

\* The positions before the first one that is not valid.
Before(valid, n) == {i \in 1..n : \A j \in 1..i : valid[j]}

\* PythonAnalytics._execute(): the variables get their new rows one by one, and
\* a data frame that is not valid ends it; those before it have been replaced.
Stored(returned, n) ==
  LET m == Len(returned.frames)
      refused == \/ returned.failed \/ returned.displays > 1
                 \/ m = 0 /\ returned.displays = 0
                 \/ m # 0 /\ m # n
  IN [ok |-> ~refused /\ \A i \in 1..m : returned.frames[i],
      replaced |-> IF refused \/ m = 0 THEN {} ELSE Before(returned.frames, n)]

\* The profile is not there, or lacks its module or function.
NoProfile(p) == [after |-> p, ok |-> FALSE, replaced |-> {}, failedIn |-> "profile"]

\* PythonInterface.execute(): no profile, an entry that fails, or a run.
PythonOutcomes(p, profile, parameters, n) ==
  {NoProfile(p)}
  \union {[after |-> h, ok |-> FALSE, replaced |-> {}, failedIn |-> "enter"] :
            h \in HalfEntered(p, profile, parameters)}
  \union {[after |-> Exited(p, ModuleLoaded(p, profile, parameters)),
           ok |-> s.ok, replaced |-> s.replaced, failedIn |-> IF s.ok THEN "" ELSE "run"] :
            s \in {Stored(r, n) : r \in Returns(n)}}

\* DockerInterface.execute(): the container reads the variables from files
\* and may write a file for some of them; a missing one means no change.  The
\* displays are looked at last.
DockerReturns(n) == [files : [1..n -> {"missing", "valid", "invalid"}], displays : 0..2, html : BOOLEAN]

DockerStored(returned, n) ==
  LET readable == [i \in 1..n |-> returned.files[i] # "invalid"]
      read == Before(readable, n)
  IN [ok |-> /\ read = 1..n /\ returned.displays <= 1
             /\ returned.displays = 0 \/ returned.html,
      replaced |-> {i \in read : returned.files[i] = "valid"}]

\* There is no such image, or its container fails.
NoContainer(p) == [after |-> p, ok |-> FALSE, replaced |-> {}, failedIn |-> "container"]

DockerOutcomes(p, n) ==
  {NoContainer(p)}
  \union {[after |-> p, ok |-> s.ok, replaced |-> s.replaced, failedIn |-> IF s.ok THEN "" ELSE "run"] :
            s \in {DockerStored(r, n) : r \in DockerReturns(n)}}
=============================================================================
