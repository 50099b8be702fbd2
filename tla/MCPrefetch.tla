----------------------------- MODULE MCPrefetch -----------------------------
(* One host: a process that forks and executes (a, b, c), a child of it,   *)
(* another process with its process id, one with process id 0 and one with *)
(* a unique id.                                                            *)
EXTENDS Prefetch

Proc(id, at, pid, name, uid, parent, opened, proc) ==
  [type |-> "process", id |-> id, first |-> at, last |-> at, pid |-> pid, name |-> name,
   uid |-> uid, parent |-> parent, opened |-> opened, proc |-> proc]
Traffic(id, at, port) ==
  [type |-> "network-traffic", id |-> id, first |-> at, last |-> at, port |-> port]

A == 1    B == 2    C == 3       \* names
Fork   == {Proc(10, 2, 1, A, Nothing, 11, {}, "p"), Proc(11, 2, 7, Nothing, Nothing, Nothing, {}, "init")}
Exec   == {Proc(20, 3, 1, B, Nothing, Nothing, {22}, "p"), Traffic(22, 3, 1)}
Later  == {Proc(30, 5, 1, B, Nothing, Nothing, {32}, "p"), Traffic(32, 5, 2)}
Reused == {Proc(40, 10, 1, A, Nothing, 41, {42}, "q"), Traffic(42, 10, 1),
           Proc(41, 10, 7, Nothing, Nothing, Nothing, {}, "init")}
Child  == {Proc(50, 4, 3, C, Nothing, 51, {52}, "c"), Traffic(52, 4, 1),
           Proc(51, 4, 1, Nothing, Nothing, Nothing, {}, "p")}
Zero   == {Proc(60, 3, 0, A, Nothing, Nothing, {62}, "z"), Traffic(62, 3, 1)}
Unique == {Proc(70, 6, 1, A, 5, Nothing, {}, "p")}

MCObservations == {Fork, Exec, Later, Reused, Child, Zero, Unique}

NameA == Comparison(AnyType, "name", "=", {Literal(A)})
NameB == Comparison("process", "name", "=", {Literal(B)})
Port1 == Comparison("network-traffic", "port", "=", {Literal(1)})
PidOfX == Comparison(AnyType, "pid", "=", {Reference("x", "pid")})
PidsOfX == Comparison(AnyType, "pid", "IN", {Reference("x", "pid"), Literal(3)})
NotPidsOfX == Comparison(AnyType, "pid", "!=", {Reference("x", "pid")})
Pids013 == Comparison(AnyType, "pid", "IN", {Literal(0), Literal(1), Literal(3)})
Early == <<0, 4>>
All == <<0, 12>>

Gets ==
  {GetStatement("x", "process", g, range) :
     g \in {NameA, NameB, Junction("OR", NameA, NameB), Junction("AND", NameA, Port1),
            Junction("OR", NameA, Port1), Pids013},
     range \in {NoRange, Early, All}}
  \union {GetStatement("x", "network-traffic", Port1, NoRange)}
  \union {Limited(GetStatement("x", "process", NameA, NoRange), n) : n \in {1, 2}}
Again ==
  {GetStatement("y", "process", g, NoRange) :
     g \in {PidOfX, PidsOfX, NotPidsOfX, Junction("AND", PidOfX, Port1)}}
  \union {Limited(GetStatement("y", "process", PidsOfX, NoRange), 1)}
Finds ==
  {FindStatement("y", t, relation, reversed, "x", g, range) :
     t \in {"process", "network-traffic"}, relation \in {"created", "linked"},
     reversed \in BOOLEAN, g \in {NoGraph, Port1, Junction("AND", NameA, Port1)},
     range \in {NoRange, All}}
  \union {Limited(FindStatement("y", "process", "linked", FALSE, "x", Port1, NoRange), 1)}
Locals ==
  {GetFromStatement("y", "process", "x", g) : g \in {NameA, NotPidsOfX, Junction("AND", NameB, Port1)}}
  \union
  {AssignStatement("y", "x", g) : g \in {NameA, PidsOfX, Port1, Junction("AND", NameB, Port1)}}

MCStatements == Gets \union Again \union Finds \union Locals
MCNames == {"", "local", "x", "y", "id", "uid", "pid", "name", "port", "process", "network-traffic", "none"}
MCTimerangeStart == -3
MCPrefetchedCommands == {"get", "find"}
MCExcluded == {"file", "user-account", "x-oca-asset"}
=============================================================================
