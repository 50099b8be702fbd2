------------------------------ MODULE MCHuntQuery -----------------------------
(* Small instances of HuntQuery for TLC. *)
EXTENDS HuntQuery

Process(name, pid) == [name |-> name, pid |-> pid]

\* Three processes in no order, two of the same name.
Processes ==
    [attrs |-> {"name", "pid"}, rows |-> <<Process(1, 2), Process(2, 3), Process(1, 1)>>]

ProcessComparisons ==
    {Comparison("name", "IN", {1}), Comparison("pid", "NOT IN", {2}), Comparison("pid", "<", {3})}

OneSource == {Processes}

Event(name, time) == [name |-> name, time |-> time]

Events ==
    [attrs |-> {"name", "time"}, rows |-> <<Event(1, 1), Event(2, 2), Event(1, 3), Event(2, 4)>>]

OneIndex == {Events}

OneRange == {<<2, 4>>}

EventComparisons == {Comparison("name", "IN", {1}), Comparison("time", ">=", {3})}

===============================================================================
