----------------------------- MODULE ShifterQuery -----------------------------
(***************************************************************************)
(* query_datasource() of the STIX-shifter interface (query.py): the loop   *)
(* over the comma-separated profiles of a data source URI and the way it   *)
(* hands what is left of the LIMIT to each of them.                        *)
(*                                                                         *)
(* The pattern of a GET may translate to several native queries for one    *)
(* profile (dsl["queries"]); each gets a transmitter of its own, and each  *)
(* transmitter is given the same limit (module Transmitter, WithinLimit).  *)
(* What happens between the transmitters and ingest() is module            *)
(* ShifterPipeline; here the batches simply arrive in any order.           *)
(***************************************************************************)
EXTENDS Integers, FiniteSets, FiniteSetsExt

CONSTANTS
    ProfileCount, \* profiles in the URI
    MaxFanOut,    \* bound on the native queries of one profile
    MaxMatched,   \* bound on the records one native query matches
    Limits        \* values of the limit argument; 0 is None

ASSUME QueryAssumption ==
    /\ ProfileCount \in Nat \ {0}
    /\ MaxFanOut \in Nat \ {0}
    /\ MaxMatched \in Nat
    /\ Limits \subseteq Nat

Profiles == 1..ProfileCount

NativeQueries == 1..MaxFanOut

VARIABLES
    pc,           \* "loop", "run", "returned" or "raised"
    profile,      \* the profile the loop is at
    limit,        \* the argument
    profileLimit, \* profile_limit
    numRecords,   \* num_records
    matched,      \* records each native query of each profile matches
    left          \* records the running transmitters have yet to deliver

vars == <<pc, profile, limit, profileLimit, numRecords, matched, left>>

NothingLeft == [q \in NativeQueries |-> 0]

\* A native query the translation did not yield matches nothing.
Init ==
    /\ pc = "loop"
    /\ profile = 1
    /\ limit \in Limits
    /\ profileLimit = limit
    /\ numRecords = 0
    /\ matched \in [Profiles -> [NativeQueries -> 0..MaxMatched]]
    /\ left = NothingLeft

-------------------------------------------------------------------------------
\* What one transmitter delivers when it is given limit l.
Deliverable(m, l) == IF l > 0 THEN Min({m, l}) ELSE m

\* Mutated form: what is left is taken from the previous profile's limit.
NextProfileLimitTwice ==
    IF limit > 0 /\ numRecords > 0 THEN profileLimit - numRecords ELSE profileLimit

NextProfileLimit == IF limit > 0 /\ numRecords > 0 THEN limit - numRecords ELSE profileLimit

\* Mutated form: one record short of the limit is taken for enough.
LimitNearlyMet == limit > 0 /\ numRecords + 1 >= limit

LimitMet == limit > 0 /\ numRecords >= limit

\* The loop breaks, or runs the next profile with what is left of the limit.
BeginProfile ==
    /\ pc = "loop"
    /\ profile <= ProfileCount
    /\ IF LimitMet
       THEN pc' = "returned" /\ UNCHANGED <<profileLimit, left>>
       ELSE /\ pc' = "run"
            /\ profileLimit' = NextProfileLimit
            /\ left' = [q \in NativeQueries |-> Deliverable(matched[profile][q], NextProfileLimit)]
    /\ UNCHANGED <<profile, limit, numRecords, matched>>

\* The profile is unknown, its connector cannot be set up, or the pattern cannot
\* be translated: raised before a process is started.
SetupFails ==
    /\ pc = "loop"
    /\ profile <= ProfileCount
    /\ ~LimitMet
    /\ pc' = "raised"
    /\ profileLimit' = NextProfileLimit
    /\ UNCHANGED <<profile, limit, numRecords, matched, left>>

\* One batch of n records of query q is counted and ingested.
Ingest(q, n) ==
    /\ pc = "run"
    /\ n \in 1..left[q]
    /\ left' = [left EXCEPT ![q] = @ - n]
    /\ numRecords' = numRecords + n
    /\ UNCHANGED <<pc, profile, limit, profileLimit, matched>>

ProfileDone ==
    /\ pc = "run"
    /\ left = NothingLeft
    /\ profile' = profile + 1
    /\ pc' = "loop"
    /\ UNCHANGED <<limit, profileLimit, numRecords, matched, left>>

\* A DataSourceError, or the internal error of a join, leaves the loop.
ProfileFails ==
    /\ pc = "run"
    /\ pc' = "raised"
    /\ UNCHANGED <<profile, limit, profileLimit, numRecords, matched, left>>

Finish ==
    /\ pc = "loop"
    /\ profile > ProfileCount
    /\ pc' = "returned"
    /\ UNCHANGED <<profile, limit, profileLimit, numRecords, matched, left>>

Next ==
    \/ BeginProfile
    \/ SetupFails
    \/ \E q \in NativeQueries, n \in 1..MaxMatched : Ingest(q, n)
    \/ ProfileDone
    \/ ProfileFails
    \/ Finish

Spec == Init /\ [][Next]_vars

-------------------------------------------------------------------------------
\* Type invariant.
TypeOK ==
    /\ pc \in {"loop", "run", "returned", "raised"}
    /\ profile \in 1..(ProfileCount + 1)
    /\ limit \in Limits
    /\ profileLimit \in Nat
    /\ numRecords \in Nat
    /\ matched \in [Profiles -> [NativeQueries -> 0..MaxMatched]]
    /\ left \in [NativeQueries -> 0..MaxMatched]

\* What is left of a limit is never 0, which the transmitters would take for no
\* limit at all, and never more than the limit.
LimitNeverVanishes == pc = "run" /\ limit > 0 => profileLimit \in 1..limit

\* Records(f) holds the records that f counts: <<q, n>> is the n-th of query q.
Records(f) == {r \in NativeQueries \X (1..MaxMatched) : r[2] <= f[r[1]]}

\* The number of records of the profiles in P.
MatchedBy(P) ==
    Cardinality({r \in P \X (NativeQueries \X (1..MaxMatched)) : r[2] \in Records(matched[r[1]])})

TotalMatched == MatchedBy(Profiles)

\* The break and the shrinking limits never cost a record: a query that returns
\* has as many records as were asked for, or all there are.
EnoughReturned ==
    pc = "returned" => numRecords >= Deliverable(TotalMatched, limit)

\* However many profiles there are, the limit is exceeded by the fan-out of the
\* pattern at most.
WithinFanOut == limit > 0 => numRecords <= MaxFanOut * limit

\* docs/language/commands.rst on LIMIT: "Kestrel will return limit observed-data
\* records".  Refuted when a pattern has more than one native query.
WithinLimit == limit > 0 => numRecords <= limit

===============================================================================
