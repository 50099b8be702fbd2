----------------------------- MODULE ResultStream -----------------------------
(***************************************************************************)
(* What a query of one STIX-shifter profile promises its caller, whatever  *)
(* processes and queues carry the data: every page a transmitter produces  *)
(* is delivered at most once, the query ends "ok" only after all of them   *)
(* were delivered and none of the workers reported an error, and once it   *)
(* has ended "ok" nothing more is produced.  Any query may instead end     *)
(* "internal", when a worker could not be joined in time.                  *)
(***************************************************************************)
EXTENDS Naturals

CONSTANT Pages

VARIABLES
    produced,  \* pages put on the raw records queue
    delivered, \* pages ingested into the store
    faulty,    \* some worker has reported an error
    outcome    \* how the query ended

streamVars == <<produced, delivered, faulty, outcome>>

StreamInit ==
    /\ produced = {}
    /\ delivered = {}
    /\ faulty = FALSE
    /\ outcome = "none"

Produce ==
    /\ outcome # "ok"
    /\ \E p \in Pages \ produced : produced' = produced \cup {p}
    /\ UNCHANGED <<delivered, faulty, outcome>>

Deliver ==
    /\ outcome = "none"
    /\ \E p \in produced \ delivered : delivered' = delivered \cup {p}
    /\ UNCHANGED <<produced, faulty, outcome>>

ReportFault ==
    /\ outcome # "ok"
    /\ faulty' = TRUE
    /\ UNCHANGED <<produced, delivered, outcome>>

Succeed ==
    /\ outcome = "none"
    /\ delivered = produced
    /\ ~faulty
    /\ outcome' = "ok"
    /\ UNCHANGED <<produced, delivered, faulty>>

Fail ==
    /\ outcome = "none"
    /\ faulty
    /\ outcome' = "error"
    /\ UNCHANGED <<produced, delivered, faulty>>

Abandon ==
    /\ outcome # "internal"
    /\ outcome' = "internal"
    /\ UNCHANGED <<produced, delivered, faulty>>

StreamNext == Produce \/ Deliver \/ ReportFault \/ Succeed \/ Fail \/ Abandon

StreamSpec == StreamInit /\ [][StreamNext]_streamVars

===============================================================================
