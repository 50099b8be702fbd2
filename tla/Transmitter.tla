------------------------------ MODULE Transmitter ------------------------------
(***************************************************************************)
(* One transmitter process of the STIX-shifter data source interface       *)
(* (worker/transmitter.py, class Transmitter): it submits one native       *)
(* query, polls the data source until the search ends, retrieves the       *)
(* matched records page by page and deletes the search.  Every packet it   *)
(* puts on the raw records queue is kept in `sent'.                        *)
(*                                                                         *)
(* The data source behind stix_transmission is external.  It accepts or    *)
(* refuses the query, ends the search by itself, may fail or time out in   *)
(* any call, and answers results(offset, length) with at most `length' of  *)
(* the records left.  run() catches no exception: whatever raises, a call  *)
(* or an answer without an expected key, ends the process.                 *)
(***************************************************************************)
EXTENDS Integers, Sequences, SequencesExt

CONSTANTS
    MaxMatched,     \* bound on the records a search matches
    RetrievalBatch, \* retrieval_batch_size of the profile
    Limits          \* values of the limit argument; 0 is None

ASSUME TransmitterAssumption ==
    /\ MaxMatched \in Nat
    /\ RetrievalBatch \in Nat \ {0}
    /\ Limits \subseteq Nat

VARIABLES
    pc,      \* where the process is in run()
    search,  \* the search as the data source sees it
    matched, \* how many records the search matches
    limit,   \* self.limit
    offset,  \* result_retrieval_offset
    batch,   \* batch_size
    retried, \* is_retry_cycle
    sent     \* packets put on the output queue

vars == <<pc, search, matched, limit, offset, batch, retried, sent>>

Ends == {"done", "died"}

Source == INSTANCE PacketSource WITH
    state <- CASE pc = "done" -> "closed" [] pc = "died" -> "died" [] OTHER -> "open"

PacketSet == [kind : {"data", "info", "error"}, offset : Nat, len : Nat]

FirstBatch(l) == IF l > 0 /\ l < RetrievalBatch THEN l ELSE RetrievalBatch

Put(p) == sent' = Append(sent, p)

-------------------------------------------------------------------------------
Init ==
    /\ pc = "query"
    /\ search = "none"
    /\ matched \in 0..MaxMatched
    /\ limit \in Limits
    /\ offset = 0
    /\ batch = FirstBatch(limit)
    /\ retried = FALSE
    /\ sent = <<>>

\* transmission.query(): a search id, or an ERROR packet and the end of run().
SubmitQuery ==
    /\ pc = "query"
    /\ \/ /\ search' = "running"
          /\ pc' = "wait"
          /\ UNCHANGED sent
       \/ /\ Put(Source!Failure)
          /\ pc' = "exit"
          /\ UNCHANGED search
    /\ UNCHANGED <<matched, limit, offset, batch, retried>>

\* The data source finishes the search.
SearchEnds ==
    /\ search = "running"
    /\ search' = "ended"
    /\ UNCHANGED <<pc, matched, limit, offset, batch, retried, sent>>

\* wait_datasource_search(): a poll that finds the search running loops and
\* changes nothing, so only the two ways out of the loop are actions.
PollEnded ==
    /\ pc = "wait"
    /\ search = "ended"
    /\ pc' = "retrieve"
    /\ UNCHANGED <<search, matched, limit, offset, batch, retried, sent>>

PollFails ==
    /\ pc = "wait"
    /\ Put(Source!Failure)
    /\ pc' = "exit"
    /\ UNCHANGED <<search, matched, limit, offset, batch, retried>>

-------------------------------------------------------------------------------
\* retrieve_data(), one action per outcome of one call of results().

LimitReached(o) == limit > 0 /\ o >= limit

\* Mutated form: the page size is not shrunk to what is left of the limit.
NextBatchUnshrunk(o) == RetrievalBatch

\* batch_size after a page that leaves the retrieval at offset o.
NextBatch(o) ==
    IF limit > 0 /\ ~LimitReached(o) THEN Min({limit - o, RetrievalBatch}) ELSE batch

\* Mutated form: the offset advances by what was asked for, not by what came.
ReceivePageAsAsked(n) ==
    /\ pc = "retrieve"
    /\ n \in 1..Min({batch, matched - offset})
    /\ Put(Source!Page(offset, n))
    /\ offset' = offset + batch
    /\ batch' = NextBatch(offset + batch)
    /\ retried' = FALSE
    /\ pc' = IF LimitReached(offset + batch) THEN "delete" ELSE "retrieve"
    /\ UNCHANGED <<search, matched, limit>>

ReceivePage(n) ==
    /\ pc = "retrieve"
    /\ n \in 1..Min({batch, matched - offset})
    /\ Put(Source!Page(offset, n))
    /\ offset' = offset + n
    /\ batch' = NextBatch(offset + n)
    /\ retried' = FALSE
    /\ pc' = IF LimitReached(offset + n) THEN "delete" ELSE "retrieve"
    /\ UNCHANGED <<search, matched, limit>>

\* Mutated form: an empty answer does not clear has_remaining_results.
ReceiveNothingForever ==
    /\ pc = "retrieve"
    /\ offset = matched \/ batch = 0
    /\ retried' = FALSE
    /\ UNCHANGED <<pc, search, matched, limit, offset, batch, sent>>

ReceiveNothing ==
    /\ pc = "retrieve"
    /\ offset = matched \/ batch = 0
    /\ retried' = FALSE
    /\ pc' = "delete"
    /\ UNCHANGED <<search, matched, limit, offset, batch, sent>>

\* Mutated form: the retry forgets what the failed call had asked for.
RetryTimeoutRewinds ==
    /\ pc = "retrieve"
    /\ ~retried
    /\ Put(Source!Notice)
    /\ retried' = TRUE
    /\ offset' = 0
    /\ UNCHANGED <<pc, search, matched, limit, batch>>

\* A server timeout outside a retry cycle: one INFO packet and one more try.
RetryTimeout ==
    /\ pc = "retrieve"
    /\ ~retried
    /\ Put(Source!Notice)
    /\ retried' = TRUE
    /\ UNCHANGED <<pc, search, matched, limit, offset, batch>>

\* Mutated form: a failed retrieval ends the loop and puts no packet.
ReceiveFailureSilently ==
    /\ pc = "retrieve"
    /\ pc' = "delete"
    /\ UNCHANGED <<search, matched, limit, offset, batch, retried, sent>>

\* Mutated form: a failed retrieval returns from run() at once.
ReceiveFailureReturns ==
    /\ pc = "retrieve"
    /\ Put(Source!Failure)
    /\ pc' = "exit"
    /\ UNCHANGED <<search, matched, limit, offset, batch, retried>>

\* Any other failure, or a timeout inside a retry cycle.
ReceiveFailure ==
    /\ pc = "retrieve"
    /\ Put(Source!Failure)
    /\ pc' = "delete"
    /\ UNCHANGED <<search, matched, limit, offset, batch, retried>>

\* transmission.delete(); the answer is discarded.
DeleteSearch ==
    /\ pc = "delete"
    /\ search' = "deleted"
    /\ pc' = "exit"
    /\ UNCHANGED <<matched, limit, offset, batch, retried, sent>>

\* An exception leaves run(): StixTransmission() or one of its calls raises, or
\* an answer lacks search_id, status, data or the like.  No packet is put.
Die ==
    /\ pc \in {"query", "wait", "retrieve", "delete"}
    /\ pc' = "died"
    /\ UNCHANGED <<search, matched, limit, offset, batch, retried, sent>>

\* run() returns and the process ends.
Exit ==
    /\ pc = "exit"
    /\ pc' = "done"
    /\ UNCHANGED <<search, matched, limit, offset, batch, retried, sent>>

RetrieveData ==
    \/ \E n \in 1..MaxMatched : ReceivePage(n)
    \/ ReceiveNothing
    \/ RetryTimeout
    \/ ReceiveFailure

Next ==
    \/ SubmitQuery
    \/ SearchEnds
    \/ PollEnded
    \/ PollFails
    \/ RetrieveData
    \/ DeleteSearch
    \/ Die
    \/ Exit

\* The process keeps running and the data source ends every search it accepted.
\* Nothing is assumed about failures: no fairness makes a call fail.
Fairness ==
    /\ WF_vars(SubmitQuery)
    /\ WF_vars(SearchEnds)
    /\ WF_vars(PollEnded)
    /\ WF_vars(\E n \in 1..MaxMatched : ReceivePage(n))
    /\ WF_vars(ReceiveNothing)
    /\ WF_vars(DeleteSearch)
    /\ WF_vars(Exit)

Spec == Init /\ [][Next]_vars /\ Fairness

-------------------------------------------------------------------------------
\* Type invariant of the state of run() and retrieve_data().
TypeOK ==
    /\ pc \in {"query", "wait", "retrieve", "delete", "exit"} \cup Ends
    /\ search \in {"none", "running", "ended", "deleted"}
    /\ matched \in 0..MaxMatched
    /\ limit \in Limits
    /\ offset \in 0..matched
    /\ batch \in 0..RetrievalBatch
    /\ retried \in BOOLEAN
    /\ sent \in Seq(PacketSet)

PageEnd(p) == p.offset + p.len

IsPage(p) == p.kind = "data"

\* A retry after a timeout neither loses nor repeats a record: every record
\* retrieved so far is in a page, and the pages do not overlap.
EachRecordOnce ==
    /\ \A r \in 0..(offset - 1) :
         \E i \in DOMAIN sent : IsPage(sent[i]) /\ r \in sent[i].offset..(PageEnd(sent[i]) - 1)
    /\ \A i, j \in DOMAIN sent :
         i < j /\ IsPage(sent[i]) /\ IsPage(sent[j]) => PageEnd(sent[i]) <= sent[j].offset

\* However the data source splits its answers, one transmitter never puts a
\* record beyond its limit on the queue.
WithinLimit ==
    limit > 0 => \A i \in DOMAIN sent : IsPage(sent[i]) => PageEnd(sent[i]) <= limit

Reported == \E i \in DOMAIN sent : sent[i].kind = "error"

\* A run() that returns without having put an ERROR packet has retrieved every record
\* the search matched, up to the limit: no answer of the data source that it handles
\* ends the retrieval early in silence.  An exception does, and is not meant here.
SilentMeansComplete ==
    pc = "done" /\ ~Reported => offset = matched \/ (limit > 0 /\ offset = limit)

\* A run() that returns has left a search undeleted in one case only: status()
\* failed, so nothing was retrieved and the error was reported.
OnlyFailedStatusAbandonsSearch ==
    pc \in {"exit", "done"} /\ search \in {"running", "ended"} => offset = 0 /\ Reported

\* The next request never asks for zero records while some are still wanted: an
\* empty answer would end the retrieval early and silently.
NeverAsksForNothing == pc = "retrieve" => batch > 0

\* The transmitter process implements the promise of PacketSource.
ImplementsSource == Source!SourceSpec

\* Every transmitter process ends, whatever fails or raises, provided its search ends.
Terminates == <>(pc \in Ends)

===============================================================================
