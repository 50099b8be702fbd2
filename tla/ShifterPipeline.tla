---------------------------- MODULE ShifterPipeline ----------------------------
(***************************************************************************)
(* The processes that serve one profile of a STIX-shifter query:           *)
(*                                                                         *)
(*   transmitters --raw records queue--> translators --translated data     *)
(*   queue--> the session's own process, which ingests and then joins.     *)
(*                                                                         *)
(* A transmitter pool process starts one transmitter per native query,     *)
(* joins them all and then puts one STOP sign per translator.  Each        *)
(* translator relays until it gets a STOP sign and puts one of its own.    *)
(* The reader ends after one STOP sign per translator.                     *)
(*                                                                         *)
(* A multiprocessing queue is a pipe of limited capacity shared by its     *)
(* writers and, in each writer, an unbounded buffer that a feeder thread   *)
(* flushes: put() never blocks, and a process ends only when its buffer    *)
(* is empty.  Source: multiproc.py, worker/transmitter.py (TransmitterPool)*)
(* and worker/translator.py.  A transmitter puts here the packets that     *)
(* PacketSource allows it; module Transmitter details how it gets them.    *)
(***************************************************************************)
EXTENDS Naturals, Sequences, FiniteSets

CONSTANTS
    Queries,         \* the native queries of the profile, one transmitter each
    TranslatorCount, \* translation_workers_count
    Pool,            \* the transmitter pool process
    MaxPages,        \* bound on the pages of one transmitter
    PipeCapacity,    \* messages a pipe holds before a feeder blocks
    MaxTroubles,     \* bound on the notices, errors and deaths in one query
    MayDie           \* processes an uncaught exception may end: queries, translators

ASSUME PipelineAssumption ==
    /\ IsFiniteSet(Queries)
    /\ TranslatorCount \in Nat \ {0}
    /\ Pool \notin Queries
    /\ MaxPages \in Nat
    /\ PipeCapacity \in Nat \ {0}
    /\ MaxTroubles \in Nat

Translators == 1..TranslatorCount

Writers == Queries \cup {Pool}

PacketKinds == {"data", "info", "error"}

\* Page number `no' of transmitter `from', or a notice or error (`no' is 0).
Packets == [from : Queries, no : 0..MaxPages, kind : PacketKinds]

StopSign == [kind |-> "stop"]

\* A result and the translator that put it; "writeError" is the extra packet of
\* a failed debug dump.  The reader never looks at the name of the worker.
Results == [from : Queries, no : 0..MaxPages,
            kind : PacketKinds \cup {"writeError"}, by : Translators]

StopFrom(t) == [kind |-> "stop", by |-> t]

Stops == {StopFrom(t) : t \in Translators}

VARIABLES
    mainPc,   \* the session's process in query_datasource()
    stopsRead,\* STOP signs the reader has seen
    joined,   \* translators joined so far
    outcome,  \* how the with statements end
    ingested, \* pages ingested, by transmitter and packet number
    poolPc,   \* the pool process
    txPc,     \* each transmitter
    wanted,   \* how many pages the data source has for each transmitter
    pages,    \* pages each transmitter has put
    last,     \* kind of the last packet it has put
    trPc,     \* each translator
    rawBuf, rawPipe, \* raw_records_queue: buffer of each writer, shared pipe
    outBuf, outPipe, \* translated_data_queue
    faulty,   \* history: some worker has put an ERROR packet
    troubles  \* troubles so far

mainVars == <<mainPc, stopsRead, joined, outcome, ingested>>
txVars == <<txPc, wanted, pages, last>>
rawVars == <<rawBuf, rawPipe>>
outVars == <<outBuf, outPipe>>
faultVars == <<faulty, troubles>>
vars == <<mainPc, stopsRead, joined, outcome, ingested, poolPc, txVars, trPc,
          rawBuf, rawPipe, outBuf, outPipe, faultVars>>

-------------------------------------------------------------------------------
\* The translators are started before the pool, the pool before the reader.
Init ==
    /\ mainPc = "read"
    /\ stopsRead = 0
    /\ joined = 0
    /\ outcome = "none"
    /\ ingested = {}
    /\ poolPc = "start"
    /\ txPc = [q \in Queries |-> "unstarted"]
    /\ wanted \in [Queries -> 0..MaxPages]
    /\ pages = [q \in Queries |-> 0]
    /\ last = [q \in Queries |-> "none"]
    /\ trPc = [t \in Translators |-> "work"]
    /\ rawBuf = [w \in Writers |-> <<>>]
    /\ rawPipe = <<>>
    /\ outBuf = [t \in Translators |-> <<>>]
    /\ outPipe = <<>>
    /\ faulty = FALSE
    /\ troubles = 0

-------------------------------------------------------------------------------
\* n things go wrong in a step that sets faulty to f.
Trouble(n, f) ==
    /\ troubles + n <= MaxTroubles
    /\ troubles' = troubles + n
    /\ faulty' = f

\* TransmitterPool.run(): start all transmitters, join all, then the STOP signs.
PoolStart ==
    /\ poolPc = "start"
    /\ poolPc' = "join"
    /\ txPc' = [q \in Queries |-> "work"]
    /\ UNCHANGED <<mainVars, wanted, pages, last, trPc, rawVars, outVars, faultVars>>

StopSigns(n) == [i \in 1..n |-> StopSign]

\* Mutated form: the STOP signs do not wait for the transmitters.
PoolStopUnjoined ==
    /\ poolPc = "join"
    /\ poolPc' = "flush"
    /\ rawBuf' = [rawBuf EXCEPT ![Pool] = StopSigns(TranslatorCount)]
    /\ UNCHANGED <<mainVars, txVars, trPc, rawPipe, outVars, faultVars>>

\* Mutated form: one STOP sign for the whole queue.
PoolStopOnce ==
    /\ poolPc = "join"
    /\ \A q \in Queries : txPc[q] = "gone"
    /\ poolPc' = "flush"
    /\ rawBuf' = [rawBuf EXCEPT ![Pool] = StopSigns(1)]
    /\ UNCHANGED <<mainVars, txVars, trPc, rawPipe, outVars, faultVars>>

PoolStop ==
    /\ poolPc = "join"
    /\ \A q \in Queries : txPc[q] = "gone"
    /\ poolPc' = "flush"
    /\ rawBuf' = [rawBuf EXCEPT ![Pool] = StopSigns(TranslatorCount)]
    /\ UNCHANGED <<mainVars, txVars, trPc, rawPipe, outVars, faultVars>>

PoolExit ==
    /\ poolPc = "flush"
    /\ rawBuf[Pool] = <<>>
    /\ poolPc' = "gone"
    /\ UNCHANGED <<mainVars, txVars, trPc, rawVars, outVars, faultVars>>

-------------------------------------------------------------------------------
\* Transmitter.run(), as PacketSource allows: pages in order, no two notices in a
\* row, at most one ERROR packet and nothing behind it.
TxPut(q, no, kind) ==
    /\ txPc[q] = "work"
    /\ last[q] # "error"
    /\ last' = [last EXCEPT ![q] = kind]
    /\ rawBuf' = [rawBuf EXCEPT ![q] = Append(@, [from |-> q, no |-> no, kind |-> kind])]
    /\ UNCHANGED <<mainVars, poolPc, txPc, wanted, trPc, rawPipe, outVars>>

TxPutPage(q) ==
    /\ pages[q] < wanted[q]
    /\ TxPut(q, pages[q] + 1, "data")
    /\ pages' = [pages EXCEPT ![q] = @ + 1]
    /\ UNCHANGED faultVars

TxPutNotice(q) ==
    /\ last[q] # "info"
    /\ TxPut(q, 0, "info")
    /\ Trouble(1, faulty)
    /\ UNCHANGED pages

TxPutError(q) ==
    /\ TxPut(q, 0, "error")
    /\ Trouble(1, TRUE)
    /\ UNCHANGED pages

\* run() returns once everything was retrieved or an error was put.  An uncaught
\* exception ends it anywhere.  Either way the process flushes its buffer before
\* it is gone.
TxReturn(q) ==
    /\ txPc[q] = "work"
    /\ pages[q] = wanted[q] \/ last[q] = "error"
    /\ txPc' = [txPc EXCEPT ![q] = "flush"]
    /\ UNCHANGED <<mainVars, poolPc, wanted, pages, last, trPc, rawVars, outVars, faultVars>>

TxDies(q) ==
    /\ q \in MayDie
    /\ txPc[q] = "work"
    /\ txPc' = [txPc EXCEPT ![q] = "flush"]
    /\ Trouble(1, faulty)
    /\ UNCHANGED <<mainVars, poolPc, wanted, pages, last, trPc, rawVars, outVars>>

TxExit(q) ==
    /\ txPc[q] = "flush"
    /\ rawBuf[q] = <<>>
    /\ txPc' = [txPc EXCEPT ![q] = "gone"]
    /\ UNCHANGED <<mainVars, poolPc, wanted, pages, last, trPc, rawVars, outVars, faultVars>>

\* The feeder thread of writer w moves one message into the pipe.
RawFlush(w) ==
    /\ rawBuf[w] # <<>>
    /\ Len(rawPipe) < PipeCapacity
    /\ rawPipe' = Append(rawPipe, Head(rawBuf[w]))
    /\ rawBuf' = [rawBuf EXCEPT ![w] = Tail(@)]
    /\ UNCHANGED <<mainVars, poolPc, txVars, trPc, outVars, faultVars>>

-------------------------------------------------------------------------------
\* Translator.run().

Result(t, m, kind) == [from |-> m.from, no |-> m.no, kind |-> kind, by |-> t]

\* Mutated form: the packet of a failed dump falls through to a second put.
OutputsTwice(t, m) == {<<Result(t, m, m.kind), Result(t, m, m.kind)>>}

\* What a translator may put for packet m.  A page becomes a result or an error,
\* either possibly behind the error of a failed debug dump; other packets are
\* relayed as they are.
Outputs(t, m) ==
    IF m.kind = "data"
    THEN {<<Result(t, m, "data")>>,
          <<Result(t, m, "error")>>,
          <<Result(t, m, "writeError"), Result(t, m, "data")>>,
          <<Result(t, m, "writeError"), Result(t, m, "error")>>}
    ELSE {<<Result(t, m, m.kind)>>}

IsError(m) == m.kind \in {"error", "writeError"}

Translate(t) ==
    /\ trPc[t] = "work"
    /\ rawPipe # <<>>
    /\ Head(rawPipe) # StopSign
    /\ rawPipe' = Tail(rawPipe)
    /\ \E out \in Outputs(t, Head(rawPipe)) :
         /\ outBuf' = [outBuf EXCEPT ![t] = @ \o out]
         /\ LET errors == {i \in DOMAIN out : IsError(out[i])}
            IN  IF Head(rawPipe).kind = "data" /\ errors # {}
                THEN Trouble(Cardinality(errors), TRUE)
                ELSE UNCHANGED faultVars
    /\ UNCHANGED <<mainVars, poolPc, txVars, trPc, rawBuf, outPipe>>

\* An uncaught exception while a page is translated: no result, no STOP sign.
TranslatorDies(t) ==
    /\ t \in MayDie
    /\ trPc[t] = "work"
    /\ rawPipe # <<>>
    /\ Head(rawPipe).kind = "data"
    /\ rawPipe' = Tail(rawPipe)
    /\ trPc' = [trPc EXCEPT ![t] = "dead"]
    /\ Trouble(1, faulty)
    /\ UNCHANGED <<mainVars, poolPc, txVars, rawBuf, outVars>>

TranslatorStop(t) ==
    /\ trPc[t] = "work"
    /\ rawPipe # <<>>
    /\ Head(rawPipe) = StopSign
    /\ rawPipe' = Tail(rawPipe)
    /\ outBuf' = [outBuf EXCEPT ![t] = Append(@, StopFrom(t))]
    /\ trPc' = [trPc EXCEPT ![t] = "flush"]
    /\ UNCHANGED <<mainVars, poolPc, txVars, rawBuf, outPipe, faultVars>>

TranslatorExit(t) ==
    /\ trPc[t] \in {"flush", "dead"}
    /\ outBuf[t] = <<>>
    /\ trPc' = [trPc EXCEPT ![t] = IF @ = "flush" THEN "gone" ELSE "deadGone"]
    /\ UNCHANGED <<mainVars, poolPc, txVars, rawVars, outVars, faultVars>>

OutFlush(t) ==
    /\ outBuf[t] # <<>>
    /\ Len(outPipe) < PipeCapacity
    /\ outPipe' = Append(outPipe, Head(outBuf[t]))
    /\ outBuf' = [outBuf EXCEPT ![t] = Tail(@)]
    /\ UNCHANGED <<mainVars, poolPc, txVars, trPc, rawVars, faultVars>>

-------------------------------------------------------------------------------
\* read_translated_results() and the loop body of query_datasource().

\* Mutated form: the reader ends at the first STOP sign.
AllStopsReadEarly == stopsRead + 1 = 1

AllStopsRead == stopsRead + 1 = TranslatorCount

ReadStop ==
    /\ Head(outPipe).kind = "stop"
    /\ stopsRead' = stopsRead + 1
    /\ mainPc' = IF AllStopsRead THEN "joinPool" ELSE "read"
    /\ outcome' = IF AllStopsRead THEN "ok" ELSE outcome
    /\ UNCHANGED <<joined, ingested>>

ReadPage ==
    /\ Head(outPipe).kind = "data"
    /\ ingested' = ingested \cup {<<Head(outPipe).from, Head(outPipe).no>>}
    /\ UNCHANGED <<mainPc, stopsRead, joined, outcome>>

\* Below the level of an error: logged.
ReadNotice ==
    /\ Head(outPipe).kind = "info"
    /\ UNCHANGED mainVars

\* Mutated form: the reader logs an error and reads on.
ReadErrorOn ==
    /\ IsError(Head(outPipe))
    /\ UNCHANGED mainVars

\* DataSourceError leaves the loop through the finally clauses.
ReadError ==
    /\ IsError(Head(outPipe))
    /\ mainPc' = "joinPool"
    /\ outcome' = "error"
    /\ UNCHANGED <<stopsRead, joined, ingested>>

Read ==
    /\ mainPc = "read"
    /\ outPipe # <<>>
    /\ outPipe' = Tail(outPipe)
    /\ ReadStop \/ ReadPage \/ ReadNotice \/ ReadError
    /\ UNCHANGED <<poolPc, txVars, trPc, rawVars, outBuf, faultVars>>

\* join(2) of transmit(): the pool is gone, or still alive when the time is up,
\* and then an internal error takes the place of whatever was raised.
JoinPool ==
    /\ mainPc = "joinPool"
    /\ mainPc' = "joinTranslators"
    /\ outcome' = IF poolPc = "gone" THEN outcome ELSE "internal"
    /\ UNCHANGED <<stopsRead, joined, ingested, poolPc, txVars, trPc, rawVars,
                   outVars, faultVars>>

Gone(t) == trPc[t] \in {"gone", "deadGone"}

\* join(1) of translate(), one translator after the other.
JoinTranslator ==
    /\ mainPc = "joinTranslators"
    /\ IF Gone(joined + 1)
       THEN /\ joined' = joined + 1
            /\ mainPc' = IF joined + 1 = TranslatorCount THEN "done" ELSE mainPc
            /\ UNCHANGED outcome
       ELSE /\ mainPc' = "done"
            /\ outcome' = "internal"
            /\ UNCHANGED joined
    /\ UNCHANGED <<stopsRead, ingested, poolPc, txVars, trPc, rawVars, outVars, faultVars>>

-------------------------------------------------------------------------------
Next ==
    \/ PoolStart \/ PoolStop \/ PoolExit
    \/ \E q \in Queries :
         TxPutPage(q) \/ TxPutNotice(q) \/ TxPutError(q) \/ TxReturn(q) \/ TxDies(q) \/ TxExit(q)
    \/ \E w \in Writers : RawFlush(w)
    \/ \E t \in Translators :
         Translate(t) \/ TranslatorDies(t) \/ TranslatorStop(t) \/ TranslatorExit(t) \/ OutFlush(t)
    \/ Read \/ JoinPool \/ JoinTranslator

\* Every process and every feeder thread keeps running.  A transmitter returns
\* in the end (module Transmitter proves that of its own promise).
Fairness ==
    /\ WF_vars(PoolStart) /\ WF_vars(PoolStop) /\ WF_vars(PoolExit)
    /\ \A q \in Queries : WF_vars(TxPutPage(q) \/ TxReturn(q)) /\ WF_vars(TxExit(q))
    /\ \A w \in Writers : WF_vars(RawFlush(w))
    /\ \A t \in Translators :
         /\ WF_vars(Translate(t) \/ TranslatorStop(t))
         /\ WF_vars(TranslatorExit(t))
         /\ WF_vars(OutFlush(t))
    /\ WF_vars(Read) /\ WF_vars(JoinPool) /\ WF_vars(JoinTranslator)

SafetySpec == Init /\ [][Next]_vars

Spec == SafetySpec /\ Fairness

-------------------------------------------------------------------------------
\* Type invariant.
TypeOK ==
    /\ mainPc \in {"read", "joinPool", "joinTranslators", "done"}
    /\ stopsRead \in 0..TranslatorCount
    /\ joined \in 0..TranslatorCount
    /\ outcome \in {"none", "ok", "error", "internal"}
    /\ ingested \subseteq Queries \X (1..MaxPages)
    /\ poolPc \in {"start", "join", "flush", "gone"}
    /\ txPc \in [Queries -> {"unstarted", "work", "flush", "gone"}]
    /\ wanted \in [Queries -> 0..MaxPages]
    /\ pages \in [Queries -> 0..MaxPages]
    /\ last \in [Queries -> PacketKinds \cup {"none"}]
    /\ trPc \in [Translators -> {"work", "flush", "gone", "dead", "deadGone"}]
    /\ rawBuf \in [Writers -> Seq(Packets \cup {StopSign})]
    /\ rawPipe \in Seq(Packets \cup {StopSign})
    /\ outBuf \in [Translators -> Seq(Results \cup Stops)]
    /\ outPipe \in Seq(Results \cup Stops)
    /\ faulty \in BOOLEAN
    /\ troubles \in 0..MaxTroubles

Occurs(m, s) == \E i \in DOMAIN s : s[i] = m

\* The pool's STOP signs never overtake data: once one of them is in the raw
\* queue every transmitter is gone with its buffer flushed, and nothing but STOP
\* signs can follow in the pipe.
StopsAfterData ==
    /\ poolPc \in {"flush", "gone"} =>
         \A q \in Queries : txPc[q] = "gone" /\ rawBuf[q] = <<>>
    /\ \A i, j \in DOMAIN rawPipe :
         i < j /\ rawPipe[i] = StopSign => rawPipe[j] = StopSign

IsPage(m, q, n) == m.kind = "data" /\ m.from = q /\ m.no = n

Hits(s, q, n) == {i \in DOMAIN s : IsPage(s[i], q, n)}

\* The places where page number n of transmitter q is found.
PageCopies(q, n) ==
    LET At(place, s) == {place} \X Hits(s, q, n)
    IN  Cardinality((UNION {At(<<"translator", t>>, outBuf[t]) : t \in Translators})
                    \cup At(<<"transmitter", 0>>, rawBuf[q])
                    \cup At(<<"raw pipe", 0>>, rawPipe)
                    \cup At(<<"out pipe", 0>>, outPipe)
                    \cup {<<<<"store", 0>>, 1>> : p \in {<<q, n>>} \cap ingested})

\* No page is ever duplicated on its way through the two queues, whichever
\* translator takes it: ingesting a page twice would double its records.
AtMostOnce == \A q \in Queries, n \in 1..MaxPages : PageCopies(q, n) <= 1

\* The pages of all transmitters up to the given numbers.
AllPages == Queries \X (1..MaxPages)

PagesUpTo(count) == {p \in AllPages : p[2] <= count[p[1]]}

\* A query that ends "ok" has ingested every page the data source had for it, and
\* no worker has reported an error: the reader cannot take the STOP sign of one
\* translator for the end of the others' data.
OkMeansComplete ==
    outcome = "ok" =>
        /\ \A q \in Queries : pages[q] = wanted[q]
        /\ ingested = PagesUpTo(wanted)
        /\ ~faulty

\* When the reader has seen all STOP signs, the workers have nothing left to do:
\* buffers and pipes are empty, and the joins that follow do not wait for work.
\* (They may still time out while a worker is flushing what is read already or is
\* about to exit: then a query that has all its results is an internal error.)
NothingLeftToJoin ==
    outcome = "ok" =>
        /\ poolPc \in {"flush", "gone"} /\ rawPipe = <<>> /\ outPipe = <<>>
        /\ \A w \in Writers : rawBuf[w] = <<>>
        /\ \A t \in Translators : trPc[t] \in {"flush", "gone"} /\ outBuf[t] = <<>>

\* The processes and queues implement the promise of ResultStream.
Stream == INSTANCE ResultStream WITH
              Pages <- AllPages,
              produced <- PagesUpTo(pages),
              delivered <- ingested

ImplementsStream == Stream!StreamSpec

\* The session's process gets out of the query, whatever the workers report, unless
\* a translator has died and taken its STOP sign with it.
Returns == <>(mainPc = "done" \/ \E t \in Translators : trPc[t] \in {"dead", "deadGone"})

\* Nobody reads the results any more, and the feeder thread of translator t waits
\* for room in a full pipe.
Stranded(t) == mainPc = "done" /\ outBuf[t] # <<>> /\ Len(outPipe) = PipeCapacity

\* No worker outlives the query for ever, unless the reader has given up with the
\* pipe full: then translators with results left to write cannot exit, and only
\* they cannot.
WorkersEnd ==
    <>(/\ poolPc = "gone"
       /\ \A q \in Queries : txPc[q] = "gone"
       /\ \A t \in Translators : Gone(t) \/ Stranded(t))

===============================================================================
