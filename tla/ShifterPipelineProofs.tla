------------------------ MODULE ShifterPipelineProofs ------------------------
(***************************************************************************)
(* Proofs about the processes and queues of ShifterPipeline, for any       *)
(* number of native queries, translators and pages and any pipe capacity:  *)
(* what is in transit, the parts of the invariant, what each action does   *)
(* to the sequences of messages, one lemma per part of the invariant and   *)
(* per action that can disturb it, the inductive invariant, the safety     *)
(* properties that the runs check, and the refinement of ResultStream.     *)
(***************************************************************************)
EXTENDS ShifterPipeline, FiniteSetTheorems, TLAPS

\* The messages of a sequence, and those of all queues.
Msgs(s) == {s[i] : i \in DOMAIN s}

InTransit ==
    (UNION {Msgs(rawBuf[w]) : w \in Writers}) \cup Msgs(rawPipe)
    \cup (UNION {Msgs(outBuf[t]) : t \in Translators}) \cup Msgs(outPipe)

\* The STOP signs of the pool are out; the translators that have taken one; those
\* that took none and never will.
PoolStopped == poolPc \in {"flush", "gone"}
Stopped == {t \in Translators : trPc[t] \in {"flush", "gone"}}
Dead(t) == trPc[t] \in {"dead", "deadGone"}

\* The packets at the front of the raw pipe; behind them are STOP signs only.
StopsBehind(k) ==
    /\ \A i \in 1..k : rawPipe[i] # StopSign
    /\ \A i \in (k + 1)..Len(rawPipe) : rawPipe[i] = StopSign
    /\ Stopped # {} => k = 0
    /\ IF PoolStopped
       THEN Len(rawPipe) - k + Len(rawBuf[Pool]) + Cardinality(Stopped) = TranslatorCount
       ELSE k = Len(rawPipe) /\ Stopped = {}

\* The raw records queue: every buffer holds its writer's messages, STOP signs come
\* last, and until a translator takes them there is one for each.
RawInv ==
    /\ \A q \in Queries : \A i \in DOMAIN rawBuf[q] : rawBuf[q][i] \in Packets /\ rawBuf[q][i].from = q
    /\ \A i \in DOMAIN rawBuf[Pool] : rawBuf[Pool][i] = StopSign
    /\ \A q \in Queries : txPc[q] = "gone" => rawBuf[q] = <<>>
    /\ PoolStopped => \A q \in Queries : txPc[q] = "gone"
    /\ poolPc # "flush" => rawBuf[Pool] = <<>>
    /\ \E k \in 0..Len(rawPipe) : StopsBehind(k)

\* The STOP sign of translator t has not been read; it has.
Pending(t) == StopFrom(t) \in Msgs(outBuf[t]) \cup Msgs(outPipe)
StopRead == {t \in Stopped : ~Pending(t)}

\* The translated data queue: the STOP sign of a translator is behind all its
\* results, and the reader's count is the number of translators it has heard from.
OutInv ==
    /\ \A t \in Translators : \A i \in DOMAIN outBuf[t] :
         /\ outBuf[t][i].by = t
         /\ outBuf[t][i].kind = "stop" => i = Len(outBuf[t]) /\ t \in Stopped
    /\ \A i \in DOMAIN outPipe : outPipe[i].kind = "stop" =>
         /\ outPipe[i].by \in Stopped
         /\ outBuf[outPipe[i].by] = <<>>
         /\ \A j \in DOMAIN outPipe : i < j => outPipe[j].by # outPipe[i].by
    /\ \A t \in StopRead : outBuf[t] = <<>> /\ \A i \in DOMAIN outPipe : outPipe[i].by # t
    /\ Cardinality(StopRead) = stopsRead
    /\ \A t \in Translators : trPc[t] \in {"gone", "deadGone"} => outBuf[t] = <<>>

\* The reader's own variables.
MainInv ==
    /\ mainPc = "read" <=> outcome = "none"
    /\ mainPc = "read" => stopsRead < TranslatorCount
    /\ mainPc # "done" => joined < TranslatorCount
    /\ outcome = "ok" => stopsRead = TranslatorCount

\* An error that was put is in transit until the reader ends on it, and a
\* transmitter is gone early only because of one, or because it died.
FaultInv ==
    /\ \A q \in Queries : last[q] = "error" => faulty
    /\ \A m \in InTransit : IsError(m) => faulty
    /\ faulty => (\E m \in InTransit : IsError(m)) \/ outcome \in {"error", "internal"}
    /\ \A q \in Queries : txPc[q] \in {"flush", "gone"} =>
         pages[q] = wanted[q] \/ faulty \/ q \in MayDie

\* Page n of q is on its way.
Underway(q, n) == \E m \in InTransit : IsPage(m, q, n)

\* The pages under way or ingested are pages that were put; one that was put is
\* lost only to an error or to a dead translator.
PageInv ==
    /\ \A q \in Queries : pages[q] <= wanted[q]
    /\ \A q \in Queries, n \in Nat : Underway(q, n) \/ <<q, n>> \in ingested => n \in 1..pages[q]
    /\ \A q \in Queries : \A n \in 1..pages[q] :
         Underway(q, n) \/ <<q, n>> \in ingested \/ faulty \/ \E t \in Translators : Dead(t)

\* A sequence has page n of q; it has it once at most.
Has(s, q, n) == \E i \in DOMAIN s : IsPage(s[i], q, n)
Once(s, q, n) == \A i, j \in DOMAIN s : IsPage(s[i], q, n) /\ IsPage(s[j], q, n) => i = j

\* Page n of q is in one place at most.
OnceAt(q, n) ==
    /\ Once(rawBuf[q], q, n) /\ Once(rawPipe, q, n) /\ Once(outPipe, q, n)
    /\ \A t \in Translators : Once(outBuf[t], q, n)
    /\ Has(rawBuf[q], q, n) => ~Has(rawPipe, q, n)
    /\ Has(rawBuf[q], q, n) \/ Has(rawPipe, q, n) => ~Has(outPipe, q, n)
    /\ \A t \in Translators : Has(outBuf[t], q, n) =>
         /\ ~Has(rawBuf[q], q, n) /\ ~Has(rawPipe, q, n) /\ ~Has(outPipe, q, n)
         /\ \A u \in Translators \ {t} : ~Has(outBuf[u], q, n)
    /\ <<q, n>> \in ingested =>
         /\ ~Has(rawBuf[q], q, n) /\ ~Has(rawPipe, q, n) /\ ~Has(outPipe, q, n)
         /\ \A u \in Translators : ~Has(outBuf[u], q, n)

OnceInv == \A q \in Queries, n \in 1..MaxPages : OnceAt(q, n)

-------------------------------------------------------------------------------
(* Messages and sequences of them *)

RawMessages == Packets \cup {StopSign}
OutMessages == Results \cup Stops

LEMMA MessageFacts ==
    /\ \A m \in Packets : m.kind \in PacketKinds /\ m.kind # "stop" /\ m # StopSign /\ m.from \in Queries
    /\ StopSign.kind = "stop"
    /\ \A m \in Results : m.kind # "stop" /\ m.by \in Translators
    /\ \A m \in Stops : m.kind = "stop" /\ m = StopFrom(m.by) /\ m.by \in Translators
    /\ \A t \in Translators : StopFrom(t) \in Stops /\ StopFrom(t).kind = "stop" /\ StopFrom(t).by = t
BY DEF Packets, PacketKinds, StopSign, Results, Stops, StopFrom

LEMMA AppendFacts ==
    ASSUME NEW S, NEW s \in Seq(S), NEW m \in S
    PROVE  /\ Append(s, m) \in Seq(S) /\ Append(s, m) # <<>>
           /\ Len(s) \in Nat /\ Len(Append(s, m)) = Len(s) + 1
           /\ DOMAIN s = 1..Len(s) /\ DOMAIN Append(s, m) = 1..(Len(s) + 1)
           /\ \A i \in 1..Len(s) : Append(s, m)[i] = s[i]
           /\ Append(s, m)[Len(s) + 1] = m
OBVIOUS

LEMMA TailFacts ==
    ASSUME NEW S, NEW s \in Seq(S), s # <<>>
    PROVE  /\ Head(s) \in S /\ Head(s) = s[1] /\ Tail(s) \in Seq(S)
           /\ Len(s) \in Nat \ {0} /\ Len(Tail(s)) = Len(s) - 1
           /\ DOMAIN s = 1..Len(s) /\ DOMAIN Tail(s) = 1..(Len(s) - 1)
           /\ \A i \in 1..(Len(s) - 1) : Tail(s)[i] = s[i + 1]
OBVIOUS

LEMMA AppendMsgs ==
    ASSUME NEW S, NEW s \in Seq(S), NEW m \in S
    PROVE  Msgs(Append(s, m)) = Msgs(s) \cup {m}
<1>1. \A i \in 1..(Len(s) + 1) : i \in 1..Len(s) \/ i = Len(s) + 1
  BY AppendFacts
<1>2. \A i \in 1..Len(s) : i \in 1..(Len(s) + 1)
  BY AppendFacts
<1>3. Len(s) + 1 \in 1..(Len(s) + 1)
  BY AppendFacts
<1>4. QED
  BY <1>1, <1>2, <1>3, AppendFacts DEF Msgs

LEMMA TailMsgs ==
    ASSUME NEW S, NEW s \in Seq(S), s # <<>>
    PROVE  Msgs(s) = Msgs(Tail(s)) \cup {Head(s)}
<1>1. \A i \in DOMAIN s : s[i] = Head(s) \/ (i - 1 \in DOMAIN Tail(s) /\ Tail(s)[i - 1] = s[i])
  BY TailFacts
<1>2. \A i \in DOMAIN Tail(s) : i + 1 \in DOMAIN s /\ Tail(s)[i] = s[i + 1]
  BY TailFacts
<1>3. 1 \in DOMAIN s /\ s[1] = Head(s)
  BY TailFacts
<1>4. Msgs(s) \subseteq Msgs(Tail(s)) \cup {Head(s)}
  BY <1>1 DEF Msgs
<1>5. Msgs(Tail(s)) \subseteq Msgs(s)
  BY <1>2 DEF Msgs
<1>6. Head(s) \in Msgs(s)
  BY <1>3 DEF Msgs
<1>7. QED
  BY <1>4, <1>5, <1>6

LEMMA ConcatFacts ==
    ASSUME NEW S, NEW s \in Seq(S), NEW u \in Seq(S)
    PROVE  /\ s \o u \in Seq(S)
           /\ Len(s) \in Nat /\ Len(u) \in Nat /\ Len(s \o u) = Len(s) + Len(u)
           /\ DOMAIN s = 1..Len(s) /\ DOMAIN u = 1..Len(u) /\ DOMAIN (s \o u) = 1..(Len(s) + Len(u))
           /\ \A i \in 1..Len(s) : (s \o u)[i] = s[i]
           /\ \A i \in 1..Len(u) : (s \o u)[Len(s) + i] = u[i]
           /\ \A i \in 1..(Len(s) + Len(u)) : i \in 1..Len(s) \/ i - Len(s) \in 1..Len(u)
OBVIOUS

LEMMA ConcatMsgs ==
    ASSUME NEW S, NEW s \in Seq(S), NEW u \in Seq(S)
    PROVE  Msgs(s \o u) = Msgs(s) \cup Msgs(u)
<1>1. \A i \in DOMAIN s : i \in DOMAIN (s \o u) /\ (s \o u)[i] = s[i]
  BY ConcatFacts
<1>2. \A i \in DOMAIN u : Len(s) + i \in DOMAIN (s \o u) /\ (s \o u)[Len(s) + i] = u[i]
  BY ConcatFacts
<1>3. ASSUME NEW i \in DOMAIN (s \o u)
      PROVE  (s \o u)[i] \in Msgs(s) \cup Msgs(u)
  <2>1. i \in 1..(Len(s) + Len(u)) /\ Len(s) \in Nat /\ Len(u) \in Nat
    BY ConcatFacts
  <2>2. CASE i \in 1..Len(s)
    BY <2>2, ConcatFacts DEF Msgs
  <2>3. CASE i - Len(s) \in 1..Len(u)
    <3>1. (s \o u)[Len(s) + (i - Len(s))] = u[i - Len(s)]
      BY <2>3, ConcatFacts
    <3>2. Len(s) + (i - Len(s)) = i
      BY <2>1
    <3>3. QED
      BY <2>3, <3>1, <3>2, ConcatFacts DEF Msgs
  <2>4. QED
    BY <2>1, <2>2, <2>3, ConcatFacts
<1>4. Msgs(s) \subseteq Msgs(s \o u)
  BY <1>1 DEF Msgs
<1>5. Msgs(u) \subseteq Msgs(s \o u)
  BY <1>2 DEF Msgs
<1>6. Msgs(s \o u) \subseteq Msgs(s) \cup Msgs(u)
  BY <1>3 DEF Msgs
<1>7. QED
  BY <1>4, <1>5, <1>6

\* What a translator puts for a packet.
LEMMA OutputsFacts ==
    ASSUME NEW t \in Translators, NEW m \in Packets, NEW out \in Outputs(t, m)
    PROVE  /\ out \in Seq(Results)
           /\ \A r \in Msgs(out) : r \in Results /\ r.by = t /\ r.from = m.from /\ r.no = m.no
           /\ m.kind # "data" => \E r \in Msgs(out) : r.kind = m.kind
           /\ m.kind # "data" => \A r \in Msgs(out) : r.kind = m.kind
           /\ m.kind = "data" =>
                \/ \E r \in Msgs(out) : r.kind = "data" 
                \/ \E r \in Msgs(out) : IsError(r)
           /\ \A i, j \in DOMAIN out : out[i].kind = "data" /\ out[j].kind = "data" => i = j
<1>1. /\ m.kind \in PacketKinds /\ m.from \in Queries /\ m.no \in 0..MaxPages
  BY DEF Packets
<1>2. \A k \in PacketKinds \cup {"writeError"} :
        /\ Result(t, m, k) \in Results /\ Result(t, m, k).by = t /\ Result(t, m, k).kind = k
        /\ Result(t, m, k).from = m.from /\ Result(t, m, k).no = m.no
  BY <1>1 DEF Result, Results
<1>3. ASSUME NEW k \in PacketKinds, out = <<Result(t, m, k)>>
      PROVE  /\ out \in Seq(Results) /\ Msgs(out) = {Result(t, m, k)} /\ DOMAIN out = {1}
  BY <1>2, <1>3 DEF Msgs
<1>4. ASSUME NEW k \in PacketKinds, out = <<Result(t, m, "writeError"), Result(t, m, k)>>
      PROVE  /\ out \in Seq(Results) /\ Msgs(out) = {Result(t, m, "writeError"), Result(t, m, k)}
             /\ DOMAIN out = {1, 2} /\ out[1].kind = "writeError"
  <2>1. Result(t, m, "writeError") \in Results /\ Result(t, m, k) \in Results
    BY <1>2
  <2>2. DOMAIN out = {1, 2} /\ out[1] = Result(t, m, "writeError") /\ out[2] = Result(t, m, k)
    BY <1>4
  <2>3. out \in Seq(Results)
    BY <1>4, <2>1
  <2>4. QED
    BY <1>2, <2>2, <2>3 DEF Msgs
<1>5. CASE m.kind # "data"
  <2>1. out = <<Result(t, m, m.kind)>>
    BY <1>5 DEF Outputs
  <2>2. QED
    BY <1>1, <1>2, <1>3, <1>5, <2>1
<1>6. CASE m.kind = "data"
  <2>1. PICK k \in {"data", "error"} :
          out = <<Result(t, m, k)>> \/ out = <<Result(t, m, "writeError"), Result(t, m, k)>>
    BY <1>6 DEF Outputs
  <2>2. k \in PacketKinds
    BY DEF PacketKinds
  <2>3. CASE out = <<Result(t, m, k)>>
    BY <1>2, <1>3, <1>6, <2>2, <2>3 DEF IsError
  <2>4. CASE out = <<Result(t, m, "writeError"), Result(t, m, k)>>
    BY <1>2, <1>4, <1>6, <2>2, <2>4 DEF IsError
  <2>5. QED
    BY <2>1, <2>3, <2>4
<1>7. QED
  BY <1>5, <1>6

-------------------------------------------------------------------------------
(* Types *)

LEMMA InitTypeOK == Init => TypeOK
<1> SUFFICES ASSUME Init PROVE TypeOK
  OBVIOUS
<1>1. rawBuf \in [Writers -> Seq(Packets \cup {StopSign})] /\ rawPipe \in Seq(Packets \cup {StopSign})
  BY DEF Init
<1>2. outBuf \in [Translators -> Seq(Results \cup Stops)] /\ outPipe \in Seq(Results \cup Stops)
  BY DEF Init
<1>3. stopsRead \in 0..TranslatorCount /\ joined \in 0..TranslatorCount /\ troubles \in 0..MaxTroubles
      /\ pages \in [Queries -> 0..MaxPages]
  BY PipelineAssumption DEF Init
<1>4. QED
  BY <1>1, <1>2, <1>3 DEF Init, TypeOK

LEMMA StopSignsFacts ==
    /\ StopSigns(TranslatorCount) \in Seq(RawMessages)
    /\ Len(StopSigns(TranslatorCount)) = TranslatorCount
    /\ \A i \in DOMAIN StopSigns(TranslatorCount) : StopSigns(TranslatorCount)[i] = StopSign
BY PipelineAssumption DEF StopSigns, RawMessages

\* The packet of a TxPut is one of its query.
LEMMA TxPutFacts ==
    ASSUME TypeOK, NEW q \in Queries, NEW no \in 0..MaxPages, NEW kind \in PacketKinds, TxPut(q, no, kind)
    PROVE  /\ [from |-> q, no |-> no, kind |-> kind] \in Packets
           /\ rawBuf' \in [Writers -> Seq(RawMessages)]
           /\ rawBuf'[q] = Append(rawBuf[q], [from |-> q, no |-> no, kind |-> kind])
           /\ \A w \in Writers \ {q} : rawBuf'[w] = rawBuf[w]
           /\ last' \in [Queries -> PacketKinds \cup {"none"}]
<1> DEFINE m == [from |-> q, no |-> no, kind |-> kind]
<1>1. m \in Packets
  BY DEF Packets
<1>2. q \in Writers /\ rawBuf \in [Writers -> Seq(RawMessages)]
  BY DEF Writers, TypeOK, RawMessages
<1>3. rawBuf' = [rawBuf EXCEPT ![q] = Append(rawBuf[q], m)]
  BY DEF TxPut
<1> HIDE DEF m
<1>4. Append(rawBuf[q], m) \in Seq(RawMessages)
  BY <1>1, <1>2, AppendFacts DEF RawMessages
<1>5. last' \in [Queries -> PacketKinds \cup {"none"}]
  BY DEF TxPut, TypeOK
<1>6. QED
  BY <1>1, <1>2, <1>3, <1>4, <1>5 DEF m

LEMMA TxTypeOK ==
    ASSUME TypeOK, NEW q \in Queries,
           TxPutPage(q) \/ TxPutNotice(q) \/ TxPutError(q) \/ TxReturn(q) \/ TxDies(q) \/ TxExit(q)
    PROVE  TypeOK'
<1>1. pages[q] \in Nat /\ wanted[q] \in 0..MaxPages /\ troubles \in Nat /\ MaxTroubles \in Nat
  BY PipelineAssumption DEF TypeOK
<1>2. CASE TxPutPage(q)
  <2>1. pages[q] + 1 \in 0..MaxPages /\ "data" \in PacketKinds
    BY <1>1, <1>2, PipelineAssumption DEF TxPutPage, PacketKinds
  <2>2. TxPut(q, pages[q] + 1, "data") /\ pages' \in [Queries -> 0..MaxPages] /\ UNCHANGED faultVars
    BY <1>2, <2>1 DEF TxPutPage, TypeOK
  <2>3. rawBuf' \in [Writers -> Seq(RawMessages)] /\ last' \in [Queries -> PacketKinds \cup {"none"}]
    BY <2>1, <2>2, TxPutFacts
  <2>4. QED
    BY <2>2, <2>3 DEF TxPut, TypeOK, RawMessages, mainVars, outVars, faultVars
<1>3. CASE TxPutNotice(q) \/ TxPutError(q)
  <2>1. 0 \in 0..MaxPages /\ {"info", "error"} \subseteq PacketKinds
    BY PipelineAssumption DEF PacketKinds
  <2>2. PICK kind \in {"info", "error"} : TxPut(q, 0, kind)
    BY <1>3 DEF TxPutNotice, TxPutError
  <2>3. rawBuf' \in [Writers -> Seq(RawMessages)] /\ last' \in [Queries -> PacketKinds \cup {"none"}]
    BY <2>1, <2>2, TxPutFacts
  <2>4. troubles' \in 0..MaxTroubles /\ faulty' \in BOOLEAN /\ UNCHANGED pages
    <3>1. faulty \in BOOLEAN
      BY DEF TypeOK
    <3>2. CASE TxPutNotice(q)
      <4>1. Trouble(1, faulty) /\ UNCHANGED pages
        BY <3>2 DEF TxPutNotice
      <4>2. QED
        BY <1>1, <3>1, <4>1 DEF Trouble
    <3>3. CASE TxPutError(q)
      <4>1. Trouble(1, TRUE) /\ UNCHANGED pages
        BY <3>3 DEF TxPutError
      <4>2. QED
        BY <1>1, <4>1 DEF Trouble
    <3>4. QED
      BY <1>3, <3>2, <3>3
  <2>5. QED
    BY <2>2, <2>3, <2>4 DEF TxPut, TypeOK, RawMessages, mainVars, outVars
<1>4. CASE TxReturn(q)
  BY <1>4 DEF TxReturn, TypeOK, mainVars, rawVars, outVars, faultVars
<1>5. CASE TxDies(q)
  <2>1. troubles' \in 0..MaxTroubles /\ faulty' \in BOOLEAN
    BY <1>1, <1>5 DEF TxDies, Trouble, TypeOK
  <2>2. QED
    BY <1>5, <2>1 DEF TxDies, TypeOK, mainVars, rawVars, outVars
<1>6. CASE TxExit(q)
  BY <1>6 DEF TxExit, TypeOK, mainVars, rawVars, outVars, faultVars
<1>7. QED
  BY <1>2, <1>3, <1>4, <1>5, <1>6

LEMMA PoolTypeOK ==
    ASSUME TypeOK, PoolStart \/ PoolStop \/ PoolExit
    PROVE  TypeOK'
<1>1. CASE PoolStart
  BY <1>1 DEF PoolStart, TypeOK, mainVars, rawVars, outVars, faultVars
<1>2. CASE PoolStop
  <2>1. rawBuf' \in [Writers -> Seq(RawMessages)]
    BY <1>2, StopSignsFacts DEF PoolStop, TypeOK, RawMessages
  <2>2. QED
    BY <1>2, <2>1 DEF PoolStop, TypeOK, RawMessages, mainVars, txVars, outVars, faultVars
<1>3. CASE PoolExit
  BY <1>3 DEF PoolExit, TypeOK, mainVars, txVars, rawVars, outVars, faultVars
<1>4. QED
  BY <1>1, <1>2, <1>3

LEMMA RawFlushFacts ==
    ASSUME TypeOK, NEW w \in Writers, RawFlush(w)
    PROVE  /\ rawBuf[w] \in Seq(RawMessages) /\ rawPipe \in Seq(RawMessages)
           /\ rawBuf[w] # <<>> /\ rawBuf'[w] = Tail(rawBuf[w])
           /\ Head(rawBuf[w]) \in RawMessages
           /\ rawPipe' = Append(rawPipe, Head(rawBuf[w]))
           /\ rawBuf' \in [Writers -> Seq(RawMessages)] /\ rawPipe' \in Seq(RawMessages)
           /\ \A u \in Writers \ {w} : rawBuf'[u] = rawBuf[u]
<1>1. rawBuf \in [Writers -> Seq(RawMessages)] /\ rawPipe \in Seq(RawMessages)
  BY DEF TypeOK, RawMessages
<1>2. /\ rawBuf[w] # <<>> /\ rawPipe' = Append(rawPipe, Head(rawBuf[w]))
      /\ rawBuf' = [rawBuf EXCEPT ![w] = Tail(rawBuf[w])]
  BY DEF RawFlush
<1>3. Head(rawBuf[w]) \in RawMessages /\ Tail(rawBuf[w]) \in Seq(RawMessages)
  BY <1>1, <1>2, TailFacts
<1>4. rawPipe' \in Seq(RawMessages)
  BY <1>1, <1>2, <1>3, AppendFacts
<1>5. QED
  BY <1>1, <1>2, <1>3, <1>4

LEMMA OutFlushFacts ==
    ASSUME TypeOK, NEW t \in Translators, OutFlush(t)
    PROVE  /\ outBuf[t] \in Seq(OutMessages) /\ outPipe \in Seq(OutMessages)
           /\ outBuf[t] # <<>> /\ outBuf'[t] = Tail(outBuf[t])
           /\ Head(outBuf[t]) \in OutMessages
           /\ outPipe' = Append(outPipe, Head(outBuf[t]))
           /\ outBuf' \in [Translators -> Seq(OutMessages)] /\ outPipe' \in Seq(OutMessages)
           /\ \A u \in Translators \ {t} : outBuf'[u] = outBuf[u]
<1>1. outBuf \in [Translators -> Seq(OutMessages)] /\ outPipe \in Seq(OutMessages)
  BY DEF TypeOK, OutMessages
<1>2. /\ outBuf[t] # <<>> /\ outPipe' = Append(outPipe, Head(outBuf[t]))
      /\ outBuf' = [outBuf EXCEPT ![t] = Tail(outBuf[t])]
  BY DEF OutFlush
<1>3. Head(outBuf[t]) \in OutMessages /\ Tail(outBuf[t]) \in Seq(OutMessages)
  BY <1>1, <1>2, TailFacts
<1>4. outPipe' \in Seq(OutMessages)
  BY <1>1, <1>2, <1>3, AppendFacts
<1>5. QED
  BY <1>1, <1>2, <1>3, <1>4

\* A translator takes the packet at the front of the raw pipe.
LEMMA TranslateFacts ==
    ASSUME TypeOK, NEW t \in Translators, Translate(t)
    PROVE  /\ rawPipe \in Seq(RawMessages) /\ rawPipe # <<>> /\ rawPipe' = Tail(rawPipe)
           /\ Head(rawPipe) \in Packets /\ rawPipe' \in Seq(RawMessages)
           /\ outBuf[t] \in Seq(OutMessages) /\ outBuf' \in [Translators -> Seq(OutMessages)]
           /\ \A u \in Translators \ {t} : outBuf'[u] = outBuf[u]
           /\ troubles' \in 0..MaxTroubles /\ faulty' \in BOOLEAN
           /\ \E out \in Outputs(t, Head(rawPipe)) :
                /\ outBuf'[t] = outBuf[t] \o out
                /\ out \in Seq(OutMessages)
                /\ IF Head(rawPipe).kind = "data" /\ (\E r \in Msgs(out) : IsError(r))
                   THEN faulty' = TRUE
                   ELSE faulty' = faulty
<1>1. /\ rawPipe \in Seq(RawMessages) /\ rawPipe # <<>> /\ rawPipe' = Tail(rawPipe)
      /\ Head(rawPipe) # StopSign
      /\ outBuf \in [Translators -> Seq(OutMessages)]
  BY DEF Translate, TypeOK, RawMessages, OutMessages
<1>2. Head(rawPipe) \in Packets /\ rawPipe' \in Seq(RawMessages)
  BY <1>1, TailFacts DEF RawMessages
<1>3. PICK out \in Outputs(t, Head(rawPipe)) :
        /\ outBuf' = [outBuf EXCEPT ![t] = outBuf[t] \o out]
        /\ LET errors == {i \in DOMAIN out : IsError(out[i])}
           IN  IF Head(rawPipe).kind = "data" /\ errors # {}
               THEN Trouble(Cardinality(errors), TRUE)
               ELSE UNCHANGED faultVars
  BY DEF Translate
<1>4. out \in Seq(Results) /\ out \in Seq(OutMessages)
  <2>1. out \in Seq(Results)
    BY <1>2, OutputsFacts
  <2>2. QED
    BY <2>1 DEF OutMessages
<1> DEFINE errors == {i \in DOMAIN out : IsError(out[i])}
<1>5. errors # {} <=> \E r \in Msgs(out) : IsError(r)
  BY DEF Msgs
<1>6. IsFiniteSet(errors) /\ Cardinality(errors) \in Nat
  <2>1. errors \subseteq 1..Len(out) /\ Len(out) \in Nat
    BY <1>4
  <2>2. IsFiniteSet(1..Len(out))
    BY <2>1, FS_Interval
  <2>3. QED
    BY <2>1, <2>2, FS_Subset, FS_CardinalityType
<1>7. CASE Head(rawPipe).kind = "data" /\ errors # {}
  <2>1. Trouble(Cardinality(errors), TRUE)
    BY <1>3, <1>7
  <2>2. troubles \in Nat /\ MaxTroubles \in Nat
    BY PipelineAssumption DEF TypeOK
  <2> HIDE DEF errors
  <2>3. troubles' \in 0..MaxTroubles /\ faulty' = TRUE
    BY <1>6, <2>1, <2>2 DEF Trouble
  <2>4. outBuf[t] \o out \in Seq(OutMessages) /\ outBuf[t] \in Seq(OutMessages)
    BY <1>1, <1>4
  <2>5. QED
    BY <1>1, <1>2, <1>3, <1>4, <1>5, <1>7, <2>3, <2>4
<1>8. CASE ~(Head(rawPipe).kind = "data" /\ errors # {})
  <2>1. UNCHANGED faultVars
    BY <1>3, <1>8
  <2> HIDE DEF errors
  <2>2. troubles' \in 0..MaxTroubles /\ faulty' = faulty /\ faulty \in BOOLEAN
    BY <2>1 DEF faultVars, TypeOK
  <2>3. outBuf[t] \o out \in Seq(OutMessages) /\ outBuf[t] \in Seq(OutMessages)
    BY <1>1, <1>4
  <2>4. QED
    BY <1>1, <1>2, <1>3, <1>4, <1>5, <1>8, <2>2, <2>3
<1>9. QED
  BY <1>7, <1>8

LEMMA TranslatorStopFacts ==
    ASSUME TypeOK, NEW t \in Translators, TranslatorStop(t)
    PROVE  /\ rawPipe \in Seq(RawMessages) /\ rawPipe # <<>> /\ rawPipe' = Tail(rawPipe)
           /\ Head(rawPipe) = StopSign /\ rawPipe' \in Seq(RawMessages)
           /\ outBuf[t] \in Seq(OutMessages) /\ StopFrom(t) \in OutMessages
           /\ outBuf'[t] = Append(outBuf[t], StopFrom(t))
           /\ outBuf' \in [Translators -> Seq(OutMessages)]
           /\ \A u \in Translators \ {t} : outBuf'[u] = outBuf[u]
<1>1. /\ rawPipe \in Seq(RawMessages) /\ rawPipe # <<>> /\ rawPipe' = Tail(rawPipe)
      /\ Head(rawPipe) = StopSign
      /\ outBuf \in [Translators -> Seq(OutMessages)]
      /\ outBuf' = [outBuf EXCEPT ![t] = Append(outBuf[t], StopFrom(t))]
  BY DEF TranslatorStop, TypeOK, RawMessages, OutMessages
<1>2. StopFrom(t) \in OutMessages
  BY MessageFacts DEF OutMessages
<1>3. Append(outBuf[t], StopFrom(t)) \in Seq(OutMessages) /\ Tail(rawPipe) \in Seq(RawMessages)
  BY <1>1, <1>2, AppendFacts, TailFacts
<1>4. QED
  BY <1>1, <1>2, <1>3

LEMMA TranslatorTypeOK ==
    ASSUME TypeOK, NEW t \in Translators,
           Translate(t) \/ TranslatorDies(t) \/ TranslatorStop(t) \/ TranslatorExit(t) \/ OutFlush(t)
    PROVE  TypeOK'
<1>1. CASE Translate(t)
  <2>1. /\ rawPipe' \in Seq(RawMessages) /\ outBuf' \in [Translators -> Seq(OutMessages)]
        /\ troubles' \in 0..MaxTroubles /\ faulty' \in BOOLEAN
    BY <1>1, TranslateFacts
  <2>2. UNCHANGED <<mainVars, poolPc, txVars, trPc, rawBuf, outPipe>>
    BY <1>1 DEF Translate
  <2>3. QED
    BY <2>1, <2>2 DEF TypeOK, RawMessages, OutMessages, mainVars, txVars
<1>2. CASE TranslatorDies(t)
  <2>1. rawPipe' \in Seq(RawMessages)
    BY <1>2, TailFacts DEF TranslatorDies, TypeOK, RawMessages
  <2>2. troubles' \in 0..MaxTroubles /\ faulty' \in BOOLEAN
    BY <1>2, PipelineAssumption DEF TranslatorDies, Trouble, TypeOK
  <2>3. trPc' \in [Translators -> {"work", "flush", "gone", "dead", "deadGone"}]
    BY <1>2 DEF TranslatorDies, TypeOK
  <2>4. UNCHANGED <<mainVars, poolPc, txVars, rawBuf, outVars>>
    BY <1>2 DEF TranslatorDies
  <2>5. QED
    BY <2>1, <2>2, <2>3, <2>4 DEF TypeOK, RawMessages, mainVars, txVars, outVars
<1>3. CASE TranslatorStop(t)
  <2>1. rawPipe' \in Seq(RawMessages) /\ outBuf' \in [Translators -> Seq(OutMessages)]
    BY <1>3, TranslatorStopFacts
  <2>2. trPc' \in [Translators -> {"work", "flush", "gone", "dead", "deadGone"}]
    BY <1>3 DEF TranslatorStop, TypeOK
  <2>3. UNCHANGED <<mainVars, poolPc, txVars, rawBuf, outPipe, faultVars>>
    BY <1>3 DEF TranslatorStop
  <2>4. QED
    BY <2>1, <2>2, <2>3 DEF TypeOK, RawMessages, OutMessages, mainVars, txVars, faultVars
<1>4. CASE TranslatorExit(t)
  <2>1. trPc' \in [Translators -> {"work", "flush", "gone", "dead", "deadGone"}]
    BY <1>4 DEF TranslatorExit, TypeOK
  <2>2. UNCHANGED <<mainVars, poolPc, txVars, rawVars, outVars, faultVars>>
    BY <1>4 DEF TranslatorExit
  <2>3. QED
    BY <2>1, <2>2 DEF TypeOK, mainVars, txVars, rawVars, outVars, faultVars
<1>5. CASE OutFlush(t)
  <2>1. outBuf' \in [Translators -> Seq(OutMessages)] /\ outPipe' \in Seq(OutMessages)
    BY <1>5, OutFlushFacts
  <2>2. UNCHANGED <<mainVars, poolPc, txVars, trPc, rawVars, faultVars>>
    BY <1>5 DEF OutFlush
  <2>3. QED
    BY <2>1, <2>2 DEF TypeOK, OutMessages, mainVars, txVars, rawVars, faultVars
<1>6. QED
  BY <1>1, <1>2, <1>3, <1>4, <1>5

-------------------------------------------------------------------------------
(* How a step changes what is in transit *)

LEMMA UnionOfMsgs ==
    ASSUME NEW W, NEW f, NEW m
    PROVE  m \in UNION {Msgs(f[w]) : w \in W} <=> \E w \in W : m \in Msgs(f[w])
OBVIOUS

\* Both for a state and for its successor.
LEMMA InTransitIs ==
    /\ \A m : m \in InTransit <=>
         \/ \E w \in Writers : m \in Msgs(rawBuf[w])
         \/ m \in Msgs(rawPipe) \/ m \in Msgs(outPipe)
         \/ \E t \in Translators : m \in Msgs(outBuf[t])
    /\ \A m : m \in InTransit' <=>
         \/ \E w \in Writers : m \in Msgs(rawBuf'[w])
         \/ m \in Msgs(rawPipe') \/ m \in Msgs(outPipe')
         \/ \E t \in Translators : m \in Msgs(outBuf'[t])
<1>1. ASSUME NEW m
      PROVE  m \in InTransit <=>
               \/ \E w \in Writers : m \in Msgs(rawBuf[w])
               \/ m \in Msgs(rawPipe) \/ m \in Msgs(outPipe)
               \/ \E t \in Translators : m \in Msgs(outBuf[t])
  <2> DEFINE A == UNION {Msgs(rawBuf[w]) : w \in Writers}
             B == UNION {Msgs(outBuf[t]) : t \in Translators}
  <2>1. m \in A <=> \E w \in Writers : m \in Msgs(rawBuf[w])
    BY UnionOfMsgs
  <2>2. m \in B <=> \E t \in Translators : m \in Msgs(outBuf[t])
    BY UnionOfMsgs
  <2>3. InTransit = A \cup Msgs(rawPipe) \cup B \cup Msgs(outPipe)
    BY DEF InTransit
  <2> HIDE DEF A, B
  <2>4. QED
    BY <2>1, <2>2, <2>3
<1>2. ASSUME NEW m
      PROVE  m \in InTransit' <=>
               \/ \E w \in Writers : m \in Msgs(rawBuf'[w])
               \/ m \in Msgs(rawPipe') \/ m \in Msgs(outPipe')
               \/ \E t \in Translators : m \in Msgs(outBuf'[t])
  <2> DEFINE A == UNION {Msgs(rawBuf'[w]) : w \in Writers}
             B == UNION {Msgs(outBuf'[t]) : t \in Translators}
  <2>1. m \in A <=> \E w \in Writers : m \in Msgs(rawBuf'[w])
    BY UnionOfMsgs
  <2>2. m \in B <=> \E t \in Translators : m \in Msgs(outBuf'[t])
    BY UnionOfMsgs
  <2>3. InTransit' = A \cup Msgs(rawPipe') \cup B \cup Msgs(outPipe')
    BY DEF InTransit
  <2> HIDE DEF A, B
  <2>4. QED
    BY <2>1, <2>2, <2>3
<1>3. QED
  BY <1>1, <1>2

LEMMA TransitOfTxPut ==
    ASSUME TypeOK, NEW q \in Queries, NEW no \in 0..MaxPages, NEW kind \in PacketKinds, TxPut(q, no, kind)
    PROVE  InTransit' = InTransit \cup {[from |-> q, no |-> no, kind |-> kind]}
<1> DEFINE m == [from |-> q, no |-> no, kind |-> kind]
<1>1. /\ m \in RawMessages /\ rawBuf[q] \in Seq(RawMessages)
      /\ rawBuf'[q] = Append(rawBuf[q], m)
      /\ \A w \in Writers \ {q} : rawBuf'[w] = rawBuf[w]
      /\ q \in Writers
      /\ UNCHANGED <<rawPipe, outBuf, outPipe>>
  BY TxPutFacts DEF TxPut, outVars, TypeOK, RawMessages, Writers
<1> HIDE DEF m
<1>2. Msgs(rawBuf'[q]) = Msgs(rawBuf[q]) \cup {m}
  BY <1>1, AppendMsgs
<1>3. \A w \in Writers \ {q} : Msgs(rawBuf'[w]) = Msgs(rawBuf[w])
  BY <1>1
<1>5. QED
  BY <1>1, <1>2, <1>3, InTransitIs DEF m

LEMMA TransitOfPoolStop ==
    ASSUME TypeOK, PoolStop, rawBuf[Pool] = <<>>
    PROVE  InTransit \subseteq InTransit' /\ InTransit' \subseteq InTransit \cup {StopSign}
<1>1. /\ rawBuf'[Pool] = StopSigns(TranslatorCount) /\ Pool \in Writers
      /\ \A w \in Writers \ {Pool} : rawBuf'[w] = rawBuf[w]
      /\ UNCHANGED <<rawPipe, outBuf, outPipe>>
  BY DEF PoolStop, TypeOK, Writers, outVars
<1>2. Msgs(rawBuf'[Pool]) \subseteq {StopSign} /\ Msgs(rawBuf[Pool]) = {}
  BY <1>1, StopSignsFacts DEF Msgs
<1>3. \A w \in Writers : Msgs(rawBuf'[w]) \subseteq Msgs(rawBuf[w]) \cup {StopSign}
                         /\ Msgs(rawBuf[w]) \subseteq Msgs(rawBuf'[w])
  BY <1>1, <1>2
<1>4. QED
  BY <1>1, <1>3, InTransitIs

LEMMA TransitOfRawFlush ==
    ASSUME TypeOK, NEW w \in Writers, RawFlush(w)
    PROVE  InTransit' = InTransit
<1>1. Msgs(rawBuf[w]) = Msgs(rawBuf'[w]) \cup {Head(rawBuf[w])}
  BY RawFlushFacts, TailMsgs
<1>2. Msgs(rawPipe') = Msgs(rawPipe) \cup {Head(rawBuf[w])}
  <2>1. rawPipe \in Seq(RawMessages) /\ Head(rawBuf[w]) \in RawMessages
        /\ rawPipe' = Append(rawPipe, Head(rawBuf[w]))
    BY RawFlushFacts
  <2>2. QED
    BY <2>1, AppendMsgs
<1>3. \A u \in Writers \ {w} : Msgs(rawBuf'[u]) = Msgs(rawBuf[u])
  BY RawFlushFacts
<1>5. UNCHANGED <<outBuf, outPipe>>
  BY DEF RawFlush, outVars
<1>6. QED
  BY <1>1, <1>2, <1>3, <1>5, InTransitIs

LEMMA TransitOfOutFlush ==
    ASSUME TypeOK, NEW t \in Translators, OutFlush(t)
    PROVE  InTransit' = InTransit
<1>1. Msgs(outBuf[t]) = Msgs(outBuf'[t]) \cup {Head(outBuf[t])}
  BY OutFlushFacts, TailMsgs
<1>2. Msgs(outPipe') = Msgs(outPipe) \cup {Head(outBuf[t])}
  <2>1. outPipe \in Seq(OutMessages) /\ Head(outBuf[t]) \in OutMessages
        /\ outPipe' = Append(outPipe, Head(outBuf[t]))
    BY OutFlushFacts
  <2>2. QED
    BY <2>1, AppendMsgs
<1>3. \A u \in Translators \ {t} : Msgs(outBuf'[u]) = Msgs(outBuf[u])
  BY OutFlushFacts
<1>5. UNCHANGED <<rawBuf, rawPipe>>
  BY DEF OutFlush, rawVars
<1>6. QED
  BY <1>1, <1>2, <1>3, <1>5, InTransitIs

LEMMA TransitOfTranslate ==
    ASSUME TypeOK, NEW t \in Translators, Translate(t),
           NEW out \in Seq(OutMessages), outBuf'[t] = outBuf[t] \o out
    PROVE  /\ Head(rawPipe) \in InTransit
           /\ InTransit \subseteq InTransit' \cup {Head(rawPipe)}
           /\ InTransit' \subseteq InTransit \cup Msgs(out)
           /\ Msgs(out) \subseteq InTransit'
<1>1. Msgs(rawPipe) = Msgs(rawPipe') \cup {Head(rawPipe)}
  BY TranslateFacts, TailMsgs
<1>2. Msgs(outBuf'[t]) = Msgs(outBuf[t]) \cup Msgs(out)
  <2>1. outBuf[t] \in Seq(OutMessages)
    BY TranslateFacts
  <2>2. QED
    BY <2>1, ConcatMsgs
<1>3. \A u \in Translators \ {t} : Msgs(outBuf'[u]) = Msgs(outBuf[u])
  BY TranslateFacts
<1>5. UNCHANGED <<rawBuf, outPipe>>
  BY DEF Translate
<1>6. QED
  BY <1>1, <1>2, <1>3, <1>5, InTransitIs

LEMMA TransitOfTranslatorDies ==
    ASSUME TypeOK, NEW t \in Translators, TranslatorDies(t)
    PROVE  /\ InTransit \subseteq InTransit' \cup {Head(rawPipe)}
           /\ InTransit' \subseteq InTransit
<1>1. /\ rawPipe \in Seq(RawMessages) /\ rawPipe # <<>> /\ rawPipe' = Tail(rawPipe)
      /\ UNCHANGED <<rawBuf, outBuf, outPipe>>
  BY DEF TranslatorDies, TypeOK, RawMessages, outVars
<1>2. Msgs(rawPipe) = Msgs(rawPipe') \cup {Head(rawPipe)}
  BY <1>1, TailMsgs
<1>3. QED
  BY <1>1, <1>2, InTransitIs

LEMMA TransitOfTranslatorStop ==
    ASSUME TypeOK, NEW t \in Translators, TranslatorStop(t)
    PROVE  /\ InTransit \subseteq InTransit' \cup {StopSign}
           /\ InTransit' \subseteq InTransit \cup {StopFrom(t)}
<1>1. Msgs(rawPipe) = Msgs(rawPipe') \cup {StopSign}
  BY TranslatorStopFacts, TailMsgs
<1>2. Msgs(outBuf'[t]) = Msgs(outBuf[t]) \cup {StopFrom(t)}
  <2>1. outBuf[t] \in Seq(OutMessages) /\ StopFrom(t) \in OutMessages
        /\ outBuf'[t] = Append(outBuf[t], StopFrom(t))
    BY TranslatorStopFacts
  <2>2. QED
    BY <2>1, AppendMsgs
<1>3. \A u \in Translators \ {t} : Msgs(outBuf'[u]) = Msgs(outBuf[u])
  BY TranslatorStopFacts
<1>5. UNCHANGED <<rawBuf, outPipe>>
  BY DEF TranslatorStop
<1>6. QED
  BY <1>1, <1>2, <1>3, <1>5, InTransitIs

\* The reader takes one message.
LEMMA ReadFacts ==
    ASSUME TypeOK, Read
    PROVE  /\ outPipe \in Seq(OutMessages) /\ outPipe # <<>> /\ outPipe' = Tail(outPipe)
           /\ Head(outPipe) \in OutMessages /\ outPipe' \in Seq(OutMessages)
           /\ UNCHANGED <<poolPc, txVars, trPc, rawVars, outBuf, faultVars>>
<1>1. /\ outPipe \in Seq(OutMessages) /\ outPipe # <<>> /\ outPipe' = Tail(outPipe)
      /\ UNCHANGED <<poolPc, txVars, trPc, rawVars, outBuf, faultVars>>
  BY DEF Read, TypeOK, OutMessages
<1>2. QED
  BY <1>1, TailFacts

LEMMA TransitOfRead ==
    ASSUME TypeOK, Read
    PROVE  /\ Head(outPipe) \in InTransit
           /\ InTransit \subseteq InTransit' \cup {Head(outPipe)}
           /\ InTransit' \subseteq InTransit
<1>1. Msgs(outPipe) = Msgs(outPipe') \cup {Head(outPipe)}
  BY ReadFacts, TailMsgs
<1>2. UNCHANGED <<rawBuf, rawPipe, outBuf>>
  BY ReadFacts DEF rawVars
<1>3. QED
  BY <1>1, <1>2, InTransitIs

-------------------------------------------------------------------------------
(* The translators that have taken a STOP sign *)

LEMMA StoppedFacts ==
    /\ IsFiniteSet(Translators) /\ Cardinality(Translators) = TranslatorCount
    /\ IsFiniteSet(Stopped) /\ Cardinality(Stopped) \in Nat
    /\ IsFiniteSet(StopRead) /\ Cardinality(StopRead) \in Nat
<1>1. IsFiniteSet(Translators) /\ Cardinality(Translators) = TranslatorCount
  BY PipelineAssumption, FS_Interval DEF Translators
<1>2. Stopped \subseteq Translators /\ StopRead \subseteq Translators
  BY DEF Stopped, StopRead
<1>3. QED
  BY <1>1, <1>2, FS_Subset, FS_CardinalityType

LEMMA TrPcFacts ==
    ASSUME TypeOK
    PROVE  /\ \A t \in Translators : trPc[t] = "work" => t \notin Stopped
           /\ \A t \in Translators : TranslatorDies(t) => Stopped' = Stopped
           /\ \A t \in Translators : TranslatorExit(t) => Stopped' = Stopped
           /\ \A t \in Translators : TranslatorStop(t) => Stopped' = Stopped \cup {t} /\ t \notin Stopped
<1>1. trPc \in [Translators -> {"work", "flush", "gone", "dead", "deadGone"}]
  BY DEF TypeOK
<1>2. ASSUME NEW t \in Translators, TranslatorDies(t) PROVE Stopped' = Stopped
  <2>1. trPc[t] = "work" /\ trPc' = [trPc EXCEPT ![t] = "dead"]
    BY <1>2 DEF TranslatorDies
  <2>2. QED
    BY <1>1, <2>1 DEF Stopped
<1>3. ASSUME NEW t \in Translators, TranslatorExit(t) PROVE Stopped' = Stopped
  <2>1. \/ trPc[t] = "flush" /\ trPc' = [trPc EXCEPT ![t] = "gone"]
        \/ trPc[t] = "dead" /\ trPc' = [trPc EXCEPT ![t] = "deadGone"]
    BY <1>1, <1>3 DEF TranslatorExit
  <2>2. QED
    BY <1>1, <2>1 DEF Stopped
<1>4. ASSUME NEW t \in Translators, TranslatorStop(t)
      PROVE  Stopped' = Stopped \cup {t} /\ t \notin Stopped
  <2>1. trPc[t] = "work" /\ trPc' = [trPc EXCEPT ![t] = "flush"]
    BY <1>4 DEF TranslatorStop
  <2>2. QED
    BY <1>1, <2>1 DEF Stopped
<1>5. QED
  BY <1>2, <1>3, <1>4 DEF Stopped

-------------------------------------------------------------------------------
(* The raw records queue *)

LEMMA InitRawInv == Init => RawInv
<1> SUFFICES ASSUME Init PROVE RawInv
  OBVIOUS
<1>1. \A w \in Writers : rawBuf[w] = <<>>
  BY DEF Init
<1>2. Stopped = {}
  BY DEF Init, Stopped
<1>3. StopsBehind(0)
  BY <1>2 DEF Init, StopsBehind, PoolStopped
<1>4. 0 \in 0..Len(rawPipe)
  BY DEF Init
<1>5. QED
  BY <1>1, <1>3, <1>4 DEF Init, RawInv, Writers, PoolStopped

\* A step that leaves the queue, the pool and the stopped translators alone.
LEMMA StopsBehindUnchanged ==
    ASSUME UNCHANGED <<rawPipe, poolPc>>, rawBuf'[Pool] = rawBuf[Pool], Stopped' = Stopped,
           \E k \in 0..Len(rawPipe) : StopsBehind(k)
    PROVE  (\E k \in 0..Len(rawPipe) : StopsBehind(k))'
BY DEF StopsBehind, PoolStopped

\* The three ways in which a transmitter puts a packet.
LEMMA TxPutCases ==
    ASSUME TypeOK, NEW q \in Queries, TxPutPage(q) \/ TxPutNotice(q) \/ TxPutError(q)
    PROVE  \E no \in 0..MaxPages, kind \in PacketKinds :
             /\ TxPut(q, no, kind)
             /\ \/ /\ kind = "data" /\ no = pages[q] + 1 /\ pages[q] < wanted[q]
                   /\ pages' = [pages EXCEPT ![q] = @ + 1] /\ faulty' = faulty
                \/ kind = "info" /\ pages' = pages /\ faulty' = faulty
                \/ kind = "error" /\ pages' = pages /\ faulty' = TRUE
<1>1. pages[q] \in Nat /\ wanted[q] \in 0..MaxPages
  BY PipelineAssumption DEF TypeOK
<1>2. {"data", "info", "error"} \subseteq PacketKinds /\ 0 \in 0..MaxPages
  BY PipelineAssumption DEF PacketKinds
<1>3. CASE TxPutPage(q)
  <2>1. /\ TxPut(q, pages[q] + 1, "data") /\ pages[q] < wanted[q]
        /\ pages' = [pages EXCEPT ![q] = @ + 1] /\ faulty' = faulty
    BY <1>3 DEF TxPutPage, faultVars
  <2>2. pages[q] + 1 \in 0..MaxPages
    BY <1>1, <2>1, PipelineAssumption
  <2>3. QED
    BY <1>2, <2>1, <2>2
<1>4. CASE TxPutNotice(q)
  <2>1. TxPut(q, 0, "info") /\ pages' = pages /\ faulty' = faulty
    BY <1>4 DEF TxPutNotice, Trouble
  <2>2. QED
    BY <1>2, <2>1
<1>5. CASE TxPutError(q)
  <2>1. TxPut(q, 0, "error") /\ pages' = pages /\ faulty' = TRUE
    BY <1>5 DEF TxPutError, Trouble
  <2>2. QED
    BY <1>2, <2>1
<1>6. QED
  BY <1>3, <1>4, <1>5

LEMMA TxRawInv ==
    ASSUME TypeOK, RawInv, NEW q \in Queries,
           TxPutPage(q) \/ TxPutNotice(q) \/ TxPutError(q) \/ TxReturn(q) \/ TxDies(q) \/ TxExit(q)
    PROVE  RawInv'
<1>1. CASE TxPutPage(q) \/ TxPutNotice(q) \/ TxPutError(q)
  <2>1. PICK no \in 0..MaxPages, kind \in PacketKinds : TxPut(q, no, kind)
    BY <1>1, TxPutCases
  <2> DEFINE m == [from |-> q, no |-> no, kind |-> kind]
  <2>2. /\ m \in Packets /\ m.from = q
        /\ rawBuf'[q] = Append(rawBuf[q], m)
        /\ \A w \in Writers \ {q} : rawBuf'[w] = rawBuf[w]
        /\ txPc[q] = "work" /\ UNCHANGED <<poolPc, txPc, trPc, rawPipe>>
    BY <2>1, TxPutFacts DEF TxPut
  <2> HIDE DEF m
  <2>3. /\ q \in Writers /\ q # Pool /\ Pool \in Writers /\ Queries \subseteq Writers
        /\ rawBuf[q] \in Seq(RawMessages)
    BY PipelineAssumption DEF Writers, TypeOK, RawMessages
  <2>4. \A i \in DOMAIN rawBuf'[q] : rawBuf'[q][i] \in Packets /\ rawBuf'[q][i].from = q
    <3>1. m \in RawMessages
      BY <2>2 DEF RawMessages
    <3>2. \A i \in DOMAIN rawBuf'[q] : rawBuf'[q][i] = m \/ (i \in DOMAIN rawBuf[q] /\ rawBuf'[q][i] = rawBuf[q][i])
      BY <2>2, <2>3, <3>1, AppendFacts
    <3>3. QED
      BY <2>2, <3>2 DEF RawInv
  <2>5. \A p \in Queries : txPc'[p] = "gone" => rawBuf'[p] = <<>>
    BY <2>2, <2>3 DEF RawInv
  <2>6. Stopped' = Stopped
    BY <2>2 DEF Stopped
  <2>7. (\E k \in 0..Len(rawPipe) : StopsBehind(k))'
    BY <2>2, <2>3, <2>6, StopsBehindUnchanged DEF RawInv
  <2>8. rawBuf'[Pool] = rawBuf[Pool]
    BY <2>2, <2>3
  <2>9. \A p \in Queries \ {q} : rawBuf'[p] = rawBuf[p]
    BY <2>2, <2>3
  <2>10. \A p \in Queries : \A i \in DOMAIN rawBuf'[p] : rawBuf'[p][i] \in Packets /\ rawBuf'[p][i].from = p
    BY <2>4, <2>9 DEF RawInv
  <2>11. /\ \A i \in DOMAIN rawBuf'[Pool] : rawBuf'[Pool][i] = StopSign
         /\ PoolStopped' => \A p \in Queries : txPc'[p] = "gone"
         /\ poolPc' # "flush" => rawBuf'[Pool] = <<>>
    BY <2>2, <2>8 DEF RawInv, PoolStopped
  <2>12. QED
    BY <2>5, <2>7, <2>10, <2>11 DEF RawInv
<1>2. CASE TxReturn(q) \/ TxDies(q) \/ TxExit(q)
  <2>1. /\ UNCHANGED <<poolPc, trPc, rawBuf, rawPipe>>
        /\ \A p \in Queries \ {q} : txPc'[p] = txPc[p]
        /\ \/ txPc[q] = "work" /\ txPc'[q] = "flush"
           \/ txPc'[q] = "gone" /\ rawBuf[q] = <<>>
    BY <1>2 DEF TxReturn, TxDies, TxExit, rawVars, TypeOK
  <2>2. Stopped' = Stopped
    BY <2>1 DEF Stopped
  <2>3. (\E k \in 0..Len(rawPipe) : StopsBehind(k))'
    BY <2>1, <2>2, StopsBehindUnchanged DEF RawInv
  <2>4. QED
    BY <2>1, <2>3 DEF RawInv, PoolStopped
<1>3. QED
  BY <1>1, <1>2

LEMMA PoolRawInv ==
    ASSUME TypeOK, RawInv, PoolStart \/ PoolStop \/ PoolExit
    PROVE  RawInv'
<1>1. UNCHANGED <<rawPipe, trPc>> /\ Pool \in Writers /\ Pool \notin Queries
  BY PipelineAssumption DEF PoolStart, PoolStop, PoolExit, rawVars, Writers
<1>2. Stopped' = Stopped
  BY <1>1 DEF Stopped
<1>3. PICK k \in 0..Len(rawPipe) : StopsBehind(k)
  BY DEF RawInv
<1>4. CASE PoolStart
  <2>1. /\ poolPc = "start" /\ poolPc' = "join" /\ UNCHANGED rawBuf
        /\ \A q \in Queries : txPc'[q] = "work"
    BY <1>4 DEF PoolStart, rawVars
  <2>2. StopsBehind(k)'
    BY <1>1, <1>2, <1>3, <2>1 DEF StopsBehind, PoolStopped
  <2>3. QED
    BY <1>1, <1>3, <2>1, <2>2 DEF RawInv, PoolStopped
<1>5. CASE PoolStop
  <2>1. /\ poolPc = "join" /\ poolPc' = "flush" /\ UNCHANGED txPc
        /\ \A q \in Queries : txPc[q] = "gone"
        /\ rawBuf'[Pool] = StopSigns(TranslatorCount)
        /\ \A q \in Queries : rawBuf'[q] = rawBuf[q]
    BY <1>1, <1>5 DEF PoolStop, txVars, TypeOK, Writers
  <2>2. k = Len(rawPipe) /\ Stopped = {}
    BY <1>3, <2>1 DEF StopsBehind, PoolStopped
  <2>3. Len(rawPipe) - k + Len(rawBuf'[Pool]) + Cardinality(Stopped) = TranslatorCount
    <3>1. Cardinality(Stopped) = 0
      BY <2>2, FS_EmptySet
    <3>2. Len(rawPipe) \in Nat /\ Len(rawBuf'[Pool]) = TranslatorCount /\ TranslatorCount \in Nat
      BY <2>1, StopSignsFacts, PipelineAssumption DEF TypeOK
    <3>3. QED
      BY <2>2, <3>1, <3>2
  <2>4. StopsBehind(k)'
    BY <1>1, <1>2, <1>3, <2>1, <2>2, <2>3 DEF StopsBehind, PoolStopped
  <2>5. QED
    BY <1>1, <1>3, <2>1, <2>4, StopSignsFacts DEF RawInv, PoolStopped
<1>6. CASE PoolExit
  <2>1. /\ poolPc = "flush" /\ poolPc' = "gone" /\ UNCHANGED <<txPc, rawBuf>> /\ rawBuf[Pool] = <<>>
    BY <1>6 DEF PoolExit, txVars, rawVars
  <2>2. StopsBehind(k)'
    BY <1>1, <1>2, <1>3, <2>1 DEF StopsBehind, PoolStopped
  <2>3. QED
    BY <1>1, <1>3, <2>1, <2>2 DEF RawInv, PoolStopped
<1>7. QED
  BY <1>4, <1>5, <1>6

LEMMA OneMoves ==
    ASSUME NEW a \in Nat, NEW b \in Nat, NEW c \in Nat, NEW d \in Nat, NEW e \in Nat,
           a - b + c + d = e
    PROVE  (a + 1) - b + (c - 1) + d = e
OBVIOUS

LEMMA RawFlushRawInv ==
    ASSUME TypeOK, RawInv, NEW w \in Writers, RawFlush(w)
    PROVE  RawInv'
<1>1. /\ rawBuf[w] \in Seq(RawMessages) /\ rawPipe \in Seq(RawMessages)
      /\ rawBuf[w] # <<>> /\ rawBuf'[w] = Tail(rawBuf[w])
      /\ Head(rawBuf[w]) \in RawMessages
      /\ rawPipe' = Append(rawPipe, Head(rawBuf[w]))
      /\ \A u \in Writers \ {w} : rawBuf'[u] = rawBuf[u]
      /\ UNCHANGED <<poolPc, txPc, trPc>>
  <2>1. UNCHANGED <<poolPc, txPc, trPc>>
    BY DEF RawFlush, txVars
  <2>2. QED
    BY <2>1, RawFlushFacts
<1>2. Pool \in Writers /\ Pool \notin Queries /\ Queries \subseteq Writers
  BY PipelineAssumption DEF Writers
<1>3. Stopped' = Stopped
  BY <1>1 DEF Stopped
<1>4. PICK k \in 0..Len(rawPipe) : StopsBehind(k)
  BY DEF RawInv
<1>5. PICK n \in Nat : n = Len(rawPipe)
  BY <1>1
<1>6. /\ n \in Nat /\ Len(rawPipe') = n + 1 /\ rawPipe'[n + 1] = Head(rawBuf[w])
      /\ \A i \in 1..n : rawPipe'[i] = rawPipe[i]
      /\ Head(rawBuf[w]) = rawBuf[w][1] /\ 1 \in DOMAIN rawBuf[w]
      /\ \A i \in DOMAIN Tail(rawBuf[w]) : i + 1 \in DOMAIN rawBuf[w] /\ Tail(rawBuf[w])[i] = rawBuf[w][i + 1]
      /\ Len(rawBuf[w]) \in Nat \ {0} /\ Len(Tail(rawBuf[w])) = Len(rawBuf[w]) - 1
  <2>1. n \in Nat /\ Len(rawPipe') = n + 1 /\ rawPipe'[n + 1] = Head(rawBuf[w])
        /\ \A i \in 1..n : rawPipe'[i] = rawPipe[i]
    BY <1>1, <1>5, AppendFacts
  <2>2. /\ Head(rawBuf[w]) = rawBuf[w][1] /\ Len(rawBuf[w]) \in Nat \ {0}
        /\ Len(Tail(rawBuf[w])) = Len(rawBuf[w]) - 1
        /\ DOMAIN rawBuf[w] = 1..Len(rawBuf[w]) /\ DOMAIN Tail(rawBuf[w]) = 1..(Len(rawBuf[w]) - 1)
        /\ \A i \in 1..(Len(rawBuf[w]) - 1) : Tail(rawBuf[w])[i] = rawBuf[w][i + 1]
    BY <1>1, TailFacts
  <2>3. /\ 1 \in DOMAIN rawBuf[w]
        /\ \A i \in DOMAIN Tail(rawBuf[w]) : i + 1 \in DOMAIN rawBuf[w] /\ Tail(rawBuf[w])[i] = rawBuf[w][i + 1]
    BY <2>2
  <2>4. QED
    BY <2>1, <2>2, <2>3
<1>7. \A u \in Writers : \A i \in DOMAIN rawBuf'[u] : \E j \in DOMAIN rawBuf[u] : rawBuf'[u][i] = rawBuf[u][j]
  <2> TAKE u \in Writers
  <2>1. CASE u = w
    BY <1>1, <1>6, <2>1
  <2>2. CASE u # w
    BY <1>1, <2>2
  <2>3. QED
    BY <2>1, <2>2
<1>8. \A q \in Queries : \A i \in DOMAIN rawBuf'[q] : rawBuf'[q][i] \in Packets /\ rawBuf'[q][i].from = q
  <2> TAKE q \in Queries
  <2> TAKE i \in DOMAIN rawBuf'[q]
  <2>1. PICK j \in DOMAIN rawBuf[q] : rawBuf'[q][i] = rawBuf[q][j]
    BY <1>2, <1>7
  <2>2. QED
    BY <2>1 DEF RawInv
<1>9. \A i \in DOMAIN rawBuf'[Pool] : rawBuf'[Pool][i] = StopSign
  <2> TAKE i \in DOMAIN rawBuf'[Pool]
  <2>1. PICK j \in DOMAIN rawBuf[Pool] : rawBuf'[Pool][i] = rawBuf[Pool][j]
    BY <1>2, <1>7
  <2>2. QED
    BY <2>1 DEF RawInv
<1>10. \A q \in Queries : txPc'[q] = "gone" => rawBuf'[q] = <<>>
  BY <1>1, <1>2 DEF RawInv
<1>11. poolPc' # "flush" => rawBuf'[Pool] = <<>>
  BY <1>1, <1>2 DEF RawInv
<1>12. ASSUME NEW j \in 0..Len(rawPipe'), StopsBehind(j)'
       PROVE  RawInv'
  BY <1>1, <1>8, <1>9, <1>10, <1>11, <1>12 DEF RawInv, PoolStopped
<1>13. CASE w \in Queries
  <2>1. ~PoolStopped /\ Head(rawBuf[w]) # StopSign
    BY <1>1, <1>6, <1>13, MessageFacts DEF RawInv
  <2>2. k = n /\ Stopped = {} /\ \A i \in 1..n : rawPipe[i] # StopSign
    BY <1>4, <1>5, <2>1 DEF StopsBehind
  <2>3. \A i \in 1..(n + 1) : rawPipe'[i] # StopSign
    <3>1. \A i \in 1..(n + 1) : i \in 1..n \/ i = n + 1
      BY <1>6
    <3>2. QED
      BY <1>6, <2>1, <2>2, <3>1
  <2>4. StopsBehind(n + 1)'
    <3>1. \A i \in (n + 1 + 1)..Len(rawPipe') : rawPipe'[i] = StopSign
      BY <1>6
    <3>2. Stopped' = {} /\ n + 1 = Len(rawPipe') /\ ~PoolStopped'
      BY <1>1, <1>3, <1>6, <2>1, <2>2 DEF PoolStopped
    <3>3. QED
      BY <2>3, <3>1, <3>2 DEF StopsBehind
  <2>5. n + 1 \in 0..Len(rawPipe')
    BY <1>6
  <2>6. QED
    BY <1>12, <2>4, <2>5
<1>14. CASE w = Pool
  <2>1. poolPc = "flush" /\ Head(rawBuf[Pool]) = StopSign
    BY <1>1, <1>6, <1>14 DEF RawInv
  <2>2. /\ k \in 0..n /\ \A i \in 1..k : rawPipe[i] # StopSign
        /\ \A i \in (k + 1)..n : rawPipe[i] = StopSign
        /\ Stopped # {} => k = 0
        /\ n - k + Len(rawBuf[Pool]) + Cardinality(Stopped) = TranslatorCount
    BY <1>4, <1>5, <2>1 DEF StopsBehind, PoolStopped
  <2>3. \A i \in 1..k : rawPipe'[i] # StopSign
    <3>1. \A i \in 1..k : i \in 1..n
      BY <1>6, <2>2
    <3>2. QED
      BY <1>6, <2>2, <3>1
  <2>4. \A i \in (k + 1)..(n + 1) : rawPipe'[i] = StopSign
    <3>1. \A i \in (k + 1)..(n + 1) : i = n + 1 \/ (i \in (k + 1)..n /\ i \in 1..n)
      BY <1>6, <2>2
    <3>2. QED
      BY <1>6, <1>14, <2>1, <2>2, <3>1
  <2>5. (n + 1) - k + Len(rawBuf'[Pool]) + Cardinality(Stopped') = TranslatorCount
    <3>1. PICK c \in Nat : c = Cardinality(Stopped) /\ c = Cardinality(Stopped')
      BY <1>3, StoppedFacts
    <3>2. PICK l \in Nat : l = Len(rawBuf[Pool]) /\ l - 1 = Len(rawBuf'[Pool])
      BY <1>1, <1>6, <1>14
    <3>3. k \in Nat /\ n - k + l + c = TranslatorCount
      BY <2>2, <3>1, <3>2
    <3>4. (n + 1) - k + (l - 1) + c = TranslatorCount
      BY <3>3, PipelineAssumption, OneMoves
    <3>5. QED
      BY <3>1, <3>2, <3>4
  <2>6. StopsBehind(k)'
    <3>1. PoolStopped' /\ (Stopped' # {} => k = 0) /\ Len(rawPipe') = n + 1
      BY <1>1, <1>3, <1>6, <2>1, <2>2 DEF PoolStopped
    <3>2. \A i \in (k + 1)..Len(rawPipe') : rawPipe'[i] = StopSign
      BY <2>4, <3>1
    <3>3. Len(rawPipe') - k + Len(rawBuf'[Pool]) + Cardinality(Stopped') = TranslatorCount
      <4>1. Len(rawPipe') = n + 1
        BY <1>6
      <4>2. QED
        BY <2>5, <4>1
    <3>4. QED
      BY <2>3, <3>1, <3>2, <3>3 DEF StopsBehind
  <2>7. k \in 0..Len(rawPipe')
    BY <1>6, <2>2
  <2>8. QED
    BY <1>12, <2>6, <2>7
<1>15. QED
  BY <1>13, <1>14 DEF Writers

\* A translator takes the message at the front of the raw pipe; the pool and the
\* transmitters do nothing.
LEMMA TakeRawInv ==
    ASSUME TypeOK, RawInv, rawPipe # <<>>, rawPipe' = Tail(rawPipe),
           UNCHANGED <<poolPc, txPc, rawBuf>>,
           \/ Head(rawPipe) # StopSign /\ Stopped' = Stopped
           \/ /\ Head(rawPipe) = StopSign
              /\ \E t \in Translators : Stopped' = Stopped \cup {t} /\ t \notin Stopped
    PROVE  RawInv'
<1>1. PICK k \in 0..Len(rawPipe) : StopsBehind(k)
  BY DEF RawInv
<1> DEFINE n == Len(rawPipe)
<1>2. /\ n \in Nat \ {0} /\ Len(rawPipe') = n - 1 /\ Head(rawPipe) = rawPipe[1]
      /\ \A i \in 1..(n - 1) : rawPipe'[i] = rawPipe[i + 1]
  <2>1. rawPipe \in Seq(RawMessages)
    BY DEF TypeOK, RawMessages
  <2>2. QED
    BY <2>1, TailFacts
<1> HIDE DEF n
<1>3. /\ k \in 0..n /\ \A i \in 1..k : rawPipe[i] # StopSign
      /\ \A i \in (k + 1)..n : rawPipe[i] = StopSign
      /\ Stopped # {} => k = 0
      /\ IF PoolStopped
         THEN n - k + Len(rawBuf[Pool]) + Cardinality(Stopped) = TranslatorCount
         ELSE k = n /\ Stopped = {}
  BY <1>1 DEF StopsBehind, n
<1>4. Len(rawBuf[Pool]) \in Nat /\ Cardinality(Stopped) \in Nat
  BY StoppedFacts DEF TypeOK, Writers
<1>5. ASSUME NEW j \in 0..Len(rawPipe'), StopsBehind(j)'
      PROVE  RawInv'
  BY <1>5 DEF RawInv, PoolStopped
<1>6. CASE Head(rawPipe) # StopSign /\ Stopped' = Stopped
  <2>1. k # 0
    BY <1>2, <1>3, <1>6
  <2>2. k - 1 \in 0..(n - 1) /\ k - 1 \in 0..Len(rawPipe')
    BY <1>2, <1>3, <2>1
  <2>3. \A i \in 1..(k - 1) : i \in 1..(n - 1) /\ i + 1 \in 1..k
    BY <1>2, <1>3
  <2>4. \A i \in (k - 1 + 1)..(n - 1) : i \in 1..(n - 1) /\ i + 1 \in (k + 1)..n
    BY <1>2, <1>3, <2>1
  <2>5. IF PoolStopped'
        THEN (n - 1) - (k - 1) + Len(rawBuf'[Pool]) + Cardinality(Stopped') = TranslatorCount
        ELSE k - 1 = n - 1 /\ Stopped' = {}
    BY <1>2, <1>3, <1>4, <1>6 DEF PoolStopped
  <2>6. Stopped' # {} => k - 1 = 0
    BY <1>3, <1>6, <2>1
  <2>7. StopsBehind(k - 1)'
    BY <1>2, <1>3, <2>2, <2>3, <2>4, <2>5, <2>6 DEF StopsBehind
  <2>8. QED
    BY <1>5, <2>2, <2>7
<1>7. CASE /\ Head(rawPipe) = StopSign
           /\ \E t \in Translators : Stopped' = Stopped \cup {t} /\ t \notin Stopped
  <2>1. PICK t \in Translators : Stopped' = Stopped \cup {t} /\ t \notin Stopped
    BY <1>7
  <2>2. k = 0 /\ PoolStopped
    BY <1>2, <1>3, <1>7
  <2>3. Cardinality(Stopped') = Cardinality(Stopped) + 1
    BY <2>1, StoppedFacts, FS_AddElement
  <2>4. \A i \in 1..(n - 1) : i + 1 \in (k + 1)..n
    BY <1>2, <2>2
  <2>5. (n - 1) - 0 + Len(rawBuf'[Pool]) + Cardinality(Stopped') = TranslatorCount
    BY <1>2, <1>3, <1>4, <2>2, <2>3
  <2>6. StopsBehind(0)'
    BY <1>2, <1>3, <2>2, <2>4, <2>5 DEF StopsBehind, PoolStopped
  <2>7. 0 \in 0..Len(rawPipe')
    BY <1>2
  <2>8. QED
    BY <1>5, <2>6, <2>7
<1>8. QED
  BY <1>6, <1>7

LEMMA TranslatorRawInv ==
    ASSUME TypeOK, RawInv, NEW t \in Translators,
           Translate(t) \/ TranslatorDies(t) \/ TranslatorStop(t) \/ TranslatorExit(t) \/ OutFlush(t)
    PROVE  RawInv'
<1>1. CASE Translate(t)
  <2>1. /\ rawPipe # <<>> /\ rawPipe' = Tail(rawPipe) /\ Head(rawPipe) # StopSign
        /\ UNCHANGED <<poolPc, txPc, rawBuf, trPc>>
    BY <1>1 DEF Translate, txVars
  <2>2. Stopped' = Stopped
    BY <2>1 DEF Stopped
  <2>3. QED
    BY <2>1, <2>2, TakeRawInv
<1>2. CASE TranslatorDies(t)
  <2>1. /\ rawPipe # <<>> /\ rawPipe' = Tail(rawPipe) /\ Head(rawPipe).kind = "data"
        /\ UNCHANGED <<poolPc, txPc, rawBuf>>
    BY <1>2 DEF TranslatorDies, txVars
  <2>2. Head(rawPipe) # StopSign
    BY <2>1 DEF StopSign
  <2>3. QED
    BY <1>2, <2>1, <2>2, TrPcFacts, TakeRawInv
<1>3. CASE TranslatorStop(t)
  <2>1. /\ rawPipe # <<>> /\ rawPipe' = Tail(rawPipe) /\ Head(rawPipe) = StopSign
        /\ UNCHANGED <<poolPc, txPc, rawBuf>>
    BY <1>3 DEF TranslatorStop, txVars
  <2>2. QED
    BY <1>3, <2>1, TrPcFacts, TakeRawInv
<1>4. CASE TranslatorExit(t) \/ OutFlush(t)
  <2>1. UNCHANGED <<poolPc, txPc, rawBuf, rawPipe>>
    BY <1>4 DEF TranslatorExit, OutFlush, txVars, rawVars
  <2>2. Stopped' = Stopped
    <3>1. CASE TranslatorExit(t)
      BY <3>1, TrPcFacts
    <3>2. CASE OutFlush(t)
      BY <3>2 DEF OutFlush, Stopped
    <3>3. QED
      BY <1>4, <3>1, <3>2
  <2>3. (\E k \in 0..Len(rawPipe) : StopsBehind(k))'
    BY <2>1, <2>2, StopsBehindUnchanged DEF RawInv
  <2>4. QED
    BY <2>1, <2>3 DEF RawInv, PoolStopped
<1>5. QED
  BY <1>1, <1>2, <1>3, <1>4

LEMMA MainRawInv ==
    ASSUME TypeOK, RawInv, Read \/ JoinPool \/ JoinTranslator
    PROVE  RawInv'
<1>1. UNCHANGED <<poolPc, txPc, trPc, rawBuf, rawPipe>>
  BY DEF Read, JoinPool, JoinTranslator, txVars, rawVars
<1>2. Stopped' = Stopped
  BY <1>1 DEF Stopped
<1>3. (\E k \in 0..Len(rawPipe) : StopsBehind(k))'
  BY <1>1, <1>2, StopsBehindUnchanged DEF RawInv
<1>4. QED
  BY <1>1, <1>3 DEF RawInv, PoolStopped

-------------------------------------------------------------------------------
(* The translated data queue *)

LEMMA InitOutInv == Init => OutInv
<1> SUFFICES ASSUME Init PROVE OutInv
  OBVIOUS
<1>1. Stopped = {} /\ StopRead = {}
  BY DEF Init, Stopped, StopRead
<1>2. Cardinality(StopRead) = stopsRead
  BY <1>1, FS_EmptySet DEF Init
<1>3. outPipe = <<>> /\ \A t \in Translators : outBuf[t] = <<>> /\ trPc[t] = "work"
  BY DEF Init
<1>4. QED
  BY <1>1, <1>2, <1>3 DEF OutInv

\* What the sequences of the queue hold.
LEMMA OutQueueTypes ==
    ASSUME TypeOK
    PROVE  /\ outPipe \in Seq(OutMessages)
           /\ \A i \in DOMAIN outPipe : outPipe[i] \in OutMessages
           /\ \A t \in Translators : outBuf[t] \in Seq(OutMessages)
           /\ \A t \in Translators : \A i \in DOMAIN outBuf[t] : outBuf[t][i] \in OutMessages
<1>1. outPipe \in Seq(OutMessages) /\ outBuf \in [Translators -> Seq(OutMessages)]
  BY DEF TypeOK, OutMessages
<1>2. \A t \in Translators : outBuf[t] \in Seq(OutMessages)
  BY <1>1
<1>3. \A i \in DOMAIN outPipe : outPipe[i] \in OutMessages
  BY <1>1
<1>4. ASSUME NEW t \in Translators, NEW i \in DOMAIN outBuf[t] PROVE outBuf[t][i] \in OutMessages
  <2>1. outBuf[t] \in Seq(OutMessages)
    BY <1>2
  <2>2. QED
    BY <2>1
<1>5. QED
  BY <1>1, <1>2, <1>3, <1>4

\* The STOP sign of a translator is known by its sender.
LEMMA StopsKnown ==
    ASSUME NEW m \in OutMessages
    PROVE  m.kind = "stop" => m = StopFrom(m.by) /\ m.by \in Translators
BY MessageFacts DEF OutMessages

LEMMA UnchangedOutInv ==
    ASSUME OutInv, UNCHANGED <<outBuf, outPipe, trPc, stopsRead>>
    PROVE  OutInv'
<1>1. Stopped' = Stopped /\ StopRead' = StopRead
  BY DEF Stopped, StopRead, Pending
<1>2. QED
  BY <1>1 DEF OutInv

\* Nothing a translator does to its own results counts as a STOP sign read.
LEMMA StopReadUnchanged ==
    ASSUME OutInv, stopsRead' = stopsRead,
           \A u \in Translators : u \in Stopped' /\ ~Pending(u)' <=> u \in Stopped /\ ~Pending(u)
    PROVE  StopRead' = StopRead /\ Cardinality(StopRead') = stopsRead'
<1>1. StopRead' = StopRead
  <2>1. Stopped \subseteq Translators /\ Stopped' \subseteq Translators
    BY DEF Stopped
  <2>2. QED
    BY <2>1 DEF StopRead
<1>2. QED
  BY <1>1 DEF OutInv

LEMMA TranslateOutInv ==
    ASSUME TypeOK, OutInv, NEW t \in Translators, Translate(t)
    PROVE  OutInv'
<1>1. PICK out \in Outputs(t, Head(rawPipe)) : outBuf'[t] = outBuf[t] \o out /\ out \in Seq(OutMessages)
  BY TranslateFacts
<1>2. \A r \in Msgs(out) : r.by = t /\ r.kind # "stop"
  <2>1. Head(rawPipe) \in Packets
    BY TranslateFacts
  <2>2. \A r \in Msgs(out) : r \in Results /\ r.by = t
    BY <1>1, <2>1, OutputsFacts
  <2>3. QED
    BY <2>2, MessageFacts
<1>3. /\ trPc[t] = "work" /\ UNCHANGED <<trPc, outPipe, stopsRead>>
      /\ \A u \in Translators \ {t} : outBuf'[u] = outBuf[u]
      /\ outBuf[t] \in Seq(OutMessages)
  <2>1. trPc[t] = "work" /\ UNCHANGED <<trPc, outPipe, stopsRead>>
    BY DEF Translate, mainVars
  <2>2. QED
    BY <2>1, TranslateFacts
<1>4. Stopped' = Stopped /\ t \notin Stopped
  BY <1>3 DEF Stopped
<1>5. ASSUME NEW i \in DOMAIN outBuf'[t]
      PROVE  outBuf'[t][i].by = t /\ outBuf'[t][i].kind # "stop"
  <2>1. Msgs(outBuf'[t]) = Msgs(outBuf[t]) \cup Msgs(out)
    BY <1>1, <1>3, ConcatMsgs
  <2>2. outBuf'[t][i] \in Msgs(outBuf[t]) \cup Msgs(out)
    BY <2>1 DEF Msgs
  <2>3. \A m \in Msgs(outBuf[t]) : m.by = t /\ m.kind # "stop"
    BY <1>4 DEF OutInv, Msgs
  <2>4. QED
    BY <1>2, <2>2, <2>3
<1>6. \A u \in Stopped : outBuf'[u] = outBuf[u]
  BY <1>3, <1>4 DEF Stopped
<1>7. \A u \in Stopped : Pending(u)' <=> Pending(u)
  BY <1>3, <1>6 DEF Pending
<1>8. StopRead' = StopRead /\ Cardinality(StopRead') = stopsRead'
  BY <1>3, <1>4, <1>7, StopReadUnchanged
<1>9. \A u \in Translators : \A i \in DOMAIN outBuf'[u] :
         /\ outBuf'[u][i].by = u
         /\ outBuf'[u][i].kind = "stop" => i = Len(outBuf'[u]) /\ u \in Stopped'
  BY <1>3, <1>4, <1>5 DEF OutInv
<1>10. \A i \in DOMAIN outPipe' : outPipe'[i].kind = "stop" =>
         /\ outPipe'[i].by \in Stopped'
         /\ outBuf'[outPipe'[i].by] = <<>>
         /\ \A j \in DOMAIN outPipe' : i < j => outPipe'[j].by # outPipe'[i].by
  BY <1>3, <1>4, <1>6 DEF OutInv
<1>11. \A u \in StopRead' : outBuf'[u] = <<>> /\ \A i \in DOMAIN outPipe' : outPipe'[i].by # u
  BY <1>3, <1>4, <1>6, <1>8 DEF OutInv, StopRead
<1>12. \A u \in Translators : trPc'[u] \in {"gone", "deadGone"} => outBuf'[u] = <<>>
  BY <1>3 DEF OutInv
<1>13. QED
  BY <1>8, <1>9, <1>10, <1>11, <1>12 DEF OutInv

LEMMA TranslatorStopOutInv ==
    ASSUME TypeOK, OutInv, NEW t \in Translators, TranslatorStop(t)
    PROVE  OutInv'
<1>1. /\ outBuf[t] \in Seq(OutMessages) /\ StopFrom(t) \in OutMessages
      /\ outBuf'[t] = Append(outBuf[t], StopFrom(t))
      /\ \A u \in Translators \ {t} : outBuf'[u] = outBuf[u]
  BY TranslatorStopFacts
<1>2. /\ trPc[t] = "work" /\ trPc'[t] = "flush" /\ UNCHANGED <<outPipe, stopsRead>>
      /\ \A u \in Translators \ {t} : trPc'[u] = trPc[u]
  BY DEF TranslatorStop, mainVars, TypeOK
<1>3. Stopped' = Stopped \cup {t} /\ t \notin Stopped
  BY TrPcFacts
<1>4. /\ DOMAIN outBuf'[t] = 1..(Len(outBuf[t]) + 1) /\ Len(outBuf'[t]) = Len(outBuf[t]) + 1
      /\ DOMAIN outBuf[t] = 1..Len(outBuf[t]) /\ Len(outBuf[t]) \in Nat
      /\ \A i \in 1..Len(outBuf[t]) : outBuf'[t][i] = outBuf[t][i]
      /\ outBuf'[t][Len(outBuf[t]) + 1] = StopFrom(t)
  BY <1>1, AppendFacts
<1>5. ASSUME NEW i \in DOMAIN outBuf'[t]
      PROVE  outBuf'[t][i].by = t /\ (outBuf'[t][i].kind = "stop" => i = Len(outBuf'[t]))
  <2>1. CASE i \in 1..Len(outBuf[t])
    BY <1>3, <1>4, <2>1 DEF OutInv
  <2>2. CASE i = Len(outBuf[t]) + 1
    BY <1>4, <2>2, MessageFacts
  <2>3. QED
    BY <1>4, <2>1, <2>2
<1>6. \A u \in Stopped : outBuf'[u] = outBuf[u]
  BY <1>1, <1>3 DEF Stopped
<1>7. (\A u \in Stopped : Pending(u)' <=> Pending(u)) /\ Pending(t)'
  <2>1. StopFrom(t) \in Msgs(outBuf'[t])
    BY <1>1, AppendMsgs
  <2>2. QED
    BY <1>2, <1>6, <2>1 DEF Pending
<1>8. StopRead' = StopRead /\ Cardinality(StopRead') = stopsRead'
  BY <1>2, <1>3, <1>7, StopReadUnchanged
<1>9. \A u \in Translators : \A i \in DOMAIN outBuf'[u] :
         /\ outBuf'[u][i].by = u
         /\ outBuf'[u][i].kind = "stop" => i = Len(outBuf'[u]) /\ u \in Stopped'
  <2> TAKE u \in Translators
  <2>1. CASE u = t
    BY <1>3, <1>5, <2>1
  <2>2. CASE u # t
    BY <1>1, <1>3, <2>2 DEF OutInv
  <2>3. QED
    BY <2>1, <2>2
<1>10. \A i \in DOMAIN outPipe' : outPipe'[i].kind = "stop" =>
         /\ outPipe'[i].by \in Stopped'
         /\ outBuf'[outPipe'[i].by] = <<>>
         /\ \A j \in DOMAIN outPipe' : i < j => outPipe'[j].by # outPipe'[i].by
  BY <1>2, <1>3, <1>6 DEF OutInv
<1>11. \A u \in StopRead' : outBuf'[u] = <<>> /\ \A i \in DOMAIN outPipe' : outPipe'[i].by # u
  BY <1>2, <1>6, <1>8 DEF OutInv, StopRead
<1>12. \A u \in Translators : trPc'[u] \in {"gone", "deadGone"} => outBuf'[u] = <<>>
  BY <1>1, <1>2 DEF OutInv
<1>13. QED
  BY <1>8, <1>9, <1>10, <1>11, <1>12 DEF OutInv

\* A translator dies on its page, or ends.
LEMMA TranslatorEndOutInv ==
    ASSUME TypeOK, OutInv, NEW t \in Translators, TranslatorDies(t) \/ TranslatorExit(t)
    PROVE  OutInv'
<1>1. /\ UNCHANGED <<outBuf, outPipe, stopsRead>>
      /\ \A u \in Translators \ {t} : trPc'[u] = trPc[u]
      /\ trPc'[t] = "dead" \/ outBuf[t] = <<>>
  BY DEF TranslatorDies, TranslatorExit, outVars, mainVars, TypeOK
<1>2. Stopped' = Stopped
  BY TrPcFacts
<1>3. StopRead' = StopRead
  BY <1>1, <1>2 DEF StopRead, Pending
<1>4. QED
  BY <1>1, <1>2, <1>3 DEF OutInv

LEMMA OutFlushOutInv ==
    ASSUME TypeOK, OutInv, NEW t \in Translators, OutFlush(t)
    PROVE  OutInv'
<1>1. PICK m \in OutMessages : m = Head(outBuf[t])
  BY OutFlushFacts
<1>2. /\ outBuf[t] \in Seq(OutMessages) /\ outPipe \in Seq(OutMessages)
      /\ outBuf[t] # <<>> /\ outBuf'[t] = Tail(outBuf[t])
      /\ outPipe' = Append(outPipe, m)
      /\ \A u \in Translators \ {t} : outBuf'[u] = outBuf[u]
  BY <1>1, OutFlushFacts
<1>3. UNCHANGED <<trPc, stopsRead>>
  BY DEF OutFlush, mainVars
<1>4. PICK n \in Nat : n = Len(outPipe)
  BY <1>2
<1>5. PICK l \in Nat \ {0} : l = Len(outBuf[t])
  BY <1>2, TailFacts
<1>6. /\ DOMAIN outPipe = 1..n /\ DOMAIN outPipe' = 1..(n + 1)
      /\ \A i \in 1..n : outPipe'[i] = outPipe[i]
      /\ outPipe'[n + 1] = m
  BY <1>2, <1>4, AppendFacts
<1>7. /\ m = outBuf[t][1] /\ DOMAIN outBuf[t] = 1..l
      /\ DOMAIN outBuf'[t] = 1..(l - 1) /\ Len(outBuf'[t]) = l - 1
      /\ \A i \in 1..(l - 1) : outBuf'[t][i] = outBuf[t][i + 1]
  BY <1>1, <1>2, <1>5, TailFacts
<1>8. Stopped' = Stopped
  BY <1>3 DEF Stopped
<1>9. m.by = t /\ (m.kind = "stop" => l = 1 /\ t \in Stopped)
  <2>1. 1 \in DOMAIN outBuf[t]
    BY <1>7
  <2>2. QED
    BY <1>5, <1>7, <2>1 DEF OutInv
<1>10. m.kind = "stop" => outBuf'[t] = <<>>
  <2>1. outBuf'[t] \in Seq(OutMessages)
    BY OutFlushFacts
  <2>2. m.kind = "stop" => Len(outBuf'[t]) = 0
    BY <1>7, <1>9
  <2>3. QED
    BY <2>1, <2>2
<1>11. ASSUME NEW u \in Translators PROVE Pending(u)' <=> Pending(u)
  <2>1. Msgs(outBuf[t]) = Msgs(outBuf'[t]) \cup {m}
    BY <1>1, <1>2, TailMsgs
  <2>2. Msgs(outPipe') = Msgs(outPipe) \cup {m}
    BY <1>2, AppendMsgs
  <2>3. u # t => StopFrom(u) # m
    BY <1>9, MessageFacts
  <2>4. CASE u = t
    BY <2>1, <2>2, <2>4 DEF Pending
  <2>5. CASE u # t
    BY <1>2, <2>2, <2>3, <2>5 DEF Pending
  <2>6. QED
    BY <2>4, <2>5
<1>12. StopRead' = StopRead /\ Cardinality(StopRead') = stopsRead'
  BY <1>3, <1>8, <1>11, StopReadUnchanged
<1>13. ASSUME NEW u \in Translators, NEW i \in DOMAIN outBuf'[u]
       PROVE  /\ outBuf'[u][i].by = u
              /\ outBuf'[u][i].kind = "stop" => i = Len(outBuf'[u]) /\ u \in Stopped'
  <2>1. CASE u = t
    <3>1. i + 1 \in DOMAIN outBuf[t] /\ outBuf'[t][i] = outBuf[t][i + 1] /\ i \in Nat
      BY <1>7, <2>1
    <3>2. /\ outBuf'[t][i].by = t
          /\ outBuf'[t][i].kind = "stop" => i + 1 = l /\ t \in Stopped
      BY <1>5, <3>1 DEF OutInv
    <3>3. i + 1 = l => i = Len(outBuf'[t])
      BY <1>7, <3>1
    <3>4. QED
      BY <1>8, <2>1, <3>2, <3>3
  <2>2. CASE u # t
    BY <1>2, <1>8, <2>2 DEF OutInv
  <2>3. QED
    BY <2>1, <2>2
<1>14. ASSUME NEW i \in DOMAIN outPipe', outPipe'[i].kind = "stop"
       PROVE  /\ outPipe'[i].by \in Stopped'
              /\ outBuf'[outPipe'[i].by] = <<>>
              /\ \A j \in DOMAIN outPipe' : i < j => outPipe'[j].by # outPipe'[i].by
  <2>1. CASE i = n + 1
    <3>1. outPipe'[i] = m /\ m.kind = "stop"
      BY <1>6, <1>14, <2>1
    <3>2. \A j \in DOMAIN outPipe' : ~(i < j)
      BY <1>6, <2>1
    <3>3. QED
      BY <1>8, <1>9, <1>10, <3>1, <3>2
  <2>2. CASE i \in 1..n
    <3>1. outPipe'[i] = outPipe[i] /\ i \in DOMAIN outPipe
      BY <1>6, <2>2
    <3>2. /\ outPipe[i].by \in Stopped /\ outBuf[outPipe[i].by] = <<>>
          /\ \A j \in DOMAIN outPipe : i < j => outPipe[j].by # outPipe[i].by
      BY <1>14, <3>1 DEF OutInv
    <3>3. outPipe[i].by # t /\ outPipe[i].by \in Translators
      BY <1>2, <3>2 DEF Stopped
    <3>4. \A j \in DOMAIN outPipe' : j = n + 1 \/ (j \in DOMAIN outPipe /\ outPipe'[j] = outPipe[j])
      BY <1>6
    <3>5. \A j \in DOMAIN outPipe' : i < j => outPipe'[j].by # outPipe[i].by
      BY <1>6, <1>9, <3>2, <3>3, <3>4
    <3>6. outBuf'[outPipe[i].by] = <<>>
      BY <1>2, <3>2, <3>3
    <3>7. QED
      BY <1>8, <3>1, <3>2, <3>5, <3>6
  <2>3. QED
    BY <1>6, <2>1, <2>2
<1>15. ASSUME NEW u \in StopRead' PROVE outBuf'[u] = <<>> /\ \A i \in DOMAIN outPipe' : outPipe'[i].by # u
  <2>1. u \in StopRead /\ u \in Translators
    BY <1>12 DEF StopRead, Stopped
  <2>2. outBuf[u] = <<>> /\ \A i \in DOMAIN outPipe : outPipe[i].by # u
    BY <2>1 DEF OutInv
  <2>3. u # t
    BY <1>2, <2>2
  <2>4. \A i \in DOMAIN outPipe' : outPipe'[i] = m \/ (i \in DOMAIN outPipe /\ outPipe'[i] = outPipe[i])
    BY <1>6
  <2>5. QED
    BY <1>2, <1>9, <2>1, <2>2, <2>3, <2>4
<1>16. ASSUME NEW u \in Translators, trPc'[u] \in {"gone", "deadGone"} PROVE outBuf'[u] = <<>>
  <2>1. outBuf[u] = <<>>
    BY <1>3, <1>16 DEF OutInv
  <2>2. QED
    BY <1>2, <2>1
<1>17. QED
  BY <1>12, <1>13, <1>14, <1>15, <1>16 DEF OutInv

LEMMA ReadOutInv ==
    ASSUME TypeOK, OutInv, Read
    PROVE  OutInv'
<1>1. PICK m \in OutMessages : m = Head(outPipe)
  BY ReadFacts
<1>2. /\ outPipe \in Seq(OutMessages) /\ outPipe # <<>> /\ outPipe' = Tail(outPipe)
      /\ UNCHANGED <<trPc, outBuf>>
  BY ReadFacts
<1>3. PICK n \in Nat \ {0} : n = Len(outPipe)
  BY <1>2, TailFacts
<1>4. /\ m = outPipe[1] /\ DOMAIN outPipe = 1..n /\ 1 \in DOMAIN outPipe
      /\ DOMAIN outPipe' = 1..(n - 1)
      /\ \A i \in 1..(n - 1) : outPipe'[i] = outPipe[i + 1]
  BY <1>1, <1>2, <1>3, TailFacts
<1>5. \A i \in DOMAIN outPipe' : i \in Nat /\ i + 1 \in DOMAIN outPipe /\ outPipe'[i] = outPipe[i + 1] /\ 1 < i + 1
  BY <1>4
<1>6. Stopped' = Stopped
  BY <1>2 DEF Stopped
<1>7. Msgs(outPipe) = Msgs(outPipe') \cup {m}
  BY <1>1, <1>2, TailMsgs
<1>8. ASSUME NEW i \in DOMAIN outPipe', outPipe'[i].kind = "stop"
      PROVE  /\ outPipe'[i].by \in Stopped'
             /\ outBuf'[outPipe'[i].by] = <<>>
             /\ \A j \in DOMAIN outPipe' : i < j => outPipe'[j].by # outPipe'[i].by
  <2>1. /\ outPipe[i + 1].by \in Stopped /\ outBuf[outPipe[i + 1].by] = <<>>
        /\ \A j \in DOMAIN outPipe : i + 1 < j => outPipe[j].by # outPipe[i + 1].by
    BY <1>5, <1>8 DEF OutInv
  <2>2. \A j \in DOMAIN outPipe' : i < j => i + 1 < j + 1
    BY <1>5
  <2>3. QED
    BY <1>2, <1>5, <1>6, <2>1, <2>2
<1>9. CASE m.kind = "stop"
  <2>1. PICK t \in Translators : t = m.by /\ m = StopFrom(t)
    BY <1>9, StopsKnown
  <2>2. /\ t \in Stopped /\ outBuf[t] = <<>>
        /\ \A j \in DOMAIN outPipe : 1 < j => outPipe[j].by # t
    BY <1>4, <1>9, <2>1 DEF OutInv
  <2>3. \A i \in DOMAIN outPipe' : outPipe'[i].by # t
    BY <1>5, <2>2
  <2>4. StopFrom(t) \notin Msgs(outPipe')
    BY <2>3, MessageFacts DEF Msgs
  <2>5. ~Pending(t)' /\ Pending(t)
    <3>1. Msgs(outBuf[t]) = {}
      BY <2>2 DEF Msgs
    <3>2. QED
      BY <1>2, <1>7, <2>1, <2>4, <3>1 DEF Pending
  <2>6. \A u \in Translators : u # t => (Pending(u)' <=> Pending(u))
    <3>1. \A u \in Translators : u # t => StopFrom(u) # m
      BY <2>1, MessageFacts
    <3>2. QED
      BY <1>2, <1>7, <3>1 DEF Pending
  <2>7. StopRead' = StopRead \cup {t} /\ t \notin StopRead
    <3>1. Stopped \subseteq Translators
      BY DEF Stopped
    <3>2. QED
      BY <1>6, <2>2, <2>5, <2>6, <3>1 DEF StopRead
  <2>8. stopsRead' = stopsRead + 1
    <3>1. ReadStop
      BY <1>1, <1>9 DEF Read, ReadPage, ReadNotice, ReadError, IsError
    <3>2. QED
      BY <3>1 DEF ReadStop
  <2>9. Cardinality(StopRead') = stopsRead'
    BY <2>7, <2>8, StoppedFacts, FS_AddElement DEF OutInv
  <2>10. ASSUME NEW u \in StopRead'
         PROVE  outBuf'[u] = <<>> /\ \A i \in DOMAIN outPipe' : outPipe'[i].by # u
    <3>1. CASE u = t
      BY <1>2, <2>2, <2>3, <3>1
    <3>2. CASE u \in StopRead
      BY <1>2, <1>5, <3>2 DEF OutInv
    <3>3. QED
      BY <2>7, <3>1, <3>2
  <2>11. QED
    BY <1>2, <1>6, <1>8, <2>9, <2>10 DEF OutInv
<1>10. CASE m.kind # "stop"
  <2>1. stopsRead' = stopsRead
    BY <1>1, <1>10 DEF Read, ReadStop, ReadPage, ReadNotice, ReadError, mainVars
  <2>2. \A u \in Translators : Pending(u)' <=> Pending(u)
    <3>1. \A u \in Translators : StopFrom(u) # m
      BY <1>10, MessageFacts
    <3>2. QED
      BY <1>2, <1>7, <3>1 DEF Pending
  <2>3. StopRead' = StopRead /\ Cardinality(StopRead') = stopsRead'
    BY <1>6, <2>1, <2>2, StopReadUnchanged
  <2>4. \A u \in StopRead' : outBuf'[u] = <<>> /\ \A i \in DOMAIN outPipe' : outPipe'[i].by # u
    BY <1>2, <1>5, <2>3 DEF OutInv
  <2>5. QED
    BY <1>2, <1>6, <1>8, <2>3, <2>4 DEF OutInv
<1>11. QED
  BY <1>9, <1>10

-------------------------------------------------------------------------------
(* The reader *)

LEMMA InitMainInv == Init => MainInv
BY PipelineAssumption DEF Init, MainInv

LEMMA NextMainInv ==
    ASSUME TypeOK, MainInv, Next
    PROVE  MainInv'
<1>1. CASE Read
  <2>1. mainPc = "read" /\ outcome = "none" /\ stopsRead < TranslatorCount /\ joined' = joined /\ stopsRead \in Nat
    BY <1>1, PipelineAssumption DEF Read, ReadStop, ReadPage, ReadNotice, ReadError, MainInv, mainVars, TypeOK
  <2>2. \/ /\ stopsRead' = stopsRead + 1 /\ stopsRead + 1 = TranslatorCount
           /\ mainPc' = "joinPool" /\ outcome' = "ok"
        \/ /\ stopsRead' = stopsRead + 1 /\ stopsRead + 1 # TranslatorCount
           /\ mainPc' = "read" /\ outcome' = "none"
        \/ UNCHANGED <<mainPc, stopsRead, outcome>>
        \/ mainPc' = "joinPool" /\ outcome' = "error" /\ stopsRead' = stopsRead
    BY <1>1, <2>1 DEF Read, ReadStop, ReadPage, ReadNotice, ReadError, AllStopsRead, mainVars
  <2>3. QED
    BY <2>1, <2>2, PipelineAssumption DEF MainInv
<1>2. CASE JoinPool
  BY <1>2 DEF JoinPool, MainInv
<1>3. CASE JoinTranslator
  <2>1. mainPc = "joinTranslators" /\ stopsRead' = stopsRead /\ joined \in Nat /\ joined < TranslatorCount
    BY <1>3, PipelineAssumption DEF JoinTranslator, TypeOK, MainInv
  <2>2. \/ /\ joined' = joined + 1 /\ outcome' = outcome
           /\ mainPc' = IF joined + 1 = TranslatorCount THEN "done" ELSE mainPc
        \/ joined' = joined /\ mainPc' = "done" /\ outcome' = "internal"
    BY <1>3 DEF JoinTranslator
  <2>3. QED
    BY <2>1, <2>2, PipelineAssumption DEF MainInv
<1>4. CASE UNCHANGED mainVars
  BY <1>4 DEF mainVars, MainInv
<1>5. UNCHANGED mainVars \/ Read \/ JoinPool \/ JoinTranslator
  BY DEF Next, PoolStart, PoolStop, PoolExit, TxPutPage, TxPutNotice, TxPutError, TxPut, TxReturn,
         TxDies, TxExit, RawFlush, Translate, TranslatorDies, TranslatorStop, TranslatorExit, OutFlush
<1>6. QED
  BY <1>1, <1>2, <1>3, <1>4, <1>5

LEMMA MainTypeOK ==
    ASSUME TypeOK, MainInv, PageInv, Read \/ JoinPool \/ JoinTranslator
    PROVE  TypeOK'
<1>1. CASE Read
  <2>1. outPipe' \in Seq(OutMessages) /\ Head(outPipe) \in OutMessages /\ Head(outPipe) \in InTransit
    BY <1>1, ReadFacts, TransitOfRead
  <2>2. UNCHANGED <<poolPc, txVars, trPc, rawVars, outBuf, faultVars>>
    BY <1>1, ReadFacts
  <2>3. /\ mainPc' \in {"read", "joinPool"} /\ joined' = joined
        /\ stopsRead' \in 0..TranslatorCount /\ outcome' \in {"none", "ok", "error", "internal"}
    <3>1. mainPc = "read" /\ stopsRead \in Nat /\ stopsRead < TranslatorCount
      BY <1>1, PipelineAssumption DEF Read, MainInv, TypeOK
    <3>2. stopsRead + 1 \in 0..TranslatorCount /\ stopsRead \in 0..TranslatorCount
      BY <3>1, PipelineAssumption
    <3>3. QED
      BY <1>1, <3>1, <3>2 DEF Read, ReadStop, ReadPage, ReadNotice, ReadError, mainVars, TypeOK
  <2>4. ingested' \subseteq Queries \X (1..MaxPages)
    <3>1. CASE Head(outPipe).kind = "data"
      <4>1. Head(outPipe) \in Results
        BY <2>1, <3>1, MessageFacts DEF OutMessages
      <4>2. PICK q \in Queries, n \in 0..MaxPages : Head(outPipe).from = q /\ Head(outPipe).no = n
        BY <4>1 DEF Results
      <4>3. Underway(q, n)
        BY <2>1, <3>1, <4>2 DEF Underway, IsPage
      <4>4. n \in 1..pages[q]
        <5>1. n \in Nat
          BY PipelineAssumption
        <5>2. QED
          BY <4>3, <5>1 DEF PageInv
      <4>5. n \in 1..MaxPages
        BY <4>4, PipelineAssumption DEF TypeOK
      <4>6. ingested' \subseteq ingested \cup {<<q, n>>}
        BY <1>1, <3>1, <4>2 DEF Read, ReadStop, ReadPage, ReadNotice, ReadError, mainVars
      <4>7. QED
        BY <4>5, <4>6 DEF TypeOK
    <3>2. CASE Head(outPipe).kind # "data"
      BY <1>1, <3>2 DEF Read, ReadStop, ReadPage, ReadNotice, ReadError, mainVars, TypeOK
    <3>3. QED
      BY <3>1, <3>2
  <2>5. QED
    BY <2>1, <2>2, <2>3, <2>4 DEF TypeOK, OutMessages, txVars, rawVars, faultVars
<1>2. CASE JoinPool
  BY <1>2 DEF JoinPool, TypeOK, txVars, rawVars, outVars, faultVars
<1>3. CASE JoinTranslator
  <2>1. joined \in Nat /\ joined < TranslatorCount
    BY <1>3, PipelineAssumption DEF JoinTranslator, TypeOK, MainInv
  <2>2. joined + 1 \in 0..TranslatorCount
    BY <2>1, PipelineAssumption
  <2>3. /\ joined' \in 0..TranslatorCount /\ mainPc' \in {"joinTranslators", "done"}
        /\ outcome' \in {"none", "ok", "error", "internal"}
    BY <1>3, <2>2 DEF JoinTranslator, TypeOK
  <2>4. UNCHANGED <<stopsRead, ingested, poolPc, txVars, trPc, rawVars, outVars, faultVars>>
    BY <1>3 DEF JoinTranslator
  <2>5. QED
    BY <2>3, <2>4 DEF TypeOK, txVars, rawVars, outVars, faultVars
<1>4. QED
  BY <1>1, <1>2, <1>3

-------------------------------------------------------------------------------
(* Errors *)

LEMMA InitTransit == Init => InTransit = {}
<1> SUFFICES ASSUME Init PROVE InTransit = {}
  OBVIOUS
<1>1. (\A w \in Writers : rawBuf[w] = <<>>) /\ rawPipe = <<>> /\ (\A t \in Translators : outBuf[t] = <<>>) /\ outPipe = <<>>
  BY DEF Init
<1>2. Msgs(<<>>) = {}
  BY DEF Msgs
<1>3. QED
  BY <1>1, <1>2, InTransitIs

LEMMA InitFaultInv == Init => FaultInv
BY InitTransit DEF Init, FaultInv

LEMMA TxFaultInv ==
    ASSUME TypeOK, FaultInv, NEW q \in Queries,
           TxPutPage(q) \/ TxPutNotice(q) \/ TxPutError(q) \/ TxReturn(q) \/ TxDies(q) \/ TxExit(q)
    PROVE  FaultInv'
<1>1. CASE TxPutPage(q) \/ TxPutNotice(q) \/ TxPutError(q)
  <2>1. PICK no \in 0..MaxPages, kind \in PacketKinds :
          /\ TxPut(q, no, kind)
          /\ \/ kind = "data" /\ faulty' = faulty /\ pages' = [pages EXCEPT ![q] = @ + 1]
             \/ kind = "info" /\ faulty' = faulty /\ pages' = pages
             \/ kind = "error" /\ faulty' = TRUE /\ pages' = pages
    BY <1>1, TxPutCases
  <2> DEFINE m == [from |-> q, no |-> no, kind |-> kind]
  <2>2. InTransit' = InTransit \cup {m}
    BY <2>1, TransitOfTxPut
  <2>3. m.kind = kind
    OBVIOUS
  <2>4. IsError(m) <=> kind = "error"
    BY DEF IsError, PacketKinds
  <2> HIDE DEF m
  <2>5. /\ txPc[q] = "work" /\ UNCHANGED <<txPc, wanted, outcome>>
        /\ last' = [last EXCEPT ![q] = kind] /\ last \in [Queries -> PacketKinds \cup {"none"}]
        /\ \A p \in Queries \ {q} : pages'[p] = pages[p]
    BY <2>1 DEF TxPut, mainVars, TypeOK
  <2>6. \A p \in Queries : last'[p] = "error" => faulty'
    BY <2>1, <2>5 DEF FaultInv
  <2>7. \A p \in Queries : txPc'[p] \in {"flush", "gone"} => pages'[p] = wanted'[p] \/ faulty' \/ p \in MayDie
    BY <2>1, <2>5 DEF FaultInv
  <2>8. \A e \in InTransit' : IsError(e) => faulty'
    BY <2>1, <2>2, <2>4 DEF FaultInv
  <2>9. faulty' => (\E e \in InTransit' : IsError(e)) \/ outcome' \in {"error", "internal"}
    BY <2>1, <2>2, <2>4, <2>5 DEF FaultInv
  <2>10. QED
    BY <2>6, <2>7, <2>8, <2>9 DEF FaultInv
<1>2. CASE TxReturn(q) \/ TxDies(q) \/ TxExit(q)
  <2>1. UNCHANGED <<rawBuf, rawPipe, outBuf, outPipe, faulty, outcome, last, pages, wanted>>
    BY <1>2 DEF TxReturn, TxDies, TxExit, Trouble, mainVars, rawVars, outVars, faultVars
  <2>2. InTransit' = InTransit
    BY <2>1 DEF InTransit
  <2>3. \A p \in Queries \ {q} : txPc'[p] = txPc[p]
    BY <1>2 DEF TxReturn, TxDies, TxExit, TypeOK
  <2>4. pages[q] = wanted[q] \/ faulty \/ q \in MayDie
    BY <1>2 DEF TxReturn, TxDies, TxExit, FaultInv
  <2>5. QED
    BY <2>1, <2>2, <2>3, <2>4 DEF FaultInv
<1>3. QED
  BY <1>1, <1>2

LEMMA PoolFaultInv ==
    ASSUME TypeOK, RawInv, FaultInv, PoolStart \/ PoolStop \/ PoolExit
    PROVE  FaultInv'
<1>1. UNCHANGED <<faulty, outcome, last, pages, wanted>>
  BY DEF PoolStart, PoolStop, PoolExit, mainVars, txVars, faultVars
<1>2. \A q \in Queries : txPc'[q] \in {"flush", "gone"} => txPc'[q] = txPc[q]
  BY DEF PoolStart, PoolStop, PoolExit, txVars
<1>3. InTransit \subseteq InTransit' /\ InTransit' \subseteq InTransit \cup {StopSign}
  <2>1. CASE PoolStop
    <3>1. rawBuf[Pool] = <<>>
      BY <2>1 DEF PoolStop, RawInv
    <3>2. QED
      BY <2>1, <3>1, TransitOfPoolStop
  <2>2. CASE PoolStart \/ PoolExit
    BY <2>2 DEF PoolStart, PoolExit, rawVars, outVars, InTransit
  <2>3. QED
    BY <2>1, <2>2
<1>4. ~IsError(StopSign)
  BY DEF IsError, StopSign
<1>5. QED
  BY <1>1, <1>2, <1>3, <1>4 DEF FaultInv

\* A step that neither adds nor takes messages and reports nothing.
LEMMA QuietFaultInv ==
    ASSUME FaultInv, InTransit' = InTransit, UNCHANGED <<faulty, last, pages, wanted, txPc>>,
           outcome' = outcome \/ outcome' = "internal"
    PROVE  FaultInv'
BY DEF FaultInv

LEMMA FlushFaultInv ==
    ASSUME TypeOK, FaultInv,
           \/ \E w \in Writers : RawFlush(w)
           \/ \E t \in Translators : OutFlush(t) \/ TranslatorExit(t)
           \/ JoinPool \/ JoinTranslator
    PROVE  FaultInv'
<1>1. /\ UNCHANGED <<faulty, last, pages, wanted, txPc>>
      /\ outcome' = outcome \/ outcome' = "internal"
  BY DEF RawFlush, OutFlush, TranslatorExit, JoinPool, JoinTranslator, txVars, mainVars, faultVars
<1>2. InTransit' = InTransit
  <2>1. CASE \E w \in Writers : RawFlush(w)
    BY <2>1, TransitOfRawFlush
  <2>2. CASE \E t \in Translators : OutFlush(t)
    BY <2>2, TransitOfOutFlush
  <2>3. CASE (\E t \in Translators : TranslatorExit(t)) \/ JoinPool \/ JoinTranslator
    <3>1. UNCHANGED <<rawBuf, rawPipe, outBuf, outPipe>>
      BY <2>3 DEF TranslatorExit, JoinPool, JoinTranslator, rawVars, outVars
    <3>2. QED
      BY <3>1 DEF InTransit
  <2>4. QED
    BY <2>1, <2>2, <2>3
<1>3. QED
  BY <1>1, <1>2, QuietFaultInv

LEMMA TranslateFaultInv ==
    ASSUME TypeOK, FaultInv, NEW t \in Translators, Translate(t)
    PROVE  FaultInv'
<1>1. PICK m \in Packets : m = Head(rawPipe)
  BY TranslateFacts
<1>2. PICK out \in Outputs(t, m) :
        /\ outBuf'[t] = outBuf[t] \o out /\ out \in Seq(OutMessages)
        /\ IF m.kind = "data" /\ (\E r \in Msgs(out) : IsError(r)) THEN faulty' = TRUE ELSE faulty' = faulty
  BY <1>1, TranslateFacts
<1>3. /\ m \in InTransit /\ InTransit \subseteq InTransit' \cup {m}
      /\ InTransit' \subseteq InTransit \cup Msgs(out) /\ Msgs(out) \subseteq InTransit'
  BY <1>1, <1>2, TransitOfTranslate
<1>4. /\ m.kind # "data" => \E r \in Msgs(out) : r.kind = m.kind
      /\ m.kind # "data" => \A r \in Msgs(out) : r.kind = m.kind
  BY <1>2, OutputsFacts
<1>5. UNCHANGED <<last, pages, wanted, txPc, outcome>>
  BY DEF Translate, txVars, mainVars
<1>6. faulty => faulty'
  BY <1>2
<1>7. \A e \in InTransit' : IsError(e) => faulty'
  <2> SUFFICES ASSUME NEW e \in InTransit', IsError(e) PROVE faulty'
    OBVIOUS
  <2>1. CASE e \in InTransit
    BY <1>6, <2>1 DEF FaultInv
  <2>2. CASE e \in Msgs(out)
    <3>1. CASE m.kind = "data"
      BY <1>2, <2>2, <3>1
    <3>2. CASE m.kind # "data"
      <4>1. IsError(m)
        BY <1>4, <2>2, <3>2 DEF IsError
      <4>2. QED
        BY <1>3, <1>6, <4>1 DEF FaultInv
    <3>3. QED
      BY <3>1, <3>2
  <2>3. QED
    BY <1>3, <2>1, <2>2
<1>8. faulty' => (\E e \in InTransit' : IsError(e)) \/ outcome' \in {"error", "internal"}
  <2> SUFFICES ASSUME faulty', ~(outcome' \in {"error", "internal"}) PROVE \E e \in InTransit' : IsError(e)
    OBVIOUS
  <2>1. CASE \E r \in Msgs(out) : IsError(r)
    BY <1>3, <2>1
  <2>2. CASE ~\E r \in Msgs(out) : IsError(r)
    <3>1. faulty
      BY <1>2, <2>2
    <3>2. PICK e \in InTransit : IsError(e)
      BY <1>5, <3>1 DEF FaultInv
    <3>3. e # m
      <4>1. SUFFICES ASSUME e = m PROVE FALSE
        OBVIOUS
      <4>2. m.kind # "data"
        BY <3>2, <4>1 DEF IsError
      <4>3. QED
        BY <1>4, <2>2, <3>2, <4>1, <4>2 DEF IsError
    <3>4. QED
      BY <1>3, <3>2, <3>3
  <2>3. QED
    BY <2>1, <2>2
<1>9. QED
  BY <1>5, <1>6, <1>7, <1>8 DEF FaultInv

LEMMA TakeFaultInv ==
    ASSUME TypeOK, FaultInv, NEW t \in Translators, TranslatorDies(t) \/ TranslatorStop(t)
    PROVE  FaultInv'
<1>1. UNCHANGED <<faulty, last, pages, wanted, txPc, outcome>>
  BY DEF TranslatorDies, TranslatorStop, Trouble, txVars, mainVars, faultVars
<1>2. /\ \A e \in InTransit : IsError(e) => e \in InTransit'
      /\ \A e \in InTransit' : IsError(e) => e \in InTransit
  <2>1. CASE TranslatorDies(t)
    <3>1. ~IsError(Head(rawPipe))
      BY <2>1 DEF TranslatorDies, IsError
    <3>2. QED
      BY <2>1, <3>1, TransitOfTranslatorDies
  <2>2. CASE TranslatorStop(t)
    <3>1. ~IsError(StopSign) /\ ~IsError(StopFrom(t))
      BY DEF IsError, StopSign, StopFrom
    <3>2. QED
      BY <2>2, <3>1, TransitOfTranslatorStop
  <2>3. QED
    BY <2>1, <2>2
<1>3. QED
  BY <1>1, <1>2 DEF FaultInv

LEMMA ReadFaultInv ==
    ASSUME TypeOK, MainInv, FaultInv, Read
    PROVE  FaultInv'
<1>1. /\ Head(outPipe) \in InTransit /\ InTransit \subseteq InTransit' \cup {Head(outPipe)}
      /\ InTransit' \subseteq InTransit
  BY TransitOfRead
<1>2. UNCHANGED <<faulty, last, pages, wanted, txPc>>
  BY ReadFacts DEF txVars, faultVars
<1>3. outcome = "none"
  BY DEF Read, MainInv
<1>4. IsError(Head(outPipe)) => outcome' = "error"
  BY DEF Read, ReadStop, ReadPage, ReadNotice, ReadError, IsError
<1>5. \A e \in InTransit' : IsError(e) => faulty'
  BY <1>1, <1>2 DEF FaultInv
<1>6. faulty' => (\E e \in InTransit' : IsError(e)) \/ outcome' \in {"error", "internal"}
  <2> SUFFICES ASSUME faulty' PROVE (\E e \in InTransit' : IsError(e)) \/ outcome' = "error"
    OBVIOUS
  <2>1. PICK e \in InTransit : IsError(e)
    BY <1>2, <1>3 DEF FaultInv
  <2>2. QED
    BY <1>1, <1>4, <2>1
<1>7. QED
  BY <1>2, <1>5, <1>6 DEF FaultInv

-------------------------------------------------------------------------------
(* Pages *)

LEMMA InitPageInv == Init => PageInv
<1> SUFFICES ASSUME Init PROVE PageInv
  OBVIOUS
<1>1. \A q \in Queries, n \in Nat : ~Underway(q, n) /\ <<q, n>> \notin ingested
  BY InitTransit DEF Init, Underway
<1>2. \A q \in Queries : pages[q] = 0 /\ wanted[q] \in Nat
  BY PipelineAssumption DEF Init
<1>3. QED
  BY <1>1, <1>2 DEF PageInv

\* Steps that move pages, or let them vanish with a dying translator or behind an
\* error, and put none.
LEMMA MovePageInv ==
    ASSUME PageInv, UNCHANGED <<pages, wanted>>,
           \A q \in Queries, n \in Nat :
             Underway(q, n)' \/ <<q, n>> \in ingested' => Underway(q, n) \/ <<q, n>> \in ingested,
           \A q \in Queries, n \in Nat :
             Underway(q, n) \/ <<q, n>> \in ingested =>
               \/ Underway(q, n)' \/ <<q, n>> \in ingested'
               \/ faulty' \/ \E t \in Translators : Dead(t)',
           faulty => faulty',
           \A t \in Translators : Dead(t) => Dead(t)'
    PROVE  PageInv'
<1>1. \A q \in Queries, n \in Nat : Underway(q, n)' \/ <<q, n>> \in ingested' => n \in 1..pages'[q]
  BY DEF PageInv
<1>2. ASSUME NEW q \in Queries, NEW n \in 1..pages'[q]
      PROVE  Underway(q, n)' \/ <<q, n>> \in ingested' \/ faulty' \/ \E t \in Translators : Dead(t)'
  <2>1. n \in Nat /\ n \in 1..pages[q]
    OBVIOUS
  <2>2. Underway(q, n) \/ <<q, n>> \in ingested \/ faulty \/ \E t \in Translators : Dead(t)
    BY <2>1 DEF PageInv
  <2>3. QED
    BY <2>1, <2>2
<1>3. QED
  BY <1>1, <1>2 DEF PageInv

LEMMA TxPutPageInv ==
    ASSUME TypeOK, PageInv, NEW q \in Queries, TxPutPage(q) \/ TxPutNotice(q) \/ TxPutError(q)
    PROVE  PageInv'
<1>1. PICK no \in 0..MaxPages, kind \in PacketKinds :
        /\ TxPut(q, no, kind)
        /\ \/ /\ kind = "data" /\ no = pages[q] + 1 /\ pages[q] < wanted[q]
              /\ pages' = [pages EXCEPT ![q] = @ + 1] /\ faulty' = faulty
           \/ kind = "info" /\ pages' = pages /\ faulty' = faulty
           \/ kind = "error" /\ pages' = pages /\ faulty' = TRUE
  BY TxPutCases
<1> DEFINE m == [from |-> q, no |-> no, kind |-> kind]
<1>2. InTransit' = InTransit \cup {m}
  BY <1>1, TransitOfTxPut
<1>3. UNCHANGED <<wanted, ingested, trPc>>
  BY <1>1 DEF TxPut, mainVars
<1>4. \A t \in Translators : Dead(t) => Dead(t)'
  BY <1>3 DEF Dead
<1>5. \A p \in Queries, n \in Nat : IsPage(m, p, n) <=> kind = "data" /\ p = q /\ n = no
  BY DEF IsPage
<1> HIDE DEF m
<1>6. \A p \in Queries, n \in Nat : Underway(p, n)' <=> Underway(p, n) \/ (kind = "data" /\ p = q /\ n = no)
  BY <1>2, <1>5 DEF Underway
<1>7. CASE kind # "data"
  BY <1>1, <1>3, <1>4, <1>6, <1>7, MovePageInv
<1>8. CASE kind = "data"
  <2>1. /\ no = pages[q] + 1 /\ pages[q] < wanted[q] /\ faulty' = faulty
        /\ pages[q] \in Nat /\ wanted[q] \in Nat
        /\ pages'[q] = pages[q] + 1 /\ \A p \in Queries \ {q} : pages'[p] = pages[p]
    BY <1>1, <1>8, PipelineAssumption DEF TypeOK
  <2>2. \A p \in Queries : pages'[p] <= wanted'[p]
    BY <1>3, <2>1 DEF PageInv
  <2>3. ASSUME NEW p \in Queries, NEW n \in Nat, Underway(p, n)' \/ <<p, n>> \in ingested'
        PROVE  n \in 1..pages'[p]
    <3>1. CASE p = q /\ n = no
      BY <2>1, <3>1
    <3>2. CASE ~(p = q /\ n = no)
      <4>1. n \in 1..pages[p]
        BY <1>3, <1>6, <2>3, <3>2 DEF PageInv
      <4>2. QED
        BY <2>1, <4>1
    <3>3. QED
      BY <3>1, <3>2
  <2>4. ASSUME NEW p \in Queries, NEW n \in 1..pages'[p]
        PROVE  Underway(p, n)' \/ <<p, n>> \in ingested' \/ faulty' \/ \E t \in Translators : Dead(t)'
    <3>1. n \in Nat
      OBVIOUS
    <3>2. CASE p = q /\ n = no
      BY <1>6, <1>8, <3>1, <3>2
    <3>3. CASE ~(p = q /\ n = no)
      <4>1. n \in 1..pages[p]
        BY <2>1, <3>3
      <4>2. Underway(p, n) \/ <<p, n>> \in ingested \/ faulty \/ \E t \in Translators : Dead(t)
        BY <4>1 DEF PageInv
      <4>3. QED
        BY <1>3, <1>4, <1>6, <2>1, <3>1, <4>2
    <3>4. QED
      BY <3>2, <3>3
  <2>5. QED
    BY <2>2, <2>3, <2>4 DEF PageInv
<1>9. QED
  BY <1>7, <1>8

\* Steps that keep every page where it is, or move it between buffer and pipe.
LEMMA QuietPageInv ==
    ASSUME TypeOK, RawInv, PageInv,
           \/ PoolStart \/ PoolStop \/ PoolExit
           \/ \E q \in Queries : TxReturn(q) \/ TxDies(q) \/ TxExit(q)
           \/ \E w \in Writers : RawFlush(w)
           \/ \E t \in Translators : TranslatorStop(t) \/ TranslatorExit(t) \/ OutFlush(t)
           \/ JoinPool \/ JoinTranslator
    PROVE  PageInv'
<1>1. UNCHANGED <<pages, wanted, ingested, faulty>>
  BY DEF PoolStart, PoolStop, PoolExit, TxReturn, TxDies, TxExit, RawFlush, TranslatorStop, TranslatorExit,
         OutFlush, JoinPool, JoinTranslator, Trouble, mainVars, txVars, faultVars
<1>2. \A t \in Translators : Dead(t) => Dead(t)'
  <2>1. trPc \in [Translators -> {"work", "flush", "gone", "dead", "deadGone"}]
    BY DEF TypeOK
  <2>2. CASE \E u \in Translators : TranslatorStop(u)
    BY <2>1, <2>2 DEF TranslatorStop, Dead
  <2>3. CASE \E u \in Translators : TranslatorExit(u)
    <3>1. PICK u \in Translators : TranslatorExit(u)
      BY <2>3
    <3>2. \/ trPc[u] = "flush" /\ trPc' = [trPc EXCEPT ![u] = "gone"]
          \/ trPc[u] = "dead" /\ trPc' = [trPc EXCEPT ![u] = "deadGone"]
      BY <2>1, <3>1 DEF TranslatorExit
    <3>3. QED
      BY <2>1, <3>2 DEF Dead
  <2>4. CASE UNCHANGED trPc
    BY <2>4 DEF Dead
  <2>5. QED
    BY <2>2, <2>3, <2>4 DEF PoolStart, PoolStop, PoolExit, TxReturn, TxDies, TxExit, RawFlush, OutFlush,
                            JoinPool, JoinTranslator
<1>3. \A q \in Queries, n \in Nat : ~IsPage(StopSign, q, n) /\ \A t \in Translators : ~IsPage(StopFrom(t), q, n)
  BY DEF IsPage, StopSign, StopFrom
<1>4. \A q \in Queries, n \in Nat : Underway(q, n)' <=> Underway(q, n)
  <2>1. CASE PoolStop
    <3>1. rawBuf[Pool] = <<>>
      BY <2>1 DEF PoolStop, RawInv
    <3>2. InTransit \subseteq InTransit' /\ InTransit' \subseteq InTransit \cup {StopSign}
      BY <2>1, <3>1, TransitOfPoolStop
    <3>3. QED
      BY <1>3, <3>2 DEF Underway
  <2>2. CASE \E w \in Writers : RawFlush(w)
    BY <2>2, TransitOfRawFlush DEF Underway
  <2>3. CASE \E t \in Translators : TranslatorStop(t)
    <3>1. PICK t \in Translators : TranslatorStop(t)
      BY <2>3
    <3>2. InTransit \subseteq InTransit' \cup {StopSign} /\ InTransit' \subseteq InTransit \cup {StopFrom(t)}
      BY <3>1, TransitOfTranslatorStop
    <3>3. QED
      BY <1>3, <3>2 DEF Underway
  <2>4. CASE \E t \in Translators : OutFlush(t)
    BY <2>4, TransitOfOutFlush DEF Underway
  <2>5. CASE UNCHANGED <<rawBuf, rawPipe, outBuf, outPipe>>
    <3>1. InTransit' = InTransit
      BY <2>5 DEF InTransit
    <3>2. QED
      BY <3>1 DEF Underway
  <2>6. QED
    BY <2>1, <2>2, <2>3, <2>4, <2>5
       DEF PoolStart, PoolExit, TxReturn, TxDies, TxExit, TranslatorExit, JoinPool, JoinTranslator, rawVars, outVars
<1>5. QED
  BY <1>1, <1>2, <1>4, MovePageInv

LEMMA TranslatePageInv ==
    ASSUME TypeOK, PageInv, NEW t \in Translators, Translate(t)
    PROVE  PageInv'
<1>1. PICK m \in Packets : m = Head(rawPipe)
  BY TranslateFacts
<1>2. PICK out \in Outputs(t, m) :
        /\ outBuf'[t] = outBuf[t] \o out /\ out \in Seq(OutMessages)
        /\ IF m.kind = "data" /\ (\E r \in Msgs(out) : IsError(r)) THEN faulty' = TRUE ELSE faulty' = faulty
  BY <1>1, TranslateFacts
<1>3. /\ m \in InTransit /\ InTransit \subseteq InTransit' \cup {m}
      /\ InTransit' \subseteq InTransit \cup Msgs(out) /\ Msgs(out) \subseteq InTransit'
  BY <1>1, <1>2, TransitOfTranslate
<1>4. /\ \A r \in Msgs(out) : r.from = m.from /\ r.no = m.no
      /\ m.kind # "data" => \A r \in Msgs(out) : r.kind = m.kind
      /\ m.kind = "data" => (\E r \in Msgs(out) : r.kind = "data") \/ (\E r \in Msgs(out) : IsError(r))
  BY <1>2, OutputsFacts
<1>5. UNCHANGED <<pages, wanted, ingested, trPc>>
  BY DEF Translate, txVars, mainVars
<1>6. (faulty => faulty') /\ \A u \in Translators : Dead(u) => Dead(u)'
  BY <1>2, <1>5 DEF Dead
<1>7. ASSUME NEW q \in Queries, NEW n \in Nat, Underway(q, n)'
      PROVE  Underway(q, n)
  <2>1. PICK e \in InTransit' : IsPage(e, q, n)
    BY <1>7 DEF Underway
  <2>2. CASE e \in Msgs(out)
    BY <1>3, <1>4, <2>1, <2>2 DEF Underway, IsPage
  <2>3. CASE e \in InTransit
    BY <2>1, <2>3 DEF Underway
  <2>4. QED
    BY <1>3, <2>2, <2>3
<1>8. ASSUME NEW q \in Queries, NEW n \in Nat, Underway(q, n)
      PROVE  Underway(q, n)' \/ faulty'
  <2>1. PICK e \in InTransit : IsPage(e, q, n)
    BY <1>8 DEF Underway
  <2>2. CASE e # m
    BY <1>3, <2>1, <2>2 DEF Underway
  <2>3. CASE e = m
    <3>1. m.kind = "data" /\ m.from = q /\ m.no = n
      BY <2>1, <2>3 DEF IsPage
    <3>2. CASE \E r \in Msgs(out) : IsError(r)
      BY <1>2, <3>1, <3>2
    <3>3. CASE \E r \in Msgs(out) : r.kind = "data"
      BY <1>3, <1>4, <3>1, <3>3 DEF Underway, IsPage
    <3>4. QED
      BY <1>4, <3>1, <3>2, <3>3
  <2>4. QED
    BY <2>2, <2>3
<1>9. QED
  BY <1>5, <1>6, <1>7, <1>8, MovePageInv

LEMMA TranslatorDiesPageInv ==
    ASSUME TypeOK, PageInv, NEW t \in Translators, TranslatorDies(t)
    PROVE  PageInv'
<1>1. UNCHANGED <<pages, wanted, ingested, faulty>>
  BY DEF TranslatorDies, Trouble, txVars, mainVars
<1>2. (\A u \in Translators : Dead(u) => Dead(u)') /\ Dead(t)'
  <2>1. trPc \in [Translators -> {"work", "flush", "gone", "dead", "deadGone"}]
        /\ trPc[t] = "work" /\ trPc' = [trPc EXCEPT ![t] = "dead"]
    BY DEF TranslatorDies, TypeOK
  <2>2. QED
    BY <2>1 DEF Dead
<1>3. InTransit' \subseteq InTransit
  BY TransitOfTranslatorDies
<1>4. \A q \in Queries, n \in Nat : Underway(q, n)' => Underway(q, n)
  BY <1>3 DEF Underway
<1>5. QED
  BY <1>1, <1>2, <1>4, MovePageInv

LEMMA ReadPageInv ==
    ASSUME TypeOK, PageInv, Read
    PROVE  PageInv'
<1>1. PICK m \in OutMessages : m = Head(outPipe)
  BY ReadFacts
<1>2. m \in InTransit /\ InTransit \subseteq InTransit' \cup {m} /\ InTransit' \subseteq InTransit
  BY <1>1, TransitOfRead
<1>3. UNCHANGED <<pages, wanted, faulty, trPc>>
  BY ReadFacts DEF txVars, faultVars
<1>4. ingested' = IF m.kind = "data" THEN ingested \cup {<<m.from, m.no>>} ELSE ingested
  BY <1>1 DEF Read, ReadStop, ReadPage, ReadNotice, ReadError, IsError, mainVars
<1>5. \A t \in Translators : Dead(t) => Dead(t)'
  BY <1>3 DEF Dead
<1>6. ASSUME NEW q \in Queries, NEW n \in Nat, Underway(q, n)' \/ <<q, n>> \in ingested'
      PROVE  Underway(q, n) \/ <<q, n>> \in ingested
  <2>1. CASE Underway(q, n)'
    BY <1>2, <2>1 DEF Underway
  <2>2. CASE <<q, n>> \in ingested'
    <3>1. <<q, n>> \in ingested \/ IsPage(m, q, n)
      BY <1>4, <2>2 DEF IsPage
    <3>2. QED
      BY <1>2, <3>1 DEF Underway
  <2>3. QED
    BY <1>6, <2>1, <2>2
<1>7. ASSUME NEW q \in Queries, NEW n \in Nat, Underway(q, n) \/ <<q, n>> \in ingested
      PROVE  Underway(q, n)' \/ <<q, n>> \in ingested'
  <2>1. CASE <<q, n>> \in ingested
    BY <1>4, <2>1
  <2>2. CASE Underway(q, n)
    <3>1. PICK e \in InTransit : IsPage(e, q, n)
      BY <2>2 DEF Underway
    <3>2. CASE e = m
      BY <1>4, <3>1, <3>2 DEF IsPage
    <3>3. CASE e # m
      BY <1>2, <3>1, <3>3 DEF Underway
    <3>4. QED
      BY <3>2, <3>3
  <2>3. QED
    BY <1>7, <2>1, <2>2
<1>8. QED
  BY <1>3, <1>5, <1>6, <1>7, MovePageInv

-------------------------------------------------------------------------------
(* No page twice *)

LEMMA PageAppend ==
    ASSUME NEW S, NEW s \in Seq(S), NEW m \in S, NEW q, NEW n
    PROVE  /\ Has(Append(s, m), q, n) <=> Has(s, q, n) \/ IsPage(m, q, n)
           /\ Once(s, q, n) /\ ~(Has(s, q, n) /\ IsPage(m, q, n)) => Once(Append(s, m), q, n)
<1>1. PICK l \in Nat : l = Len(s) /\ DOMAIN s = 1..l /\ DOMAIN Append(s, m) = 1..(l + 1)
  BY AppendFacts
<1>2. (\A i \in 1..l : Append(s, m)[i] = s[i]) /\ Append(s, m)[l + 1] = m
  BY <1>1, AppendFacts
<1>3. \A i \in 1..(l + 1) : i \in 1..l \/ i = l + 1
  OBVIOUS
<1>4. (\A i \in 1..l : i \in 1..(l + 1)) /\ l + 1 \in 1..(l + 1)
  OBVIOUS
<1>5. Has(Append(s, m), q, n) <=> Has(s, q, n) \/ IsPage(m, q, n)
  BY <1>1, <1>2, <1>3, <1>4 DEF Has
<1>6. Once(s, q, n) /\ ~(Has(s, q, n) /\ IsPage(m, q, n)) => Once(Append(s, m), q, n)
  BY <1>1, <1>2, <1>3 DEF Has, Once
<1>7. QED
  BY <1>5, <1>6

LEMMA PageTail ==
    ASSUME NEW S, NEW s \in Seq(S), s # <<>>, NEW q, NEW n
    PROVE  /\ Has(s, q, n) <=> Has(Tail(s), q, n) \/ IsPage(Head(s), q, n)
           /\ Once(s, q, n) => Once(Tail(s), q, n) /\ ~(Has(Tail(s), q, n) /\ IsPage(Head(s), q, n))
<1>1. PICK l \in Nat \ {0} : l = Len(s) /\ DOMAIN s = 1..l /\ DOMAIN Tail(s) = 1..(l - 1)
  BY TailFacts
<1>2. Head(s) = s[1] /\ \A i \in 1..(l - 1) : Tail(s)[i] = s[i + 1]
  BY <1>1, TailFacts
<1>3. \A i \in 1..l : i = 1 \/ (i - 1 \in 1..(l - 1) /\ (i - 1) + 1 = i)
  BY <1>1
<1>4. 1 \in 1..l /\ \A i \in 1..(l - 1) : i + 1 \in 1..l /\ i + 1 # 1 /\ \A j \in 1..(l - 1) : i + 1 = j + 1 => i = j
  BY <1>1
<1>5. \A i \in 1..l : i = 1 \/ (i - 1 \in 1..(l - 1) /\ Tail(s)[i - 1] = s[i])
  BY <1>2, <1>3
<1>6. Has(s, q, n) <=> Has(Tail(s), q, n) \/ IsPage(Head(s), q, n)
  <2>1. Has(s, q, n) => Has(Tail(s), q, n) \/ IsPage(Head(s), q, n)
    BY <1>1, <1>2, <1>5 DEF Has
  <2>2. Has(Tail(s), q, n) => Has(s, q, n)
    BY <1>1, <1>2, <1>4 DEF Has
  <2>3. IsPage(Head(s), q, n) => Has(s, q, n)
    BY <1>1, <1>2, <1>4 DEF Has
  <2>4. QED
    BY <2>1, <2>2, <2>3
<1>7. Once(s, q, n) => Once(Tail(s), q, n)
  BY <1>1, <1>2, <1>4 DEF Once
<1>8. Once(s, q, n) => ~(Has(Tail(s), q, n) /\ IsPage(Head(s), q, n))
  BY <1>1, <1>2, <1>4 DEF Has, Once
<1>9. QED
  BY <1>6, <1>7, <1>8

LEMMA PageConcat ==
    ASSUME NEW S, NEW s \in Seq(S), NEW u \in Seq(S), NEW q, NEW n
    PROVE  /\ Has(s \o u, q, n) => Has(s, q, n) \/ Has(u, q, n)
           /\ Once(s, q, n) /\ Once(u, q, n) /\ ~(Has(s, q, n) /\ Has(u, q, n)) => Once(s \o u, q, n)
<1>1. PICK l \in Nat : l = Len(s)
  OBVIOUS
<1>2. PICK k \in Nat : k = Len(u)
  OBVIOUS
<1>3. /\ DOMAIN s = 1..l /\ DOMAIN u = 1..k /\ DOMAIN (s \o u) = 1..(l + k)
      /\ \A i \in 1..l : (s \o u)[i] = s[i]
      /\ \A i \in 1..k : (s \o u)[l + i] = u[i]
  BY <1>1, <1>2, ConcatFacts
<1>4. \A i \in 1..(l + k) : i \in 1..l \/ (i - l \in 1..k /\ l + (i - l) = i)
  OBVIOUS
<1>5. \A i \in 1..(l + k) :
        \/ i \in 1..l /\ (s \o u)[i] = s[i]
        \/ i - l \in 1..k /\ (s \o u)[i] = u[i - l]
  BY <1>3, <1>4
<1>6. \A i, j \in 1..(l + k) : i - l = j - l => i = j
  OBVIOUS
<1>7. Has(s \o u, q, n) => Has(s, q, n) \/ Has(u, q, n)
  BY <1>3, <1>5 DEF Has
<1>8. Once(s, q, n) /\ Once(u, q, n) /\ ~(Has(s, q, n) /\ Has(u, q, n)) => Once(s \o u, q, n)
  <2> SUFFICES ASSUME Once(s, q, n), Once(u, q, n), ~(Has(s, q, n) /\ Has(u, q, n)),
                      NEW i \in 1..(l + k), NEW j \in 1..(l + k),
                      IsPage((s \o u)[i], q, n), IsPage((s \o u)[j], q, n)
               PROVE  i = j
    BY <1>3 DEF Once
  <2>1. CASE i \in 1..l /\ j \in 1..l
    BY <1>3, <2>1 DEF Once
  <2>2. CASE i \in 1..l /\ j \notin 1..l
    BY <1>3, <1>5, <2>2 DEF Has
  <2>3. CASE i \notin 1..l /\ j \in 1..l
    BY <1>3, <1>5, <2>3 DEF Has
  <2>4. CASE i \notin 1..l /\ j \notin 1..l
    <3>1. i - l = j - l
      BY <1>3, <1>5, <2>4 DEF Once
    <3>2. QED
      BY <1>6, <3>1
  <2>5. QED
    BY <2>1, <2>2, <2>3, <2>4
<1>9. QED
  BY <1>7, <1>8

\* Where a page is found it is under way.
LEMMA HasUnderway ==
    ASSUME NEW q \in Queries, NEW n
    PROVE  /\ Has(rawBuf[q], q, n) => Underway(q, n)
           /\ Has(rawPipe, q, n) => Underway(q, n)
           /\ Has(outPipe, q, n) => Underway(q, n)
           /\ \A t \in Translators : Has(outBuf[t], q, n) => Underway(q, n)
<1>1. \A s : Has(s, q, n) <=> \E m \in Msgs(s) : IsPage(m, q, n)
  BY DEF Has, Msgs
<1>2. q \in Writers
  BY DEF Writers
<1>3. QED
  BY <1>1, <1>2, InTransitIs DEF Underway

LEMMA InitOnceInv == Init => OnceInv
<1> SUFFICES ASSUME Init, NEW q \in Queries, NEW n \in 1..MaxPages PROVE OnceAt(q, n)
  BY DEF OnceInv
<1>1. /\ rawBuf[q] = <<>> /\ rawPipe = <<>> /\ outPipe = <<>>
      /\ \A t \in Translators : outBuf[t] = <<>>
      /\ ingested = {}
  BY DEF Init, Writers
<1>2. ~Has(<<>>, q, n) /\ Once(<<>>, q, n)
  BY DEF Has, Once
<1>3. QED
  BY <1>1, <1>2 DEF OnceAt

\* A step that only takes messages away.
LEMMA ShrinkOnceAt ==
    ASSUME NEW q \in Queries, NEW n \in 1..MaxPages, OnceAt(q, n), ingested' = ingested,
           Has(rawBuf'[q], q, n) => Has(rawBuf[q], q, n), Has(rawPipe', q, n) => Has(rawPipe, q, n),
           Has(outPipe', q, n) => Has(outPipe, q, n),
           \A t \in Translators : Has(outBuf'[t], q, n) => Has(outBuf[t], q, n),
           Once(rawBuf'[q], q, n), Once(rawPipe', q, n), Once(outPipe', q, n),
           \A t \in Translators : Once(outBuf'[t], q, n)
    PROVE  OnceAt(q, n)'
BY DEF OnceAt

LEMMA TxPutOnceInv ==
    ASSUME TypeOK, PageInv, OnceInv, NEW q \in Queries, TxPutPage(q) \/ TxPutNotice(q) \/ TxPutError(q)
    PROVE  OnceInv'
<1>1. PICK no \in 0..MaxPages, kind \in PacketKinds : TxPut(q, no, kind) /\ (kind = "data" => no = pages[q] + 1)
  BY TxPutCases
<1> DEFINE m == [from |-> q, no |-> no, kind |-> kind]
<1>2. /\ m \in RawMessages /\ rawBuf[q] \in Seq(RawMessages) /\ rawBuf'[q] = Append(rawBuf[q], m)
      /\ \A w \in Writers \ {q} : rawBuf'[w] = rawBuf[w]
  BY <1>1, TxPutFacts DEF TypeOK, RawMessages, Writers
<1>3. UNCHANGED <<rawPipe, outBuf, outPipe, ingested>>
  BY <1>1 DEF TxPut, mainVars, outVars
<1>4. \A p \in Queries, n \in 1..MaxPages : IsPage(m, p, n) => p = q /\ n = pages[q] + 1
  BY <1>1 DEF IsPage
<1> HIDE DEF m
<1>5. SUFFICES ASSUME NEW p \in Queries, NEW n \in 1..MaxPages PROVE OnceAt(p, n)'
  BY DEF OnceInv
<1>6. OnceAt(p, n)
  BY DEF OnceInv
<1>7. CASE p # q
  <2>1. rawBuf'[p] = rawBuf[p]
    BY <1>2, <1>7 DEF Writers
  <2>2. QED
    BY <1>3, <1>6, <2>1 DEF OnceAt
<1>8. CASE p = q /\ ~IsPage(m, q, n)
  <2>1. /\ Has(rawBuf'[q], q, n) <=> Has(rawBuf[q], q, n)
        /\ Once(rawBuf[q], q, n) => Once(rawBuf'[q], q, n)
    BY <1>2, <1>8, PageAppend
  <2>2. QED
    BY <1>3, <1>6, <1>8, <2>1 DEF OnceAt
<1>9. CASE p = q /\ IsPage(m, q, n)
  <2>1. ~Underway(q, n) /\ <<q, n>> \notin ingested
    <3>1. n = pages[q] + 1 /\ n \in Nat /\ pages[q] \in Nat
      BY <1>4, <1>9, PipelineAssumption DEF TypeOK
    <3>2. n \notin 1..pages[q]
      BY <3>1
    <3>3. QED
      BY <3>1, <3>2 DEF PageInv
  <2>2. /\ ~Has(rawBuf[q], q, n) /\ ~Has(rawPipe, q, n) /\ ~Has(outPipe, q, n)
        /\ \A t \in Translators : ~Has(outBuf[t], q, n)
    BY <2>1, HasUnderway
  <2>3. Once(rawBuf[q], q, n) => Once(rawBuf'[q], q, n)
    BY <1>2, <2>2, PageAppend
  <2>4. QED
    BY <1>3, <1>6, <1>9, <2>1, <2>2, <2>3 DEF OnceAt
<1>10. QED
  BY <1>7, <1>8, <1>9

LEMMA RawFlushOnceInv ==
    ASSUME TypeOK, RawInv, OnceInv, NEW w \in Writers, RawFlush(w)
    PROVE  OnceInv'
<1>1. PICK m \in RawMessages : m = Head(rawBuf[w])
  BY RawFlushFacts
<1>2. /\ rawBuf[w] \in Seq(RawMessages) /\ rawPipe \in Seq(RawMessages)
      /\ rawBuf[w] # <<>> /\ rawBuf'[w] = Tail(rawBuf[w]) /\ rawPipe' = Append(rawPipe, m)
      /\ \A u \in Writers \ {w} : rawBuf'[u] = rawBuf[u]
  BY <1>1, RawFlushFacts
<1>3. UNCHANGED <<outBuf, outPipe, ingested>>
  BY DEF RawFlush, mainVars, outVars
<1>4. SUFFICES ASSUME NEW q \in Queries, NEW n \in 1..MaxPages PROVE OnceAt(q, n)'
  BY DEF OnceInv
<1>5. OnceAt(q, n)
  BY DEF OnceInv
<1>6. /\ Has(rawPipe', q, n) <=> Has(rawPipe, q, n) \/ IsPage(m, q, n)
      /\ Once(rawPipe, q, n) /\ ~(Has(rawPipe, q, n) /\ IsPage(m, q, n)) => Once(rawPipe', q, n)
  BY <1>1, <1>2, PageAppend
<1>7. CASE w = q
  <2>1. /\ Has(rawBuf[q], q, n) <=> Has(rawBuf'[q], q, n) \/ IsPage(m, q, n)
        /\ Once(rawBuf[q], q, n) => Once(rawBuf'[q], q, n) /\ ~(Has(rawBuf'[q], q, n) /\ IsPage(m, q, n))
    BY <1>1, <1>2, <1>7, PageTail
  <2>2. QED
    BY <1>3, <1>5, <1>6, <2>1 DEF OnceAt
<1>8. CASE w # q
  <2>1. rawBuf'[q] = rawBuf[q]
    BY <1>2, <1>8 DEF Writers
  <2>2. ~IsPage(m, q, n)
    <3>1. 1 \in DOMAIN rawBuf[w] /\ m = rawBuf[w][1]
      BY <1>1, <1>2, TailFacts
    <3>2. CASE w = Pool
      BY <3>1, <3>2 DEF RawInv, IsPage, StopSign
    <3>3. CASE w \in Queries
      BY <1>8, <3>1, <3>3 DEF RawInv, IsPage
    <3>4. QED
      BY <3>2, <3>3 DEF Writers
  <2>3. QED
    BY <1>3, <1>5, <1>6, <2>1, <2>2 DEF OnceAt
<1>9. QED
  BY <1>7, <1>8

LEMMA TranslateOnceInv ==
    ASSUME TypeOK, OnceInv, NEW t \in Translators, Translate(t)
    PROVE  OnceInv'
<1>1. PICK m \in Packets : m = Head(rawPipe)
  BY TranslateFacts
<1>2. PICK out \in Outputs(t, m) : outBuf'[t] = outBuf[t] \o out /\ out \in Seq(OutMessages)
  BY <1>1, TranslateFacts
<1>3. /\ \A r \in Msgs(out) : r.from = m.from /\ r.no = m.no
      /\ m.kind # "data" => \A r \in Msgs(out) : r.kind = m.kind
      /\ \A i, j \in DOMAIN out : out[i].kind = "data" /\ out[j].kind = "data" => i = j
  BY <1>2, OutputsFacts
<1>4. /\ rawPipe \in Seq(RawMessages) /\ rawPipe # <<>> /\ rawPipe' = Tail(rawPipe)
      /\ outBuf[t] \in Seq(OutMessages)
      /\ \A u \in Translators \ {t} : outBuf'[u] = outBuf[u]
  BY TranslateFacts
<1>5. UNCHANGED <<rawBuf, outPipe, ingested>>
  BY DEF Translate, mainVars
<1>6. SUFFICES ASSUME NEW q \in Queries, NEW n \in 1..MaxPages PROVE OnceAt(q, n)'
  BY DEF OnceInv
<1>7. OnceAt(q, n)
  BY DEF OnceInv
<1>8. /\ Has(rawPipe, q, n) <=> Has(rawPipe', q, n) \/ IsPage(m, q, n)
      /\ Once(rawPipe, q, n) => Once(rawPipe', q, n) /\ ~(Has(rawPipe', q, n) /\ IsPage(m, q, n))
  BY <1>1, <1>4, PageTail
<1>9. Once(out, q, n) /\ (Has(out, q, n) => IsPage(m, q, n))
  BY <1>3 DEF Once, Has, IsPage, Msgs
<1>10. /\ Has(outBuf'[t], q, n) => Has(outBuf[t], q, n) \/ Has(out, q, n)
       /\ Once(outBuf[t], q, n) /\ Once(out, q, n) /\ ~(Has(outBuf[t], q, n) /\ Has(out, q, n))
            => Once(outBuf'[t], q, n)
  BY <1>2, <1>4, PageConcat
<1>11. CASE ~IsPage(m, q, n)
  <2>1. \A u \in Translators : /\ Has(outBuf'[u], q, n) => Has(outBuf[u], q, n)
                               /\ Once(outBuf'[u], q, n)
    BY <1>4, <1>7, <1>9, <1>10, <1>11 DEF OnceAt
  <2>2. QED
    BY <1>5, <1>7, <1>8, <2>1, ShrinkOnceAt DEF OnceAt
<1>12. CASE IsPage(m, q, n)
  <2>1. /\ ~Has(rawBuf[q], q, n) /\ ~Has(rawPipe', q, n) /\ ~Has(outPipe, q, n)
        /\ \A u \in Translators : ~Has(outBuf[u], q, n)
        /\ <<q, n>> \notin ingested
    BY <1>7, <1>8, <1>12 DEF OnceAt
  <2>2. \A u \in Translators : Once(outBuf'[u], q, n) /\ (u # t => ~Has(outBuf'[u], q, n))
    BY <1>4, <1>7, <1>9, <1>10, <2>1 DEF OnceAt
  <2>3. QED
    BY <1>5, <1>7, <1>8, <2>1, <2>2 DEF OnceAt
<1>13. QED
  BY <1>11, <1>12

\* A translator takes a page with it, or a STOP sign.
LEMMA TakeOnceInv ==
    ASSUME TypeOK, OnceInv, NEW t \in Translators, TranslatorDies(t) \/ TranslatorStop(t)
    PROVE  OnceInv'
<1>1. SUFFICES ASSUME NEW q \in Queries, NEW n \in 1..MaxPages PROVE OnceAt(q, n)'
  BY DEF OnceInv
<1>2. OnceAt(q, n)
  BY DEF OnceInv
<1>3. UNCHANGED <<rawBuf, outPipe, ingested>>
  BY DEF TranslatorDies, TranslatorStop, mainVars, outVars
<1>4. rawPipe \in Seq(RawMessages) /\ rawPipe # <<>> /\ rawPipe' = Tail(rawPipe)
  BY DEF TranslatorDies, TranslatorStop, TypeOK, RawMessages
<1>5. (Has(rawPipe', q, n) => Has(rawPipe, q, n)) /\ (Once(rawPipe, q, n) => Once(rawPipe', q, n))
  BY <1>4, PageTail
<1>6. CASE TranslatorDies(t)
  <2>1. outBuf' = outBuf
    BY <1>6 DEF TranslatorDies, outVars
  <2>2. QED
    BY <1>2, <1>3, <1>5, <2>1, ShrinkOnceAt DEF OnceAt
<1>7. CASE TranslatorStop(t)
  <2>1. ~IsPage(StopFrom(t), q, n)
    BY DEF IsPage, StopFrom
  <2>2. /\ outBuf[t] \in Seq(OutMessages) /\ StopFrom(t) \in OutMessages
        /\ outBuf'[t] = Append(outBuf[t], StopFrom(t))
        /\ \A u \in Translators \ {t} : outBuf'[u] = outBuf[u]
    BY <1>7, TranslatorStopFacts
  <2>3. (Has(outBuf'[t], q, n) <=> Has(outBuf[t], q, n)) /\ (Once(outBuf[t], q, n) => Once(outBuf'[t], q, n))
    BY <2>1, <2>2, PageAppend
  <2>4. \A u \in Translators : (Has(outBuf'[u], q, n) => Has(outBuf[u], q, n)) /\ Once(outBuf'[u], q, n)
    BY <1>2, <2>2, <2>3 DEF OnceAt
  <2>5. QED
    BY <1>2, <1>3, <1>5, <2>4, ShrinkOnceAt DEF OnceAt
<1>8. QED
  BY <1>6, <1>7

LEMMA OutFlushOnceInv ==
    ASSUME TypeOK, OnceInv, NEW t \in Translators, OutFlush(t)
    PROVE  OnceInv'
<1>1. PICK m \in OutMessages : m = Head(outBuf[t])
  BY OutFlushFacts
<1>2. /\ outBuf[t] \in Seq(OutMessages) /\ outPipe \in Seq(OutMessages)
      /\ outBuf[t] # <<>> /\ outBuf'[t] = Tail(outBuf[t]) /\ outPipe' = Append(outPipe, m)
      /\ \A u \in Translators \ {t} : outBuf'[u] = outBuf[u]
  BY <1>1, OutFlushFacts
<1>3. UNCHANGED <<rawBuf, rawPipe, ingested>>
  BY DEF OutFlush, mainVars, rawVars
<1>4. SUFFICES ASSUME NEW q \in Queries, NEW n \in 1..MaxPages PROVE OnceAt(q, n)'
  BY DEF OnceInv
<1>5. OnceAt(q, n)
  BY DEF OnceInv
<1>6. /\ Has(outPipe', q, n) <=> Has(outPipe, q, n) \/ IsPage(m, q, n)
      /\ Once(outPipe, q, n) /\ ~(Has(outPipe, q, n) /\ IsPage(m, q, n)) => Once(outPipe', q, n)
  BY <1>1, <1>2, PageAppend
<1>7. /\ Has(outBuf[t], q, n) <=> Has(outBuf'[t], q, n) \/ IsPage(m, q, n)
      /\ Once(outBuf[t], q, n) => Once(outBuf'[t], q, n) /\ ~(Has(outBuf'[t], q, n) /\ IsPage(m, q, n))
  BY <1>1, <1>2, PageTail
<1>8. CASE ~IsPage(m, q, n)
  <2>1. \A u \in Translators : (Has(outBuf'[u], q, n) => Has(outBuf[u], q, n)) /\ Once(outBuf'[u], q, n)
    BY <1>2, <1>5, <1>7 DEF OnceAt
  <2>2. QED
    BY <1>3, <1>5, <1>6, <1>8, <2>1, ShrinkOnceAt DEF OnceAt
<1>9. CASE IsPage(m, q, n)
  <2>1. /\ ~Has(rawBuf[q], q, n) /\ ~Has(rawPipe, q, n) /\ ~Has(outPipe, q, n)
        /\ <<q, n>> \notin ingested
        /\ \A u \in Translators : ~Has(outBuf'[u], q, n) /\ Once(outBuf'[u], q, n)
    BY <1>2, <1>5, <1>7, <1>9 DEF OnceAt
  <2>2. QED
    BY <1>3, <1>5, <1>6, <2>1 DEF OnceAt
<1>10. QED
  BY <1>8, <1>9

LEMMA ReadOnceInv ==
    ASSUME TypeOK, OnceInv, Read
    PROVE  OnceInv'
<1>1. PICK m \in OutMessages : m = Head(outPipe)
  BY ReadFacts
<1>2. /\ outPipe \in Seq(OutMessages) /\ outPipe # <<>> /\ outPipe' = Tail(outPipe)
      /\ UNCHANGED <<rawBuf, rawPipe, outBuf>>
  BY ReadFacts DEF rawVars
<1>3. ingested' = IF m.kind = "data" THEN ingested \cup {<<m.from, m.no>>} ELSE ingested
  BY <1>1 DEF Read, ReadStop, ReadPage, ReadNotice, ReadError, IsError, mainVars
<1>4. SUFFICES ASSUME NEW q \in Queries, NEW n \in 1..MaxPages PROVE OnceAt(q, n)'
  BY DEF OnceInv
<1>5. OnceAt(q, n)
  BY DEF OnceInv
<1>6. /\ Has(outPipe, q, n) <=> Has(outPipe', q, n) \/ IsPage(m, q, n)
      /\ Once(outPipe, q, n) => Once(outPipe', q, n) /\ ~(Has(outPipe', q, n) /\ IsPage(m, q, n))
  BY <1>1, <1>2, PageTail
<1>7. <<q, n>> \in ingested' <=> <<q, n>> \in ingested \/ IsPage(m, q, n)
  BY <1>3 DEF IsPage
<1>8. QED
  BY <1>2, <1>5, <1>6, <1>7 DEF OnceAt

LEMMA QuietOnceInv ==
    ASSUME TypeOK, OnceInv,
           \/ PoolStart \/ PoolStop \/ PoolExit
           \/ \E q \in Queries : TxReturn(q) \/ TxDies(q) \/ TxExit(q)
           \/ \E t \in Translators : TranslatorExit(t)
           \/ JoinPool \/ JoinTranslator
    PROVE  OnceInv'
<1>1. UNCHANGED <<rawPipe, outBuf, outPipe, ingested>>
  BY DEF PoolStart, PoolStop, PoolExit, TxReturn, TxDies, TxExit, TranslatorExit, JoinPool, JoinTranslator,
         mainVars, rawVars, outVars
<1>2. \A q \in Queries : rawBuf'[q] = rawBuf[q]
  <2>1. CASE PoolStop
    BY <2>1, PipelineAssumption DEF PoolStop, TypeOK, Writers
  <2>2. CASE ~PoolStop
    BY <2>2 DEF PoolStart, PoolExit, TxReturn, TxDies, TxExit, TranslatorExit, JoinPool, JoinTranslator, rawVars
  <2>3. QED
    BY <2>1, <2>2
<1>3. SUFFICES ASSUME NEW q \in Queries, NEW n \in 1..MaxPages PROVE OnceAt(q, n)'
  BY DEF OnceInv
<1>4. OnceAt(q, n)
  BY DEF OnceInv
<1>5. QED
  BY <1>1, <1>2, <1>4 DEF OnceAt

-------------------------------------------------------------------------------
(* The inductive invariant *)

\* Every part needs the types.  The types need PageInv, for what is ingested, and
\* MainInv, for the counts; FaultInv needs RawInv and MainInv, PageInv needs RawInv,
\* OnceInv needs RawInv and PageInv.
IInv == TypeOK /\ RawInv /\ OutInv /\ MainInv /\ FaultInv /\ PageInv /\ OnceInv

LEMMA InitIInv == Init => IInv
BY InitTypeOK, InitRawInv, InitOutInv, InitMainInv, InitFaultInv, InitPageInv, InitOnceInv DEF IInv

LEMMA PoolIInv ==
    ASSUME IInv, PoolStart \/ PoolStop \/ PoolExit
    PROVE  TypeOK' /\ RawInv' /\ OutInv' /\ FaultInv' /\ PageInv' /\ OnceInv'
<1>1. TypeOK /\ RawInv /\ OutInv /\ FaultInv /\ PageInv /\ OnceInv
  BY DEF IInv
<1>2. TypeOK'
  BY <1>1, PoolTypeOK
<1>3. RawInv'
  BY <1>1, PoolRawInv
<1>4. OutInv'
  <2>1. UNCHANGED <<outBuf, outPipe, trPc, stopsRead>>
    BY DEF PoolStart, PoolStop, PoolExit, mainVars, outVars
  <2>2. QED
    BY <1>1, <2>1, UnchangedOutInv
<1>5. FaultInv' /\ PageInv' /\ OnceInv'
  BY <1>1, PoolFaultInv, QuietPageInv, QuietOnceInv
<1>6. QED
  BY <1>2, <1>3, <1>4, <1>5

LEMMA TxIInv ==
    ASSUME IInv, NEW q \in Queries,
           TxPutPage(q) \/ TxPutNotice(q) \/ TxPutError(q) \/ TxReturn(q) \/ TxDies(q) \/ TxExit(q)
    PROVE  TypeOK' /\ RawInv' /\ OutInv' /\ FaultInv' /\ PageInv' /\ OnceInv'
<1>1. TypeOK /\ RawInv /\ OutInv /\ FaultInv /\ PageInv /\ OnceInv
  BY DEF IInv
<1>2. TypeOK'
  BY <1>1, TxTypeOK
<1>3. RawInv'
  BY <1>1, TxRawInv
<1>4. OutInv'
  <2>1. UNCHANGED <<outBuf, outPipe, trPc, stopsRead>>
    BY DEF TxPutPage, TxPutNotice, TxPutError, TxPut, TxReturn, TxDies, TxExit, mainVars, outVars
  <2>2. QED
    BY <1>1, <2>1, UnchangedOutInv
<1>5. FaultInv'
  BY <1>1, TxFaultInv
<1>6. PageInv' /\ OnceInv'
  <2>1. CASE TxPutPage(q) \/ TxPutNotice(q) \/ TxPutError(q)
    BY <1>1, <2>1, TxPutPageInv, TxPutOnceInv
  <2>2. CASE TxReturn(q) \/ TxDies(q) \/ TxExit(q)
    BY <1>1, <2>2, QuietPageInv, QuietOnceInv
  <2>3. QED
    BY <2>1, <2>2
<1>7. QED
  BY <1>2, <1>3, <1>4, <1>5, <1>6

LEMMA RawFlushIInv ==
    ASSUME IInv, NEW w \in Writers, RawFlush(w)
    PROVE  TypeOK' /\ RawInv' /\ OutInv' /\ FaultInv' /\ PageInv' /\ OnceInv'
<1>1. TypeOK /\ RawInv /\ OutInv /\ FaultInv /\ PageInv /\ OnceInv
  BY DEF IInv
<1>2. TypeOK'
  <2>1. rawBuf' \in [Writers -> Seq(RawMessages)] /\ rawPipe' \in Seq(RawMessages)
    BY <1>1, RawFlushFacts
  <2>2. UNCHANGED <<mainVars, poolPc, txVars, trPc, outVars, faultVars>>
    BY DEF RawFlush
  <2>3. QED
    BY <1>1, <2>1, <2>2 DEF TypeOK, RawMessages, mainVars, txVars, outVars, faultVars
<1>3. OutInv'
  <2>1. UNCHANGED <<outBuf, outPipe, trPc, stopsRead>>
    BY DEF RawFlush, mainVars, outVars
  <2>2. QED
    BY <1>1, <2>1, UnchangedOutInv
<1>4. RawInv' /\ FaultInv'
  BY <1>1, RawFlushRawInv, FlushFaultInv
<1>5. PageInv' /\ OnceInv'
  BY <1>1, QuietPageInv, RawFlushOnceInv
<1>6. QED
  BY <1>2, <1>3, <1>4, <1>5

LEMMA TranslatorIInv ==
    ASSUME IInv, NEW t \in Translators,
           Translate(t) \/ TranslatorDies(t) \/ TranslatorStop(t) \/ TranslatorExit(t) \/ OutFlush(t)
    PROVE  TypeOK' /\ RawInv' /\ OutInv' /\ FaultInv' /\ PageInv' /\ OnceInv'
<1>1. TypeOK /\ RawInv /\ OutInv /\ FaultInv /\ PageInv /\ OnceInv
  BY DEF IInv
<1>2. TypeOK' /\ RawInv'
  BY <1>1, TranslatorTypeOK, TranslatorRawInv
<1>3. CASE Translate(t)
  BY <1>1, <1>2, <1>3, TranslateOutInv, TranslateFaultInv, TranslatePageInv, TranslateOnceInv
<1>4. CASE TranslatorDies(t)
  BY <1>1, <1>2, <1>4, TranslatorEndOutInv, TakeFaultInv, TranslatorDiesPageInv, TakeOnceInv
<1>5. CASE TranslatorStop(t)
  BY <1>1, <1>2, <1>5, TranslatorStopOutInv, TakeFaultInv, QuietPageInv, TakeOnceInv
<1>6. CASE TranslatorExit(t)
  BY <1>1, <1>2, <1>6, TranslatorEndOutInv, FlushFaultInv, QuietPageInv, QuietOnceInv
<1>7. CASE OutFlush(t)
  BY <1>1, <1>2, <1>7, OutFlushOutInv, FlushFaultInv, QuietPageInv, OutFlushOnceInv
<1>8. QED
  BY <1>3, <1>4, <1>5, <1>6, <1>7

LEMMA MainIInv ==
    ASSUME IInv, Read \/ JoinPool \/ JoinTranslator
    PROVE  TypeOK' /\ RawInv' /\ OutInv' /\ FaultInv' /\ PageInv' /\ OnceInv'
<1>1. TypeOK /\ RawInv /\ OutInv /\ MainInv /\ FaultInv /\ PageInv /\ OnceInv
  BY DEF IInv
<1>2. TypeOK' /\ RawInv'
  BY <1>1, MainTypeOK, MainRawInv
<1>3. CASE Read
  BY <1>1, <1>2, <1>3, ReadOutInv, ReadFaultInv, ReadPageInv, ReadOnceInv
<1>4. CASE JoinPool \/ JoinTranslator
  <2>1. UNCHANGED <<outBuf, outPipe, trPc, stopsRead>>
    BY <1>4 DEF JoinPool, JoinTranslator, outVars
  <2>2. OutInv'
    BY <1>1, <2>1, UnchangedOutInv
  <2>3. QED
    BY <1>1, <1>2, <1>4, <2>2, FlushFaultInv, QuietPageInv, QuietOnceInv
<1>5. QED
  BY <1>3, <1>4

LEMMA NextIInv == IInv /\ [Next]_vars => IInv'
<1> SUFFICES ASSUME IInv, [Next]_vars PROVE IInv'
  OBVIOUS
<1>1. CASE Next
  <2>1. MainInv'
    BY <1>1, NextMainInv DEF IInv
  <2>2. TypeOK' /\ RawInv' /\ OutInv' /\ FaultInv' /\ PageInv' /\ OnceInv'
    BY <1>1, PoolIInv, TxIInv, RawFlushIInv, TranslatorIInv, MainIInv DEF Next
  <2>3. QED
    BY <2>1, <2>2 DEF IInv
<1>2. CASE UNCHANGED vars
  <2>1. /\ UNCHANGED <<mainPc, stopsRead, joined, outcome, ingested, poolPc, trPc, rawBuf, rawPipe, outBuf, outPipe>>
        /\ UNCHANGED <<txPc, wanted, pages, last, faulty, troubles>>
    BY <1>2 DEF vars, txVars, faultVars
  <2>2. TypeOK'
    BY <2>1 DEF IInv, TypeOK
  <2>3. Stopped' = Stopped /\ InTransit' = InTransit
    BY <2>1 DEF Stopped, InTransit
  <2>4. (\E k \in 0..Len(rawPipe) : StopsBehind(k))'
    BY <2>1, <2>3, StopsBehindUnchanged DEF IInv, RawInv
  <2>5. RawInv'
    BY <2>1, <2>4 DEF IInv, RawInv, PoolStopped
  <2>6. OutInv' /\ FaultInv'
    BY <2>1, <2>3, UnchangedOutInv, QuietFaultInv DEF IInv
  <2>7. MainInv'
    BY <2>1 DEF IInv, MainInv
  <2>8. PageInv'
    <3>1. \A q, n : Underway(q, n)' <=> Underway(q, n)
      BY <2>3 DEF Underway
    <3>2. \A t \in Translators : Dead(t)' <=> Dead(t)
      BY <2>1 DEF Dead
    <3>3. QED
      BY <2>1, <3>1, <3>2, MovePageInv DEF IInv
  <2>9. OnceInv'
    <3> SUFFICES ASSUME NEW q \in Queries, NEW n \in 1..MaxPages PROVE OnceAt(q, n)'
      BY DEF OnceInv
    <3>1. OnceAt(q, n)
      BY DEF IInv, OnceInv
    <3>2. QED
      BY <2>1, <3>1 DEF OnceAt
  <2>10. QED
    BY <2>2, <2>5, <2>6, <2>7, <2>8, <2>9 DEF IInv
<1>3. QED
  BY <1>1, <1>2

\* The invariant that all of this module rests on.
THEOREM InductiveInvariant == SafetySpec => []IInv
<1>1. QED
  BY InitIInv, NextIInv, PTL DEF SafetySpec

\* Every reachable state is well typed.
THEOREM TypeCorrect == SafetySpec => []TypeOK
<1>1. IInv => TypeOK
  BY DEF IInv
<1>2. QED
  BY <1>1, InductiveInvariant, PTL

\* The pool's STOP signs never overtake a page, a notice or an error.
THEOREM StopsComeLast == SafetySpec => []StopsAfterData
<1>1. IInv => StopsAfterData
  <2> SUFFICES ASSUME IInv PROVE StopsAfterData
    OBVIOUS
  <2>1. RawInv /\ rawPipe \in Seq(RawMessages)
    BY DEF IInv, TypeOK, RawMessages
  <2>2. poolPc \in {"flush", "gone"} => \A q \in Queries : txPc[q] = "gone" /\ rawBuf[q] = <<>>
    BY <2>1 DEF RawInv, PoolStopped
  <2>3. PICK k \in 0..Len(rawPipe) : StopsBehind(k)
    BY <2>1 DEF RawInv
  <2>4. PICK n \in Nat : n = Len(rawPipe) /\ DOMAIN rawPipe = 1..n
    BY <2>1
  <2>5. ASSUME NEW i \in DOMAIN rawPipe, NEW j \in DOMAIN rawPipe, i < j, rawPipe[i] = StopSign
        PROVE  rawPipe[j] = StopSign
    <3>1. i \notin 1..k
      BY <2>3, <2>5 DEF StopsBehind
    <3>2. j \in (k + 1)..Len(rawPipe)
      BY <2>3, <2>4, <2>5, <3>1
    <3>3. QED
      BY <2>3, <3>2 DEF StopsBehind
  <2>6. QED
    BY <2>2, <2>5 DEF StopsAfterData
<1>2. QED
  BY <1>1, InductiveInvariant, PTL

-------------------------------------------------------------------------------
(* At most one copy of a page *)

LEMMA AtMostOneMember ==
    ASSUME NEW S, \A x, y \in S : x = y
    PROVE  Cardinality(S) <= 1
<1>1. CASE S = {}
  BY <1>1, FS_EmptySet
<1>2. CASE S # {}
  <2>1. PICK x : S = {x}
    BY <1>2
  <2>2. QED
    BY <2>1, FS_Singleton
<1>3. QED
  BY <1>1, <1>2

LEMMA CopiesOfOne ==
    ASSUME NEW q \in Queries, NEW n \in 1..MaxPages, OnceAt(q, n)
    PROVE  PageCopies(q, n) <= 1
<1> DEFINE At(place, s) == {place} \X Hits(s, q, n)
           InBuffers == UNION {At(<<"translator", t>>, outBuf[t]) : t \in Translators}
           Stored == {<<<<"store", 0>>, 1>> : p \in {<<q, n>>} \cap ingested}
           All == InBuffers
                  \cup At(<<"transmitter", 0>>, rawBuf[q])
                  \cup At(<<"raw pipe", 0>>, rawPipe)
                  \cup At(<<"out pipe", 0>>, outPipe)
                  \cup Stored
<1>1. ASSUME NEW place, NEW s, Once(s, q, n) PROVE \A x, y \in At(place, s) : x = y
  BY <1>1 DEF Once, Hits
<1>2. ASSUME NEW place, NEW s, ~Has(s, q, n) PROVE At(place, s) = {}
  BY <1>2 DEF Has, Hits
<1>3. \A x, y \in Stored : x = y
  OBVIOUS
<1>4. <<q, n>> \notin ingested => Stored = {}
  OBVIOUS
<1>5. (\A t \in Translators : ~Has(outBuf[t], q, n)) => InBuffers = {}
  BY <1>2
<1>6. ASSUME NEW t \in Translators, \A u \in Translators \ {t} : ~Has(outBuf[u], q, n)
      PROVE  \A x, y \in InBuffers : x = y
  <2> SUFFICES ASSUME NEW x \in InBuffers, NEW y \in InBuffers PROVE x = y
    OBVIOUS
  <2>1. PICK u \in Translators : x \in At(<<"translator", u>>, outBuf[u])
    OBVIOUS
  <2>2. PICK v \in Translators : y \in At(<<"translator", v>>, outBuf[v])
    OBVIOUS
  <2>3. Once(outBuf[t], q, n)
    BY DEF OnceAt
  <2> HIDE DEF At, InBuffers
  <2>4. u = t /\ v = t
    BY <1>2, <1>6, <2>1, <2>2
  <2>5. QED
    BY <1>1, <2>1, <2>2, <2>3, <2>4
<1>7. /\ Once(rawBuf[q], q, n) => \A x, y \in At(<<"transmitter", 0>>, rawBuf[q]) : x = y
      /\ Once(rawPipe, q, n) => \A x, y \in At(<<"raw pipe", 0>>, rawPipe) : x = y
      /\ Once(outPipe, q, n) => \A x, y \in At(<<"out pipe", 0>>, outPipe) : x = y
      /\ ~Has(rawBuf[q], q, n) => At(<<"transmitter", 0>>, rawBuf[q]) = {}
      /\ ~Has(rawPipe, q, n) => At(<<"raw pipe", 0>>, rawPipe) = {}
      /\ ~Has(outPipe, q, n) => At(<<"out pipe", 0>>, outPipe) = {}
  BY <1>1, <1>2
<1> HIDE DEF At, InBuffers, Stored
<1>8. \A x, y \in All : x = y
  <2>1. CASE \E t \in Translators : Has(outBuf[t], q, n)
    <3>1. PICK t \in Translators : Has(outBuf[t], q, n)
      BY <2>1
    <3>2. /\ ~Has(rawBuf[q], q, n) /\ ~Has(rawPipe, q, n) /\ ~Has(outPipe, q, n) /\ <<q, n>> \notin ingested
          /\ \A u \in Translators \ {t} : ~Has(outBuf[u], q, n)
      BY <3>1 DEF OnceAt
    <3>3. All = InBuffers
      BY <1>4, <1>7, <3>2
    <3>4. QED
      BY <1>6, <3>2, <3>3
  <2>2. CASE \A t \in Translators : ~Has(outBuf[t], q, n)
    <3>1. InBuffers = {}
      BY <1>5, <2>2
    <3>2. CASE Has(rawBuf[q], q, n)
      <4>1. ~Has(rawPipe, q, n) /\ ~Has(outPipe, q, n) /\ <<q, n>> \notin ingested
        BY <3>2 DEF OnceAt
      <4>2. All = At(<<"transmitter", 0>>, rawBuf[q])
        BY <1>4, <1>7, <3>1, <4>1
      <4>3. QED
        BY <1>7, <4>2 DEF OnceAt
    <3>3. CASE Has(rawPipe, q, n)
      <4>1. ~Has(rawBuf[q], q, n) /\ ~Has(outPipe, q, n) /\ <<q, n>> \notin ingested
        BY <3>3 DEF OnceAt
      <4>2. All = At(<<"raw pipe", 0>>, rawPipe)
        BY <1>4, <1>7, <3>1, <4>1
      <4>3. QED
        BY <1>7, <4>2 DEF OnceAt
    <3>4. CASE Has(outPipe, q, n)
      <4>1. ~Has(rawBuf[q], q, n) /\ ~Has(rawPipe, q, n) /\ <<q, n>> \notin ingested
        BY <3>4 DEF OnceAt
      <4>2. All = At(<<"out pipe", 0>>, outPipe)
        BY <1>4, <1>7, <3>1, <4>1
      <4>3. QED
        BY <1>7, <4>2 DEF OnceAt
    <3>5. CASE ~Has(rawBuf[q], q, n) /\ ~Has(rawPipe, q, n) /\ ~Has(outPipe, q, n)
      <4>1. All = Stored
        BY <1>7, <3>1, <3>5
      <4>2. QED
        BY <1>3, <4>1
    <3>6. QED
      BY <3>2, <3>3, <3>4, <3>5
  <2>3. QED
    BY <2>1, <2>2
<1>9. PageCopies(q, n) = Cardinality(All)
  BY DEF PageCopies, All, At, InBuffers, Stored
<1> HIDE DEF All
<1>10. QED
  BY <1>8, <1>9, AtMostOneMember

\* No page is duplicated on its way, whichever translator takes it.
THEOREM PagesMoveOnce == SafetySpec => []AtMostOnce
<1>1. IInv => AtMostOnce
  BY CopiesOfOne DEF IInv, OnceInv, AtMostOnce
<1>2. QED
  BY <1>1, InductiveInvariant, PTL

-------------------------------------------------------------------------------
(* The good end *)

\* One STOP sign read from every translator: the reader's count is a count of senders.
LEMMA AllStopped ==
    ASSUME IInv, outcome = "ok"
    PROVE  Stopped = Translators /\ StopRead = Translators
<1>1. Cardinality(StopRead) = TranslatorCount
  BY DEF IInv, MainInv, OutInv
<1>2. StopRead \subseteq Stopped /\ Stopped \subseteq Translators
  BY DEF StopRead, Stopped
<1>3. StopRead = Translators
  BY <1>1, <1>2, StoppedFacts, FS_Subset
<1>4. QED
  BY <1>2, <1>3

LEMMA AllEmpty ==
    ASSUME IInv, outcome = "ok"
    PROVE  /\ PoolStopped /\ rawPipe = <<>> /\ outPipe = <<>>
           /\ \A w \in Writers : rawBuf[w] = <<>>
           /\ \A t \in Translators : outBuf[t] = <<>>
           /\ InTransit = {}
<1>1. Stopped = Translators /\ StopRead = Translators
  BY AllStopped
<1>2. TypeOK /\ RawInv /\ OutInv
  BY DEF IInv
<1>3. \A t \in Translators : outBuf[t] = <<>> /\ \A i \in DOMAIN outPipe : outPipe[i].by # t
  BY <1>1, <1>2 DEF OutInv
<1>4. outPipe = <<>>
  <2>1. outPipe \in Seq(OutMessages) /\ \A i \in DOMAIN outPipe : outPipe[i] \in OutMessages
    BY <1>2, OutQueueTypes
  <2>2. \A m \in OutMessages : m.by \in Translators
    BY MessageFacts DEF OutMessages
  <2>3. DOMAIN outPipe = {}
    BY <1>3, <2>1, <2>2
  <2>4. QED
    BY <2>1, <2>3
<1>5. PICK k \in 0..Len(rawPipe) : StopsBehind(k)
  BY <1>2 DEF RawInv
<1>6. 1 \in Translators /\ Cardinality(Stopped) = TranslatorCount
  BY <1>1, StoppedFacts, PipelineAssumption DEF Translators
<1>7. PoolStopped /\ k = 0 /\ Len(rawPipe) - k + Len(rawBuf[Pool]) + Cardinality(Stopped) = TranslatorCount
  BY <1>1, <1>5, <1>6 DEF StopsBehind
<1>8. rawPipe \in Seq(RawMessages) /\ rawBuf[Pool] \in Seq(RawMessages) /\ Pool \in Writers
  BY <1>2 DEF TypeOK, RawMessages, Writers
<1>9. PICK a \in Nat : a = Len(rawPipe)
  BY <1>8
<1>10. PICK b \in Nat : b = Len(rawBuf[Pool])
  BY <1>8
<1>11. a - 0 + b + TranslatorCount = TranslatorCount
  BY <1>6, <1>7, <1>9, <1>10
<1>12. a = 0 /\ b = 0
  BY <1>11, PipelineAssumption
<1>13. rawPipe = <<>> /\ rawBuf[Pool] = <<>>
  <2>1. Len(rawPipe) = 0 /\ Len(rawBuf[Pool]) = 0
    BY <1>9, <1>10, <1>12
  <2>2. \A s \in Seq(RawMessages) : Len(s) = 0 => s = <<>>
    OBVIOUS
  <2>3. QED
    BY <1>8, <2>1, <2>2
<1>14. \A q \in Queries : rawBuf[q] = <<>>
  BY <1>2, <1>7 DEF RawInv
<1>15. \A w \in Writers : rawBuf[w] = <<>>
  BY <1>13, <1>14 DEF Writers
<1>16. InTransit = {}
  <2>1. Msgs(<<>>) = {}
    BY DEF Msgs
  <2>2. QED
    BY <1>3, <1>4, <1>13, <1>15, <2>1, InTransitIs
<1>17. QED
  BY <1>3, <1>4, <1>7, <1>13, <1>15, <1>16

\* Once the reader has its STOP signs the joins that follow have nothing to wait for.
THEOREM JoinsAreFree == SafetySpec => []NothingLeftToJoin
<1>1. IInv => NothingLeftToJoin
  <2> SUFFICES ASSUME IInv, outcome = "ok" PROVE NothingLeftToJoin
    BY DEF NothingLeftToJoin
  <2>1. \A t \in Translators : trPc[t] \in {"flush", "gone"}
    BY AllStopped DEF Stopped
  <2>2. QED
    BY <2>1, AllEmpty DEF NothingLeftToJoin, PoolStopped
<1>2. QED
  BY <1>1, InductiveInvariant, PTL

\* Nothing was reported and every page that was put has been ingested.
LEMMA OkDelivered ==
    ASSUME IInv, outcome = "ok"
    PROVE  ~faulty /\ ingested = PagesUpTo(pages)
<1>1. TypeOK /\ FaultInv /\ PageInv
  BY DEF IInv
<1>2. InTransit = {} /\ \A t \in Translators : ~Dead(t)
  <2>1. \A t \in Translators : trPc[t] \in {"flush", "gone"}
    BY AllStopped DEF Stopped
  <2>2. QED
    BY <2>1, AllEmpty DEF Dead
<1>3. ~faulty
  BY <1>1, <1>2 DEF FaultInv
<1>4. ingested \subseteq Queries \X (1..MaxPages)
  BY <1>1 DEF TypeOK
<1>5. ASSUME NEW q \in Queries, NEW n \in 1..MaxPages
      PROVE  <<q, n>> \in ingested <=> n <= pages[q]
  <2>1. n \in Nat /\ pages[q] \in Nat
    BY <1>1, PipelineAssumption DEF TypeOK
  <2>2. <<q, n>> \in ingested => n \in 1..pages[q]
    BY <1>1, <2>1 DEF PageInv
  <2>3. n \in 1..pages[q] => <<q, n>> \in ingested
    <3>1. ~Underway(q, n)
      BY <1>2 DEF Underway
    <3>2. QED
      BY <1>1, <1>2, <1>3, <3>1 DEF PageInv
  <2>4. QED
    BY <2>1, <2>2, <2>3
<1>6. ingested = PagesUpTo(pages)
  BY <1>4, <1>5 DEF PagesUpTo, AllPages
<1>7. QED
  BY <1>3, <1>6

\* If no transmitter can be ended by an exception nobody catches, a query that ends
\* "ok" has ingested all that the data source had for it.
THEOREM OkIsComplete ==
    ASSUME MayDie \cap Queries = {}
    PROVE  SafetySpec => []OkMeansComplete
<1>1. IInv => OkMeansComplete
  <2> SUFFICES ASSUME IInv, outcome = "ok" PROVE OkMeansComplete
    BY DEF OkMeansComplete
  <2>1. ~faulty /\ ingested = PagesUpTo(pages)
    BY OkDelivered
  <2>2. \A q \in Queries : pages[q] = wanted[q]
    <3>1. \A q \in Queries : txPc[q] = "gone"
      BY AllEmpty DEF IInv, RawInv
    <3>2. QED
      BY <2>1, <3>1 DEF IInv, FaultInv
  <2>3. pages = wanted
    BY <2>2 DEF IInv, TypeOK
  <2>4. QED
    BY <2>1, <2>2, <2>3 DEF OkMeansComplete
<1>2. QED
  BY <1>1, InductiveInvariant, PTL

-------------------------------------------------------------------------------
(* The processes and queues implement ResultStream *)

LEMMA InitStream == Init => Stream!StreamInit
<1> SUFFICES ASSUME Init PROVE Stream!StreamInit
  OBVIOUS
<1>1. \A n \in 1..MaxPages : ~(n <= 0)
  BY PipelineAssumption
<1>2. PagesUpTo(pages) = {}
  BY <1>1 DEF Init, PagesUpTo, AllPages
<1>3. QED
  BY <1>2 DEF Init, Stream!StreamInit

StreamVars == <<PagesUpTo(pages), ingested, faulty, outcome>>

\* While the query has not ended well, a new page is a Produce and an error a
\* ReportFault; afterwards no transmitter is left.
LEMMA TxPutStream ==
    ASSUME IInv, NEW q \in Queries, TxPutPage(q) \/ TxPutNotice(q) \/ TxPutError(q)
    PROVE  Stream!Produce \/ Stream!ReportFault \/ UNCHANGED StreamVars
<1>1. TypeOK
  BY DEF IInv
<1>2. PICK no \in 0..MaxPages, kind \in PacketKinds :
        /\ TxPut(q, no, kind)
        /\ \/ /\ kind = "data" /\ no = pages[q] + 1 /\ pages[q] < wanted[q]
              /\ pages' = [pages EXCEPT ![q] = @ + 1] /\ faulty' = faulty
           \/ kind = "info" /\ pages' = pages /\ faulty' = faulty
           \/ kind = "error" /\ pages' = pages /\ faulty' = TRUE
  BY <1>1, TxPutCases
<1>3. txPc[q] = "work" /\ UNCHANGED <<ingested, outcome>>
  BY <1>2 DEF TxPut, mainVars
<1>4. outcome # "ok"
  <2>1. outcome = "ok" => txPc[q] = "gone"
    BY AllEmpty DEF IInv, RawInv
  <2>2. QED
    BY <1>3, <2>1
<1>5. CASE pages' = pages
  <2>1. PagesUpTo(pages)' = PagesUpTo(pages)
    BY <1>5 DEF PagesUpTo
  <2>2. QED
    BY <1>2, <1>3, <1>4, <1>5, <2>1 DEF Stream!ReportFault, StreamVars
<1>6. CASE kind = "data"
  <2>1. /\ pages[q] \in Nat /\ wanted[q] \in 0..MaxPages /\ pages[q] < wanted[q]
        /\ pages'[q] = pages[q] + 1 /\ \A p \in Queries \ {q} : pages'[p] = pages[p]
        /\ faulty' = faulty
    BY <1>1, <1>2, <1>6, PipelineAssumption DEF TypeOK
  <2>2. pages[q] + 1 \in 1..MaxPages
    BY <2>1, PipelineAssumption
  <2>3. \A p \in Queries, n \in 1..MaxPages : n <= pages'[p] <=> n <= pages[p] \/ (p = q /\ n = pages[q] + 1)
    BY <2>1, PipelineAssumption
  <2>4. <<q, pages[q] + 1>> \in AllPages \ PagesUpTo(pages)
    <3>1. ~(pages[q] + 1 <= pages[q])
      BY <2>1
    <3>2. QED
      BY <2>2, <3>1 DEF AllPages, PagesUpTo
  <2>5. PagesUpTo(pages') = PagesUpTo(pages) \cup {<<q, pages[q] + 1>>}
    <3>1. \A p \in AllPages : \E u \in Queries, n \in 1..MaxPages : p = <<u, n>> /\ p[1] = u /\ p[2] = n
      BY DEF AllPages
    <3>2. PagesUpTo(pages') \subseteq PagesUpTo(pages) \cup {<<q, pages[q] + 1>>}
      BY <2>3, <3>1 DEF PagesUpTo
    <3>3. PagesUpTo(pages) \subseteq PagesUpTo(pages')
      BY <2>3, <3>1 DEF PagesUpTo
    <3>4. <<q, pages[q] + 1>> \in PagesUpTo(pages')
      BY <2>2, <2>3 DEF PagesUpTo, AllPages
    <3>5. QED
      BY <3>2, <3>3, <3>4
  <2>6. QED
    BY <1>3, <1>4, <2>1, <2>4, <2>5 DEF Stream!Produce
<1>7. QED
  BY <1>2, <1>5, <1>6

LEMMA TranslateStream ==
    ASSUME IInv, NEW t \in Translators, Translate(t)
    PROVE  Stream!ReportFault \/ UNCHANGED StreamVars
<1>1. /\ rawPipe # <<>> /\ UNCHANGED <<pages, ingested, outcome>>
  BY DEF Translate, txVars, mainVars
<1>2. faulty' = TRUE \/ faulty' = faulty
  BY TranslateFacts DEF IInv
<1>3. outcome # "ok"
  BY <1>1, AllEmpty
<1>4. PagesUpTo(pages)' = PagesUpTo(pages)
  BY <1>1 DEF PagesUpTo
<1>5. QED
  BY <1>1, <1>2, <1>3, <1>4 DEF Stream!ReportFault, StreamVars

\* A page read was put and not yet delivered; the last STOP sign finds everything
\* delivered and no fault, and an error is read only after a fault.
LEMMA ReadStream ==
    ASSUME IInv, IInv', Read
    PROVE  Stream!Deliver \/ Stream!Succeed \/ Stream!Fail \/ UNCHANGED StreamVars
<1>1. PICK m \in OutMessages : m = Head(outPipe)
  BY ReadFacts DEF IInv
<1>2. UNCHANGED <<pages, faulty>>
  BY ReadFacts DEF IInv, txVars, faultVars
<1>3. PagesUpTo(pages)' = PagesUpTo(pages)
  BY <1>2 DEF PagesUpTo
<1>4. outcome = "none"
  BY DEF Read, IInv, MainInv
<1>5. m \in InTransit
  BY <1>1, TransitOfRead DEF IInv
<1>6. CASE ReadStop
  <2>1. ingested' = ingested /\ (outcome' = "ok" \/ outcome' = outcome)
    BY <1>6 DEF ReadStop
  <2>2. CASE outcome' = "ok"
    <3>1. ~faulty' /\ ingested' = PagesUpTo(pages')
      <4>1. TypeOK' /\ RawInv' /\ OutInv' /\ MainInv' /\ FaultInv' /\ PageInv' /\ OnceInv'
        BY DEF IInv
      <4>2. (IInv /\ outcome = "ok" => ~faulty /\ ingested = PagesUpTo(pages))'
        BY OkDelivered, PTL
      <4>3. QED
        BY <2>2, <4>2
    <3>2. QED
      BY <1>2, <1>3, <1>4, <2>1, <2>2, <3>1 DEF Stream!Succeed
  <2>3. QED
    BY <1>2, <1>3, <2>1, <2>2 DEF StreamVars
<1>7. CASE ReadPage
  <2>1. m.kind = "data" /\ ingested' = ingested \cup {<<m.from, m.no>>} /\ outcome' = outcome
    BY <1>1, <1>7 DEF ReadPage
  <2>2. m \in Results
    BY <2>1, MessageFacts DEF OutMessages
  <2>3. PICK q \in Queries, n \in 0..MaxPages : m.from = q /\ m.no = n
    BY <2>2 DEF Results
  <2>4. n \in 1..pages[q] /\ n \in Nat
    <3>1. n \in Nat
      BY PipelineAssumption
    <3>2. Underway(q, n)
      BY <1>5, <2>1, <2>3 DEF Underway, IsPage
    <3>3. QED
      BY <3>1, <3>2 DEF IInv, PageInv
  <2>5. n \in 1..MaxPages /\ n <= pages[q]
    BY <2>4, PipelineAssumption DEF IInv, TypeOK
  <2>6. <<q, n>> \in PagesUpTo(pages)
    BY <2>5 DEF PagesUpTo, AllPages
  <2>7. <<q, n>> \notin ingested
    <3>1. Has(outPipe, q, n)
      <4>1. outPipe \in Seq(OutMessages) /\ outPipe # <<>>
        BY ReadFacts DEF IInv
      <4>2. 1 \in DOMAIN outPipe /\ outPipe[1] = m
        BY <1>1, <4>1, TailFacts
      <4>3. QED
        BY <2>1, <2>3, <4>2 DEF Has, IsPage
    <3>2. QED
      BY <2>5, <3>1 DEF IInv, OnceInv, OnceAt
  <2>8. QED
    BY <1>2, <1>3, <1>4, <2>1, <2>3, <2>6, <2>7 DEF Stream!Deliver
<1>8. CASE ReadNotice
  BY <1>2, <1>3, <1>8 DEF ReadNotice, mainVars, StreamVars
<1>9. CASE ReadError
  <2>1. IsError(m) /\ outcome' = "error" /\ ingested' = ingested
    BY <1>1, <1>9 DEF ReadError
  <2>2. faulty
    BY <1>5, <2>1 DEF IInv, FaultInv
  <2>3. QED
    BY <1>2, <1>3, <1>4, <2>1, <2>2 DEF Stream!Fail
<1>10. QED
  BY <1>6, <1>7, <1>8, <1>9 DEF Read

LEMMA JoinStream ==
    ASSUME JoinPool \/ JoinTranslator
    PROVE  Stream!Abandon \/ UNCHANGED StreamVars
<1>1. UNCHANGED <<pages, ingested, faulty>> /\ (outcome' = "internal" \/ outcome' = outcome)
  BY DEF JoinPool, JoinTranslator, txVars, faultVars
<1>2. PagesUpTo(pages)' = PagesUpTo(pages)
  BY <1>1 DEF PagesUpTo
<1>3. QED
  BY <1>1, <1>2 DEF Stream!Abandon, StreamVars

LEMMA OtherStream ==
    ASSUME UNCHANGED <<pages, ingested, faulty, outcome>>
    PROVE  UNCHANGED StreamVars
BY DEF StreamVars, PagesUpTo

LEMMA NextStream ==
    ASSUME IInv, IInv', [Next]_vars
    PROVE  Stream!StreamNext \/ UNCHANGED StreamVars
<1>1. CASE \E q \in Queries : TxPutPage(q) \/ TxPutNotice(q) \/ TxPutError(q)
  BY <1>1, TxPutStream DEF Stream!StreamNext
<1>2. CASE \E t \in Translators : Translate(t)
  BY <1>2, TranslateStream DEF Stream!StreamNext
<1>3. CASE Read
  BY <1>3, ReadStream DEF Stream!StreamNext
<1>4. CASE JoinPool \/ JoinTranslator
  BY <1>4, JoinStream DEF Stream!StreamNext
<1>5. CASE UNCHANGED <<pages, ingested, faulty, outcome>>
  BY <1>5, OtherStream
<1>6. \/ PoolStart \/ PoolStop \/ PoolExit
      \/ \E q \in Queries : TxReturn(q) \/ TxDies(q) \/ TxExit(q)
      \/ \E w \in Writers : RawFlush(w)
      \/ \E t \in Translators : TranslatorDies(t) \/ TranslatorStop(t) \/ TranslatorExit(t) \/ OutFlush(t)
      \/ UNCHANGED vars
      => UNCHANGED <<pages, ingested, faulty, outcome>>
  BY DEF PoolStart, PoolStop, PoolExit, TxReturn, TxDies, TxExit, RawFlush, TranslatorDies, TranslatorStop,
         TranslatorExit, OutFlush, Trouble, vars, mainVars, txVars, faultVars
<1>7. QED
  BY <1>1, <1>2, <1>3, <1>4, <1>5, <1>6 DEF Next

\* Every behaviour of the processes and queues is one that ResultStream allows.
THEOREM PipelineImplementsStream == SafetySpec => ImplementsStream
<1>1. Init => Stream!StreamInit
  BY InitStream
<1>2. IInv /\ IInv' /\ [Next]_vars => [Stream!StreamNext]_(Stream!streamVars)
  BY NextStream DEF StreamVars, Stream!streamVars
<1>3. QED
  BY <1>1, <1>2, InductiveInvariant, PTL DEF SafetySpec, ImplementsStream, Stream!StreamSpec

===============================================================================
