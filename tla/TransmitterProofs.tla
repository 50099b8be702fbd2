--------------------------- MODULE TransmitterProofs ---------------------------
(***************************************************************************)
(* Proofs about Transmitter for every batch size, limit and number of      *)
(* matched records: its type invariant and the safety invariants its run   *)
(* checks, all from one inductive invariant.                               *)
(***************************************************************************)
EXTENDS Transmitter, TLAPS

\* The smaller of two numbers, as the source writes it with if.
LEMMA MinOfTwo ==
    ASSUME NEW a \in Int, NEW b \in Int
    PROVE  Min({a, b}) = IF a <= b THEN a ELSE b
<1>1. \E x \in {a, b} : \A y \in {a, b} : x =< y
  <2>1. CASE a <= b
    BY <2>1
  <2>2. CASE ~(a <= b)
    BY <2>2
  <2>3. QED
    BY <2>1, <2>2
<1>2. Min({a, b}) \in {a, b} /\ \A y \in {a, b} : Min({a, b}) =< y
  BY <1>1 DEF Min
<1>3. QED
  BY <1>2

\* What the retrieval loop maintains besides the types: the pages cover exactly
\* the records below offset, none of them beyond the limit, and every way out of
\* the loop leaves either an ERROR packet or nothing to retrieve.
Inv ==
    /\ \A i \in DOMAIN sent : IsPage(sent[i]) => PageEnd(sent[i]) <= offset
    /\ EachRecordOnce
    /\ limit > 0 => offset <= limit
    /\ pc \in {"query", "wait"} => offset = 0 /\ batch = FirstBatch(limit)
    /\ pc = "retrieve" => batch > 0 /\ (limit > 0 => offset < limit /\ batch <= limit - offset)
    /\ pc \in {"delete", "exit", "done"} =>
         Reported \/ offset = matched \/ (limit > 0 /\ offset = limit)
    /\ pc \in {"exit", "done"} /\ search \in {"running", "ended"} => offset = 0 /\ Reported
    /\ pc = "query" => search = "none"
    /\ pc = "retrieve" => search = "ended"

-------------------------------------------------------------------------------
LEMMA InitTypeOK == Init => TypeOK
<1>1. Init => sent \in Seq(PacketSet)
  BY DEF Init
<1>2. Init => batch \in 0..RetrievalBatch
  BY TransmitterAssumption DEF Init, FirstBatch
<1>3. Init => offset \in 0..matched
  BY TransmitterAssumption DEF Init
<1>4. QED
  BY <1>1, <1>2, <1>3 DEF Init, TypeOK

\* Appending a packet keeps the packets in front of it.
LEMMA AppendFacts ==
    ASSUME NEW p \in PacketSet, sent \in Seq(PacketSet), sent' = Append(sent, p)
    PROVE  /\ sent' \in Seq(PacketSet)
           /\ Len(sent') = Len(sent) + 1
           /\ Len(sent) \in Nat
           /\ DOMAIN sent = 1..Len(sent)
           /\ DOMAIN sent' = 1..(Len(sent) + 1)
           /\ \A i \in 1..Len(sent) : sent'[i] = sent[i]
           /\ sent'[Len(sent) + 1] = p
OBVIOUS

LEMMA PacketTypes ==
    /\ Source!Failure \in PacketSet
    /\ Source!Notice \in PacketSet
    /\ \A o, n \in Nat : Source!Page(o, n) \in PacketSet
BY DEF PacketSet, Source!Failure, Source!Notice, Source!Page

LEMMA NextBatchType ==
    ASSUME TypeOK, NEW o \in Nat
    PROVE  /\ NextBatch(o) \in 0..RetrievalBatch
           /\ limit > 0 /\ o < limit => NextBatch(o) > 0 /\ NextBatch(o) <= limit - o
           /\ limit = 0 => NextBatch(o) = batch
<1>1. limit \in Nat /\ RetrievalBatch \in Nat \ {0} /\ batch \in 0..RetrievalBatch
  BY TransmitterAssumption DEF TypeOK
<1>2. Min({limit - o, RetrievalBatch}) =
        IF limit - o <= RetrievalBatch THEN limit - o ELSE RetrievalBatch
  BY <1>1, MinOfTwo
<1>3. QED
  BY <1>1, <1>2 DEF NextBatch, LimitReached

LEMMA NextTypeOK == TypeOK /\ [Next]_vars => TypeOK'
<1> SUFFICES ASSUME TypeOK, [Next]_vars
             PROVE  TypeOK'
  OBVIOUS
<1> USE TransmitterAssumption
<1>1. CASE SubmitQuery
  BY <1>1, PacketTypes DEF SubmitQuery, Put, TypeOK
<1>2. CASE SearchEnds
  BY <1>2 DEF SearchEnds, TypeOK
<1>3. CASE PollEnded
  BY <1>3 DEF PollEnded, TypeOK
<1>4. CASE PollFails
  BY <1>4, PacketTypes DEF PollFails, Put, TypeOK
<1>5. ASSUME NEW n \in 1..MaxMatched, ReceivePage(n)
      PROVE  TypeOK'
  <2>1. /\ batch \in Int /\ matched \in Nat /\ offset \in Nat /\ offset <= matched
        /\ matched <= MaxMatched
    BY DEF TypeOK
  <2>2. n \in Nat /\ n <= matched - offset
    BY <1>5, <2>1, MinOfTwo DEF ReceivePage
  <2>3. offset + n \in 0..matched /\ offset + n \in Nat
    BY <2>1, <2>2
  <2>4. NextBatch(offset + n) \in 0..RetrievalBatch
    BY <2>3, NextBatchType
  <2>5. sent' \in Seq(PacketSet)
    BY <1>5, <2>1, <2>2, PacketTypes DEF ReceivePage, Put, TypeOK
  <2>6. QED
    BY <1>5, <2>3, <2>4, <2>5 DEF ReceivePage, TypeOK
<1>6. CASE ReceiveNothing
  BY <1>6 DEF ReceiveNothing, TypeOK
<1>7. CASE RetryTimeout
  BY <1>7, PacketTypes DEF RetryTimeout, Put, TypeOK
<1>8. CASE ReceiveFailure
  BY <1>8, PacketTypes DEF ReceiveFailure, Put, TypeOK
<1>9. CASE DeleteSearch
  BY <1>9 DEF DeleteSearch, TypeOK
<1>10. CASE Exit \/ Die
  BY <1>10 DEF Exit, Die, TypeOK, Ends
<1>11. CASE UNCHANGED vars
  BY <1>11 DEF vars, TypeOK
<1>12. QED
  BY <1>1, <1>2, <1>3, <1>4, <1>5, <1>6, <1>7, <1>8, <1>9, <1>10, <1>11
  DEF Next, RetrieveData

\* The retrieval state of a transmitter stays within its types for every size of
\* the search, batch and limit.
THEOREM TypeCorrect == Spec => []TypeOK
<1>1. QED
  BY InitTypeOK, NextTypeOK, PTL DEF Spec

-------------------------------------------------------------------------------
LEMMA InitInv == Init => Inv
<1> SUFFICES ASSUME Init PROVE Inv
  OBVIOUS
<1>1. DOMAIN sent = {} /\ offset = 0 /\ pc = "query" /\ search = "none"
  BY DEF Init
<1>2. limit > 0 => offset <= limit
  BY TransmitterAssumption, <1>1 DEF Init
<1>3. EachRecordOnce
  BY <1>1 DEF EachRecordOnce
<1>4. QED
  BY <1>1, <1>2, <1>3 DEF Init, Inv

\* A packet that is not a page changes nothing about the pages.
LEMMA NonPagePut ==
    ASSUME TypeOK, Inv, NEW p \in PacketSet, ~IsPage(p), Put(p), offset' = offset
    PROVE  /\ \A i \in DOMAIN sent' : IsPage(sent'[i]) => PageEnd(sent'[i]) <= offset'
           /\ EachRecordOnce'
           /\ Reported => Reported'
           /\ p.kind = "error" => Reported'
<1>1. /\ Len(sent) \in Nat /\ DOMAIN sent = 1..Len(sent)
      /\ DOMAIN sent' = 1..(Len(sent) + 1)
      /\ \A i \in 1..Len(sent) : sent'[i] = sent[i]
      /\ sent'[Len(sent) + 1] = p
  BY AppendFacts DEF Put, TypeOK
<1>2. \A i \in DOMAIN sent' : IsPage(sent'[i]) => i \in DOMAIN sent /\ sent'[i] = sent[i]
  BY <1>1
<1>3. \A i \in DOMAIN sent' : IsPage(sent'[i]) => PageEnd(sent'[i]) <= offset'
  BY <1>2 DEF Inv, PageEnd, IsPage
<1>4. EachRecordOnce'
  <2>1. ASSUME NEW r \in 0..(offset' - 1)
        PROVE  \E i \in DOMAIN sent' :
                 IsPage(sent'[i]) /\ r \in sent'[i].offset..(PageEnd(sent'[i]) - 1)
    <3>1. PICK i \in DOMAIN sent :
                 IsPage(sent[i]) /\ r \in sent[i].offset..(PageEnd(sent[i]) - 1)
      BY DEF Inv, EachRecordOnce
    <3>2. i \in DOMAIN sent' /\ sent'[i] = sent[i]
      BY <1>1
    <3>3. QED
      BY <3>1, <3>2
  <2>2. ASSUME NEW i \in DOMAIN sent', NEW j \in DOMAIN sent', i < j,
               IsPage(sent'[i]), IsPage(sent'[j])
        PROVE  PageEnd(sent'[i]) <= sent'[j].offset
    BY <1>2, <2>2 DEF Inv, EachRecordOnce
  <2>3. QED
    BY <2>1, <2>2 DEF EachRecordOnce, IsPage, PageEnd
<1>5. Reported => Reported'
  BY <1>1 DEF Reported
<1>6. p.kind = "error" => Reported'
  BY <1>1 DEF Reported
<1>7. QED
  BY <1>3, <1>4, <1>5, <1>6

\* The page at the current offset extends the covered records without overlap.
LEMMA PagePut ==
    ASSUME TypeOK, Inv, NEW n \in Nat \ {0}, Put(Source!Page(offset, n)), offset' = offset + n
    PROVE  /\ \A i \in DOMAIN sent' : IsPage(sent'[i]) => PageEnd(sent'[i]) <= offset'
           /\ EachRecordOnce'
<1> DEFINE p == Source!Page(offset, n)
<1>0. offset \in Nat /\ p \in PacketSet
  BY PacketTypes DEF TypeOK
<1>1. /\ Len(sent) \in Nat /\ DOMAIN sent = 1..Len(sent)
      /\ DOMAIN sent' = 1..(Len(sent) + 1)
      /\ \A i \in 1..Len(sent) : sent'[i] = sent[i]
      /\ sent'[Len(sent) + 1] = p
  BY <1>0, AppendFacts DEF Put, TypeOK
<1>2. IsPage(p) /\ p.offset = offset /\ PageEnd(p) = offset + n
  BY DEF Source!Page, IsPage, PageEnd
<1>3. \A i \in DOMAIN sent : IsPage(sent'[i]) => PageEnd(sent'[i]) <= offset
  BY <1>1 DEF Inv
<1>4. \A i \in DOMAIN sent : sent[i] \in PacketSet
  BY DEF TypeOK
<1>5. \A i \in DOMAIN sent' : IsPage(sent'[i]) => PageEnd(sent'[i]) <= offset'
  <2>1. TAKE i \in DOMAIN sent'
  <2>2. CASE i = Len(sent) + 1
    BY <1>0, <1>1, <1>2, <2>2
  <2>3. CASE i \in DOMAIN sent
    <3>1. PageEnd(sent'[i]) \in Nat
      BY <1>1, <1>4, <2>3 DEF PageEnd, PacketSet
    <3>2. QED
      BY <1>0, <1>3, <2>3, <3>1
  <2>4. QED
    BY <1>1, <2>2, <2>3
<1>6. EachRecordOnce'
  <2>1. ASSUME NEW r \in 0..(offset' - 1)
        PROVE  \E i \in DOMAIN sent' :
                 IsPage(sent'[i]) /\ r \in sent'[i].offset..(PageEnd(sent'[i]) - 1)
    <3>1. CASE r < offset
      <4>1. PICK i \in DOMAIN sent :
                   IsPage(sent[i]) /\ r \in sent[i].offset..(PageEnd(sent[i]) - 1)
        BY <1>0, <3>1 DEF Inv, EachRecordOnce
      <4>2. i \in DOMAIN sent' /\ sent'[i] = sent[i]
        BY <1>1
      <4>3. QED
        BY <4>1, <4>2
    <3>2. CASE ~(r < offset)
      <4>1. Len(sent) + 1 \in DOMAIN sent'
        BY <1>1
      <4>2. r \in p.offset..(PageEnd(p) - 1)
        BY <1>0, <1>2, <3>2
      <4>3. QED
        BY <1>1, <1>2, <4>1, <4>2
    <3>3. QED
      BY <3>1, <3>2
  <2>2. ASSUME NEW i \in DOMAIN sent', NEW j \in DOMAIN sent', i < j,
               IsPage(sent'[i]), IsPage(sent'[j])
        PROVE  PageEnd(sent'[i]) <= sent'[j].offset
    <3>1. i \in DOMAIN sent /\ i \in Int /\ j \in Int
      BY <1>1, <2>2
    <3>2. CASE j \in DOMAIN sent
      BY <1>1, <2>2, <3>1, <3>2 DEF Inv, EachRecordOnce
    <3>3. CASE j = Len(sent) + 1
      BY <1>1, <1>2, <1>3, <2>2, <3>1, <3>3
    <3>4. QED
      BY <1>1, <3>2, <3>3
  <2>3. QED
    BY <2>1, <2>2 DEF EachRecordOnce, IsPage, PageEnd
<1>7. QED
  BY <1>5, <1>6

LEMMA NextInv == TypeOK /\ Inv /\ [Next]_vars => Inv'
<1> SUFFICES ASSUME TypeOK, Inv, [Next]_vars
             PROVE  Inv'
  OBVIOUS
<1>0. /\ offset \in Nat /\ matched \in Nat /\ limit \in Nat /\ batch \in Nat
      /\ RetrievalBatch \in Nat \ {0}
  BY TransmitterAssumption DEF TypeOK
<1>a. /\ ~IsPage(Source!Failure) /\ Source!Failure.kind = "error"
      /\ ~IsPage(Source!Notice)
  BY DEF IsPage, Source!Failure, Source!Notice
<1>b. ASSUME UNCHANGED <<sent, offset>>
      PROVE  /\ \A i \in DOMAIN sent' : IsPage(sent'[i]) => PageEnd(sent'[i]) <= offset'
             /\ EachRecordOnce'
             /\ Reported' = Reported
  BY <1>b DEF Inv, EachRecordOnce, Reported, IsPage, PageEnd
<1>1. CASE SubmitQuery
  <2>1. CASE search' = "running" /\ pc' = "wait" /\ UNCHANGED sent
    BY <1>1, <2>1, <1>b, <1>0 DEF SubmitQuery, Inv, FirstBatch
  <2>2. CASE Put(Source!Failure) /\ pc' = "exit" /\ UNCHANGED search
    BY <1>1, <2>2, <1>0, <1>a, PacketTypes, NonPagePut DEF SubmitQuery, Inv
  <2>3. QED
    BY <1>1, <2>1, <2>2 DEF SubmitQuery
<1>2. CASE SearchEnds
  BY <1>2, <1>b DEF SearchEnds, Inv
<1>3. CASE PollEnded
  <2>1. batch = FirstBatch(limit) /\ offset = 0
    BY <1>3 DEF PollEnded, Inv
  <2>2. batch > 0 /\ (limit > 0 => offset < limit /\ batch <= limit - offset)
    BY <1>0, <2>1 DEF FirstBatch
  <2>3. QED
    BY <1>3, <1>b, <2>2 DEF PollEnded, Inv
<1>4. CASE PollFails
  BY <1>4, <1>0, <1>a, PacketTypes, NonPagePut DEF PollFails, Inv
<1>5. ASSUME NEW n \in 1..MaxMatched, ReceivePage(n)
      PROVE  Inv'
  <2>1. /\ n \in Nat \ {0} /\ n <= batch /\ n <= matched - offset
        /\ offset' = offset + n /\ Put(Source!Page(offset, n)) /\ pc = "retrieve"
    BY <1>5, <1>0, MinOfTwo DEF ReceivePage
  <2>2. limit > 0 => offset + n <= limit
    BY <1>0, <2>1 DEF Inv
  <2>3. /\ \A i \in DOMAIN sent' : IsPage(sent'[i]) => PageEnd(sent'[i]) <= offset'
        /\ EachRecordOnce'
    BY <2>1, PagePut
  <2>4. batch' = NextBatch(offset + n) /\ UNCHANGED <<search, matched, limit>>
        /\ pc' = IF LimitReached(offset + n) THEN "delete" ELSE "retrieve"
    BY <1>5 DEF ReceivePage
  <2>5. CASE LimitReached(offset + n)
    BY <1>0, <2>1, <2>2, <2>3, <2>4, <2>5 DEF LimitReached, Inv
  <2>6. CASE ~LimitReached(offset + n)
    <3>1. batch' > 0 /\ (limit > 0 => offset' < limit /\ batch' <= limit - offset')
      BY <1>0, <2>1, <2>4, <2>6, NextBatchType DEF LimitReached, Inv
    <3>2. QED
      BY <1>0, <2>1, <2>2, <2>3, <2>4, <2>6, <3>1 DEF Inv
  <2>7. QED
    BY <2>5, <2>6
<1>6. CASE ReceiveNothing
  BY <1>6, <1>b, <1>0 DEF ReceiveNothing, Inv
<1>7. CASE RetryTimeout
  BY <1>7, <1>0, <1>a, PacketTypes, NonPagePut DEF RetryTimeout, Inv
<1>8. CASE ReceiveFailure
  BY <1>8, <1>0, <1>a, PacketTypes, NonPagePut DEF ReceiveFailure, Inv
<1>9. CASE DeleteSearch
  BY <1>9, <1>b DEF DeleteSearch, Inv
<1>10. CASE Exit \/ Die
  BY <1>10, <1>b DEF Exit, Die, Inv
<1>11. CASE UNCHANGED vars
  BY <1>11, <1>b DEF vars, Inv
<1>12. QED
  BY <1>1, <1>2, <1>3, <1>4, <1>5, <1>6, <1>7, <1>8, <1>9, <1>10, <1>11
  DEF Next, RetrieveData

LEMMA InvHolds == Spec => [](TypeOK /\ Inv)
<1>1. Init => TypeOK /\ Inv
  BY InitTypeOK, InitInv
<1>2. TypeOK /\ Inv /\ [Next]_vars => (TypeOK /\ Inv)'
  BY NextTypeOK, NextInv
<1>3. QED
  BY <1>1, <1>2, PTL DEF Spec

-------------------------------------------------------------------------------
\* Retries and page sizes never lose or repeat a record.
THEOREM RecordsRetrievedOnce == Spec => []EachRecordOnce
<1>1. Inv => EachRecordOnce
  BY DEF Inv
<1>2. QED
  BY <1>1, InvHolds, PTL

\* One transmitter never puts a record beyond its limit on the queue.
THEOREM LimitRespected == Spec => []WithinLimit
<1>1. TypeOK /\ Inv => WithinLimit
  <2> SUFFICES ASSUME TypeOK, Inv, limit > 0, NEW i \in DOMAIN sent, IsPage(sent[i])
               PROVE  PageEnd(sent[i]) <= limit
    BY DEF WithinLimit
  <2>0. sent[i] \in PacketSet
    BY DEF TypeOK
  <2>1. PageEnd(sent[i]) \in Nat /\ offset \in Nat /\ limit \in Nat
    BY <2>0, TransmitterAssumption DEF TypeOK, PageEnd, PacketSet
  <2>2. PageEnd(sent[i]) <= offset /\ offset <= limit
    BY DEF Inv
  <2>3. QED
    BY <2>1, <2>2
<1>2. QED
  BY <1>1, InvHolds, PTL

\* A run() that returns without an ERROR packet has retrieved everything.
THEOREM NoSilentStop == Spec => []SilentMeansComplete
<1>1. Inv => SilentMeansComplete
  BY DEF Inv, SilentMeansComplete
<1>2. QED
  BY <1>1, InvHolds, PTL

\* A run() that returns has left a search undeleted only after a failed status().
THEOREM SearchesDeleted == Spec => []OnlyFailedStatusAbandonsSearch
<1>1. Inv => OnlyFailedStatusAbandonsSearch
  BY DEF Inv, OnlyFailedStatusAbandonsSearch
<1>2. QED
  BY <1>1, InvHolds, PTL

\* No request asks for zero records.
THEOREM RequestsNonEmpty == Spec => []NeverAsksForNothing
<1>1. Inv => NeverAsksForNothing
  BY DEF Inv, NeverAsksForNothing
<1>2. QED
  BY <1>1, InvHolds, PTL

-------------------------------------------------------------------------------
(* The refinement of PacketSource. *)

End(p) == p.offset + p.len

\* What a translator sees of the packets: nothing before the retrieval, the last
\* page ends at offset, no retry follows a retry, and the last packet is an ERROR
\* unless everything asked for was retrieved.
PacketInv ==
    /\ pc \in {"query", "wait"} => sent = <<>>
    /\ \A i \in DOMAIN sent : End(sent[i]) <= offset
    /\ offset = 0 \/ \E i \in DOMAIN sent : End(sent[i]) = offset
    /\ pc = "retrieve" => ~Source!EndsWith(sent, "error")
    /\ pc = "retrieve" /\ Source!EndsWith(sent, "info") => retried
    /\ pc \in {"delete", "exit", "done"} =>
         Source!EndsWith(sent, "error") \/ offset = matched \/ (limit > 0 /\ offset = limit)

\* What the abstract source counts is what the process has advanced to.
LEMMA RetrievedIsOffset ==
    ASSUME TypeOK, PacketInv
    PROVE  Source!Retrieved(sent) = offset
<1> DEFINE S == {0} \cup {sent[i].offset + sent[i].len : i \in DOMAIN sent}
<1>1. offset \in Nat /\ \A i \in DOMAIN sent : sent[i] \in PacketSet
  BY DEF TypeOK
<1>2. \A i \in DOMAIN sent : End(sent[i]) \in Nat /\ End(sent[i]) = sent[i].offset + sent[i].len
  BY <1>1 DEF End, PacketSet
<1>3. offset \in S
  BY <1>2 DEF PacketInv
<1>4. \A y \in S : y \in Nat /\ y <= offset
  BY <1>1, <1>2 DEF PacketInv
<1> HIDE DEF S
<1>5. \A x \in S : (\A y \in S : x >= y) => x = offset
  BY <1>1, <1>3, <1>4
<1>6. \A y \in S : offset >= y
  BY <1>1, <1>4
<1>7. (CHOOSE x \in S : \A y \in S : x >= y) = offset
  BY <1>3, <1>5, <1>6
<1>8. Source!Max(S) = offset
  BY <1>7 DEF Source!Max
<1>9. QED
  BY <1>8 DEF Source!Retrieved, S

\* What the abstract source is asked for.
LEMMA WantedIs ==
    ASSUME TypeOK
    PROVE  Source!Wanted = IF limit > 0 /\ limit < matched THEN limit ELSE matched
<1>1. limit \in Nat /\ matched \in Nat
  BY TransmitterAssumption DEF TypeOK
<1>2. Min({matched, limit}) = IF matched <= limit THEN matched ELSE limit
  BY <1>1, MinOfTwo
<1>3. Source!Min({matched, limit}) = Min({matched, limit})
  BY DEF Min, Source!Min
<1>4. QED
  BY <1>1, <1>2, <1>3 DEF Source!Wanted

\* A put packet is the last one and keeps the ends of the others.
LEMMA PutFacts ==
    ASSUME TypeOK, NEW p \in PacketSet, Put(p)
    PROVE  /\ \A k : Source!EndsWith(sent', k) <=> p.kind = k
           /\ \A i \in DOMAIN sent : i \in DOMAIN sent' /\ sent'[i] = sent[i]
           /\ \A i \in DOMAIN sent' : (i \in DOMAIN sent /\ sent'[i] = sent[i]) \/ sent'[i] = p
           /\ \E i \in DOMAIN sent' : sent'[i] = p
<1>1. /\ Len(sent) \in Nat /\ DOMAIN sent = 1..Len(sent)
      /\ sent' \in Seq(PacketSet) /\ Len(sent') = Len(sent) + 1
      /\ DOMAIN sent' = 1..(Len(sent) + 1)
      /\ \A i \in 1..Len(sent) : sent'[i] = sent[i]
      /\ sent'[Len(sent) + 1] = p
  BY AppendFacts DEF Put, TypeOK
<1>2. sent' # <<>> /\ Source!Last(sent') = p
  BY <1>1 DEF Source!Last
<1>3. QED
  BY <1>1, <1>2 DEF Source!EndsWith

LEMMA InitPacketInv == Init => PacketInv
<1> SUFFICES ASSUME Init PROVE PacketInv
  OBVIOUS
<1>1. DOMAIN sent = {} /\ sent = <<>> /\ offset = 0 /\ pc = "query"
  BY DEF Init
<1>2. \A k : ~Source!EndsWith(sent, k)
  BY <1>1 DEF Source!EndsWith
<1>3. QED
  BY <1>1, <1>2 DEF PacketInv

\* A packet that is no page changes nothing about the ends of pages.
LEMMA NonPageEnds ==
    ASSUME TypeOK, PacketInv, NEW p \in PacketSet, Put(p), End(p) = 0, offset' = offset
    PROVE  /\ \A i \in DOMAIN sent' : End(sent'[i]) <= offset'
           /\ offset' = 0 \/ \E i \in DOMAIN sent' : End(sent'[i]) = offset'
<1>0. offset \in Nat
  BY DEF TypeOK
<1>1. /\ \A i \in DOMAIN sent : i \in DOMAIN sent' /\ sent'[i] = sent[i]
      /\ \A i \in DOMAIN sent' : (i \in DOMAIN sent /\ sent'[i] = sent[i]) \/ sent'[i] = p
  BY PutFacts
<1>2. ASSUME NEW i \in DOMAIN sent' PROVE End(sent'[i]) <= offset'
  <2>1. CASE i \in DOMAIN sent /\ sent'[i] = sent[i]
    BY <2>1 DEF PacketInv
  <2>2. CASE sent'[i] = p
    BY <1>0, <2>2
  <2>3. QED
    BY <1>1, <2>1, <2>2
<1>3. offset' = 0 \/ \E i \in DOMAIN sent' : End(sent'[i]) = offset'
  <2>1. CASE offset = 0
    BY <2>1
  <2>2. CASE \E i \in DOMAIN sent : End(sent[i]) = offset
    BY <1>1, <2>2
  <2>3. QED
    BY <2>1, <2>2 DEF PacketInv
<1>4. QED
  BY <1>2, <1>3

LEMMA PacketFacts ==
    /\ Source!Failure.kind = "error" /\ Source!Notice.kind = "info"
    /\ End(Source!Failure) = 0 /\ End(Source!Notice) = 0
    /\ \A o, n \in Nat : Source!Page(o, n).kind = "data" /\ End(Source!Page(o, n)) = o + n
BY DEF End, Source!Failure, Source!Notice, Source!Page

\* An ERROR packet: the process leaves the loops.
LEMMA FailurePut ==
    ASSUME TypeOK, PacketInv, Put(Source!Failure), pc' \in {"delete", "exit"}, offset' = offset
    PROVE  PacketInv'
<1>1. Source!EndsWith(sent', "error")
  BY PacketTypes, PacketFacts, PutFacts
<1>2. /\ \A i \in DOMAIN sent' : End(sent'[i]) <= offset'
      /\ offset' = 0 \/ \E i \in DOMAIN sent' : End(sent'[i]) = offset'
  BY PacketTypes, PacketFacts, NonPageEnds
<1>3. QED
  BY <1>1, <1>2 DEF PacketInv

\* A page, which starts where the last one ended.
LEMMA PageEnds ==
    ASSUME TypeOK, PacketInv, NEW n \in Nat, Put(Source!Page(offset, n)), offset' = offset + n
    PROVE  /\ \A i \in DOMAIN sent' : End(sent'[i]) <= offset'
           /\ \E i \in DOMAIN sent' : End(sent'[i]) = offset'
<1> DEFINE p == Source!Page(offset, n)
<1>0. offset \in Nat /\ p \in PacketSet /\ End(p) = offset + n
  BY PacketTypes, PacketFacts DEF TypeOK
<1> HIDE DEF p
<1>1. /\ \A i \in DOMAIN sent' : (i \in DOMAIN sent /\ sent'[i] = sent[i]) \/ sent'[i] = p
      /\ \E i \in DOMAIN sent' : sent'[i] = p
  BY <1>0, PutFacts DEF p
<1>2. ASSUME NEW i \in DOMAIN sent' PROVE End(sent'[i]) <= offset'
  <2>1. CASE i \in DOMAIN sent /\ sent'[i] = sent[i]
    <3>1. sent[i] \in PacketSet /\ End(sent[i]) <= offset
      BY <2>1 DEF PacketInv, TypeOK
    <3>2. End(sent[i]) \in Nat
      BY <3>1 DEF PacketSet, End
    <3>3. QED
      BY <1>0, <2>1, <3>1, <3>2
  <2>2. CASE sent'[i] = p
    BY <1>0, <2>2
  <2>3. QED
    BY <1>1, <2>1, <2>2
<1>3. QED
  BY <1>0, <1>1, <1>2

LEMMA NextPacketInv == TypeOK /\ Inv /\ PacketInv /\ [Next]_vars => PacketInv'
<1> SUFFICES ASSUME TypeOK, Inv, PacketInv, [Next]_vars PROVE PacketInv'
  OBVIOUS
<1>0. /\ offset \in Nat /\ matched \in Nat /\ limit \in Nat /\ batch \in Nat
  BY TransmitterAssumption DEF TypeOK
<1>1. CASE SubmitQuery
  <2>1. CASE pc' = "wait" /\ UNCHANGED sent
    BY <1>1, <2>1 DEF SubmitQuery, PacketInv
  <2>2. CASE Put(Source!Failure) /\ pc' = "exit"
    BY <1>1, <2>2, FailurePut DEF SubmitQuery
  <2>3. QED
    BY <1>1, <2>1, <2>2 DEF SubmitQuery
<1>2. CASE SearchEnds
  BY <1>2 DEF SearchEnds, PacketInv
<1>3. CASE PollEnded
  <2>1. offset = 0
    BY <1>3 DEF PollEnded, Inv
  <2>2. sent' = <<>> /\ \A k : ~Source!EndsWith(<<>>, k)
    BY <1>3 DEF PollEnded, PacketInv, Source!EndsWith
  <2>3. QED
    BY <1>3, <2>1, <2>2 DEF PollEnded, PacketInv
<1>4. CASE PollFails
  BY <1>4, FailurePut DEF PollFails
<1>5. ASSUME NEW n \in 1..MaxMatched, ReceivePage(n) PROVE PacketInv'
  <2>1. n \in Nat /\ Put(Source!Page(offset, n)) /\ offset' = offset + n /\ UNCHANGED <<matched, limit>>
    BY <1>5 DEF ReceivePage
  <2>2. n <= batch /\ pc = "retrieve" /\ pc' = IF LimitReached(offset + n) THEN "delete" ELSE "retrieve"
    BY <1>5, <1>0, MinOfTwo DEF ReceivePage
  <2>3. Source!Page(offset, n) \in PacketSet /\ Source!Page(offset, n).kind = "data"
    BY <1>0, <2>1, PacketTypes, PacketFacts
  <2>4. LimitReached(offset + n) => limit > 0 /\ offset' = limit
    BY <1>0, <2>1, <2>2 DEF LimitReached, Inv
  <2>5. \A k : Source!EndsWith(sent', k) <=> "data" = k
    BY <2>1, <2>3, PutFacts
  <2>6. QED
    BY <2>1, <2>2, <2>4, <2>5, PageEnds DEF PacketInv
<1>6. CASE ReceiveNothing
  <2>1. offset = matched
    BY <1>6, <1>0 DEF ReceiveNothing, Inv
  <2>2. QED
    BY <1>6, <2>1 DEF ReceiveNothing, PacketInv
<1>7. CASE RetryTimeout
  <2>1. \A k : Source!EndsWith(sent', k) <=> "info" = k
    BY <1>7, PacketTypes, PacketFacts, PutFacts DEF RetryTimeout
  <2>2. /\ \A i \in DOMAIN sent' : End(sent'[i]) <= offset'
        /\ offset' = 0 \/ \E i \in DOMAIN sent' : End(sent'[i]) = offset'
    BY <1>7, PacketTypes, PacketFacts, NonPageEnds DEF RetryTimeout
  <2>3. QED
    BY <1>7, <2>1, <2>2 DEF RetryTimeout, PacketInv
<1>8. CASE ReceiveFailure
  BY <1>8, FailurePut DEF ReceiveFailure
<1>9. CASE DeleteSearch
  BY <1>9 DEF DeleteSearch, PacketInv
<1>10. CASE Exit \/ Die
  BY <1>10 DEF Exit, Die, PacketInv
<1>11. CASE UNCHANGED vars
  BY <1>11 DEF vars, PacketInv
<1>12. QED
  BY <1>1, <1>2, <1>3, <1>4, <1>5, <1>6, <1>7, <1>8, <1>9, <1>10, <1>11
  DEF Next, RetrieveData

\* What the step of an abstract source puts.
LEMMA StepEmits ==
    ASSUME NEW p, Put(p), ~Source!EndsWith(sent, "error"), pc \notin Ends, pc' \notin Ends,
           UNCHANGED <<matched, limit>>
    PROVE  Source!Emit(p)
BY DEF Source!Emit, Put, Ends

\* Every step is one of the source or changes nothing of it.
LEMMA StepsOfSource ==
    ASSUME TypeOK, Inv, PacketInv, [Next]_vars
    PROVE  [Source!SourceNext]_(Source!sourceVars)
<1>0. /\ offset \in Nat /\ matched \in Nat /\ limit \in Nat /\ offset <= matched
      /\ Source!Retrieved(sent) = offset
      /\ Source!Wanted = IF limit > 0 /\ limit < matched THEN limit ELSE matched
  BY TransmitterAssumption, RetrievedIsOffset, WantedIs DEF TypeOK
<1>1. ASSUME Put(Source!Failure), pc \in {"query", "wait", "retrieve"}, pc' \notin Ends,
             UNCHANGED <<matched, limit>>
      PROVE  Source!SourceNext
  <2>0. ~Source!EndsWith(sent, "error")
    BY <1>1 DEF PacketInv, Source!EndsWith
  <2>1. Source!Emit(Source!Failure)
    BY <1>1, <2>0, StepEmits DEF Ends
  <2>2. QED
    BY <2>1 DEF Source!SourceNext, Source!EmitFailure
<1>2. ASSUME UNCHANGED <<matched, limit, sent>>, pc \notin Ends, pc' \notin Ends
      PROVE  UNCHANGED Source!sourceVars
  BY <1>2 DEF Source!sourceVars, Ends
<1>3. CASE SubmitQuery \/ PollFails \/ ReceiveFailure
  BY <1>3, <1>1, <1>2 DEF SubmitQuery, PollFails, ReceiveFailure, Ends
<1>4. CASE SearchEnds
  BY <1>4 DEF SearchEnds, Source!sourceVars
<1>5. CASE PollEnded \/ ReceiveNothing \/ DeleteSearch
  BY <1>5, <1>2 DEF PollEnded, ReceiveNothing, DeleteSearch, Ends
<1>6. ASSUME NEW n \in 1..MaxMatched, ReceivePage(n) PROVE Source!SourceNext
  <2>1. /\ n \in Nat /\ n >= 1 /\ Put(Source!Page(offset, n)) /\ n <= batch /\ n <= matched - offset
        /\ pc = "retrieve" /\ pc' \notin Ends /\ UNCHANGED <<matched, limit>> /\ batch \in Nat
    BY <1>6, <1>0, MinOfTwo DEF ReceivePage, TypeOK, Ends
  <2>2. n \in 1..(Source!Wanted - Source!Retrieved(sent))
    BY <1>0, <2>1 DEF Inv
  <2>3. Source!Emit(Source!Page(Source!Retrieved(sent), n))
    BY <1>0, <2>1, StepEmits DEF PacketInv, Ends
  <2>4. QED
    BY <2>2, <2>3 DEF Source!SourceNext, Source!EmitPage
<1>7. CASE RetryTimeout
  <2>1. Source!Emit(Source!Notice)
    BY <1>7, StepEmits DEF RetryTimeout, PacketInv, Ends
  <2>2. ~Source!EndsWith(sent, "info")
    BY <1>7 DEF RetryTimeout, PacketInv
  <2>3. QED
    BY <2>1, <2>2 DEF Source!SourceNext, Source!EmitNotice
<1>8. CASE Exit
  <2>1. pc = "exit" /\ pc' = "done" /\ UNCHANGED <<matched, limit, sent>>
    BY <1>8 DEF Exit
  <2>2. Source!Retrieved(sent) = Source!Wanted \/ Source!EndsWith(sent, "error")
    BY <1>0, <2>1 DEF PacketInv, Inv
  <2>3. Source!Close
    BY <2>1, <2>2 DEF Source!Close
  <2>4. QED
    BY <2>3 DEF Source!SourceNext
<1>9. CASE Die
  <2>1. Source!Die
    BY <1>9 DEF Die, Source!Die
  <2>2. QED
    BY <2>1 DEF Source!SourceNext
<1>10. CASE UNCHANGED vars
  BY <1>10 DEF vars, Source!sourceVars
<1>11. QED
  BY <1>3, <1>4, <1>5, <1>6, <1>7, <1>8, <1>9, <1>10 DEF Next, RetrieveData

\* A transmitter, whatever fails and whenever it is retried, keeps the promise of
\* PacketSource: pages in order without gap or overlap, never two notices in a row,
\* nothing behind an ERROR packet, and no run() returns before all that was asked for
\* is there, unless the last packet says so.
THEOREM TransmitterImplementsSource == Spec => ImplementsSource
<1>1. Init => Source!SourceInit
  BY TransmitterAssumption DEF Init, Source!SourceInit
<1>2. Spec => []PacketInv
  BY InitPacketInv, NextPacketInv, InvHolds, PTL DEF Spec
<1>3. TypeOK /\ Inv /\ PacketInv /\ [Next]_vars => [Source!SourceNext]_(Source!sourceVars)
  BY StepsOfSource
<1>4. QED
  BY <1>1, <1>2, <1>3, InvHolds, PTL DEF Spec, ImplementsSource, Source!SourceSpec

===============================================================================
