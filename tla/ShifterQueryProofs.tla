-------------------------- MODULE ShifterQueryProofs --------------------------
(***************************************************************************)
(* Proofs about ShifterQuery for any number of profiles, of native queries *)
(* and of matched records: what is left of a LIMIT never becomes "no       *)
(* limit", costs no record, and is exceeded by the fan-out at most.        *)
(***************************************************************************)
EXTENDS ShifterQuery, FiniteSetTheorems, TLAPS

\* The records the running transmitters still owe.
Outstanding == Cardinality(Records(left))

\* n records are enough for the first p profiles.
Enough(n, p) == (limit > 0 /\ n >= limit) \/ n >= MatchedBy(1..p)

\* What the loop keeps besides the types. The records still under way count like
\* those ingested: together they fill the limit or are all that the profiles
\* queried so far hold, and together they stay within the fan-out.
LimitInv ==
    /\ limit = 0 => profileLimit = 0
    /\ limit > 0 /\ numRecords = 0 => profileLimit = limit
    /\ LimitNeverVanishes

FanOutInv == limit > 0 => numRecords + Outstanding <= MaxFanOut * limit

EnoughInv ==
    /\ pc = "loop" => left = NothingLeft /\ Enough(numRecords, profile - 1)
    /\ pc = "run" => profile \in Profiles /\ Enough(numRecords + Outstanding, profile)
    /\ pc = "returned" => Enough(numRecords, ProfileCount)

IInv == TypeOK /\ LimitInv /\ FanOutInv /\ EnoughInv

-------------------------------------------------------------------------------
\* What the provers need to know of the numbers.

\* The smaller of two numbers, as the source writes it with if.
LEMMA DeliverableIsLess ==
    ASSUME NEW m \in Nat, NEW l \in Nat
    PROVE  Deliverable(m, l) = IF l > 0 /\ l < m THEN l ELSE m
<1>1. CASE l > 0
  <2>1. \E x \in {m, l} : \A y \in {m, l} : x =< y
    <3>1. CASE m <= l
      BY <3>1
    <3>2. CASE ~(m <= l)
      BY <3>2
    <3>3. QED
      BY <3>1, <3>2
  <2>2. Min({m, l}) \in {m, l} /\ \A y \in {m, l} : Min({m, l}) =< y
    BY <2>1 DEF Min
  <2>3. QED
    BY <1>1, <2>2 DEF Deliverable
<1>2. CASE ~(l > 0)
  BY <1>2 DEF Deliverable
<1>3. QED
  BY <1>1, <1>2

LEMMA FanOutOfRest ==
    ASSUME NEW f \in Nat \ {0}, NEW l \in Nat, NEW n \in Nat, n <= l
    PROVE  n + f * (l - n) <= f * l
<1>1. f * (l - n) = f * l - f * n
  OBVIOUS
<1>2. PICK g \in Nat : f = g + 1
  <2>1. f - 1 \in Nat /\ f = (f - 1) + 1
    OBVIOUS
  <2>2. QED
    BY <2>1
<1>3. f * n = g * n + n /\ g * n \in Nat
  BY <1>2
<1>4. f * l \in Nat
  OBVIOUS
<1>5. PICK a \in Nat, b \in Nat, c \in Nat : f * l = a /\ f * n = b /\ g * n = c
  BY <1>3, <1>4
<1>6. QED
  BY <1>1, <1>3, <1>5

-------------------------------------------------------------------------------
\* Counting records.

\* As many pairs with x as there are elements.
LEMMA PairsWithOne ==
    ASSUME NEW x, NEW S, IsFiniteSet(S)
    PROVE  IsFiniteSet({x} \X S) /\ Cardinality({x} \X S) = Cardinality(S)
<1>1. IsFiniteSet({x}) /\ Cardinality({x}) = 1
  BY FS_Singleton
<1>2. IsFiniteSet({x} \X S) /\ Cardinality({x} \X S) = Cardinality({x}) * Cardinality(S)
  BY <1>1, FS_Product
<1>3. Cardinality(S) \in Nat
  BY FS_CardinalityType
<1>4. QED
  BY <1>1, <1>2, <1>3

Counts == [NativeQueries -> 0..MaxMatched]

LEMMA RecordsAreFinite ==
    ASSUME NEW f \in Counts
    PROVE  IsFiniteSet(Records(f)) /\ Cardinality(Records(f)) \in Nat
<1>1. IsFiniteSet(NativeQueries) /\ IsFiniteSet(1..MaxMatched)
  BY QueryAssumption, FS_Interval DEF NativeQueries
<1>2. IsFiniteSet(NativeQueries \X (1..MaxMatched))
  BY <1>1, FS_Product
<1>3. Records(f) \in SUBSET (NativeQueries \X (1..MaxMatched))
  BY DEF Records
<1>4. IsFiniteSet(Records(f))
  BY <1>2, <1>3, FS_Subset
<1>5. QED
  BY <1>4, FS_CardinalityType

\* Nothing is under way exactly when all counts are 0.
LEMMA NoRecords == Cardinality(Records(NothingLeft)) = 0
<1>1. ASSUME NEW r \in Records(NothingLeft) PROVE FALSE
  BY <1>1 DEF Records, NothingLeft
<1>2. Records(NothingLeft) = {}
  BY <1>1
<1>3. QED
  BY <1>2, FS_EmptySet

\* A batch of n takes n of the records under way.
LEMMA BatchCounts ==
    ASSUME NEW f \in Counts, NEW q \in NativeQueries, NEW n \in 1..f[q]
    PROVE  LET g == [f EXCEPT ![q] = @ - n]
           IN  g \in Counts /\ n + Cardinality(Records(g)) = Cardinality(Records(f))
<1> DEFINE g == [f EXCEPT ![q] = @ - n]
           batch == {q} \X ((f[q] - n + 1)..f[q])
<1>1. f[q] \in 0..MaxMatched /\ n \in Nat /\ f[q] - n \in 0..MaxMatched /\ f[q] \in Nat
  BY QueryAssumption DEF Counts
<1>2. g \in Counts /\ g[q] = f[q] - n /\ \A p \in NativeQueries : p # q => g[p] = f[p]
  BY <1>1 DEF Counts
<1> HIDE DEF g
<1>3. batch \cup Records(g) \subseteq Records(f)
  BY <1>1, <1>2, QueryAssumption DEF Records, Counts
<1>4. ASSUME NEW r \in Records(f)
      PROVE  r \in batch \cup Records(g)
  <2>1. r \in NativeQueries \X (1..MaxMatched) /\ r[2] <= f[r[1]]
    BY DEF Records
  <2>2. CASE r[1] # q
    BY <2>1, <2>2, <1>2 DEF Records
  <2>3. CASE r[1] = q /\ r[2] <= f[q] - n
    BY <2>1, <2>3, <1>2 DEF Records
  <2>4. CASE r[1] = q /\ ~(r[2] <= f[q] - n)
    <3>1. r[2] \in (f[q] - n + 1)..f[q]
      BY <2>1, <2>4, <1>1, QueryAssumption
    <3>2. r = <<q, r[2]>>
      BY <2>1, <2>4
    <3>3. QED
      BY <3>1, <3>2
  <2>5. QED
    BY <2>2, <2>3, <2>4
<1>5. Records(f) = batch \cup Records(g)
  BY <1>3, <1>4
<1>6. batch \cap Records(g) = {}
  BY <1>1, <1>2, QueryAssumption DEF Records
<1>7. IsFiniteSet(batch) /\ Cardinality(batch) = n
  <2>1. (f[q] - n + 1) \in Int /\ f[q] \in Int
    BY <1>1
  <2>2. PICK a \in Int, b \in Int : a = f[q] - n + 1 /\ b = f[q]
    BY <2>1
  <2>3. IsFiniteSet(a..b) /\ Cardinality(a..b) = IF a > b THEN 0 ELSE b - a + 1
    BY FS_Interval
  <2>4. Cardinality(a..b) = n
    BY <2>2, <2>3, <1>1
  <2>5. QED
    BY <2>2, <2>3, <2>4, PairsWithOne
<1>8. IsFiniteSet(Records(g)) /\ Cardinality(Records(g)) \in Nat
  BY <1>2, RecordsAreFinite
<1>9. Cardinality(batch \cup Records(g)) = n + Cardinality(Records(g)) - Cardinality({})
  BY <1>6, <1>7, <1>8, FS_Union
<1>10. Cardinality({}) = 0
  BY FS_EmptySet
<1>11. QED
  BY <1>1, <1>2, <1>5, <1>8, <1>9, <1>10 DEF g

\* Queries that owe at most l records each owe at most the fan-out times l.
LEMMA RecordsWithinFanOut ==
    ASSUME NEW f \in Counts, NEW l \in Nat, \A q \in NativeQueries : f[q] <= l
    PROVE  Cardinality(Records(f)) <= MaxFanOut * l
<1>1. Records(f) \in SUBSET (NativeQueries \X (1..l))
  BY QueryAssumption DEF Records, Counts
<1>2. IsFiniteSet(NativeQueries) /\ Cardinality(NativeQueries) = MaxFanOut
  BY QueryAssumption, FS_Interval DEF NativeQueries
<1>3. IsFiniteSet(1..l) /\ Cardinality(1..l) = l
  BY FS_Interval
<1>4. /\ IsFiniteSet(NativeQueries \X (1..l))
      /\ Cardinality(NativeQueries \X (1..l)) = MaxFanOut * l
  BY <1>2, <1>3, FS_Product
<1>5. QED
  BY <1>1, <1>4, FS_Subset

\* The records under way are at least those of one query.
LEMMA RecordsOfOneQuery ==
    ASSUME NEW f \in Counts, NEW q \in NativeQueries
    PROVE  f[q] <= Cardinality(Records(f))
<1>1. f[q] \in Nat /\ f[q] <= MaxMatched
  BY QueryAssumption DEF Counts
<1>2. {q} \X (1..f[q]) \in SUBSET Records(f)
  BY <1>1, QueryAssumption DEF Records, Counts
<1>3. IsFiniteSet(1..f[q]) /\ Cardinality(1..f[q]) = f[q]
  <2>1. PICK b \in Nat : b = f[q]
    BY <1>1
  <2>2. IsFiniteSet(1..b) /\ Cardinality(1..b) = b
    BY FS_Interval
  <2>3. QED
    BY <2>1, <2>2
<1>4. Cardinality({q} \X (1..f[q])) = f[q]
  BY <1>3, PairsWithOne
<1>5. QED
  BY <1>1, <1>2, <1>4, RecordsAreFinite, FS_Subset

\* One more profile holds its own records more.
LEMMA MatchedByNext ==
    ASSUME NEW p \in Profiles, matched \in [Profiles -> Counts]
    PROVE  /\ MatchedBy(1..(p - 1)) \in Nat
           /\ MatchedBy(1..p) = MatchedBy(1..(p - 1)) + Cardinality(Records(matched[p]))
<1> DEFINE All == NativeQueries \X (1..MaxMatched)
           Of(P) == {r \in P \X All : r[2] \in Records(matched[r[1]])}
           one == {p} \X Records(matched[p])
<1>1. p \in Nat /\ p - 1 \in Nat /\ 1..p = (1..(p - 1)) \cup {p} /\ p \notin 1..(p - 1)
  BY QueryAssumption DEF Profiles
<1>2. IsFiniteSet(All)
  <2>1. IsFiniteSet(NativeQueries) /\ IsFiniteSet(1..MaxMatched)
    BY QueryAssumption, FS_Interval DEF NativeQueries
  <2>2. QED
    BY <2>1, FS_Product
<1>3. IsFiniteSet(Of(1..(p - 1)))
  <2>1. IsFiniteSet((1..(p - 1)) \X All)
    <3>1. IsFiniteSet(1..(p - 1))
      BY <1>1, FS_Interval
    <3>2. QED
      BY <3>1, <1>2, FS_Product
  <2>2. Of(1..(p - 1)) \in SUBSET ((1..(p - 1)) \X All)
    OBVIOUS
  <2>3. QED
    BY <2>1, <2>2, FS_Subset
<1>4. Of(1..p) = Of(1..(p - 1)) \cup one
  <2>1. Records(matched[p]) \subseteq All
    BY DEF Records
  <2>2. Of(1..(p - 1)) \cup one \subseteq Of(1..p)
    BY <1>1, <2>1
  <2>3. Of(1..p) \subseteq Of(1..(p - 1)) \cup one
    BY <1>1
  <2>4. QED
    BY <2>2, <2>3
<1>5. Of(1..(p - 1)) \cap one = {}
  BY <1>1
<1>6. matched[p] \in Counts
  OBVIOUS
<1>7. IsFiniteSet(Records(matched[p])) /\ Cardinality(Records(matched[p])) \in Nat
  BY <1>6, RecordsAreFinite
<1>8. IsFiniteSet(one) /\ Cardinality(one) = Cardinality(Records(matched[p]))
  BY <1>7, PairsWithOne
<1>9. Cardinality(Of(1..(p - 1))) \in Nat
  BY <1>3, FS_CardinalityType
<1>10. Cardinality(Of(1..p)) =
         Cardinality(Of(1..(p - 1))) + Cardinality(one) - Cardinality({})
  BY <1>3, <1>4, <1>5, <1>8, FS_Union
<1>11. MatchedBy(1..(p - 1)) = Cardinality(Of(1..(p - 1))) /\ MatchedBy(1..p) = Cardinality(Of(1..p))
  BY DEF MatchedBy
<1>12. QED
  BY <1>7, <1>8, <1>9, <1>10, <1>11, FS_EmptySet

-------------------------------------------------------------------------------
\* Types and the initial states.

LEMMA InitIInv == Init => IInv
<1> SUFFICES ASSUME Init PROVE IInv
  OBVIOUS
<1> USE QueryAssumption
<1>1. left = NothingLeft /\ left \in Counts
  BY DEF Init, NothingLeft, Counts
<1>2. TypeOK
  BY <1>1 DEF Init, TypeOK, Profiles, Counts
<1>3. LimitInv
  BY DEF Init, LimitInv, LimitNeverVanishes
<1>4. Outstanding = 0 /\ numRecords = 0
  BY <1>1, NoRecords DEF Init, Outstanding
<1>5. FanOutInv
  <2>1. limit \in Nat /\ MaxFanOut * limit \in Nat
    BY DEF Init
  <2>2. QED
    BY <1>4, <2>1 DEF FanOutInv
<1>6. MatchedBy(1..0) = 0
  <2>1. {r \in (1..0) \X (NativeQueries \X (1..MaxMatched)) : r[2] \in Records(matched[r[1]])} = {}
    OBVIOUS
  <2>2. QED
    BY <2>1, FS_EmptySet DEF MatchedBy
<1>7. EnoughInv
  <2>1. profile - 1 = 0 /\ numRecords >= MatchedBy(1..(profile - 1))
    BY <1>4, <1>6 DEF Init
  <2>2. QED
    BY <1>1, <2>1 DEF Init, EnoughInv, Enough
<1>8. QED
  BY <1>2, <1>3, <1>5, <1>7 DEF IInv

LEMMA NextTypeOK == TypeOK /\ EnoughInv /\ [Next]_vars => TypeOK'
<1> SUFFICES ASSUME TypeOK, EnoughInv, [Next]_vars PROVE TypeOK'
  OBVIOUS
<1> USE QueryAssumption DEF TypeOK
<1>1. limit \in Nat
  OBVIOUS
<1>2. limit > 0 /\ numRecords > 0 /\ ~LimitMet => NextProfileLimit \in Nat
  BY <1>1 DEF NextProfileLimit, LimitMet
<1>3. ~LimitMet => NextProfileLimit \in Nat
  BY <1>1, <1>2 DEF NextProfileLimit
<1>4. CASE BeginProfile
  <2>1. CASE LimitMet
    BY <1>4, <2>1 DEF BeginProfile
  <2>2. CASE ~LimitMet
    <3>1. profile \in Profiles /\ NextProfileLimit \in Nat
      BY <1>3, <1>4, <2>2 DEF BeginProfile, Profiles
    <3>2. PICK l \in Nat : l = NextProfileLimit
      BY <3>1
    <3>3. ASSUME NEW q \in NativeQueries PROVE Deliverable(matched[profile][q], l) \in 0..MaxMatched
      BY <3>1, DeliverableIsLess
    <3>4. left' \in [NativeQueries -> 0..MaxMatched]
      BY <1>4, <2>2, <3>2, <3>3 DEF BeginProfile
    <3>5. QED
      BY <1>4, <2>2, <3>1, <3>4 DEF BeginProfile
  <2>3. QED
    BY <2>1, <2>2
<1>5. CASE SetupFails
  BY <1>3, <1>5 DEF SetupFails
<1>6. ASSUME NEW q \in NativeQueries, NEW n \in 1..MaxMatched, Ingest(q, n) PROVE TypeOK'
  BY <1>6 DEF Ingest
<1>7. CASE ProfileDone
  <2>1. profile' = profile + 1 /\ profile' \in 1..(ProfileCount + 1)
    BY <1>7 DEF ProfileDone, EnoughInv, Profiles
  <2>2. QED
    BY <1>7, <2>1 DEF ProfileDone
<1>8. CASE ProfileFails
  BY <1>8 DEF ProfileFails
<1>9. CASE Finish
  BY <1>9 DEF Finish
<1>10. CASE UNCHANGED vars
  BY <1>10 DEF vars
<1>11. QED
  BY <1>4, <1>5, <1>6, <1>7, <1>8, <1>9, <1>10 DEF Next

-------------------------------------------------------------------------------
\* The steps that only move pc, or the loop to its next profile.

\* What is enough does not change, and only left says what is under way.
LEMMA EnoughStays ==
    ASSUME UNCHANGED <<limit, matched>>
    PROVE  \A n, p : Enough(n, p)' = Enough(n, p)
BY DEF Enough, MatchedBy, Records

LEMMA OutstandingStays ==
    ASSUME left' = left
    PROVE  Outstanding' = Outstanding
BY DEF Outstanding, Records

\* The loop breaks or begins a profile: the limits handed out are exact, so that
\* what is now under way either fills the limit or is all the profile holds.
LEMMA BeginProfileStep ==
    ASSUME IInv, BeginProfile, ~LimitMet
    PROVE  LimitInv' /\ FanOutInv' /\ EnoughInv'
<1> USE QueryAssumption DEF IInv, TypeOK
<1>1. /\ profile \in Profiles /\ numRecords \in Nat /\ limit \in Nat
      /\ pc = "loop" /\ pc' = "run" /\ profileLimit' = NextProfileLimit
      /\ profile' = profile /\ limit' = limit /\ numRecords' = numRecords /\ matched' = matched
  BY DEF BeginProfile, Profiles
<1>2. PICK l \in Nat : l = NextProfileLimit /\ (limit = 0 => l = 0)
                       /\ (limit > 0 => l = limit - numRecords /\ l > 0 /\ numRecords <= limit)
  <2>1. CASE limit = 0
    BY <2>1 DEF NextProfileLimit, LimitInv
  <2>2. CASE limit > 0 /\ numRecords = 0
    BY <2>2 DEF NextProfileLimit, LimitInv
  <2>3. CASE limit > 0 /\ numRecords > 0
    <3>1. numRecords < limit
      BY <1>1, <2>3 DEF LimitMet
    <3>2. limit - numRecords \in Nat /\ limit - numRecords > 0
      BY <1>1, <3>1
    <3>3. QED
      BY <2>3, <3>1, <3>2 DEF NextProfileLimit
  <2>4. QED
    BY <1>1, <2>1, <2>2, <2>3
<1>3. /\ left' \in Counts
      /\ \A q \in NativeQueries : left'[q] = IF l > 0 /\ l < matched[profile][q] THEN l
                                                                               ELSE matched[profile][q]
  <2>1. left' = [q \in NativeQueries |-> Deliverable(matched[profile][q], l)]
    BY <1>2 DEF BeginProfile
  <2>2. \A q \in NativeQueries : matched[profile][q] \in 0..MaxMatched
    BY <1>1
  <2>3. \A q \in NativeQueries : Deliverable(matched[profile][q], l) =
            IF l > 0 /\ l < matched[profile][q] THEN l ELSE matched[profile][q]
    BY <2>2, DeliverableIsLess
  <2>4. QED
    BY <2>1, <2>2, <2>3 DEF Counts
<1>4. PICK o \in Nat : o = Cardinality(Records(left'))
  BY <1>3, RecordsAreFinite
<1>5. Outstanding' = o
  BY <1>4 DEF Outstanding, Records
<1>6. LimitInv'
  BY <1>1, <1>2 DEF LimitInv, LimitNeverVanishes
<1>7. FanOutInv'
  <2>1. CASE limit > 0
    <3>1. \A q \in NativeQueries : left'[q] <= l
      BY <1>1, <1>2, <1>3, <2>1 DEF Counts
    <3>2. o <= MaxFanOut * l
      BY <1>3, <1>4, <3>1, RecordsWithinFanOut
    <3>3. numRecords + MaxFanOut * (limit - numRecords) <= MaxFanOut * limit
      BY <1>1, <1>2, <2>1, FanOutOfRest
    <3>4. PICK a \in Nat : a = MaxFanOut * l
      OBVIOUS
    <3>5. PICK b \in Nat : b = MaxFanOut * limit
      BY <1>1
    <3>6. numRecords + a <= b
      BY <1>2, <2>1, <3>3, <3>4, <3>5
    <3>7. numRecords + o <= b
      BY <1>1, <3>2, <3>4, <3>6
    <3>8. QED
      BY <1>1, <1>5, <3>5, <3>7 DEF FanOutInv
  <2>2. CASE ~(limit > 0)
    BY <1>1, <2>2 DEF FanOutInv
  <2>3. QED
    BY <2>1, <2>2
<1>8. Enough(numRecords + o, profile)
  <2>1. CASE \E q \in NativeQueries : l > 0 /\ l < matched[profile][q]
    <3>1. PICK q \in NativeQueries : l > 0 /\ left'[q] = l
      BY <1>3, <2>1
    <3>2. l <= o
      BY <1>3, <1>4, <3>1, RecordsOfOneQuery
    <3>3. QED
      BY <1>1, <1>2, <3>1, <3>2 DEF Enough
  <2>2. CASE ~\E q \in NativeQueries : l > 0 /\ l < matched[profile][q]
    <3>1. left' = matched[profile]
      BY <1>1, <1>3, <2>2 DEF Counts
    <3>2. /\ MatchedBy(1..(profile - 1)) \in Nat
          /\ MatchedBy(1..profile) = MatchedBy(1..(profile - 1)) + o
      BY <1>1, <1>4, <3>1, MatchedByNext DEF Counts
    <3>3. numRecords >= MatchedBy(1..(profile - 1))
      BY <1>1 DEF EnoughInv, Enough, LimitMet
    <3>4. numRecords + o >= MatchedBy(1..profile)
      BY <1>1, <3>2, <3>3
    <3>5. QED
      BY <3>4 DEF Enough
  <2>3. QED
    BY <2>1, <2>2
<1>9. Enough(numRecords + o, profile)' 
  BY <1>1, <1>8 DEF Enough, MatchedBy, Records
<1>10. EnoughInv'
  BY <1>1, <1>5, <1>9 DEF EnoughInv, Enough, MatchedBy, Records
<1>11. QED
  BY <1>6, <1>7, <1>10

LEMMA BreakStep ==
    ASSUME IInv, BeginProfile, LimitMet
    PROVE  LimitInv' /\ FanOutInv' /\ EnoughInv'
<1> USE DEF IInv
<1>1. /\ pc' = "returned" /\ limit > 0 /\ numRecords >= limit
      /\ UNCHANGED <<profileLimit, left, profile, limit, numRecords, matched>>
  BY DEF BeginProfile, LimitMet
<1>2. LimitInv' /\ FanOutInv'
  BY <1>1, OutstandingStays DEF LimitInv, LimitNeverVanishes, FanOutInv
<1>3. Enough(numRecords, ProfileCount)'
  BY <1>1 DEF Enough
<1>4. QED
  BY <1>1, <1>2, <1>3 DEF EnoughInv

LEMMA SetupFailsStep ==
    ASSUME IInv, SetupFails
    PROVE  LimitInv' /\ FanOutInv' /\ EnoughInv'
<1> USE DEF IInv
<1>1. /\ pc' = "raised" /\ profileLimit' = NextProfileLimit
      /\ UNCHANGED <<left, profile, limit, numRecords, matched>>
  BY DEF SetupFails
<1>2. limit \in Nat /\ numRecords \in Nat
  BY QueryAssumption DEF TypeOK
<1>3. LimitInv'
  BY <1>1, <1>2 DEF LimitInv, LimitNeverVanishes, NextProfileLimit
<1>4. FanOutInv'
  BY <1>1, OutstandingStays DEF FanOutInv
<1>5. QED
  BY <1>1, <1>3, <1>4 DEF EnoughInv

\* What a batch takes from the records under way it adds to those ingested.
LEMMA IngestStep ==
    ASSUME IInv, NEW q \in NativeQueries, NEW n \in 1..MaxMatched, Ingest(q, n)
    PROVE  LimitInv' /\ FanOutInv' /\ EnoughInv'
<1> USE QueryAssumption DEF IInv
<1>1. /\ pc = "run" /\ n \in 1..left[q] /\ left' = [left EXCEPT ![q] = @ - n]
      /\ numRecords' = numRecords + n
      /\ UNCHANGED <<pc, profile, limit, profileLimit, matched>>
  BY DEF Ingest
<1>2. left \in Counts /\ numRecords \in Nat /\ limit \in Nat
  BY DEF TypeOK, Counts
<1>3. left' \in Counts /\ n + Cardinality(Records(left')) = Cardinality(Records(left))
  BY <1>1, <1>2, BatchCounts
<1>4. PICK o \in Nat : o = Cardinality(Records(left'))
  BY <1>3, RecordsAreFinite
<1>5. Outstanding' = o /\ Outstanding = n + o
  BY <1>3, <1>4 DEF Outstanding, Records
<1>6. numRecords' + o = numRecords + (n + o)
  BY <1>1, <1>2
<1>7. LimitInv'
  BY <1>1, <1>2 DEF LimitInv, LimitNeverVanishes
<1>8. FanOutInv'
  BY <1>1, <1>5, <1>6 DEF FanOutInv
<1>9. Enough(numRecords + (n + o), profile)
  BY <1>1, <1>5 DEF EnoughInv
<1>10. Enough(numRecords' + o, profile')
  BY <1>1, <1>6, <1>9
<1>11. Enough(numRecords + Outstanding, profile)'
  BY <1>1, <1>5, <1>10 DEF Enough, MatchedBy, Records
<1>12. QED
  BY <1>1, <1>7, <1>8, <1>11 DEF EnoughInv

LEMMA ProfileDoneStep ==
    ASSUME IInv, ProfileDone
    PROVE  LimitInv' /\ FanOutInv' /\ EnoughInv'
<1> USE DEF IInv
<1>1. /\ pc = "run" /\ left = NothingLeft /\ profile' = profile + 1 /\ pc' = "loop"
      /\ UNCHANGED <<limit, profileLimit, numRecords, matched, left>>
  BY DEF ProfileDone
<1>2. LimitInv' /\ FanOutInv'
  BY <1>1, OutstandingStays DEF LimitInv, LimitNeverVanishes, FanOutInv
<1>3. Outstanding = 0
  BY <1>1, NoRecords DEF Outstanding
<1>4. numRecords + Outstanding = numRecords /\ profile' - 1 = profile
  BY <1>1, <1>3, QueryAssumption DEF TypeOK
<1>5. Enough(numRecords, profile)
  BY <1>1, <1>4 DEF EnoughInv
<1>6. Enough(numRecords, profile - 1)'
  BY <1>1, <1>4, <1>5 DEF Enough, MatchedBy, Records
<1>7. left' = NothingLeft'
  BY <1>1 DEF NothingLeft
<1>8. QED
  BY <1>1, <1>2, <1>6, <1>7 DEF EnoughInv

LEMMA FinishStep ==
    ASSUME IInv, Finish
    PROVE  LimitInv' /\ FanOutInv' /\ EnoughInv'
<1> USE DEF IInv
<1>1. /\ pc = "loop" /\ profile > ProfileCount /\ pc' = "returned"
      /\ UNCHANGED <<profile, limit, profileLimit, numRecords, matched, left>>
  BY DEF Finish
<1>2. LimitInv' /\ FanOutInv'
  BY <1>1, OutstandingStays DEF LimitInv, LimitNeverVanishes, FanOutInv
<1>3. profile - 1 = ProfileCount
  BY <1>1, QueryAssumption DEF TypeOK
<1>4. Enough(numRecords, ProfileCount)
  BY <1>1, <1>3 DEF EnoughInv
<1>5. Enough(numRecords, ProfileCount)'
  BY <1>1, <1>4 DEF Enough, MatchedBy, Records
<1>6. QED
  BY <1>1, <1>2, <1>5 DEF EnoughInv

LEMMA UnmovedStep ==
    ASSUME IInv, ProfileFails \/ UNCHANGED vars
    PROVE  LimitInv' /\ FanOutInv' /\ EnoughInv'
<1> USE DEF IInv
<1>1. /\ pc' = "raised" \/ pc' = pc
      /\ UNCHANGED <<profile, limit, profileLimit, numRecords, matched, left>>
  BY DEF ProfileFails, vars
<1>2. LimitInv' /\ FanOutInv'
  BY <1>1, OutstandingStays DEF LimitInv, LimitNeverVanishes, FanOutInv
<1>3. Outstanding' = Outstanding
  BY <1>1, OutstandingStays
<1>4. EnoughInv'
  <2>1. \A n, p : Enough(n, p)' = Enough(n, p)
    BY <1>1, EnoughStays
  <2>2. CASE pc' = "raised"
    BY <2>2 DEF EnoughInv
  <2>3. CASE pc' = pc
    BY <1>1, <1>3, <2>3 DEF EnoughInv, NothingLeft, Enough, MatchedBy, Records
  <2>4. QED
    BY <1>1, <2>2, <2>3
<1>5. QED
  BY <1>2, <1>4

LEMMA NextIInv == IInv /\ [Next]_vars => IInv'
<1> SUFFICES ASSUME IInv, [Next]_vars PROVE IInv'
  OBVIOUS
<1>1. TypeOK'
  BY NextTypeOK DEF IInv
<1>2. CASE BeginProfile
  BY <1>1, <1>2, BreakStep, BeginProfileStep DEF IInv
<1>3. CASE SetupFails
  BY <1>1, <1>3, SetupFailsStep DEF IInv
<1>4. CASE \E q \in NativeQueries, n \in 1..MaxMatched : Ingest(q, n)
  BY <1>1, <1>4, IngestStep DEF IInv
<1>5. CASE ProfileDone
  BY <1>1, <1>5, ProfileDoneStep DEF IInv
<1>6. CASE Finish
  BY <1>1, <1>6, FinishStep DEF IInv
<1>7. CASE ProfileFails \/ UNCHANGED vars
  BY <1>1, <1>7, UnmovedStep DEF IInv
<1>8. QED
  BY <1>2, <1>3, <1>4, <1>5, <1>6, <1>7 DEF Next

-------------------------------------------------------------------------------
\* Every state of the loop of query_datasource() satisfies the inductive
\* invariant.
THEOREM InductiveInvariant == Spec => []IInv
BY InitIInv, NextIInv, PTL DEF Spec

\* A profile of query_datasource() is never handed a limit of 0, which would
\* mean no limit, nor more than the limit of the GET.
THEOREM LimitsStayLimits == Spec => []LimitNeverVanishes
<1>1. IInv => LimitNeverVanishes
  BY DEF IInv, LimitInv
<1>2. QED
  BY <1>1, InductiveInvariant, PTL

\* The LIMIT may be exceeded, when a pattern translates to several native
\* queries, but by their number at most, however many profiles are queried.
THEOREM FanOutBoundsLimit == Spec => []WithinFanOut
<1>1. IInv => WithinFanOut
  <2> SUFFICES ASSUME IInv, limit > 0 PROVE numRecords <= MaxFanOut * limit
    BY DEF WithinFanOut
  <2>1. left \in Counts /\ numRecords \in Nat /\ limit \in Nat
    BY QueryAssumption DEF IInv, TypeOK, Counts
  <2>2. PICK o \in Nat : o = Outstanding
    BY <2>1, RecordsAreFinite DEF Outstanding
  <2>3. PICK b \in Nat : b = MaxFanOut * limit
    BY <2>1, QueryAssumption
  <2>4. numRecords + o <= b
    BY <2>2, <2>3 DEF IInv, FanOutInv
  <2>5. QED
    BY <2>1, <2>3, <2>4
<1>2. QED
  BY <1>1, InductiveInvariant, PTL

\* A query that returns has the records asked for, or all that match: neither
\* the break nor the shrinking limits of query_datasource() lose one.
THEOREM NoRecordLost == Spec => []EnoughReturned
<1>1. IInv => EnoughReturned
  <2> SUFFICES ASSUME IInv, pc = "returned"
               PROVE  numRecords >= Deliverable(TotalMatched, limit)
    BY DEF EnoughReturned
  <2>1. limit \in Nat /\ numRecords \in Nat /\ matched \in [Profiles -> Counts]
    BY QueryAssumption DEF IInv, TypeOK, Counts
  <2>2. ProfileCount \in Profiles /\ Profiles = 1..ProfileCount
    BY QueryAssumption DEF Profiles
  <2>3. TotalMatched \in Nat /\ TotalMatched = MatchedBy(1..ProfileCount)
    BY <2>1, <2>2, MatchedByNext, RecordsAreFinite DEF TotalMatched
  <2>4. Enough(numRecords, ProfileCount)
    BY DEF IInv, EnoughInv
  <2>5. Deliverable(TotalMatched, limit) =
          IF limit > 0 /\ limit < TotalMatched THEN limit ELSE TotalMatched
    BY <2>1, <2>3, DeliverableIsLess
  <2>6. QED
    BY <2>1, <2>3, <2>4, <2>5 DEF Enough
<1>2. QED
  BY <1>1, InductiveInvariant, PTL

===============================================================================
