-------------------------- MODULE RedisClientProofs --------------------------
(* Proofs about RedisClient, for any number of callers, readers and keys. *)
EXTENDS RedisClient, FiniteSetTheorems, TLAPS

-----------------------------------------------------------------------------
(* Types *)

Lives == Nat \cup {Forever}

\* The variables the properties depend on have their types.
LimiterOK ==
    /\ counter \in [Identifiers -> [count : Nat, ttl : Lives]]
    /\ caller \in [Callers -> [pc : {"idle", "open", "incr"}, id : Identifiers]]
    /\ admitted \in [Identifiers -> Nat]

CacheOK ==
    /\ entry \in [Keys -> [value : Versions \cup {Nothing}, ttl : Lives]]
    /\ reader \in [Readers -> [pc : {"idle", "fetch", "store"}, key : Keys,
                              value : Versions \cup {Nothing}, attempt : Nat]]
    /\ flush \in [busy : BOOLEAN, left : SUBSET Keys, seen : SUBSET Keys]
    /\ source \in [Keys -> Versions]
    /\ unwritten \in SUBSET Keys

\* Ageing keeps the type of a counter, and leaves the count of one that stays.
LEMMA AgedCounter ==
    ASSUME NEW x \in [count : Nat, ttl : Lives]
    PROVE  /\ Aged(x, NoCounter) \in [count : Nat, ttl : Lives]
           /\ \/ Aged(x, NoCounter) = NoCounter
              \/ /\ Aged(x, NoCounter).count = x.count
                 /\ Present(Aged(x, NoCounter)) <=> Present(x)
<1>1. CASE x.ttl = 1
  BY <1>1 DEF Aged, NoCounter, Lives
<1>2. CASE x.ttl \in {0, Forever}
  <2>1. Aged(x, NoCounter) = x
    BY <1>2, RedisConstants DEF Aged
  <2> QED  BY <2>1
<1>3. CASE x.ttl # 1 /\ x.ttl \notin {0, Forever}
  <2>1. Aged(x, NoCounter) = [x EXCEPT !.ttl = @ - 1]
    BY <1>3 DEF Aged
  <2>2. x.ttl \in Nat /\ x.ttl - 1 \in Nat
    BY <1>3 DEF Lives
  <2> QED  BY <2>1, <2>2, <1>3 DEF Lives, Present
<1> QED  BY <1>1, <1>2, <1>3

\* Ageing keeps the type of an entry, and never makes an absent one present.
LEMMA AgedEntry ==
    ASSUME NEW x \in [value : Versions \cup {Nothing}, ttl : Lives]
    PROVE  /\ Aged(x, NoEntry) \in [value : Versions \cup {Nothing}, ttl : Lives]
           /\ Present(Aged(x, NoEntry)) => Present(x)
<1>1. CASE x.ttl = 1
  BY <1>1 DEF Aged, NoEntry, Lives, Present
<1>2. CASE x.ttl \in {0, Forever}
  <2>1. Aged(x, NoEntry) = x
    BY <1>2, RedisConstants DEF Aged
  <2> QED  BY <2>1
<1>3. CASE x.ttl # 1 /\ x.ttl \notin {0, Forever}
  <2>1. Aged(x, NoEntry) = [x EXCEPT !.ttl = @ - 1]
    BY <1>3 DEF Aged
  <2>2. x.ttl \in Nat /\ x.ttl - 1 \in Nat
    BY <1>3 DEF Lives
  <2> QED  BY <2>1, <2>2, <1>3 DEF Lives, Present
<1> QED  BY <1>1, <1>2, <1>3

-----------------------------------------------------------------------------
(* The rate limiter *)

\* The requests that have read a count below the limit and will raise it.
Admitting(i) == {c \in Callers : caller[c].pc = "incr" /\ caller[c].id = i}

\* The callers that will not set the count of i back to one: all but those
\* that have found no key and are about to store one.
Opening(i) == {c \in Callers : caller[c].pc = "open" /\ caller[c].id = i}
Others(i) == Callers \ Opening(i)

\* Twice the most that k callers can have admitted, each in its turn setting
\* the count back to one when the others have brought it as far as they can.
Bound(k) == k * (2 * MaxRequests + k - 1)

\* What keeps the overshoot bounded.  The count is bounded by the callers
\* that do not set it back, as a request joins Admitting only while the count
\* is below the limit; and what was admitted before the count was last set
\* back is bounded by the rounds there have been, one for each caller that
\* has left Opening since the key was created.
CountInv(i) ==
    counter[i].count + Cardinality(Admitting(i))
      <= MaxRequests - 1 + Cardinality(Others(i))

KeyInv(i) ==
    IF Present(counter[i])
      THEN /\ Cardinality(Others(i)) >= 1
           /\ 2 * (admitted[i] - counter[i].count)
                <= Bound(Cardinality(Others(i)) - 1)
      ELSE counter[i].count = 0 /\ admitted[i] = 0

OvershootInv == \A i \in Identifiers : CountInv(i) /\ KeyInv(i)

LimiterInv == LimiterOK /\ OvershootInv

\* One round more, and rounds only add.
LEMMA BoundFacts ==
    ASSUME NEW k \in Nat
    PROVE  /\ Bound(k) \in Nat
           /\ Bound(k + 1) = Bound(k) + 2 * (MaxRequests + k)
<1>1. MaxRequests \in Nat /\ MaxRequests >= 1
  BY RedisConstants
<1>2. 2 * MaxRequests + k - 1 \in Nat
  BY <1>1
<1>3. \A x, y \in Nat : x * y \in Nat
  OBVIOUS
<1>4. Bound(k) \in Nat
  BY <1>2, <1>3 DEF Bound
<1>5. ASSUME NEW m \in Nat
      PROVE (k + 1) * (2 * m + (k + 1) - 1) = k * (2 * m + k - 1) + 2 * (m + k)
  OBVIOUS
<1> QED  BY <1>1, <1>4, <1>5 DEF Bound

\* Fewer callers admit less.
LEMMA BoundMonotone ==
    ASSUME NEW j \in Nat, NEW k \in Nat, j <= k
    PROVE  Bound(j) <= Bound(k)
<1>1. MaxRequests \in Nat /\ MaxRequests >= 1
  BY RedisConstants
<1>2. ASSUME NEW m \in Nat, m >= 1
      PROVE j * (2 * m + j - 1) <= k * (2 * m + k - 1)
  <2> DEFINE d == k - j
             x == 2 * m + j - 1
  <2>1. d \in Nat /\ k = j + d /\ x \in Nat
    BY <1>2
  <2>2. \A u, v \in Nat : u * v \in Nat
    OBVIOUS
  <2>3. j * d \in Nat /\ d * x \in Nat /\ d * d \in Nat /\ j * x \in Nat
    BY <2>1, <2>2
  <2>4. 2 * m + k - 1 = x + d
    BY <2>1
  <2> HIDE DEF d, x
  <2>5. (j + d) * (x + d) = j * x + j * d + d * x + d * d
    BY <2>1
  <2>6. j * x <= (j + d) * (x + d)
    BY <2>3, <2>5
  <2> QED  BY <2>1, <2>4, <2>6 DEF x
<1> QED  BY <1>1, <1>2 DEF Bound

\* The sets that are counted are finite, and those admitting are among those
\* that are not opening.
LEMMA CallerSets ==
    ASSUME NEW i
    PROVE  /\ IsFiniteSet(Admitting(i)) /\ Cardinality(Admitting(i)) \in Nat
           /\ IsFiniteSet(Others(i)) /\ Cardinality(Others(i)) \in Nat
           /\ Cardinality(Admitting(i)) <= Cardinality(Others(i))
           /\ Cardinality(Others(i)) <= Cardinality(Callers)
           /\ Cardinality(Callers) \in Nat
<1>1. Admitting(i) \subseteq Others(i) /\ Others(i) \subseteq Callers
  BY DEF Admitting, Others, Opening
<1> QED  BY <1>1, RedisConstants, FS_Subset, FS_CardinalityType

\* The same after a step.
LEMMA CallerSetsNext ==
    ASSUME NEW i
    PROVE  /\ IsFiniteSet(Admitting(i)') /\ Cardinality(Admitting(i)') \in Nat
           /\ IsFiniteSet(Others(i)') /\ Cardinality(Others(i)') \in Nat
           /\ Cardinality(Admitting(i)') <= Cardinality(Others(i)')
<1>1. Admitting(i)' \subseteq Others(i)' /\ Others(i)' \subseteq Callers
  BY DEF Admitting, Others, Opening
<1> QED  BY <1>1, RedisConstants, FS_Subset, FS_CardinalityType

\* What a step leaves alone of an identifier keeps its bounds.
LEMMA OtherIdentifier ==
    ASSUME NEW i \in Identifiers, CountInv(i), KeyInv(i),
           counter'[i] = counter[i], admitted'[i] = admitted[i],
           Admitting(i)' = Admitting(i), Others(i)' = Others(i)
    PROVE  CountInv(i)' /\ KeyInv(i)'
BY DEF CountInv, KeyInv

\* Initially nobody is in is_allowed.
LEMMA LimiterInit == Init => LimiterInv
<1> SUFFICES ASSUME Init PROVE LimiterInv
  OBVIOUS
<1>1. LimiterOK
  BY DEF Init, LimiterOK, NoCounter, Lives
<1>2. ASSUME NEW i \in Identifiers PROVE CountInv(i) /\ KeyInv(i)
  <2>1. counter[i].count = 0 /\ admitted[i] = 0 /\ ~Present(counter[i])
    BY DEF Init, NoCounter, Present
  <2> QED  BY <2>1, CallerSets, RedisConstants DEF CountInv, KeyInv
<1> QED  BY <1>1, <1>2 DEF LimiterInv, OvershootInv

\* A GET: a request that joins Admitting has read a count below the limit,
\* and one that joins Opening has found no key.
LEMMA CheckLimitStep ==
    ASSUME LimiterInv, NEW c \in Callers, NEW i \in Identifiers, CheckLimit(c, i)
    PROVE  LimiterInv'
<1> USE DEF LimiterInv, CheckLimit
<1>1. LimiterOK'
  BY DEF LimiterOK
<1>2. counter' = counter /\ admitted' = admitted /\ caller[c].pc = "idle"
  OBVIOUS
<1>3. ASSUME NEW j \in Identifiers PROVE CountInv(j)' /\ KeyInv(j)'
  <2>1. counter[j].count \in Nat /\ CountInv(j) /\ KeyInv(j)
    BY DEF LimiterOK, OvershootInv
  <2>2. CASE j # i
    <3>1. Admitting(j)' = Admitting(j) /\ Others(j)' = Others(j)
      BY <1>2, <2>2 DEF Admitting, Others, Opening, LimiterOK
    <3> QED  BY <1>2, <2>1, <3>1, OtherIdentifier
  <2>3. CASE j = i /\ Present(counter[i])
    <3>1. Others(j)' = Others(j)
      BY <1>2, <2>3 DEF Others, Opening, LimiterOK
    <3>2. counter[j].count <= MaxRequests - 1
      BY <2>1, <2>3, RedisConstants DEF AtLimit
    <3>3. CountInv(j)'
      BY <1>2, <2>1, <3>2, CallerSetsNext, RedisConstants DEF CountInv
    <3>4. KeyInv(j)'
      BY <1>2, <2>1, <2>3, <3>1 DEF KeyInv
    <3> QED  BY <3>3, <3>4
  <2>4. CASE j = i /\ ~Present(counter[i])
    <3>1. counter[j].count = 0 /\ admitted[j] = 0
      BY <2>1, <2>4 DEF KeyInv
    <3>2. CountInv(j)'
      BY <1>2, <3>1, CallerSetsNext, RedisConstants DEF CountInv
    <3> QED  BY <1>2, <2>4, <3>1, <3>2 DEF KeyInv
  <2> QED  BY <2>2, <2>3, <2>4
<1> QED  BY <1>1, <1>3 DEF OvershootInv

\* SETEX: the count restarts at one, and there is one caller less that can
\* set it back.
LEMMA OpenWindowStep ==
    ASSUME LimiterInv, NEW c \in Callers, OpenWindow(c)
    PROVE  LimiterInv'
<1> USE DEF LimiterInv, OpenWindow
<1> DEFINE i == caller[c].id
<1>0. i \in Identifiers /\ caller[c].pc = "open"
  BY DEF LimiterOK
<1>1. LimiterOK'
  BY RedisConstants DEF LimiterOK, Lives
<1>2. ASSUME NEW j \in Identifiers PROVE CountInv(j)' /\ KeyInv(j)'
  <2>1. counter[j].count \in Nat /\ admitted[j] \in Nat /\ CountInv(j) /\ KeyInv(j)
    BY DEF LimiterOK, OvershootInv
  <2>2. CASE j # i
    <3>1. /\ counter'[j] = counter[j] /\ admitted'[j] = admitted[j]
          /\ Admitting(j)' = Admitting(j) /\ Others(j)' = Others(j)
      BY <1>0, <2>2 DEF LimiterOK, Admitting, Others, Opening
    <3> QED  BY <2>1, <3>1, OtherIdentifier
  <2>3. CASE j = i
    <3> DEFINE k == Cardinality(Others(j))
    <3>1. /\ counter'[j].count = 1 /\ Present(counter'[j])
          /\ admitted'[j] = admitted[j] + 1
      BY <1>0, <2>3, RedisConstants DEF LimiterOK, Present
    <3>2. Others(j)' = Others(j) \cup {c} /\ c \notin Others(j)
      BY <1>0, <2>3 DEF LimiterOK, Others, Opening
    <3>3. Cardinality(Others(j)') = k + 1 /\ k \in Nat
      BY <3>2, CallerSets, FS_AddElement
    <3>4. Admitting(j)' = Admitting(j) /\ Cardinality(Admitting(j)) <= k
          /\ Cardinality(Admitting(j)) \in Nat
      BY <1>0, CallerSets DEF LimiterOK, Admitting
    <3>5. CountInv(j)'
      BY <3>1, <3>3, <3>4, RedisConstants DEF CountInv
    <3>6. 2 * admitted[j] <= Bound(k)
      <4>1. CASE Present(counter[j])
        <5>1. k >= 1 /\ 2 * (admitted[j] - counter[j].count) <= Bound(k - 1)
          BY <2>1, <4>1 DEF KeyInv
        <5>2. counter[j].count <= MaxRequests - 1 + k
          BY <2>1, <3>3, <3>4, RedisConstants DEF CountInv
        <5>3. k - 1 \in Nat
          BY <3>3, <5>1
        <5>4. /\ Bound(k - 1) \in Nat
              /\ Bound((k - 1) + 1) = Bound(k - 1) + 2 * (MaxRequests + (k - 1))
          BY <5>3, BoundFacts
        <5>5. (k - 1) + 1 = k
          BY <3>3
        <5> HIDE DEF k
        <5>6. Bound(k) = Bound(k - 1) + 2 * (MaxRequests + (k - 1))
          BY <5>4, <5>5
        <5> QED  BY <2>1, <3>3, <5>1, <5>2, <5>4, <5>6, RedisConstants
      <4>2. CASE ~Present(counter[j])
        <5>1. admitted[j] = 0
          BY <2>1, <4>2 DEF KeyInv
        <5> QED  BY <5>1, <3>3, BoundFacts
      <4> QED  BY <4>1, <4>2
    <3>7. KeyInv(j)'
      <4>1. Cardinality(Others(j)') - 1 = k /\ Cardinality(Others(j)') >= 1
        BY <3>3
      <4>2. 2 * (admitted'[j] - counter'[j].count) <= Bound(k)
        BY <2>1, <3>1, <3>6
      <4> QED  BY <3>1, <4>1, <4>2 DEF KeyInv, Bound
    <3> QED  BY <3>5, <3>7
  <2> QED  BY <2>2, <2>3
<1> QED  BY <1>1, <1>2 DEF OvershootInv

\* INCR: one more counted, one less admitting.
LEMMA AdmitStep ==
    ASSUME LimiterInv, NEW c \in Callers, Admit(c)
    PROVE  LimiterInv'
<1> USE DEF LimiterInv, Admit
<1> DEFINE i == caller[c].id
<1>0. i \in Identifiers /\ caller[c].pc = "incr"
  BY DEF LimiterOK
<1>1. LimiterOK'
  BY RedisConstants DEF LimiterOK, Lives
<1>2. ASSUME NEW j \in Identifiers PROVE CountInv(j)' /\ KeyInv(j)'
  <2>1. counter[j].count \in Nat /\ admitted[j] \in Nat /\ CountInv(j) /\ KeyInv(j)
    BY DEF LimiterOK, OvershootInv
  <2>2. Others(j)' = Others(j)
    BY <1>0 DEF LimiterOK, Others, Opening
  <2>3. CASE j # i
    <3>1. /\ counter'[j] = counter[j] /\ admitted'[j] = admitted[j]
          /\ Admitting(j)' = Admitting(j)
      BY <1>0, <2>3 DEF LimiterOK, Admitting
    <3> QED  BY <2>1, <2>2, <3>1, OtherIdentifier
  <2>4. CASE j = i
    <3> DEFINE k == Cardinality(Others(j))
    <3>1. /\ counter'[j].count = counter[j].count + 1
          /\ Present(counter'[j])
          /\ admitted'[j] = admitted[j] + 1
      BY <1>0, <2>4, RedisConstants DEF LimiterOK, Present
    <3>2. Admitting(j)' = Admitting(j) \ {c} /\ c \in Admitting(j)
      BY <1>0, <2>4 DEF LimiterOK, Admitting
    <3>3. Cardinality(Admitting(j)') = Cardinality(Admitting(j)) - 1
          /\ Cardinality(Admitting(j)') \in Nat
      BY <3>2, CallerSets, CallerSetsNext, FS_RemoveElement
    <3>4. k \in Nat /\ k >= 1
      BY <3>3, CallerSets
    <3>5. CountInv(j)'
      BY <2>1, <2>2, <3>1, <3>3, CallerSets, RedisConstants DEF CountInv
    <3>6. 2 * (admitted[j] - counter[j].count) <= Bound(k - 1)
      <4>1. CASE Present(counter[j])
        BY <2>1, <4>1 DEF KeyInv
      <4>2. CASE ~Present(counter[j])
        BY <2>1, <4>2, <3>4, BoundFacts DEF KeyInv
      <4> QED  BY <4>1, <4>2
    <3>7. admitted'[j] - counter'[j].count = admitted[j] - counter[j].count
      BY <2>1, <3>1
    <3>8. KeyInv(j)'
      BY <2>2, <3>1, <3>4, <3>6, <3>7 DEF KeyInv, Bound
    <3> QED  BY <3>5, <3>8
  <2> QED  BY <2>3, <2>4
<1> QED  BY <1>1, <1>2 DEF OvershootInv

\* Expiry takes the count with the key, or leaves both alone.
LEMMA TickLimiter ==
    ASSUME LimiterInv, Tick
    PROVE  LimiterInv'
<1>1. \A i \in Identifiers :
        /\ counter[i] \in [count : Nat, ttl : Lives]
        /\ counter'[i] = Aged(counter[i], NoCounter)
        /\ admitted'[i] = IF Present(counter'[i]) THEN admitted[i] ELSE 0
  BY DEF LimiterInv, LimiterOK, Tick
<1>2. LimiterOK'
  <2>1. counter' \in [Identifiers -> [count : Nat, ttl : Lives]]
    BY <1>1, AgedCounter DEF Tick
  <2>2. admitted' \in [Identifiers -> Nat]
    BY DEF Tick, LimiterInv, LimiterOK
  <2> QED  BY <2>1, <2>2 DEF LimiterInv, LimiterOK, Tick
<1>3. ASSUME NEW j \in Identifiers PROVE CountInv(j)' /\ KeyInv(j)'
  <2>1. CountInv(j) /\ KeyInv(j) /\ counter[j].count \in Nat
    BY <1>1 DEF LimiterInv, OvershootInv
  <2>2. Admitting(j)' = Admitting(j) /\ Others(j)' = Others(j)
    BY DEF Tick, Admitting, Others, Opening
  <2>3. CASE counter'[j] = NoCounter
    <3>1. counter'[j].count = 0 /\ ~Present(counter'[j]) /\ admitted'[j] = 0
      BY <1>1, <2>3 DEF NoCounter, Present
    <3>2. CountInv(j)'
      BY <2>1, <2>2, <3>1, CallerSets, RedisConstants DEF CountInv
    <3> QED  BY <3>1, <3>2 DEF KeyInv
  <2>4. CASE /\ counter'[j].count = counter[j].count
             /\ Present(counter'[j]) <=> Present(counter[j])
    <3>1. CountInv(j)'
      BY <2>1, <2>2, <2>4 DEF CountInv
    <3>2. KeyInv(j)'
      BY <1>1, <2>1, <2>2, <2>4 DEF KeyInv
    <3> QED  BY <3>1, <3>2
  <2> QED  BY <1>1, <2>3, <2>4, AgedCounter
<1> QED  BY <1>2, <1>3 DEF LimiterInv, OvershootInv

\* Every step keeps the limiter's invariant.
LEMMA LimiterNext == LimiterInv /\ [Next]_vars => LimiterInv'
<1> SUFFICES ASSUME LimiterInv, [Next]_vars PROVE LimiterInv'
  OBVIOUS
<1>1. CASE Tick
  BY <1>1, TickLimiter
<1>2. ASSUME NEW c \in Callers, Request(c) \/ Answer(c) PROVE LimiterInv'
  BY <1>2, CheckLimitStep, OpenWindowStep, AdmitStep DEF Request, Answer
<1>3. CASE UNCHANGED limiter
  BY <1>3 DEF limiter, LimiterInv, LimiterOK, OvershootInv, CountInv, KeyInv,
              Admitting, Others, Opening
<1>4. ASSUME NEW r \in Readers, Read(r) \/ Fill(r) PROVE LimiterInv'
  BY <1>3, <1>4 DEF Read, Fill, Miss, Fetched, FetchFails, Store
<1>5. ASSUME NEW k \in Keys, Set(k) \/ Delete(k) \/ SourceMoves(k)
      PROVE LimiterInv'
  BY <1>3, <1>5 DEF Set, Delete, SourceMoves
<1>6. CASE Flush
  BY <1>3, <1>6 DEF Flush, FlushStart, FlushVisit, FlushDelete
<1>7. CASE UNCHANGED vars
  BY <1>3, <1>7 DEF vars
<1> QED  BY <1>1, <1>2, <1>4, <1>5, <1>6, <1>7 DEF Next

\* However many tasks ask at once, whatever expires between their commands and
\* however often one of them sets the count back to one, the number of
\* requests let in while a key exists is bounded by the limit and the number
\* of tasks.
THEOREM BoundedOvershoot == Spec => []OvershootIsBounded
<1>1. LimiterInv => OvershootIsBounded
  <2> DEFINE n == Cardinality(Callers)
  <2> SUFFICES ASSUME LimiterInv, NEW i \in Identifiers
               PROVE 2 * admitted[i] <= Bound(n)
    BY DEF OvershootIsBounded, Bound
  <2> DEFINE k == Cardinality(Others(i))
  <2>1. CountInv(i) /\ KeyInv(i) /\ counter[i].count \in Nat /\ admitted[i] \in Nat
    BY DEF LimiterInv, OvershootInv, LimiterOK
  <2>2. k \in Nat /\ n \in Nat /\ k <= n
    BY CallerSets
  <2>3. 2 * admitted[i] <= Bound(k)
    <3>1. CASE Present(counter[i])
      <4>1. k >= 1 /\ 2 * (admitted[i] - counter[i].count) <= Bound(k - 1)
        BY <2>1, <3>1 DEF KeyInv
      <4>2. counter[i].count <= MaxRequests - 1 + k
        BY <2>1, <2>2, CallerSets, RedisConstants DEF CountInv
      <4>3. /\ Bound(k - 1) \in Nat
            /\ Bound((k - 1) + 1) = Bound(k - 1) + 2 * (MaxRequests + (k - 1))
        BY <2>2, <4>1, BoundFacts
      <4> HIDE DEF k
      <4>4. Bound(k) = Bound(k - 1) + 2 * (MaxRequests + (k - 1))
        <5>1. (k - 1) + 1 = k
          BY <2>2
        <5> QED  BY <4>3, <5>1
      <4> QED  BY <2>1, <2>2, <4>1, <4>2, <4>3, <4>4, RedisConstants
    <3>2. CASE ~Present(counter[i])
      <4>1. admitted[i] = 0
        BY <2>1, <3>2 DEF KeyInv
      <4> QED  BY <4>1, <2>2, BoundFacts
    <3> QED  BY <3>1, <3>2
  <2>4. Bound(k) <= Bound(n)
    BY <2>2, BoundMonotone
  <2>5. Bound(k) \in Nat /\ Bound(n) \in Nat
    BY <2>2, BoundFacts
  <2> QED  BY <2>1, <2>3, <2>4, <2>5
<1> QED  BY <1>1, LimiterInit, LimiterNext, PTL DEF Spec

-----------------------------------------------------------------------------
(* Flushing the cache *)

\* What a flush still owes: a key that holds a value from before it began is
\* yet to be visited, or was seen and will be deleted.
FlushInv ==
    flush.busy =>
      \A k \in unwritten : Present(entry[k]) => k \in flush.left \cup flush.seen

CacheInv == CacheOK /\ FlushInv

Entry == [value : Versions \cup {Nothing}, ttl : Lives]

\* Initially nothing is stored and nothing is flushed.
LEMMA CacheInit == Init => CacheInv
BY RedisConstants
   DEF Init, CacheInv, CacheOK, FlushInv, NoEntry, NotFlushing, Resting, Lives, Versions

\* Expiry makes no key present.
LEMMA TickCache ==
    ASSUME CacheInv, Tick
    PROVE  CacheInv'
<1>1. \A k \in Keys : /\ entry'[k] = Aged(entry[k], NoEntry)
                       /\ entry[k] \in Entry
  BY DEF CacheInv, CacheOK, Tick, Entry
<1>2. ASSUME NEW k \in Keys
      PROVE  /\ Aged(entry[k], NoEntry) \in Entry
             /\ Present(entry'[k]) => Present(entry[k])
  BY <1>1, AgedEntry DEF Entry
<1>3. entry' \in [Keys -> Entry]
  <2>1. entry' = [k \in Keys |-> Aged(entry[k], NoEntry)]
    BY DEF Tick
  <2> QED  BY <1>2, <2>1
<1>4. UNCHANGED <<reader, flush, source, unwritten>> /\ unwritten \subseteq Keys
  BY DEF Tick, CacheInv, CacheOK
<1>5. CacheOK'
  BY <1>3, <1>4 DEF CacheInv, CacheOK, Entry
<1>6. FlushInv'
  <2>1. \A k \in unwritten : Present(entry'[k]) => Present(entry[k])
    BY <1>2, <1>4, Zenon
  <2>2. FlushInv
    BY DEF CacheInv
  <2> QED  BY <1>4, <2>1, <2>2, Zenon DEF FlushInv
<1> QED  BY <1>5, <1>6 DEF CacheInv

\* What is stored during a flush is not owed any more.
LEMMA StoredCache ==
    ASSUME CacheInv, NEW k \in Keys, NEW v \in Versions \cup {Nothing},
           Stored(k, v), flush' = flush
    PROVE  /\ entry' \in [Keys -> Entry]
           /\ unwritten' \in SUBSET Keys
           /\ FlushInv'
<1>1. [value |-> v, ttl |-> Ttl] \in Entry
  BY RedisConstants DEF Entry, Lives
<1>2. entry' \in [Keys -> Entry] /\ unwritten' \in SUBSET Keys
  BY <1>1 DEF CacheInv, CacheOK, Stored, Entry
<1>3. \A j \in unwritten' : j \in unwritten /\ entry'[j] = entry[j]
  BY DEF CacheInv, CacheOK, Stored
<1> QED  BY <1>2, <1>3 DEF CacheInv, FlushInv

\* The steps of get_or_set.
LEMMA ReaderCache ==
    ASSUME CacheInv, NEW r \in Readers, Read(r) \/ Fill(r)
    PROVE  CacheInv'
<1> USE DEF CacheInv
<1> DEFINE Reading == [pc : {"idle", "fetch", "store"}, key : Keys,
                       value : Versions \cup {Nothing}, attempt : Nat]
<1>1. reader \in [Readers -> Reading] /\ source \in [Keys -> Versions]
  BY DEF CacheOK
<1>2. reader[r].key \in Keys /\ reader[r].value \in Versions \cup {Nothing}
      /\ reader[r].attempt \in Nat
  BY <1>1
<1>3. ASSUME UNCHANGED <<entry, flush, source, unwritten>>,
             reader' \in [Readers -> Reading]
      PROVE  CacheInv'
  BY <1>3 DEF CacheOK, FlushInv
<1>4. ASSUME NEW k \in Keys, Miss(r, k) PROVE CacheInv'
  <2>1. [pc |-> "fetch", key |-> k, value |-> Nothing, attempt |-> 1] \in Reading
    OBVIOUS
  <2>2. reader' \in [Readers -> Reading]
    BY <1>1, <1>4, <2>1 DEF Miss
  <2> QED  BY <1>3, <1>4, <2>2 DEF Miss
<1>5. CASE Fetched(r)
  <2>1. PICK v \in {source[reader[r].key], Nothing} :
          reader' = [reader EXCEPT ![r].pc = "store", ![r].value = v]
    BY <1>5 DEF Fetched
  <2>2. v \in Versions \cup {Nothing}
    BY <1>1, <1>2
  <2>3. reader' \in [Readers -> Reading]
    BY <1>1, <2>1, <2>2
  <2> QED  BY <1>3, <1>5, <2>3 DEF Fetched
<1>6. CASE FetchFails(r)
  <2>1. [reader[r] EXCEPT !.attempt = @ + 1] \in Reading
    BY <1>1
  <2>2. Resting(reader[r].key) \in Reading
    BY <1>2 DEF Resting
  <2>3. reader' \in [Readers -> Reading]
    BY <1>1, <1>6, <2>1, <2>2 DEF FetchFails
  <2> QED  BY <1>3, <1>6, <2>3 DEF FetchFails
<1>7. CASE Store(r)
  <2>1. Stored(reader[r].key, reader[r].value)
        /\ UNCHANGED <<flush, source>>
    BY <1>7 DEF Store
  <2>2. entry' \in [Keys -> Entry] /\ unwritten' \in SUBSET Keys /\ FlushInv'
    BY <1>2, <2>1, StoredCache
  <2>3. Resting(reader[r].key) \in Reading
    BY <1>2 DEF Resting
  <2>4. reader' \in [Readers -> Reading]
    BY <1>1, <1>7, <2>3 DEF Store
  <2> QED  BY <2>1, <2>2, <2>4 DEF CacheOK, Entry
<1> QED  BY <1>4, <1>5, <1>6, <1>7 DEF Read, Fill

\* set, delete, and a source that moves.
LEMMA KeyCache ==
    ASSUME CacheInv, NEW k \in Keys, Set(k) \/ Delete(k) \/ SourceMoves(k)
    PROVE  CacheInv'
<1> USE DEF CacheInv
<1>1. CASE Set(k)
  <2>1. source[k] \in Versions
    BY DEF CacheOK
  <2>2. Stored(k, source[k]) /\ UNCHANGED <<reader, flush, source>>
    BY <1>1 DEF Set
  <2>3. entry' \in [Keys -> Entry] /\ unwritten' \in SUBSET Keys /\ FlushInv'
    BY <2>1, <2>2, StoredCache
  <2> QED  BY <2>2, <2>3 DEF CacheOK, Entry
<1>2. CASE Delete(k)
  <2>1. NoEntry \in Entry /\ ~Present(NoEntry)
    BY DEF NoEntry, Entry, Lives, Present
  <2>2. entry' \in [Keys -> Entry]
    BY <1>2, <2>1 DEF Delete, CacheOK, Entry
  <2>3. \A j \in Keys : Present(entry'[j]) => Present(entry[j])
    BY <1>2, <2>1 DEF Delete, CacheOK
  <2> QED  BY <1>2, <2>2, <2>3 DEF Delete, CacheOK, FlushInv, Entry
<1>3. CASE SourceMoves(k)
  <2>1. source[k] \in Versions /\ source[k] + 1 \in Versions
    BY <1>3, RedisConstants DEF SourceMoves, CacheOK, Versions
  <2>2. source' \in [Keys -> Versions]
    BY <1>3, <2>1 DEF SourceMoves, CacheOK
  <2> QED  BY <1>3, <2>2 DEF SourceMoves, CacheOK, FlushInv
<1> QED  BY <1>1, <1>2, <1>3

\* flush_namespace: a visited key that is present is seen.
LEMMA FlushCache ==
    ASSUME CacheInv, Flush
    PROVE  CacheInv'
<1> USE DEF CacheInv
<1> DEFINE Flushing == [busy : BOOLEAN, left : SUBSET Keys, seen : SUBSET Keys]
<1>1. CASE FlushStart
  BY <1>1 DEF FlushStart, CacheOK, FlushInv
<1>2. ASSUME NEW k \in Keys, FlushVisit(k) PROVE CacheInv'
  <2> DEFINE new == {j \in {k} : Present(entry[j])}
  <2>1. flush \in Flushing
    BY DEF CacheOK
  <2>2. /\ flush'.busy = flush.busy
        /\ flush'.left = flush.left \ {k}
        /\ flush'.seen = flush.seen \cup new
        /\ flush' \in Flushing
    BY <1>2, <2>1 DEF FlushVisit
  <2>3. \A j \in flush.left \cup flush.seen :
          Present(entry[j]) => j \in flush'.left \cup flush'.seen
    BY <2>2
  <2>4. UNCHANGED <<entry, reader, source, unwritten>>
    BY <1>2 DEF FlushVisit
  <2>5. CacheOK'
    BY <2>2, <2>4 DEF CacheOK
  <2>6. FlushInv'
    BY <2>2, <2>3, <2>4 DEF FlushInv
  <2> QED  BY <2>5, <2>6
<1>3. CASE FlushDelete
  <2>1. NoEntry \in Entry
    BY DEF NoEntry, Entry, Lives
  <2>2. entry' \in [Keys -> Entry]
    BY <1>3, <2>1 DEF FlushDelete, CacheOK, Entry
  <2>3. NotFlushing \in Flushing /\ ~NotFlushing.busy
    BY DEF NotFlushing
  <2> QED  BY <1>3, <2>2, <2>3 DEF FlushDelete, CacheOK, FlushInv, Entry
<1> QED  BY <1>1, <1>2, <1>3 DEF Flush

\* Every step keeps the cache's invariant.
LEMMA CacheNext == CacheInv /\ [Next]_vars => CacheInv'
<1> SUFFICES ASSUME CacheInv, [Next]_vars PROVE CacheInv'
  OBVIOUS
<1>1. CASE Tick
  BY <1>1, TickCache
<1>2. CASE UNCHANGED cache
  BY <1>2 DEF cache, CacheInv, CacheOK, FlushInv
<1>3. ASSUME NEW c \in Callers, Request(c) \/ Answer(c) PROVE CacheInv'
  BY <1>2, <1>3 DEF Request, Answer, CheckLimit, OpenWindow, Admit
<1>4. ASSUME NEW r \in Readers, Read(r) \/ Fill(r) PROVE CacheInv'
  BY <1>4, ReaderCache
<1>5. ASSUME NEW k \in Keys, Set(k) \/ Delete(k) \/ SourceMoves(k)
      PROVE CacheInv'
  BY <1>5, KeyCache
<1>6. CASE Flush
  BY <1>6, FlushCache
<1>7. CASE UNCHANGED vars
  BY <1>2, <1>7 DEF vars
<1> QED  BY <1>1, <1>3, <1>4, <1>5, <1>6, <1>7 DEF Next

\* However readers, writers and expiry interleave with the scan, a flush
\* removes every value that was stored before it was called.
THEOREM FlushIsComplete == Spec => FlushEmpties
<1>1. CacheInv => [FlushDelete => \A k \in unwritten : ~Present(entry'[k])]_vars
  <2> SUFFICES ASSUME CacheInv, FlushDelete, NEW k \in unwritten
               PROVE ~Present(entry'[k])
    OBVIOUS
  <2>1. k \in Keys /\ entry'[k] = IF k \in flush.seen THEN NoEntry ELSE entry[k]
    BY DEF CacheInv, CacheOK, FlushDelete
  <2>2. CASE k \in flush.seen
    BY <2>1, <2>2 DEF NoEntry, Present
  <2>3. CASE k \notin flush.seen
    BY <2>1, <2>3 DEF CacheInv, FlushInv, FlushDelete
  <2> QED  BY <2>2, <2>3
<1> QED  BY <1>1, CacheInit, CacheNext, PTL DEF Spec, FlushEmpties
=============================================================================
