------------------------- MODULE RateLimiter_proofs -------------------------
(* Proofs about RateLimiter, for every set of requests, limit, TTL and     *)
(* length of the window.                                                   *)
EXTENDS RateLimiter, FiniteSetTheorems, TLAPS

-----------------------------------------------------------------------------
(* Arithmetic of windows. *)
LEMMA WindowFacts ==
  /\ Window \in Nat /\ Window > 0 /\ TTL \in Nat /\ TTL > 0 /\ Limit \in Nat /\ Limit > 0
  /\ Window < TTL /\ MaxTime \in Nat
  BY LimiterAssumption

(* A tick lies in the window of its bucket, as far into it as % says.      *)
LEMMA BucketOf ==
  ASSUME NEW t \in Nat
  PROVE  /\ Bucket(t) \in Nat
         /\ t % Window \in 0..(Window - 1)
         /\ t = Bucket(t) * Window + (t % Window)
  BY WindowFacts DEF Bucket

(* The first tick of a window is in its bucket.                            *)
LEMMA BucketOfStart ==
  ASSUME NEW n \in Nat
  PROVE  Bucket(n * Window) = n
  BY WindowFacts DEF Bucket

LEMMA Distributes ==
  ASSUME NEW a \in Nat, NEW d \in Nat, NEW w \in Nat
  PROVE  (a + d) * w = a * w + d * w /\ a * w \in Nat /\ d * w \in Nat
  OBVIOUS

LEMMA Monotonic ==
  ASSUME NEW a \in Nat, NEW b \in Nat, NEW w \in Nat, a <= b
  PROVE  a * w <= b * w
  <1>1. PICK d \in Nat : b = a + d
    <2>1. b - a \in Nat /\ b = a + (b - a)
      OBVIOUS
    <2> QED
      BY <2>1
  <1>2. b * w = a * w + d * w /\ a * w \in Nat /\ d * w \in Nat
    BY <1>1, Distributes
  <1> QED
    BY <1>2

LEMMA Below ==
  ASSUME NEW b \in Nat, NEW q \in Nat, NEW m \in Nat, NEW w \in Nat, m < w, b * w <= q * w + m
  PROVE  b <= q
  <1> SUFFICES ASSUME q < b PROVE FALSE
    OBVIOUS
  <1>1. PICK n \in Nat : n = q + 1
    OBVIOUS
  <1>2. n * w = q * w + w
    BY <1>1, Distributes
  <1>3. n * w <= b * w
    BY <1>1, Monotonic
  <1>4. n * w \in Nat /\ q * w \in Nat /\ b * w \in Nat
    BY Distributes
  <1> HIDE <1>1
  <1> QED
    BY <1>2, <1>3, <1>4

(* A bucket that began is not a later one.                                 *)
LEMMA BucketBegan ==
  ASSUME NEW b \in Nat, NEW t \in Nat, b * Window <= t
  PROVE  b <= Bucket(t)
  <1>1. /\ Bucket(t) \in Nat
        /\ t % Window \in Nat
        /\ t % Window < Window
        /\ t = Bucket(t) * Window + (t % Window)
    BY BucketOf, WindowFacts
  <1>2. PICK m : m = t % Window
    OBVIOUS
  <1>3. m \in Nat /\ m < Window /\ b * Window <= Bucket(t) * Window + m
    BY <1>1, <1>2
  <1> QED
    BY <1>1, <1>3, Below, WindowFacts

LEMMA BucketType ==
  ASSUME NEW b \in Buckets
  PROVE  b \in Nat /\ b * Window \in Nat
  <1>1. b \in Nat
    BY BucketOf, WindowFacts DEF Buckets, Time
  <1> QED
    BY <1>1, WindowFacts, Distributes

LEMMA BucketStarts ==
  ASSUME NEW t \in Nat
  PROVE  Bucket(t) \in Nat /\ Bucket(t) * Window <= t
  <1>1. Bucket(t) \in Nat /\ Bucket(t) * Window \in Nat
    BY BucketOf, WindowFacts, Distributes
  <1> QED
    BY <1>1, BucketOf, WindowFacts

(* Whoever waits for what is left of the minute arrives in the next one.   *)
LEMMA RetryIsNext ==
  ASSUME NEW t \in Nat
  PROVE  RetryAfter(t) \in 1..Window /\ Bucket(t + RetryAfter(t)) = Bucket(t) + 1
  <1>1. RetryAfter(t) \in 1..Window
    BY BucketOf, WindowFacts DEF RetryAfter
  <1>2. PICK n \in Nat : n = Bucket(t) + 1
    BY BucketOf
  <1>3. n * Window = Bucket(t) * Window + Window
    BY <1>2, BucketOf, WindowFacts, Distributes
  <1>4. t + RetryAfter(t) = n * Window
    <2>1. PICK m : m = t % Window
      OBVIOUS
    <2>2. m \in Nat /\ t = Bucket(t) * Window + m /\ RetryAfter(t) = Window - m
      BY <2>1, BucketOf, WindowFacts DEF RetryAfter
    <2>3. Bucket(t) * Window \in Nat
      BY BucketOf, WindowFacts, Distributes
    <2> QED
      BY <1>3, <2>2, <2>3, WindowFacts
  <1> QED
    BY <1>1, <1>2, <1>4, BucketOfStart

-----------------------------------------------------------------------------
(* Type correctness. *)
LEMMA TypeInit == Init => TypeOK
  <1>1. 0 \in Time /\ 0 \in 0..Window /\ Bucket(0) = 0
    <2>1. 0 * Window = 0
      BY WindowFacts
    <2> QED
      BY <2>1, WindowFacts, BucketOfStart DEF Time
  <1>2. 0 \in Buckets
    BY <1>1 DEF Buckets
  <1> QED
    BY <1>1, <1>2 DEF Init, TypeOK, Stages

LEMMA TypeIncrement ==
  ASSUME TypeOK, NEW r \in Requests, Increment(r)
  PROVE  /\ counter' \in [Buckets -> Nat] /\ expiry' \in [Buckets -> Nat]
         /\ count' \in [Requests -> Nat] /\ counted' \in [Requests -> Time \cup {Never}]
  BY WindowFacts DEF Increment, Expiry, TypeOK, Time

LEMMA TypeStep == TypeOK /\ [Next]_vars => TypeOK'
  <1> SUFFICES ASSUME TypeOK, [Next]_vars PROVE TypeOK'
    OBVIOUS
  <1>1. CASE Tick
    BY <1>1, WindowFacts DEF Tick, TypeOK, Time, request
  <1>2. ASSUME NEW r \in Requests, Receive(r) PROVE TypeOK'
    BY <1>2 DEF Receive, Goto, TypeOK, redis, Buckets, Stages
  <1>3. ASSUME NEW r \in Requests, Count(r) PROVE TypeOK'
    <2>1. pc' \in [Requests -> Stages]
      BY <1>3 DEF Count, Goto, TypeOK, Stages
    <2> QED
      BY <1>3, <2>1, TypeIncrement DEF Count, TypeOK
  <1>4. ASSUME NEW r \in Requests, CacheFails(r) PROVE TypeOK'
    <2>1. pc' \in [Requests -> Stages] /\ answered' \in [Requests -> Time]
      BY <1>4 DEF CacheFails, Goto, TypeOK, Stages
    <2> QED
      BY <1>4, <2>1, TypeIncrement DEF CacheFails, TypeOK, redis
  <1>5. ASSUME NEW r \in Requests, Compare(r) PROVE TypeOK'
    <2>1. RetryAfter(now) \in 0..Window
      BY RetryIsNext, WindowFacts DEF TypeOK, Time
    <2> QED
      BY <1>5, <2>1 DEF Compare, Goto, TypeOK, redis, Stages
  <1>6. CASE UNCHANGED vars
    BY <1>6 DEF vars, redis, request, TypeOK
  <1> QED
    BY <1>1, <1>2, <1>3, <1>4, <1>5, <1>6 DEF Next, Handle

-----------------------------------------------------------------------------
(* Counting requests. *)
LEMMA FiniteCounts ==
  /\ \A b : IsFiniteSet(CountedIn(b)) /\ Cardinality(CountedIn(b)) \in Nat
  /\ \A r : IsFiniteSet(NoLater(r)) /\ Cardinality(NoLater(r)) \in Nat
  <1>1. \A S \in SUBSET Requests : IsFiniteSet(S) /\ Cardinality(S) \in Nat
    BY RequestsAssumption, FS_Subset, FS_CardinalityType
  <1>2. \A b : CountedIn(b) \in SUBSET Requests
    BY DEF CountedIn
  <1>3. \A r : NoLater(r) \in SUBSET Requests
    BY DEF NoLater
  <1> QED
    BY <1>1, <1>2, <1>3

(* Time and counts are numbers, and no request is counted at Never.        *)
LEMMA TimeFacts ==
  ASSUME TypeOK
  PROVE  /\ now \in Nat /\ now <= MaxTime
         /\ \A r \in Requests : /\ counted[r] \in Nat /\ answered[r] \in Nat /\ count[r] \in Nat
                                /\ bucket[r] \in Buckets
                                /\ bucket[r] \in Nat /\ bucket[r] * Window \in Nat
                                /\ IsCounted(r) => counted[r] <= MaxTime
                                /\ ~IsCounted(r) => counted[r] = Never
         /\ \A b \in Buckets : counter[b] \in Nat /\ expiry[b] \in Nat
  BY WindowFacts, BucketType DEF TypeOK, Time, Never, IsCounted

(* Whoever was counted keeps bucket, count and time.                       *)
Settled(r) == bucket'[r] = bucket[r] /\ count'[r] = count[r] /\ counted'[r] = counted[r]

(* The requests counted no later than q only become more.                  *)
LEMMA NoLaterGrows ==
  ASSUME TypeOK, TypeOK', NEW q \in Requests, IsCounted(q),
         \A p \in Requests : IsCounted(p) => Settled(p)
  PROVE  Cardinality(NoLater(q)) <= Cardinality(NoLater(q)')
  <1>1. NoLater(q) \subseteq NoLater(q)'
    <2>1. ASSUME NEW p \in NoLater(q) PROVE p \in NoLater(q)'
      <3>1. IsCounted(p)
        BY <2>1, TimeFacts, WindowFacts DEF NoLater, Never
      <3> QED
        BY <2>1, <3>1 DEF NoLater, Settled
    <2> QED
      BY <2>1
  <1>2. NoLater(q)' \in SUBSET Requests
    BY DEF NoLater
  <1> QED
    BY <1>1, <1>2, RequestsAssumption, FS_Subset

-----------------------------------------------------------------------------
(* What a step leaves alone. *)
LEMMA OthersFrame ==
  ASSUME TypeOK, NEW r \in Requests, Handle(r), NEW q \in Requests, q # r
  PROVE  /\ pc'[q] = pc[q] /\ retry'[q] = retry[q] /\ answered'[q] = answered[q] /\ Settled(q)
         /\ now' = now
  BY DEF Handle, Receive, Count, CacheFails, Compare, Increment, Goto, TypeOK, Settled, redis

LEMMA OwnFrame ==
  ASSUME TypeOK, NEW r \in Requests, Handle(r), RequestInv(r), IsCounted(r)
  PROVE  Settled(r)
  BY DEF Handle, Receive, Count, CacheFails, Compare, Increment, Goto, TypeOK, Settled, RequestInv

LEMMA RequestInvOthers ==
  ASSUME TypeOK, TypeOK', NEW r \in Requests, Handle(r), \A p \in Requests : RequestInv(p),
         NEW q \in Requests, q # r
  PROVE  RequestInv(q)'
  <1>1. \A p \in Requests : IsCounted(p) => Settled(p)
    BY OthersFrame, OwnFrame
  <1>2. IsCounted(q) => Cardinality(NoLater(q)) <= Cardinality(NoLater(q)')
    BY <1>1, NoLaterGrows
  <1>3. Cardinality(NoLater(q)) \in Nat /\ Cardinality(NoLater(q)') \in Nat
    <2>1. NoLater(q)' \in SUBSET Requests
      BY DEF NoLater
    <2> QED
      BY <2>1, FiniteCounts, RequestsAssumption, FS_Subset, FS_CardinalityType
  <1>4. IsCounted(q) => count[q] \in 1..Cardinality(NoLater(q)')
    BY <1>2, <1>3 DEF RequestInv
  <1> QED
    BY <1>4, OthersFrame DEF RequestInv, Settled, IsCounted

-----------------------------------------------------------------------------
(* The steps that count nothing. *)
LEMMA Uncounted ==
  ASSUME TypeOK, \A p \in Requests : Settled(p) \/ (~IsCounted(p) /\ ~IsCounted(p)')
  PROVE  \A b : CountedIn(b)' = CountedIn(b)
  <1>1. \A p \in Requests : IsCounted(p)' <=> IsCounted(p)
    BY DEF Settled, IsCounted
  <1> QED
    BY <1>1 DEF CountedIn, Settled

LEMMA UncountedInv ==
  ASSUME TypeOK, DistinctCounts, \A b \in Buckets : CounterInv(b),
         now' = now, counter' = counter, expiry' = expiry,
         \A p \in Requests : Settled(p) \/ (~IsCounted(p) /\ ~IsCounted(p)')
  PROVE  DistinctCounts' /\ \A b \in Buckets : CounterInv(b)'
  <1>1. \A p \in Requests : IsCounted(p)' => Settled(p) /\ IsCounted(p)
    BY DEF Settled, IsCounted
  <1>2. DistinctCounts'
    BY <1>1 DEF DistinctCounts, Settled, InTime
  <1>3. ASSUME NEW b \in Buckets PROVE CounterInv(b)'
    <2>1. CountedIn(b)' = CountedIn(b)
      BY Uncounted
    <2>2. \A q \in CountedIn(b) : count'[q] = count[q]
      BY <2>1, <1>1 DEF CountedIn, Settled
    <2> QED
      BY <2>1, <2>2 DEF CounterInv
  <1> QED
    BY <1>2, <1>3

(* A request that arrives, is compared, or fails without an increment.     *)
LEMMA ReceiveOwn ==
  ASSUME TypeOK, NEW r \in Requests, Receive(r), RequestInv(r)
  PROVE  RequestInv(r)' /\ ~IsCounted(r) /\ ~IsCounted(r)'
  <1>1. Bucket(now) * Window <= now
    BY TimeFacts, BucketStarts
  <1>2. bucket'[r] = Bucket(now) /\ pc'[r] = "incr" /\ now' = now
    BY DEF Receive, Goto, TypeOK
  <1>3. ~IsCounted(r) /\ ~IsCounted(r)'
    BY DEF Receive, RequestInv, IsCounted
  <1> QED
    BY <1>1, <1>2, <1>3 DEF RequestInv

LEMMA CompareOwn ==
  ASSUME TypeOK, TypeOK', NEW r \in Requests, Compare(r), \A p \in Requests : RequestInv(p)
  PROVE  RequestInv(r)' /\ Settled(r)
  <1>1. /\ pc[r] = "compare" /\ IsCounted(r) /\ Settled(r)
        /\ now' = now /\ bucket' = bucket /\ counted' = counted /\ count' = count
    BY DEF Compare, RequestInv, Settled
  <1>2. \/ pc'[r] = "refused" /\ TooMany(count[r]) /\ retry'[r] = RetryAfter(now)
        \/ pc'[r] = "passed" /\ ~TooMany(count[r])
    BY DEF Compare, Goto, TypeOK
  <1>3. answered'[r] = now
    BY DEF Compare, TypeOK
  <1>4. NoLater(r)' = NoLater(r) /\ IsCounted(r)'
    BY <1>1 DEF NoLater, IsCounted
  <1> QED
    BY <1>1, <1>2, <1>3, <1>4 DEF RequestInv, TooMany

LEMMA FailOwn ==
  ASSUME TypeOK, NEW r \in Requests, CacheFails(r), counted' = counted, RequestInv(r)
  PROVE  RequestInv(r)' /\ ~IsCounted(r) /\ ~IsCounted(r)'
  <1>1. ~IsCounted(r) /\ ~IsCounted(r)'
    BY DEF CacheFails, RequestInv, IsCounted
  <1> QED
    BY <1>1 DEF CacheFails, Goto, RequestInv, TypeOK

-----------------------------------------------------------------------------
(* The step that counts. *)
Counts(r) ==
  /\ pc[r] = "incr" /\ Increment(r)
  /\ pc'[r] \in {"compare", "failed"}
  /\ now' = now /\ bucket' = bucket

LEMMA CountFacts ==
  ASSUME TypeOK, NEW r \in Requests, RequestInv(r), Counts(r)
  PROVE  /\ count'[r] = counter[bucket[r]] + 1 /\ counted'[r] = now
         /\ counter'[bucket[r]] = counter[bucket[r]] + 1
         /\ expiry'[bucket[r]] = now + TTL
         /\ \A b \in Buckets : b # bucket[r] => counter'[b] = counter[b] /\ expiry'[b] = expiry[b]
         /\ \A p \in Requests : p # r => Settled(p)
         /\ ~IsCounted(r) /\ IsCounted(r)'
         /\ \A p \in Requests : p # r => (IsCounted(p)' <=> IsCounted(p))
  BY DEF Counts, Increment, Expiry, TypeOK, RequestInv, IsCounted, Settled

LEMMA CountedGrows ==
  ASSUME TypeOK, NEW r \in Requests, RequestInv(r), Counts(r), NEW b \in Buckets
  PROVE  /\ b = bucket[r] => /\ CountedIn(b)' = CountedIn(b) \cup {r}
                             /\ Cardinality(CountedIn(b)') = Cardinality(CountedIn(b)) + 1
         /\ b # bucket[r] => CountedIn(b)' = CountedIn(b)
  <1>1. CountedIn(b)' = IF b = bucket[r] THEN CountedIn(b) \cup {r} ELSE CountedIn(b)
    BY CountFacts DEF CountedIn, Settled, Counts
  <1>2. r \notin CountedIn(b)
    BY CountFacts DEF CountedIn
  <1> QED
    BY <1>1, <1>2, FiniteCounts, FS_AddElement

(* All that were counted before the request are no later than it.          *)
LEMMA NoLaterIsAll ==
  ASSUME TypeOK, NEW r \in Requests, \A p \in Requests : RequestInv(p), Counts(r)
  PROVE  \A b \in Buckets : b = bucket[r] => NoLater(r)' = CountedIn(b)'
  <1>1. ASSUME NEW p \in Requests PROVE (counted[p] <= counted[r])' <=> IsCounted(p)'
    <2>1. CASE p = r
      BY <2>1, CountFacts, TimeFacts
    <2>2. CASE p # r
      BY <2>2, CountFacts, TimeFacts, WindowFacts DEF RequestInv, Settled, Never
    <2> QED
      BY <2>1, <2>2
  <1> QED
    BY <1>1 DEF NoLater, CountedIn, Counts

LEMMA CountOwn ==
  ASSUME TypeOK, TypeOK', NEW r \in Requests, \A p \in Requests : RequestInv(p),
         \A b \in Buckets : CounterInv(b), Counts(r)
  PROVE  RequestInv(r)'
  <1>1. PICK b \in Buckets : b = bucket[r]
    BY TimeFacts
  <1>2. counter[b] <= Cardinality(CountedIn(b)) /\ count'[r] = counter[b] + 1
    BY <1>1, CountFacts DEF CounterInv
  <1>3. count'[r] \in 1..Cardinality(NoLater(r)')
    <2>1. Cardinality(NoLater(r)') = Cardinality(CountedIn(b)) + 1
      BY <1>1, CountedGrows, NoLaterIsAll
    <2>2. counter[b] \in Nat /\ Cardinality(CountedIn(b)) \in Nat
      BY TimeFacts, FiniteCounts
    <2> QED
      BY <1>2, <2>1, <2>2
  <1>4. bucket[r] * Window <= now
    BY DEF RequestInv, Counts
  <1> QED
    BY <1>3, <1>4, CountFacts, TimeFacts DEF RequestInv, Counts

LEMMA CountCounter ==
  ASSUME TypeOK, TypeOK', NEW r \in Requests, \A p \in Requests : RequestInv(p),
         \A b \in Buckets : CounterInv(b), Counts(r), NEW b \in Buckets
  PROVE  CounterInv(b)'
  <1>1. CASE b # bucket[r]
    <2>1. CountedIn(b)' = CountedIn(b) /\ r \notin CountedIn(b)
      BY <1>1, CountedGrows, CountFacts DEF CountedIn
    <2>2. \A q \in CountedIn(b) : count'[q] = count[q]
      BY <2>1, CountFacts DEF CountedIn, Settled
    <2> QED
      BY <1>1, <2>1, <2>2, CountFacts DEF CounterInv, Counts
  <1>2. CASE b = bucket[r]
    <2>1. counter'[b] <= Cardinality(CountedIn(b)')
      <3>1. counter[b] <= Cardinality(CountedIn(b)) /\ counter'[b] = counter[b] + 1
        BY <1>2, CountFacts DEF CounterInv
      <3>2. Cardinality(CountedIn(b)') = Cardinality(CountedIn(b)) + 1
        BY <1>2, CountedGrows
      <3>3. counter[b] \in Nat /\ Cardinality(CountedIn(b)) \in Nat
        BY TimeFacts, FiniteCounts
      <3> QED
        BY <3>1, <3>2, <3>3
    <2>2. expiry'[b] >= b * Window + TTL
      <3>1. b * Window <= now
        BY <1>2 DEF RequestInv, Counts
      <3> QED
        BY <1>2, <3>1, CountFacts, TimeFacts, WindowFacts
    <2>3. ASSUME now < b * Window + TTL, NEW q \in CountedIn(b)'
          PROVE  count'[q] <= counter'[b]
      <3>1. CASE q = r
        BY <1>2, <3>1, CountFacts, TimeFacts
      <3>2. CASE q # r
        <4>1. q \in CountedIn(b) /\ q \in Requests /\ count'[q] = count[q]
          BY <1>2, <2>3, <3>2, CountedGrows, CountFacts DEF CountedIn, Settled
        <4>2. count[q] <= counter[b]
          BY <2>3, <4>1 DEF CounterInv
        <4> QED
          BY <1>2, <4>1, <4>2, CountFacts, TimeFacts
      <3> QED
        BY <3>1, <3>2
    <2> QED
      BY <2>1, <2>2, <2>3 DEF CounterInv, Counts
  <1> QED
    BY <1>1, <1>2

LEMMA CountDistinct ==
  ASSUME TypeOK, TypeOK', NEW r \in Requests, \A p \in Requests : RequestInv(p),
         \A b \in Buckets : CounterInv(b), DistinctCounts, Counts(r)
  PROVE  DistinctCounts'
  <1>1. ASSUME NEW q \in Requests, q # r, bucket[q] = bucket[r], IsCounted(q), now < bucket[r] * Window + TTL
        PROVE  count'[q] # count'[r]
    <2>1. q \in CountedIn(bucket[r]) /\ bucket[r] \in Buckets
      BY <1>1, TimeFacts DEF CountedIn
    <2>2. count[q] <= counter[bucket[r]]
      BY <1>1, <2>1 DEF CounterInv
    <2> QED
      BY <1>1, <2>1, <2>2, CountFacts, TimeFacts DEF Settled
  <1>2. InTime(r)' => now < bucket[r] * Window + TTL
    BY CountFacts DEF InTime, Counts
  <1>3. ASSUME NEW p \in Requests, NEW q \in Requests, p # q, p # r, q # r, (bucket[p] = bucket[q])',
               IsCounted(p)', IsCounted(q)', InTime(p)', InTime(q)'
        PROVE  count'[p] # count'[q]
    BY <1>3, CountFacts DEF DistinctCounts, Settled, InTime
  <1>4. \A q \in Requests : q # r /\ (bucket[q] = bucket[r])' /\ IsCounted(q)' /\ InTime(r)' =>
          count'[q] # count'[r]
    BY <1>1, <1>2, CountFacts DEF Counts
  <1> QED
    BY <1>3, <1>4 DEF DistinctCounts

-----------------------------------------------------------------------------
(* Time. *)
LEMMA TickInv ==
  ASSUME IInv, TypeOK', Tick
  PROVE  IInv'
  <1>1. /\ now' = now + 1 /\ expiry' = expiry /\ pc' = pc /\ bucket' = bucket /\ count' = count
        /\ retry' = retry /\ counted' = counted /\ answered' = answered
    BY DEF Tick, request
  <1>2. TypeOK
    BY DEF IInv
  <1>3. ASSUME NEW r \in Requests PROVE RequestInv(r)'
    <2>1. RequestInv(r)
      BY DEF IInv
    <2>2. (pc[r] # "idle" => bucket[r] * Window <= now)' /\ (IsCounted(r) => counted[r] <= now)'
      BY <1>1, <1>2, <2>1, TimeFacts DEF RequestInv, IsCounted
    <2>3. NoLater(r)' = NoLater(r)
      BY <1>1 DEF NoLater
    <2> QED
      BY <1>1, <2>1, <2>2, <2>3 DEF RequestInv, IsCounted, TooMany
  <1>4. ASSUME NEW b \in Buckets PROVE CounterInv(b)'
    <2>1. CounterInv(b)
      BY DEF IInv
    <2>2. CountedIn(b)' = CountedIn(b)
      BY <1>1 DEF CountedIn, IsCounted
    <2>3. counter'[b] = IF expiry[b] <= now + 1 THEN 0 ELSE counter[b]
      BY DEF Tick
    <2>4. counter[b] \in Nat /\ expiry[b] \in Nat /\ now \in Nat /\ b * Window \in Nat
      BY <1>2, TimeFacts, BucketType
    <2>5. counter'[b] <= Cardinality(CountedIn(b))
      BY <2>1, <2>3, <2>4, FiniteCounts DEF CounterInv
    <2>6. ASSUME now' < b * Window + TTL, NEW r \in CountedIn(b) PROVE count[r] <= counter'[b]
      <3>1. expiry[b] >= b * Window + TTL
        BY <2>1, <2>6 DEF CounterInv
      <3>2. counter'[b] = counter[b]
        BY <1>1, <2>3, <2>4, <2>6, <3>1, WindowFacts
      <3>3. now < b * Window + TTL
        BY <1>1, <2>4, <2>6, WindowFacts
      <3> QED
        BY <2>1, <2>6, <3>2, <3>3 DEF CounterInv
    <2> QED
      BY <1>1, <2>1, <2>2, <2>5, <2>6 DEF CounterInv
  <1>5. DistinctCounts'
    BY <1>1 DEF IInv, DistinctCounts, IsCounted, InTime
  <1> QED
    BY <1>3, <1>4, <1>5 DEF IInv

-----------------------------------------------------------------------------
(* The invariant. *)
LEMMA InvInit == Init => IInv
  <1> SUFFICES ASSUME Init PROVE IInv
    OBVIOUS
  <1>1. \A r \in Requests : ~IsCounted(r)
    BY WindowFacts DEF Init, IsCounted, Never, Time
  <1>2. \A b : CountedIn(b) = {}
    BY <1>1 DEF CountedIn
  <1>3. \A b \in Buckets : CounterInv(b)
    BY <1>2, FS_EmptySet DEF Init, CounterInv
  <1> QED
    BY <1>1, <1>3, TypeInit DEF IInv, Init, RequestInv, DistinctCounts

LEMMA HandleInv ==
  ASSUME IInv, TypeOK', NEW r \in Requests, Handle(r)
  PROVE  IInv'
  <1>0. TypeOK /\ (\A p \in Requests : RequestInv(p)) /\ (\A b \in Buckets : CounterInv(b)) /\ DistinctCounts
    BY DEF IInv
  <1>1. \A q \in Requests \ {r} : RequestInv(q)' /\ Settled(q)
    BY <1>0, RequestInvOthers, OthersFrame
  <1>2. CASE Receive(r) \/ Compare(r) \/ (CacheFails(r) /\ UNCHANGED <<redis, count, counted>>)
    <2>1. RequestInv(r)' /\ (Settled(r) \/ (~IsCounted(r) /\ ~IsCounted(r)'))
      BY <1>0, <1>2, ReceiveOwn, CompareOwn, FailOwn
    <2>2. now' = now /\ counter' = counter /\ expiry' = expiry
      BY <1>2 DEF Receive, Compare, CacheFails, redis
    <2>3. DistinctCounts' /\ \A b \in Buckets : CounterInv(b)'
      BY <1>0, <1>1, <2>1, <2>2, UncountedInv
    <2> QED
      BY <1>1, <2>1, <2>3 DEF IInv
  <1>3. CASE Counts(r)
    <2>1. RequestInv(r)' /\ DistinctCounts' /\ \A b \in Buckets : CounterInv(b)'
      BY <1>0, <1>3, CountOwn, CountCounter, CountDistinct
    <2> QED
      BY <1>1, <2>1 DEF IInv
  <1>4. Count(r) \/ (CacheFails(r) /\ Increment(r)) => Counts(r)
    BY <1>0 DEF Count, CacheFails, Counts, Goto, TypeOK
  <1> QED
    BY <1>2, <1>3, <1>4 DEF Handle, CacheFails

LEMMA InvStep == IInv /\ [Next]_vars => IInv'
  <1> SUFFICES ASSUME IInv, [Next]_vars PROVE IInv'
    OBVIOUS
  <1>1. TypeOK'
    BY TypeStep DEF IInv
  <1>2. CASE UNCHANGED vars
    BY <1>2 DEF IInv, TypeOK, RequestInv, CounterInv, DistinctCounts, IsCounted, CountedIn, NoLater,
                InTime, TooMany, vars, redis, request
  <1> QED
    BY <1>1, <1>2, TickInv, HandleInv DEF Next

(* However increments, expiries and comparisons interleave, a counter is    *)
(* never ahead of its minute's requests, and in time not behind them.       *)
THEOREM Invariance == Spec => []IInv
  BY InvInit, InvStep, PTL DEF Spec

(* The limit holds for the requests of each minute that are counted in     *)
(* time: their counts are distinct, and those that pass are in 1..Limit.   *)
THEOREM Budget == Spec => []MinuteBudget
  <1>1. IInv => MinuteBudget
    <2> SUFFICES ASSUME IInv, NEW b \in Buckets
                 PROVE  Cardinality({r \in Passed : bucket[r] = b /\ InTime(r)}) <= Limit
      BY DEF MinuteBudget
    <2> DEFINE S == {r \in Passed : bucket[r] = b /\ InTime(r)}
               f == [r \in S |-> count[r]]
    <2>1. ASSUME NEW r \in S PROVE r \in Requests /\ IsCounted(r) /\ count[r] \in 1..Limit
      BY WindowFacts, FiniteCounts DEF IInv, RequestInv, Passed, TooMany
    <2>2. \A r, q \in S : count[r] = count[q] => r = q
      BY <2>1 DEF IInv, DistinctCounts
    <2>3. f \in Injection(S, 1..Limit)
      BY <2>1, <2>2 DEF Injection, IsInjective
    <2>4. IsFiniteSet(1..Limit) /\ Cardinality(1..Limit) = Limit
      BY WindowFacts, FS_Interval
    <2> HIDE DEF S, f
    <2>5. Cardinality(S) <= Cardinality(1..Limit)
      BY <2>3, <2>4, FS_Injection
    <2> QED
      BY <2>4, <2>5 DEF S
  <1> QED
    BY <1>1, Invariance, PTL

(* Whoever is refused was preceded by Limit others in the same minute.     *)
THEOREM Refusals == Spec => []RefusedForCause
  <1>1. IInv => RefusedForCause
    <2> SUFFICES ASSUME IInv, NEW r \in Requests, pc[r] = "refused"
                 PROVE  Cardinality({q \in Requests \ {r} : /\ bucket[q] = bucket[r]
                                                            /\ counted[q] <= counted[r]}) >= Limit
      BY DEF RefusedForCause
    <2>1. count[r] > Limit /\ count[r] \in 1..Cardinality(NoLater(r))
      BY DEF IInv, RequestInv, TooMany
    <2>2. r \in NoLater(r)
      BY TimeFacts DEF NoLater, IInv
    <2>3. NoLater(r) \ {r} = {q \in Requests \ {r} : bucket[q] = bucket[r] /\ counted[q] <= counted[r]}
      BY DEF NoLater
    <2>4. Cardinality(NoLater(r) \ {r}) = Cardinality(NoLater(r)) - 1
      BY <2>2, FiniteCounts, FS_RemoveElement
    <2>5. Cardinality(NoLater(r) \ {r}) >= Limit
      BY <2>1, <2>4, FiniteCounts, WindowFacts
    <2> QED
      BY <2>3, <2>5
  <1> QED
    BY <1>1, Invariance, PTL

(* Retry-After leads out of the minute that was full.                      *)
THEOREM RetryIsLater == Spec => []RetryLeadsOut
  <1>1. IInv => RetryLeadsOut
    <2> SUFFICES ASSUME IInv, NEW r \in Requests, pc[r] = "refused"
                 PROVE  Bucket(answered[r] + retry[r]) > bucket[r]
      BY DEF RetryLeadsOut
    <2>1. answered[r] \in Nat /\ bucket[r] \in Nat
      BY TimeFacts DEF IInv
    <2>2. bucket[r] * Window <= answered[r] /\ retry[r] = RetryAfter(answered[r])
      BY DEF IInv, RequestInv
    <2>3. bucket[r] <= Bucket(answered[r])
      BY <2>1, <2>2, BucketBegan
    <2>4. Bucket(answered[r] + retry[r]) = Bucket(answered[r]) + 1 /\ Bucket(answered[r]) \in Nat
      BY <2>1, <2>2, RetryIsNext, BucketOf
    <2> QED
      BY <2>1, <2>3, <2>4
  <1> QED
    BY <1>1, Invariance, PTL
=============================================================================
