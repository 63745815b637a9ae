---------------------------- MODULE RateLimiter ----------------------------
(***************************************************************************)
(* enforce_rate_limit: every request to a /api/v2 router is counted in     *)
(* Redis under the minute in which it arrived, and refused when the count  *)
(* of that minute exceeds the limit.  The minute is computed before the    *)
(* counter is reached, and Retry-After from a second reading of the clock, *)
(* so that any time may pass in between.  Keys of different users are      *)
(* disjoint; this is one user.                                             *)
(***************************************************************************)
EXTENDS Integers, FiniteSets

CONSTANTS
  Requests,
  Window,   \* ticks of a minute
  TTL,      \* ticks a counter lives after its last increment
  Limit,    \* RATE_LIMIT_PER_MINUTE
  MaxTime   \* bound: ticks of the run

ASSUME LimiterAssumption ==
  /\ {Window, TTL, Limit} \subseteq Nat \ {0}
  /\ Window < TTL
  /\ MaxTime \in Nat
ASSUME RequestsAssumption == IsFiniteSet(Requests)

Time  == 0..MaxTime
Never == MaxTime + 1

VARIABLES
  now,
  counter,  \* Redis: the counters of all minutes; 0 for no key
  expiry,   \* Redis: when each counter expires
  pc,       \* where a request stands
  bucket,   \* the minute a request is counted in
  count,    \* what its INCR returned
  retry,    \* the Retry-After of a refusal
  counted,  \* history: when its INCR was executed
  answered  \* history: when it was answered

redis   == <<counter, expiry>>
request == <<pc, bucket, count, retry>>
vars    == <<now, redis, request, counted, answered>>

-----------------------------------------------------------------------------
(* int(time.time() // 60) *)
Bucket(t) == t \div Window

(* Mutated forms of RetryAfter: the time left of the minute, short of one; *)
(* a time of day where a delay is due.                                     *)
RetryAfterRoundedDown(t) == Window - 1 - (t % Window)
RetryAfterAsTime(t) == t + Window - (t % Window)

(* 60 - int(time.time() % 60) *)
RetryAfter(t) == Window - (t % Window)

Buckets == {Bucket(t) : t \in Time}
Stages  == {"idle", "incr", "compare", "passed", "refused", "failed"}

TypeOK ==
  /\ now \in Time
  /\ counter \in [Buckets -> Nat]
  /\ expiry \in [Buckets -> Nat]
  /\ pc \in [Requests -> Stages]
  /\ bucket \in [Requests -> Buckets]
  /\ count \in [Requests -> Nat]
  /\ retry \in [Requests -> 0..Window]
  /\ counted \in [Requests -> Time \cup {Never}]
  /\ answered \in [Requests -> Time]

Init ==
  /\ now = 0
  /\ counter = [b \in Buckets |-> 0]
  /\ expiry = [b \in Buckets |-> 0]
  /\ pc = [r \in Requests |-> "idle"]
  /\ bucket = [r \in Requests |-> 0]
  /\ count = [r \in Requests |-> 0]
  /\ retry = [r \in Requests |-> 0]
  /\ counted = [r \in Requests |-> Never]
  /\ answered = [r \in Requests |-> 0]

Goto(r, stage) == pc' = [pc EXCEPT ![r] = stage]

(* Time passes; Redis drops the keys that expire. *)
Tick ==
  /\ now < MaxTime
  /\ now' = now + 1
  /\ counter' = [b \in Buckets |-> IF expiry[b] <= now + 1 THEN 0 ELSE counter[b]]
  /\ UNCHANGED <<expiry, request, counted, answered>>

(* get_current_user has accepted the token; the minute is read. *)
Receive(r) ==
  /\ pc[r] = "idle"
  /\ Goto(r, "incr")
  /\ bucket' = [bucket EXCEPT ![r] = Bucket(now)]
  /\ UNCHANGED <<now, redis, count, retry, counted, answered>>

(* Mutated form of Expiry: a TTL below the minute. *)
ExpiryShort(t) == t + 1

(* EXPIRE key 70 *)
Expiry(t) == t + TTL

(* The transaction INCR, EXPIRE. *)
Increment(r) ==
  LET b == bucket[r] IN
  /\ counter' = [counter EXCEPT ![b] = @ + 1]
  /\ expiry' = [expiry EXCEPT ![b] = Expiry(now)]
  /\ count' = [count EXCEPT ![r] = counter[b] + 1]
  /\ counted' = [counted EXCEPT ![r] = now]

Count(r) ==
  /\ pc[r] = "incr"
  /\ Increment(r)
  /\ Goto(r, "compare")
  /\ UNCHANGED <<now, bucket, retry, answered>>

(* Redis cannot be reached or its answer is lost: the exception becomes a  *)
(* 500, and the request may have been counted.                             *)
CacheFails(r) ==
  /\ pc[r] = "incr"
  /\ Increment(r) \/ UNCHANGED <<redis, count, counted>>
  /\ Goto(r, "failed")
  /\ answered' = [answered EXCEPT ![r] = now]
  /\ UNCHANGED <<now, bucket, retry>>

(* Mutated form of TooMany: the request that reaches the limit is refused. *)
TooManyAtLimit(n) == n >= Limit

TooMany(n) == n > Limit

(* The handler resumes, at whatever time, with the count. *)
Compare(r) ==
  /\ pc[r] = "compare"
  /\ \/ /\ TooMany(count[r])
        /\ Goto(r, "refused")
        /\ retry' = [retry EXCEPT ![r] = RetryAfter(now)]
     \/ /\ ~TooMany(count[r])
        /\ Goto(r, "passed")
        /\ UNCHANGED retry
  /\ answered' = [answered EXCEPT ![r] = now]
  /\ UNCHANGED <<now, redis, bucket, count, counted>>

Handle(r) == Receive(r) \/ Count(r) \/ CacheFails(r) \/ Compare(r)

Next == Tick \/ \E r \in Requests : Handle(r)

Spec == Init /\ [][Next]_vars

-----------------------------------------------------------------------------
Passed == {r \in Requests : pc[r] = "passed"}

(* An increment of minute b is in time when it is executed before the      *)
(* counter of b can have expired: TTL after the minute began.              *)
InTime(r) == counted[r] < bucket[r] * Window + TTL

(* The limit holds for every minute (rate_limit.py:4-5): of the requests   *)
(* that arrive in it no more than Limit pass, however their increments     *)
(* interleave with those of other minutes.  The 10 s by which the TTL      *)
(* exceeds the minute are what an increment may be late.  A burst across a  *)
(* boundary meets two minutes, hence passes at most twice the limit.       *)
MinuteBudget ==
  \A b \in Buckets :
    Cardinality({r \in Passed : bucket[r] = b /\ InTime(r)}) <= Limit

(* Nobody is refused below the limit: at least Limit other requests of the *)
(* same minute were counted before (rate_limit.py:35).                     *)
RefusedForCause ==
  \A r \in Requests :
    pc[r] = "refused" =>
      Cardinality({q \in Requests \ {r} : /\ bucket[q] = bucket[r]
                                          /\ counted[q] <= counted[r]}) >= Limit

(* A client that waits as long as Retry-After says arrives in a later      *)
(* minute than the one that was full, although the header comes from       *)
(* another reading of the clock (rate_limit.py:29,36).                     *)
RetryLeadsOut ==
  \A r \in Requests :
    pc[r] = "refused" => Bucket(answered[r] + retry[r]) > bucket[r]

-----------------------------------------------------------------------------
(* The invariant that the properties above follow from.                    *)

IsCounted(r) == counted[r] \in Time

CountedIn(b) == {r \in Requests : IsCounted(r) /\ bucket[r] = b}

(* Those of r's minute whose increments were executed no later than r's.   *)
NoLater(r) == {q \in Requests : bucket[q] = bucket[r] /\ counted[q] <= counted[r]}

(* What a request knows, and what its place tells of it.                   *)
RequestInv(r) ==
  /\ pc[r] # "idle" => bucket[r] * Window <= now
  /\ pc[r] \in {"idle", "incr"} => ~IsCounted(r)
  /\ pc[r] \in {"compare", "passed", "refused"} => IsCounted(r)
  /\ IsCounted(r) => /\ counted[r] <= now
                     /\ bucket[r] * Window <= counted[r]
                     /\ count[r] \in 1..Cardinality(NoLater(r))
  /\ pc[r] = "passed" => ~TooMany(count[r])
  /\ pc[r] = "refused" => /\ TooMany(count[r])
                          /\ bucket[r] * Window <= answered[r]
                          /\ retry[r] = RetryAfter(answered[r])

(* No counter is ahead of the increments of its minute, and none falls     *)
(* behind them before the minute's time is over.                           *)
CounterInv(b) ==
  /\ counter[b] <= Cardinality(CountedIn(b))
  /\ CountedIn(b) # {} => expiry[b] >= b * Window + TTL
  /\ now < b * Window + TTL => \A r \in CountedIn(b) : count[r] <= counter[b]

(* In time, every request of a minute gets a count of its own.             *)
DistinctCounts ==
  \A r, q \in Requests :
    /\ r # q /\ bucket[r] = bucket[q]
    /\ IsCounted(r) /\ IsCounted(q) /\ InTime(r) /\ InTime(q)
    => count[r] # count[q]

(* The inductive invariant. *)
IInv ==
  /\ TypeOK
  /\ \A r \in Requests : RequestInv(r)
  /\ \A b \in Buckets : CounterInv(b)
  /\ DistinctCounts
=============================================================================
