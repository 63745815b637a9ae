------------------------------ MODULE TierGate ------------------------------
(***************************************************************************)
(* require_tier and current_tier of the VPS-2 API.  Both find out a user's *)
(* tier through _get_tier: Redis, or on a miss Supabase's v_user_tier,     *)
(* whose answer is kept in Redis for TIER_CACHE_TTL.  The routes of        *)
(* v2_signals do so twice per request, once to let it in and once to       *)
(* decide what to show.  Subscriptions change meanwhile, fetches overlap   *)
(* each other, and an error of Supabase counts as the tier free.  Keys of  *)
(* different users are disjoint; this is one user.                         *)
(*                                                                         *)
(* Time is kept as ages, which saturate at Horizon: nothing below depends  *)
(* on how much longer ago than that something was.                         *)
(***************************************************************************)
EXTENDS Integers

CONSTANTS
  Requests,   \* requests the server works on at once; each may follow another
  Served,     \* bound: the routes each of them may be for
  Profiles,   \* bound: the rows v_user_tier may have for the user
  TTL,        \* ticks of TIER_CACHE_TTL
  FetchTime   \* assumed: at most these ticks from Supabase reading the row to
              \* Redis storing the tier and the handler going on

Tiers     == {"free", "global", "pro", "personalized"}
TierOrder == [free |-> 0, global |-> 1, pro |-> 2, personalized |-> 3]
AtLeast(tier, minimum) == TierOrder[tier] >= TierOrder[minimum]

Ungated    == {"price", "leverage"}
MinTier    == [list |-> "global", detail |-> "global", basic |-> "global",
               detailed |-> "pro", score |-> "pro", backtest |-> "pro"]
ReadsAgain == {"list", "detail"}
Routes     == Ungated \cup DOMAIN MinTier

(* v_user_tier: free is always active. *)
Rows == {p \in [tier : Tiers, active : BOOLEAN] : p.tier = "free" => p.active}

ASSUME GateAssumption ==
  /\ Served \in [Requests -> SUBSET Routes]
  /\ Profiles \subseteq Rows /\ Profiles # {}
  /\ TTL \in Nat \ {0} /\ FetchTime \in Nat \ {0}

None    == "none"
Horizon == TTL + FetchTime

VARIABLES
  profile,  \* Supabase: the row of v_user_tier
  cached,   \* Redis: the tier under the user's key, and the ticks it has left
  pc,       \* where a request stands
  route,
  tier,     \* the tier a request last read
  wait,     \* ticks since Supabase answered the fetch of a request
  held      \* history: ticks since each tier was last the one Supabase would
            \* give for the user, an error standing for free

store   == <<profile, cached>>
request == <<pc, route, tier, wait>>
gate    == <<store, held, request>>

Reading  == {"first", "first_fetch", "first_store", "second", "second_fetch", "second_store"}
Answered == {"ok", "turned_away", "tier_too_low", "not_found", "upstream_error", "unhandled"}
Resting  == {"idle"} \cup Answered
Stages   == Resting \cup {"open", "upstream"} \cup Reading

(* fetch_user_tier, of a row *)
Entitled(p) == IF p.active THEN p.tier ELSE "free"

Missing == [tier |-> None, left |-> 0]

GateTypeOK ==
  /\ profile \in Profiles
  /\ cached \in [tier : Tiers, left : 1..TTL] \cup {Missing}
  /\ pc \in [Requests -> Stages]
  /\ route \in [Requests -> Routes \cup {None}]
  /\ \A r \in Requests : route[r] = None <=> pc[r] \in Resting
  /\ tier \in [Requests -> Tiers]
  /\ wait \in [Requests -> 0..FetchTime]
  /\ held \in [Tiers -> 0..Horizon] /\ held[Entitled(profile)] = 0

GateInit ==
  /\ profile \in Profiles
  /\ cached = Missing
  /\ pc = [r \in Requests |-> "idle"]
  /\ route = [r \in Requests |-> None]
  /\ tier = [r \in Requests |-> "free"]
  /\ wait = [r \in Requests |-> 0]
  /\ held = [t \in Tiers |-> IF t = Entitled(profile) THEN 0 ELSE Horizon]

-----------------------------------------------------------------------------
(* A request gets on, with a tier; it ends, and its locals with it. *)
Enter(r, stage, t) ==
  /\ pc' = [pc EXCEPT ![r] = stage]
  /\ tier' = [tier EXCEPT ![r] = t]
  /\ wait' = [wait EXCEPT ![r] = 0]
  /\ UNCHANGED route

End(r, status) ==
  /\ pc' = [pc EXCEPT ![r] = status]
  /\ route' = [route EXCEPT ![r] = None]
  /\ tier' = [tier EXCEPT ![r] = "free"]
  /\ wait' = [wait EXCEPT ![r] = 0]

Older(n) == IF n < Horizon THEN n + 1 ELSE Horizon

Storing == {r \in Requests : pc[r] \in {"first_store", "second_store"}}

(* Time passes.  That Supabase's answer is in Redis within FetchTime is an *)
(* assumption: httpx's 5 s bound each phase of the fetch and nothing bounds *)
(* the SETEX (main.py:38), whose effect and return are one step here.      *)
Tick ==
  /\ \A r \in Storing : wait[r] < FetchTime
  /\ wait' = [r \in Requests |-> IF r \in Storing THEN wait[r] + 1 ELSE wait[r]]
  /\ cached' = IF cached.left > 1 THEN [tier |-> cached.tier, left |-> cached.left - 1] ELSE Missing
  /\ held' = [t \in Tiers |-> IF t = Entitled(profile) THEN 0 ELSE Older(held[t])]
  /\ UNCHANGED <<profile, pc, route, tier>>

(* A purchase, a cancellation or an expiry. *)
ProfileChanges ==
  /\ profile' \in Profiles \ {profile}
  /\ held' = [held EXCEPT ![Entitled(profile')] = 0]
  /\ UNCHANGED <<cached, request>>

(* The dependencies of the router have let the request in: its token is    *)
(* valid and its user below the rate limit.                                *)
Arrive(r, rt) ==
  /\ pc[r] \in Resting
  /\ pc' = [pc EXCEPT ![r] = IF rt \in Ungated THEN "open" ELSE "first"]
  /\ route' = [route EXCEPT ![r] = rt]
  /\ UNCHANGED <<store, held, tier, wait>>

First(r) == pc[r] \in {"first", "first_fetch", "first_store"}

(* require_tier compares; current_tier only returns. *)
Admit(r, t) ==
  IF First(r) /\ ~AtLeast(t, MinTier[route[r]])
  THEN End(r, "tier_too_low")
  ELSE Enter(r, IF First(r) /\ route[r] \in ReadsAgain THEN "second" ELSE "open", t)

(* _get_tier: GET tier:<user> *)
Miss(r) ==
  /\ cached = Missing
  /\ Enter(r, IF First(r) THEN "first_fetch" ELSE "second_fetch", tier[r])
  /\ UNCHANGED cached

(* Mutated form of ReadCache: a hit renews the key. *)
ReadCacheRenewing(r) ==
  /\ pc[r] \in {"first", "second"}
  /\ \/ /\ cached # Missing
        /\ Admit(r, cached.tier)
        /\ cached' = [tier |-> cached.tier, left |-> TTL]
     \/ Miss(r)
  /\ UNCHANGED <<profile, held>>

ReadCache(r) ==
  /\ pc[r] \in {"first", "second"}
  /\ \/ cached # Missing /\ Admit(r, cached.tier) /\ UNCHANGED cached
     \/ Miss(r)
  /\ UNCHANGED <<profile, held>>

(* Supabase evaluates the view; any status but 200 counts as free.         *)
FetchTier(r) ==
  LET stage == IF First(r) THEN "first_store" ELSE "second_store" IN
  /\ pc[r] \in {"first_fetch", "second_fetch"}
  /\ \/ Enter(r, stage, Entitled(profile)) /\ UNCHANGED held
     \/ Enter(r, stage, "free") /\ held' = [held EXCEPT !["free"] = 0]
  /\ UNCHANGED store

(* Mutated form of Stored: the time of the fetch is added. *)
StoredLonger(r) == cached' = [tier |-> tier[r], left |-> TTL + FetchTime]

Stored(r) == cached' = [tier |-> tier[r], left |-> TTL]

(* SETEX tier:<user>, whatever another request has stored meanwhile.       *)
StoreTier(r) ==
  /\ r \in Storing
  /\ Stored(r)
  /\ Admit(r, tier[r])
  /\ UNCHANGED <<profile, held>>

(* Redis or Supabase raises, a timeout included: a 500.  A SETEX whose     *)
(* answer is lost may have been executed.                                  *)
GateFails(r) ==
  /\ pc[r] \in Reading
  /\ End(r, "unhandled")
  /\ \/ UNCHANGED cached
     \/ r \in Storing /\ Stored(r)
  /\ UNCHANGED <<profile, held>>

GateStep(r) == ReadCache(r) \/ FetchTier(r) \/ StoreTier(r) \/ GateFails(r)

-----------------------------------------------------------------------------
Recent(n) == n < Horizon

(* What is stored, or about to be, is as old as the time it has been       *)
(* stored and the time of its fetch add up to: however fetches overlap, no *)
(* answer outlives the two (tier_auth.py:34-37).                           *)
GateInv ==
  /\ cached # Missing => held[cached.tier] + cached.left <= Horizon
  /\ \A r \in Storing : held[tier[r]] <= wait[r]

Moves(r) == pc'[r] # pc[r]

(* A tier is only taken for the user's if the user was entitled to it a    *)
(* moment ago: within the 60 s of the cache plus the time of one fetch     *)
(* (auth.py:8-10, tier_auth.py:25), although concurrent fetches may store  *)
(* an older answer over a newer one.                                       *)
GrantIsRecent ==
  [][\A r \in Requests :
       Moves(r) /\ pc[r] \in Reading /\ pc'[r] \in {"second", "open"} /\ tier'[r] # "free"
         => Recent(held[tier'[r]])]_gate

(* Whoever is refused was below the minimum a moment ago, or Supabase      *)
(* answered with an error a moment ago: a free that stands for an error    *)
(* (auth.py:115-116) is cached like any other, but no longer.              *)
RefusalHasCause ==
  [][\A r \in Requests :
       Moves(r) /\ pc'[r] = "tier_too_low"
         => \E t \in Tiers : ~AtLeast(t, MinTier[route[r]]) /\ Recent(held[t])]_gate
=============================================================================
