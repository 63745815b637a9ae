--------------------------- MODULE ReadApi_proofs ---------------------------
(***************************************************************************)
(* Proofs about the tier gate and the read API, for any number of          *)
(* concurrent requests and any TTL: how old a tier may be that a request   *)
(* acts on, and what is shown to users who lost theirs.                    *)
(***************************************************************************)
EXTENDS ReadApi, TLAPS

USE DEF store, request, gate, signals, vars

LEMMA Numbers ==
  /\ TTL \in Nat /\ TTL > 0 /\ FetchTime \in Nat /\ FetchTime > 0
  /\ Horizon \in Nat /\ Horizon > TTL /\ Horizon > FetchTime
  /\ Horizon = TTL + FetchTime
  BY GateAssumption DEF Horizon

LEMMA TierFacts ==
  /\ "free" \in Tiers
  /\ None \notin Tiers
  /\ None \notin Routes
  /\ "free" \notin ProTiers
  /\ \A t \in Tiers : AtLeast(t, "pro") => t \in ProTiers
  /\ \A t \in ProTiers : t \in Tiers
  /\ \A t \in Tiers : t # "global" /\ t \notin ProTiers => t = "free"
  BY DEF Tiers, None, ProTiers, AtLeast, TierOrder, Routes, Ungated, MinTier

LEMMA RouteFacts ==
  /\ MinTier["detailed"] = "pro" /\ MinTier["score"] = "pro" /\ MinTier["backtest"] = "pro"
  /\ \A rt \in Relayed \ Ungated : rt \in {"score", "backtest"}
  /\ "detailed" \notin Ungated \cup ReadsAgain
  /\ "score" \notin Ungated \cup ReadsAgain
  /\ "backtest" \notin Ungated \cup ReadsAgain
  /\ "list" \in Routes /\ "detail" \in Routes
  BY DEF MinTier, Relayed, Ungated, ReadsAgain, Routes

LEMMA EntitledIsTier == ASSUME NEW p \in Profiles PROVE Entitled(p) \in Tiers
  BY GateAssumption DEF Rows, Entitled, Tiers

LEMMA TypeInit == Init => TypeOK
  <1> SUFFICES ASSUME Init PROVE TypeOK
    OBVIOUS
  <1>1. GateTypeOK
    BY Numbers, EntitledIsTier, TierFacts
    DEF Init, GateInit, GateTypeOK, Stages, Resting, Missing
  <1> QED
    BY <1>1, SignalsAssumption DEF Init, TypeOK, Nothing, NoArrival

-----------------------------------------------------------------------------
(* What the pieces of the actions do to a request. *)
LEMMA EnterType ==
  ASSUME TypeOK, NEW r \in Requests, NEW stage \in Stages \ Resting, NEW t \in Tiers,
         pc[r] \notin Resting, Enter(r, stage, t)
  PROVE  /\ pc' \in [Requests -> Stages]
         /\ route' \in [Requests -> Routes \cup {None}]
         /\ \A q \in Requests : route'[q] = None <=> pc'[q] \in Resting
         /\ tier' \in [Requests -> Tiers]
         /\ wait' \in [Requests -> 0..FetchTime]
  BY Numbers DEF TypeOK, GateTypeOK, Enter

LEMMA EndType ==
  ASSUME TypeOK, NEW r \in Requests, NEW status \in Answered, End(r, status)
  PROVE  /\ pc' \in [Requests -> Stages]
         /\ route' \in [Requests -> Routes \cup {None}]
         /\ \A q \in Requests : route'[q] = None <=> pc'[q] \in Resting
         /\ tier' \in [Requests -> Tiers]
         /\ wait' \in [Requests -> 0..FetchTime]
  BY Numbers, TierFacts DEF TypeOK, GateTypeOK, End, Resting, Stages

StepType(r) ==
  /\ pc' \in [Requests -> Stages]
  /\ route' \in [Requests -> Routes \cup {None}]
  /\ \A q \in Requests : route'[q] = None <=> pc'[q] \in Resting
  /\ tier' \in [Requests -> Tiers]
  /\ wait' \in [Requests -> 0..FetchTime]

LEMMA AdmitType ==
  ASSUME TypeOK, NEW r \in Requests, pc[r] \in Reading, NEW t \in Tiers, Admit(r, t)
  PROVE  StepType(r)
  <1>1. pc[r] \notin Resting
    BY DEF Reading, Resting, Answered
  <1>2. CASE First(r) /\ ~AtLeast(t, MinTier[route[r]])
    BY <1>2, EndType DEF Admit, Answered, StepType
  <1>3. CASE ~(First(r) /\ ~AtLeast(t, MinTier[route[r]]))
    <2> DEFINE stage == IF First(r) /\ route[r] \in ReadsAgain THEN "second" ELSE "open"
    <2>1. stage \in Stages \ Resting /\ Enter(r, stage, t)
      BY <1>3 DEF Admit, Stages, Resting, Answered, Reading
    <2> QED
      BY <1>1, <2>1, EnterType DEF StepType
  <1> QED
    BY <1>2, <1>3

LEMMA GateStepType ==
  ASSUME TypeOK, NEW r \in Requests, GateStep(r)
  PROVE  GateTypeOK'
  <1> USE DEF TypeOK
  <1>1. pc[r] \in Reading /\ pc[r] \notin Resting /\ tier[r] \in Tiers
    BY DEF GateStep, ReadCache, FetchTier, StoreTier, GateFails, Storing, Reading, Resting,
           Answered, GateTypeOK
  <1>2. cached' \in [tier : Tiers, left : 1..TTL] \cup {Missing}
    BY <1>1, Numbers
    DEF GateStep, ReadCache, Miss, FetchTier, StoreTier, Stored, GateFails, GateTypeOK
  <1>3. profile' = profile
    BY DEF GateStep, ReadCache, FetchTier, StoreTier, GateFails
  <1>4. held' \in [Tiers -> 0..Horizon] /\ held'[Entitled(profile)] = 0
    <2>1. held' = held \/ held' = [held EXCEPT !["free"] = 0]
      BY DEF GateStep, ReadCache, FetchTier, StoreTier, GateFails
    <2> QED
      BY <2>1, Numbers, TierFacts, EntitledIsTier DEF GateTypeOK
  <1>5. StepType(r)
    <2>1. CASE ReadCache(r)
      <3>1. CASE cached # Missing /\ Admit(r, cached.tier)
        BY <1>1, <3>1, AdmitType DEF GateTypeOK
      <3>2. CASE Miss(r)
        <4> DEFINE stage == IF First(r) THEN "first_fetch" ELSE "second_fetch"
        <4>1. stage \in Stages \ Resting /\ Enter(r, stage, tier[r])
          BY <3>2 DEF Miss, Stages, Reading, Resting, Answered
        <4> QED
          BY <1>1, <4>1, EnterType DEF StepType
      <3> QED
        BY <2>1, <3>1, <3>2 DEF ReadCache
    <2>2. CASE FetchTier(r)
      <3> DEFINE stage == IF First(r) THEN "first_store" ELSE "second_store"
      <3>1. PICK t \in Tiers : Enter(r, stage, t)
        BY <2>2, EntitledIsTier, TierFacts DEF FetchTier, GateTypeOK
      <3>2. stage \in Stages \ Resting
        BY DEF Stages, Reading, Resting, Answered
      <3> QED
        BY <1>1, <3>1, <3>2, EnterType DEF StepType
    <2>3. CASE StoreTier(r)
      BY <1>1, <2>3, AdmitType DEF StoreTier
    <2>4. CASE GateFails(r)
      BY <2>4, EndType DEF GateFails, Answered, StepType
    <2> QED
      BY <2>1, <2>2, <2>3, <2>4 DEF GateStep
  <1> QED
    BY <1>2, <1>3, <1>4, <1>5 DEF StepType, GateTypeOK

LEMMA AnswerType ==
  ASSUME TypeOK, NEW r \in Requests, NEW status \in Answered,
         NEW a \in [shown : SUBSET Signals, holds : SUBSET Parts], Answer(r, status, a)
  PROVE  TypeOK'
  <1>1. StepType(r)
    BY EndType DEF Answer, StepType
  <1> QED
    BY <1>1 DEF Answer, StepType, TypeOK, GateTypeOK, NoArrival

LEMMA NothingIsShown == Nothing \in [shown : SUBSET Signals, holds : SUBSET Parts]
  BY DEF Nothing

LEMMA ShowType ==
  ASSUME TypeOK, NEW r \in Requests, NEW S \in SUBSET Signals, NEW b \in SUBSET Parts, Show(r, S, b)
  PROVE  TypeOK'
  BY AnswerType DEF Show, Answered

LEMMA UnderWayIsNoRest == "open" \notin Resting /\ "upstream" \notin Resting
  BY DEF Resting, Answered

LEMMA ServeType ==
  ASSUME TypeOK, NEW r \in Requests, Serve(r)
  PROVE  TypeOK'
  <1>0. rows \subseteq Signals /\ persisted \subseteq Signals
    BY DEF TypeOK
  <1>1. CASE List(r)
    <2>1. Window(tier[r]) \in SUBSET Signals
      BY <1>0 DEF Window
    <2>2. PICK S \in SUBSET Window(tier[r]) : Show(r, S, {})
      BY <1>1 DEF List
    <2> QED
      BY <2>1, <2>2, ShowType
  <1>2. CASE Detail(r)
    <2> DEFINE s == arrival[r].asked
    <2>1. CASE s \in rows /\ Show(r, {s}, DetailParts(tier[r]))
      <3>1. DetailParts(tier[r]) \in SUBSET Parts /\ {s} \in SUBSET Signals
        BY <1>0, <2>1 DEF DetailParts, Parts
      <3> QED
        BY <2>1, <3>1, ShowType
    <2>2. CASE Enter(r, "upstream", tier[r]) /\ UNCHANGED <<store, held, signals, answer, arrival>>
      <3>1. StepType(r)
        BY <1>2, <2>2, EnterType, UnderWayIsNoRest DEF StepType, Detail, Stages, TypeOK, GateTypeOK
      <3> QED
        BY <2>2, <3>1 DEF StepType, TypeOK, GateTypeOK
    <2> QED
      BY <1>2, <2>1, <2>2 DEF Detail
  <1>3. CASE DetailFromVps1(r)
    <2> DEFINE s == arrival[r].asked
    <2>1. DetailParts(tier[r]) \in SUBSET Parts
      BY DEF DetailParts, Parts
    <2>2. CASE s \in persisted /\ Show(r, {s}, DetailParts(tier[r]))
      BY <1>0, <2>1, <2>2, ShowType
    <2>3. CASE Answer(r, "not_found", Nothing)
      BY <2>3, AnswerType, NothingIsShown DEF Answered
    <2> QED
      BY <1>3, <2>2, <2>3 DEF DetailFromVps1
  <1>4. CASE Gekko(r)
    <2> DEFINE s == arrival[r].asked
    <2>1. CASE s \in rows /\ Show(r, {s}, {IF route[r] = "detailed" THEN "detailed" ELSE "levels"})
      <3>1. {IF route[r] = "detailed" THEN "detailed" ELSE "levels"} \in SUBSET Parts
        BY DEF Parts
      <3> QED
        BY <1>0, <2>1, <3>1, ShowType
    <2>2. CASE Answer(r, "not_found", Nothing)
      BY <2>2, AnswerType, NothingIsShown DEF Answered
    <2> QED
      BY <1>4, <2>1, <2>2 DEF Gekko
  <1>5. CASE Relay(r)
    <2>1. (IF route[r] \in Ungated THEN {} ELSE {"tool"}) \in SUBSET Parts /\ {} \in SUBSET Signals
      BY DEF Parts
    <2> QED
      BY <1>5, <2>1, ShowType DEF Relay
  <1>6. CASE UpstreamFails(r)
    BY <1>6, AnswerType, NothingIsShown DEF UpstreamFails, Answered
  <1>7. CASE ServeFails(r)
    BY <1>7, AnswerType, NothingIsShown DEF ServeFails, Answered
  <1>8. CASE TurnAway(r)
    BY <1>8, AnswerType, NothingIsShown DEF TurnAway, Answered
  <1> QED
    BY <1>1, <1>2, <1>3, <1>4, <1>5, <1>6, <1>7, <1>8 DEF Serve

LEMMA GateType ==
  ASSUME TypeOK, NEW r \in Requests, Gate(r)
  PROVE  TypeOK'
  <1>1. GateTypeOK'
    BY GateStepType DEF Gate
  <1> QED
    BY <1>1 DEF Gate, TypeOK, NoArrival

LEMMA ArriveType ==
  ASSUME TypeOK, NEW r \in Requests, NEW rt \in Routes, NEW s \in Signals \cup {None},
         ArriveAt(r, rt, s)
  PROVE  TypeOK'
  <1> DEFINE stage == IF rt \in Ungated THEN "open" ELSE "first"
  <1>1. stage \in Stages /\ stage \notin Resting
    BY DEF Stages, Reading, Resting, Answered
  <1>2. pc' = [pc EXCEPT ![r] = stage] /\ route' = [route EXCEPT ![r] = rt]
    BY DEF ArriveAt, Arrive
  <1>3. GateTypeOK'
    BY <1>1, <1>2, TierFacts DEF TypeOK, GateTypeOK, ArriveAt, Arrive
  <1>4. arrival' \in [Requests -> [asked : Signals \cup {None}, lapsed : BOOLEAN, there : BOOLEAN]]
    BY DEF TypeOK, ArriveAt
  <1> QED
    BY <1>3, <1>4, NothingIsShown DEF TypeOK, ArriveAt

LEMMA TimeType == ASSUME TypeOK, Time PROVE TypeOK'
  <1>1. cached' \in [tier : Tiers, left : 1..TTL] \cup {Missing}
    BY Numbers DEF TypeOK, GateTypeOK, Time, Tick, Missing
  <1>2. held' \in [Tiers -> 0..Horizon] /\ held'[Entitled(profile)] = 0
    BY Numbers, EntitledIsTier DEF TypeOK, GateTypeOK, Time, Tick, Older
  <1>3. wait' \in [Requests -> 0..FetchTime]
    BY Numbers DEF TypeOK, GateTypeOK, Time, Tick
  <1> QED
    BY <1>1, <1>2, <1>3 DEF TypeOK, GateTypeOK, Time, Tick

LEMMA SubscriptionType == ASSUME TypeOK, Subscription PROVE TypeOK'
  <1>1. profile' \in Profiles /\ Entitled(profile') \in Tiers
    BY EntitledIsTier DEF Subscription, ProfileChanges
  <1>2. held' \in [Tiers -> 0..Horizon] /\ held'[Entitled(profile')] = 0
    BY <1>1, Numbers DEF TypeOK, GateTypeOK, Subscription, ProfileChanges
  <1>3. arrival' \in [Requests -> [asked : Signals \cup {None}, lapsed : BOOLEAN, there : BOOLEAN]]
    BY DEF TypeOK, Subscription
  <1> QED
    BY <1>1, <1>2, <1>3 DEF TypeOK, GateTypeOK, Subscription, ProfileChanges

LEMMA TypeStep == TypeOK /\ [Next]_vars => TypeOK'
  <1> SUFFICES ASSUME TypeOK, [Next]_vars PROVE TypeOK'
    OBVIOUS
  <1>1. ASSUME NEW s \in Signals, Persist(s) \/ Upsert(s) PROVE TypeOK'
    BY <1>1 DEF TypeOK, GateTypeOK, Persist, Upsert
  <1>2. CASE UNCHANGED vars
    BY <1>2 DEF TypeOK, GateTypeOK
  <1> QED
    BY <1>1, <1>2, TimeType, SubscriptionType, GateType, ServeType, ArriveType
    DEF Next, Handle

(* The read API is type correct. *)
THEOREM TypeCorrect == Spec => []TypeOK
  BY TypeInit, TypeStep, PTL DEF Spec

-----------------------------------------------------------------------------
(* How old the stored tiers are. *)
LEMMA GateInvInit == ASSUME Init PROVE GateInv
  BY DEF Init, GateInit, GateInv, Storing, Missing

(* Nothing is stored, nor any tier made older, and no request begins to    *)
(* store one.                                                              *)
LEMMA GateInvFrame ==
  ASSUME GateInv, cached' = cached,
         \A t \in Tiers : held'[t] = held[t] \/ held'[t] = 0,
         \A q \in Requests : q \in Storing' => q \in Storing /\ tier'[q] = tier[q] /\ wait'[q] = wait[q],
         TypeOK
  PROVE  GateInv'
  <1>1. \A t \in Tiers : held[t] \in 0..Horizon /\ held'[t] \in 0..Horizon /\ held'[t] <= held[t]
    BY Numbers DEF TypeOK, GateTypeOK
  <1>2. ASSUME cached # Missing PROVE held'[cached.tier] + cached.left <= Horizon
    <2>1. cached.tier \in Tiers /\ cached.left \in 1..TTL
      BY <1>2 DEF TypeOK, GateTypeOK
    <2>2. held[cached.tier] + cached.left <= Horizon
      BY <1>2 DEF GateInv
    <2> QED
      BY <1>1, <2>1, <2>2, Numbers
  <1>3. ASSUME NEW q \in Storing' PROVE held'[tier'[q]] <= wait'[q]
    <2>1. q \in Requests
      BY <1>3 DEF Storing
    <2>2. q \in Storing /\ tier'[q] = tier[q] /\ wait'[q] = wait[q]
      BY <1>3, <2>1
    <2>3. tier[q] \in Tiers /\ wait[q] \in 0..FetchTime
      BY <2>1 DEF TypeOK, GateTypeOK
    <2>4. held[tier[q]] <= wait[q]
      BY <2>2 DEF GateInv
    <2> QED
      BY <1>1, <2>2, <2>3, <2>4, Numbers
  <1> QED
    BY <1>2, <1>3 DEF GateInv

LEMMA StoringFrame ==
  ASSUME TypeOK, NEW r \in Requests,
         \/ \E status \in Answered : End(r, status)
         \/ \E stage \in Stages \ {"first_store", "second_store"}, t \in Tiers : Enter(r, stage, t)
  PROVE  \A q \in Requests : q \in Storing' => q \in Storing /\ tier'[q] = tier[q] /\ wait'[q] = wait[q]
  BY DEF TypeOK, GateTypeOK, End, Enter, Storing, Answered

LEMMA AdmitFrame ==
  ASSUME TypeOK, NEW r \in Requests, NEW t \in Tiers, Admit(r, t)
  PROVE  \A q \in Requests : q \in Storing' => q \in Storing /\ tier'[q] = tier[q] /\ wait'[q] = wait[q]
  <1>1. \/ \E status \in Answered : End(r, status)
        \/ \E stage \in Stages \ {"first_store", "second_store"} : Enter(r, stage, t)
    BY DEF Admit, Answered, Stages, Reading
  <1> QED
    BY <1>1, StoringFrame

(* What StoreTier puts into Redis is as old as its fetch. *)
LEMMA StoredIsYoung ==
  ASSUME TypeOK, GateInv, NEW r \in Storing, Stored(r), UNCHANGED held,
         \A q \in Requests : q \in Storing' => q \in Storing /\ tier'[q] = tier[q] /\ wait'[q] = wait[q]
  PROVE  GateInv'
  <1>1. r \in Requests /\ tier[r] \in Tiers /\ wait[r] \in 0..FetchTime
    BY DEF Storing, TypeOK, GateTypeOK
  <1>2. held[tier[r]] \in 0..Horizon /\ held[tier[r]] <= wait[r]
    BY <1>1 DEF GateInv, TypeOK, GateTypeOK
  <1>3. cached'.tier = tier[r] /\ cached'.left = TTL
    BY DEF Stored
  <1>4. held'[cached'.tier] + cached'.left <= Horizon
    BY <1>1, <1>2, <1>3, Numbers
  <1>5. \A q \in Storing' : held'[tier'[q]] <= wait'[q]
    BY DEF GateInv, Storing
  <1> QED
    BY <1>4, <1>5 DEF GateInv

LEMMA GateInvGate ==
  ASSUME TypeOK, GateInv, NEW r \in Requests, GateStep(r)
  PROVE  GateInv'
  <1>0. tier[r] \in Tiers
    BY DEF TypeOK, GateTypeOK
  <1>1. CASE ReadCache(r)
    <2>1. CASE cached # Missing /\ Admit(r, cached.tier) /\ UNCHANGED cached
      <3>1. cached.tier \in Tiers
        BY <2>1 DEF TypeOK, GateTypeOK
      <3> QED
        BY <1>1, <2>1, <3>1, AdmitFrame, GateInvFrame DEF ReadCache
    <2>2. CASE Miss(r)
      <3> DEFINE stage == IF First(r) THEN "first_fetch" ELSE "second_fetch"
      <3>1. stage \in Stages \ {"first_store", "second_store"} /\ Enter(r, stage, tier[r])
        BY <2>2 DEF Miss, Stages, Reading
      <3>2. \A q \in Requests : q \in Storing' => q \in Storing /\ tier'[q] = tier[q] /\ wait'[q] = wait[q]
        BY <1>0, <3>1, StoringFrame
      <3> QED
        BY <1>1, <2>2, <3>2, GateInvFrame DEF ReadCache, Miss
    <2> QED
      BY <1>1, <2>1, <2>2 DEF ReadCache
  <1>2. CASE FetchTier(r)
    <2>1. cached' = cached /\ (held' = held \/ held' = [held EXCEPT !["free"] = 0])
      BY <1>2 DEF FetchTier
    <2>2. PICK t \in Tiers : tier' = [tier EXCEPT ![r] = t] /\ held'[t] = 0
      BY <1>2, EntitledIsTier, TierFacts DEF FetchTier, Enter, TypeOK, GateTypeOK
    <2>3. wait' = [wait EXCEPT ![r] = 0]
      BY <1>2 DEF FetchTier, Enter
    <2>4. \A q \in Requests \ {r} : pc'[q] = pc[q] /\ tier'[q] = tier[q] /\ wait'[q] = wait[q]
      BY <1>2, <2>2, <2>3 DEF FetchTier, Enter, TypeOK, GateTypeOK
    <2>5. \A u \in Tiers : held[u] \in 0..Horizon /\ held'[u] \in 0..Horizon /\ held'[u] <= held[u]
      BY <2>1, Numbers DEF TypeOK, GateTypeOK
    <2>6. ASSUME cached # Missing PROVE held'[cached.tier] + cached.left <= Horizon
      <3>1. cached.tier \in Tiers /\ cached.left \in 1..TTL
        BY <2>6 DEF TypeOK, GateTypeOK
      <3>2. held[cached.tier] + cached.left <= Horizon
        BY <2>6 DEF GateInv
      <3> QED
        BY <2>5, <3>1, <3>2, Numbers
    <2>7. ASSUME NEW q \in Storing' PROVE held'[tier'[q]] <= wait'[q]
      <3>1. q \in Requests
        BY <2>7 DEF Storing
      <3>2. CASE q = r
        BY <3>2, <2>2, <2>3 DEF TypeOK, GateTypeOK
      <3>3. CASE q # r
        <4>1. q \in Storing
          BY <2>4, <2>7, <3>1, <3>3 DEF Storing
        <4>2. held[tier[q]] <= wait[q] /\ tier[q] \in Tiers /\ wait[q] \in 0..FetchTime
          BY <3>1, <4>1 DEF GateInv, TypeOK, GateTypeOK
        <4> QED
          BY <2>4, <2>5, <3>1, <3>3, <4>2, Numbers
      <3> QED
        BY <3>2, <3>3
    <2> QED
      BY <2>1, <2>6, <2>7 DEF GateInv
  <1>3. CASE StoreTier(r)
    BY <1>0, <1>3, AdmitFrame, StoredIsYoung DEF StoreTier
  <1>4. CASE GateFails(r)
    <2>1. \A q \in Requests : q \in Storing' => q \in Storing /\ tier'[q] = tier[q] /\ wait'[q] = wait[q]
      BY <1>4, StoringFrame DEF GateFails, Answered
    <2>2. CASE UNCHANGED cached
      BY <1>4, <2>1, <2>2, GateInvFrame DEF GateFails
    <2>3. CASE r \in Storing /\ Stored(r)
      BY <1>4, <2>1, <2>3, StoredIsYoung DEF GateFails
    <2> QED
      BY <1>4, <2>2, <2>3 DEF GateFails
  <1> QED
    BY <1>1, <1>2, <1>3, <1>4 DEF GateStep

LEMMA GateInvServe ==
  ASSUME TypeOK, GateInv, NEW r \in Requests, Serve(r)
  PROVE  GateInv'
  <1>1. UNCHANGED <<store, held>>
    BY DEF Serve, TurnAway, List, Detail, DetailFromVps1, Gekko, Relay, UpstreamFails, ServeFails,
           Show, Answer
  <1>2. \/ \E status \in Answered : End(r, status)
        \/ Enter(r, "upstream", tier[r])
    BY DEF Serve, TurnAway, List, Detail, DetailFromVps1, Gekko, Relay, UpstreamFails, ServeFails, Show,
           Answer, Answered
  <1>3. tier[r] \in Tiers /\ "upstream" \in Stages \ {"first_store", "second_store"}
    BY DEF TypeOK, GateTypeOK, Stages
  <1>4. \A q \in Requests : q \in Storing' => q \in Storing /\ tier'[q] = tier[q] /\ wait'[q] = wait[q]
    BY <1>2, <1>3, StoringFrame
  <1> QED
    BY <1>1, <1>4, GateInvFrame

LEMMA GateInvTime == ASSUME TypeOK, GateInv, Time PROVE GateInv'
  <1>0. ASSUME NEW t \in Tiers PROVE held[t] \in 0..Horizon /\ held'[t] \in 0..Horizon /\ held'[t] <= held[t] + 1
    BY Numbers DEF TypeOK, GateTypeOK, Time, Tick, Older
  <1>1. ASSUME cached' # Missing PROVE held'[cached'.tier] + cached'.left <= Horizon
    <2>1. cached # Missing /\ cached.left > 1 /\ cached' = [tier |-> cached.tier, left |-> cached.left - 1]
      BY <1>1 DEF Time, Tick, Missing
    <2>2. cached.tier \in Tiers /\ cached.left \in 1..TTL
      BY <2>1 DEF TypeOK, GateTypeOK
    <2>3. held[cached.tier] + cached.left <= Horizon
      BY <2>1 DEF GateInv
    <2> QED
      BY <1>0, <2>1, <2>2, <2>3, Numbers
  <1>2. ASSUME NEW q \in Storing' PROVE held'[tier'[q]] <= wait'[q]
    <2>1. q \in Requests /\ q \in Storing /\ tier'[q] = tier[q] /\ wait'[q] = wait[q] + 1
      BY <1>2 DEF Time, Tick, Storing
    <2>2. tier[q] \in Tiers /\ wait[q] \in 0..FetchTime /\ held[tier[q]] <= wait[q]
      BY <2>1 DEF TypeOK, GateTypeOK, GateInv
    <2> QED
      BY <1>0, <2>1, <2>2, Numbers
  <1> QED
    BY <1>1, <1>2 DEF GateInv

LEMMA GateInvStep == TypeOK /\ GateInv /\ [Next]_vars => GateInv'
  <1> SUFFICES ASSUME TypeOK, GateInv, [Next]_vars PROVE GateInv'
    OBVIOUS
  <1>1. CASE Subscription
    BY <1>1, EntitledIsTier, GateInvFrame
    DEF Subscription, ProfileChanges, Storing, TypeOK, GateTypeOK
  <1>2. ASSUME NEW s \in Signals, Persist(s) \/ Upsert(s) PROVE GateInv'
    BY <1>2 DEF Persist, Upsert, GateInv, Storing
  <1>3. ASSUME NEW r \in Requests, NEW rt \in Routes, NEW s \in Signals \cup {None}, ArriveAt(r, rt, s)
        PROVE  GateInv'
    BY <1>3, GateInvFrame DEF ArriveAt, Arrive, Storing, TypeOK, GateTypeOK
  <1>4. ASSUME NEW r \in Requests, Handle(r) PROVE GateInv'
    BY <1>4, GateInvGate, GateInvServe DEF Handle, Gate
  <1>5. CASE UNCHANGED vars
    BY <1>5 DEF GateInv, Storing
  <1> QED
    BY <1>1, <1>2, <1>3, <1>4, <1>5, GateInvTime DEF Next

-----------------------------------------------------------------------------
(* What a request may take its user for. *)
LEMMA RequestInit == ASSUME Init, NEW q \in Requests PROVE RequestInv(q)
  BY DEF Init, GateInit, RequestInv, LocalsOf, LapsedIsNotPro, PassedTheGate, OnItsRoute,
         StillThere, NoArrival, Resting

(* A request that a step does not touch. *)
LEMMA RequestFrame ==
  ASSUME NEW q \in Requests, RequestInv(q),
         pc'[q] = pc[q], route'[q] = route[q], tier'[q] = tier[q],
         answer'[q] = answer[q], arrival'[q] = arrival[q],
         persisted \subseteq persisted',
         \A t \in ProTiers : held[t] = Horizon => held'[t] = Horizon
  PROVE  RequestInv(q)'
  BY DEF RequestInv, LocalsOf, LapsedIsNotPro, PassedTheGate, OnItsRoute, StillThere

(* A request that ends leaves nothing behind but its answer. *)
LEMMA RequestEnds ==
  ASSUME NEW r \in Requests, pc'[r] \in Answered, tier'[r] = "free", arrival'[r] = NoArrival
  PROVE  RequestInv(r)'
  BY TierFacts
  DEF RequestInv, LocalsOf, LapsedIsNotPro, PassedTheGate, OnItsRoute, StillThere, Resting,
      Answered, NoArrival

(* What is in Redis is never pro for a user who lapsed. *)
LEMMA CachedIsNotPro ==
  ASSUME TypeOK, GateInv, cached # Missing, NEW r \in Requests, LapsedIsNotPro(r),
         arrival[r].lapsed
  PROVE  cached.tier \notin ProTiers
  <1>1. cached.tier \in Tiers /\ cached.left \in 1..TTL
    BY DEF TypeOK, GateTypeOK
  <1>2. held[cached.tier] \in 0..Horizon /\ held[cached.tier] + cached.left <= Horizon
    BY <1>1 DEF GateInv, TypeOK, GateTypeOK
  <1> QED
    BY <1>1, <1>2, Numbers DEF LapsedIsNotPro

(* A request that _get_tier gives a tier to. *)
LEMMA RequestAdmitted ==
  ASSUME TypeOK, NEW r \in Requests, RequestInv(r), pc[r] \in Reading, NEW t \in Tiers,
         Admit(r, t), arrival[r].lapsed => t \notin ProTiers, UNCHANGED <<held, signals, answer>>,
         arrival' = [arrival EXCEPT ![r] = IF pc'[r] \in Answered THEN NoArrival ELSE @]
  PROVE  RequestInv(r)'
  <1>1. CASE First(r) /\ ~AtLeast(t, MinTier[route[r]])
    BY <1>1, RequestEnds DEF Admit, End, Answered, TypeOK, GateTypeOK
  <1>2. CASE ~(First(r) /\ ~AtLeast(t, MinTier[route[r]]))
    <2> DEFINE stage == IF First(r) /\ route[r] \in ReadsAgain THEN "second" ELSE "open"
    <2>1. pc'[r] = stage /\ tier'[r] = t /\ route'[r] = route[r]
      BY <1>2 DEF Admit, Enter, TypeOK, GateTypeOK
    <2>2. pc[r] \notin Resting /\ stage \notin Resting
      BY DEF Resting, Answered, Reading
    <2>3. arrival'[r] = arrival[r] /\ answer'[r] = answer[r]
      BY <2>1, <2>2 DEF Resting, TypeOK
    <2>4. LocalsOf(r)'
      BY <2>1, <2>2, <2>3 DEF LocalsOf, RequestInv
    <2>5. LapsedIsNotPro(r)'
      BY <2>1, <2>3 DEF LapsedIsNotPro, RequestInv
    <2>6. PassedTheGate(r)'
      BY <1>2, <2>1 DEF PassedTheGate, OnItsRoute, RequestInv, First, Reading
    <2>7. OnItsRoute(r)'
      BY <2>1 DEF OnItsRoute
    <2>8. StillThere(r)'
      BY <2>3 DEF StillThere, RequestInv
    <2> QED
      BY <2>4, <2>5, <2>6, <2>7, <2>8 DEF RequestInv
  <1> QED
    BY <1>1, <1>2

LEMMA RequestGate ==
  ASSUME TypeOK, GateInv, NEW r \in Requests, RequestInv(r), Gate(r)
  PROVE  RequestInv(r)'
  <1>0. /\ tier[r] \in Tiers
        /\ pc[r] \in Reading /\ pc[r] \notin Resting
        /\ UNCHANGED <<signals, answer>>
        /\ arrival' = [arrival EXCEPT ![r] = IF pc'[r] \in Answered THEN NoArrival ELSE @]
    BY DEF TypeOK, GateTypeOK, Gate, GateStep, ReadCache, FetchTier, StoreTier, GateFails, Storing,
           Reading, Resting, Answered
  <1>1. CASE cached # Missing /\ Admit(r, cached.tier) /\ UNCHANGED held
    <2>1. cached.tier \in Tiers
      BY <1>1 DEF TypeOK, GateTypeOK
    <2> QED
      BY <1>0, <1>1, <2>1, CachedIsNotPro, RequestAdmitted DEF RequestInv
  <1>2. CASE Miss(r) /\ pc[r] \in {"first", "second"} /\ UNCHANGED held
    <2>1. pc'[r] = IF First(r) THEN "first_fetch" ELSE "second_fetch"
      BY <1>2 DEF Miss, Enter, TypeOK, GateTypeOK
    <2>2. tier'[r] = tier[r] /\ route'[r] = route[r] /\ pc'[r] \notin Resting
      BY <1>2, <2>1 DEF Miss, Enter, TypeOK, GateTypeOK, Resting, Answered
    <2>3. arrival'[r] = arrival[r] /\ answer'[r] = answer[r]
      BY <1>0, <2>2 DEF Resting, TypeOK
    <2> QED
      BY <1>0, <1>2, <2>1, <2>2, <2>3
      DEF RequestInv, LocalsOf, LapsedIsNotPro, PassedTheGate, OnItsRoute, StillThere, First
  <1>3. CASE FetchTier(r)
    <2>1. pc'[r] = IF First(r) THEN "first_store" ELSE "second_store"
      BY <1>3 DEF FetchTier, Enter, TypeOK, GateTypeOK
    <2>2. route'[r] = route[r] /\ pc'[r] \notin Resting
      BY <1>3, <2>1 DEF FetchTier, Enter, Resting, Answered
    <2>3. arrival'[r] = arrival[r] /\ answer'[r] = answer[r]
      BY <1>0, <2>2 DEF Resting, TypeOK
    <2>4. tier'[r] \in {"free", Entitled(profile)}
      BY <1>3 DEF FetchTier, Enter, TypeOK, GateTypeOK
    <2>5. \A t \in ProTiers : held'[t] = held[t]
      BY <1>3, TierFacts DEF FetchTier, TypeOK, GateTypeOK
    <2>6. arrival[r].lapsed => Entitled(profile) \notin ProTiers
      BY Numbers DEF RequestInv, LapsedIsNotPro, TypeOK, GateTypeOK
    <2>7. LapsedIsNotPro(r)'
      BY <2>3, <2>4, <2>5, <2>6, TierFacts DEF RequestInv, LapsedIsNotPro
    <2>8. LocalsOf(r)' /\ PassedTheGate(r)' /\ StillThere(r)'
      BY <1>0, <2>1, <2>2, <2>3 DEF RequestInv, LocalsOf, PassedTheGate, StillThere
    <2>9. OnItsRoute(r)'
      BY <1>3, <2>1, <2>2 DEF RequestInv, OnItsRoute, FetchTier, First
    <2> QED
      BY <2>7, <2>8, <2>9 DEF RequestInv
  <1>4. CASE StoreTier(r)
    BY <1>0, <1>4, RequestAdmitted DEF StoreTier, RequestInv, LapsedIsNotPro
  <1>5. CASE GateFails(r)
    BY <1>0, <1>5, RequestEnds DEF GateFails, End, Answered, TypeOK, GateTypeOK
  <1> QED
    BY <1>1, <1>2, <1>3, <1>4, <1>5 DEF Gate, GateStep, ReadCache

LEMMA RequestServe ==
  ASSUME TypeOK, NEW r \in Requests, RequestInv(r), Serve(r)
  PROVE  RequestInv(r)'
  <1>1. ASSUME NEW status \in Answered, NEW a, Answer(r, status, a) PROVE RequestInv(r)'
    BY <1>1, RequestEnds DEF Answer, End, TypeOK, GateTypeOK
  <1>2. CASE /\ pc[r] = "open" /\ route[r] = "detail"
             /\ Enter(r, "upstream", tier[r])
             /\ UNCHANGED <<store, held, signals, answer, arrival>>
    <2>1. pc'[r] = "upstream" /\ tier'[r] = tier[r] /\ route'[r] = "detail"
      BY <1>2 DEF Enter, TypeOK, GateTypeOK
    <2> QED
      BY <1>2, <2>1, UnderWayIsNoRest
      DEF RequestInv, LocalsOf, LapsedIsNotPro, PassedTheGate, OnItsRoute, StillThere
  <1>3. ASSUME NEW S, NEW b, Show(r, S, b) PROVE RequestInv(r)'
    BY <1>1, <1>3 DEF Show, Answered
  <1>4. CASE \/ TurnAway(r) \/ List(r) \/ Gekko(r) \/ Relay(r) \/ DetailFromVps1(r)
             \/ UpstreamFails(r) \/ ServeFails(r)
    BY <1>1, <1>3, <1>4
    DEF TurnAway, List, Gekko, Relay, DetailFromVps1, UpstreamFails, ServeFails, Answered
  <1>5. CASE Detail(r)
    BY <1>2, <1>3, <1>5 DEF Detail
  <1> QED
    BY <1>4, <1>5 DEF Serve

(* A step of one request does not disturb another. *)
LEMMA HandleFrame ==
  ASSUME TypeOK, NEW r \in Requests, NEW q \in Requests, q # r, RequestInv(q), Handle(r)
  PROVE  RequestInv(q)'
  <1>1. pc'[q] = pc[q] /\ route'[q] = route[q] /\ tier'[q] = tier[q]
    BY DEF Handle, Gate, GateStep, ReadCache, Miss, FetchTier, StoreTier, GateFails, Admit, Enter, End,
           Serve, TurnAway, List, Detail, DetailFromVps1, Gekko, Relay, UpstreamFails, ServeFails, Show, Answer,
           TypeOK, GateTypeOK
  <1>2. answer'[q] = answer[q] /\ arrival'[q] = arrival[q] /\ persisted' = persisted
    BY DEF Handle, Gate,
           Serve, TurnAway, List, Detail, DetailFromVps1, Gekko, Relay, UpstreamFails, ServeFails, Show, Answer,
           TypeOK
  <1>3. held' = held \/ held' = [held EXCEPT !["free"] = 0]
    BY DEF Handle, Gate, GateStep, ReadCache, FetchTier, StoreTier, GateFails,
           Serve, TurnAway, List, Detail, DetailFromVps1, Gekko, Relay, UpstreamFails, ServeFails, Show, Answer
  <1>4. \A t \in ProTiers : held[t] = Horizon => held'[t] = Horizon
    BY <1>3, TierFacts DEF TypeOK, GateTypeOK
  <1> QED
    BY <1>1, <1>2, <1>4, RequestFrame

LEMMA RequestTime ==
  ASSUME TypeOK, NEW q \in Requests, RequestInv(q), Time
  PROVE  RequestInv(q)'
  <1>1. \A t \in ProTiers : held[t] = Horizon => held'[t] = Horizon
    BY TierFacts, Numbers DEF Time, Tick, Older, TypeOK, GateTypeOK
  <1> QED
    BY <1>1, RequestFrame DEF Time, Tick

LEMMA RequestSubscription ==
  ASSUME TypeOK, NEW q \in Requests, RequestInv(q), Subscription
  PROVE  RequestInv(q)'
  <1>1. /\ arrival'[q].asked = arrival[q].asked /\ arrival'[q].there = arrival[q].there
        /\ arrival'[q].lapsed <=> arrival[q].lapsed /\ Entitled(profile') \notin ProTiers
    BY DEF Subscription, TypeOK
  <1>2. arrival'[q].lapsed => \A t \in ProTiers : held'[t] = held[t]
    BY <1>1, TierFacts DEF Subscription, ProfileChanges, TypeOK, GateTypeOK
  <1>3. ASSUME arrival[q] = NoArrival PROVE arrival'[q] = NoArrival
    <2>1. arrival'[q] = [asked  |-> arrival[q].asked,
                         lapsed |-> arrival[q].lapsed /\ Entitled(profile') \notin ProTiers,
                         there  |-> arrival[q].there]
      BY DEF Subscription
    <2>2. arrival[q].asked = None /\ arrival[q].lapsed = FALSE /\ arrival[q].there = FALSE
      BY <1>3 DEF NoArrival
    <2>3. (arrival[q].lapsed /\ Entitled(profile') \notin ProTiers) = FALSE
      BY <2>2
    <2> QED
      BY <2>1, <2>2, <2>3 DEF NoArrival
  <1> QED
    BY <1>1, <1>2, <1>3
    DEF RequestInv, LocalsOf, LapsedIsNotPro, PassedTheGate, OnItsRoute, StillThere,
        Subscription, ProfileChanges

LEMMA RequestArrives ==
  ASSUME TypeOK, NEW r \in Requests, NEW rt \in Routes, NEW s \in Signals \cup {None},
         ArriveAt(r, rt, s), NEW q \in Requests, RequestInv(q)
  PROVE  RequestInv(q)'
  <1>1. CASE q # r
    BY <1>1, RequestFrame DEF ArriveAt, Arrive, TypeOK, GateTypeOK
  <1>2. CASE q = r
    <2>1. /\ pc'[r] = IF rt \in Ungated THEN "open" ELSE "first"
          /\ route'[r] = rt /\ tier'[r] = "free" /\ answer'[r] = Nothing
          /\ arrival'[r].lapsed <=> \A t \in ProTiers : ~Recent(held[t])
          /\ arrival'[r].asked = s /\ (arrival'[r].there <=> s \in persisted)
      BY <1>2 DEF ArriveAt, Arrive, TypeOK, GateTypeOK, RequestInv, LocalsOf
    <2>2. ASSUME arrival'[r].lapsed, NEW t \in ProTiers PROVE held'[t] = Horizon
      <3>1. held'[t] = held[t] /\ held[t] \in 0..Horizon
        BY TierFacts DEF ArriveAt, Arrive, TypeOK, GateTypeOK
      <3>2. ~Recent(held[t])
        BY <2>1, <2>2
      <3> QED
        BY <3>1, <3>2, Numbers DEF Recent
    <2>3. pc'[r] \notin Resting
      BY <2>1 DEF Resting, Answered
    <2>4. persisted' = persisted
      BY DEF ArriveAt
    <2> QED
      BY <1>2, <2>1, <2>2, <2>3, <2>4, TierFacts
      DEF RequestInv, LocalsOf, LapsedIsNotPro, PassedTheGate, OnItsRoute, StillThere
  <1> QED
    BY <1>1, <1>2

LEMMA ReadInvStep == TypeOK /\ ReadInv /\ [Next]_vars => ReadInv'
  <1> SUFFICES ASSUME TypeOK, ReadInv, [Next]_vars PROVE ReadInv'
    OBVIOUS
  <1>1. GateInv'
    BY GateInvStep DEF ReadInv
  <1>2. ASSUME NEW q \in Requests PROVE RequestInv(q)'
    <2>1. RequestInv(q) /\ GateInv
      BY DEF ReadInv
    <2>2. ASSUME NEW r \in Requests, Handle(r) PROVE RequestInv(q)'
      BY <2>1, <2>2, HandleFrame, RequestGate, RequestServe DEF Handle
    <2>3. ASSUME NEW s \in Signals, Persist(s) \/ Upsert(s) PROVE RequestInv(q)'
      BY <2>1, <2>3, RequestFrame DEF Persist, Upsert
    <2>4. CASE UNCHANGED vars
      BY <2>1, <2>4, RequestFrame
    <2> QED
      BY <2>1, <2>2, <2>3, <2>4, RequestTime, RequestSubscription, RequestArrives DEF Next
  <1> QED
    BY <1>1, <1>2, TypeStep DEF ReadInv

LEMMA ReadInvInit == Init => ReadInv
  BY TypeInit, GateInvInit, RequestInit DEF ReadInv

(* At any time what is in Redis, or about to be, is no older than the TTL  *)
(* and one fetch (tier_auth.py:25, 34-37), and no request takes a user who *)
(* lapsed for a pro one or passes its gate with too low a tier.            *)
THEOREM Invariance == Spec => []ReadInv
  BY TypeInit, TypeStep, ReadInvInit, ReadInvStep, PTL DEF Spec

-----------------------------------------------------------------------------
(* What a step may do to a request. *)
LEMMA WhoMoves ==
  ASSUME TypeOK, [Next]_vars, NEW r \in Requests, Moves(r)
  PROVE  Gate(r) \/ Serve(r) \/ \E rt \in Routes, s \in Signals \cup {None} : ArriveAt(r, rt, s)
  <1>1. ASSUME NEW q \in Requests, q # r, Handle(q) PROVE FALSE
    BY <1>1
    DEF Moves, Handle, Gate, GateStep, ReadCache, Miss, FetchTier, StoreTier, GateFails, Admit, Enter,
        End, Serve, TurnAway, List, Detail, DetailFromVps1, Gekko, Relay, UpstreamFails, ServeFails, Show, Answer,
        TypeOK, GateTypeOK
  <1>2. ASSUME NEW q \in Requests, q # r, NEW rt \in Routes, NEW s \in Signals \cup {None},
               ArriveAt(q, rt, s)
        PROVE  FALSE
    BY <1>2 DEF Moves, ArriveAt, Arrive, TypeOK, GateTypeOK
  <1>3. ~Time /\ ~Subscription /\ (\A s \in Signals : ~Persist(s) /\ ~Upsert(s)) /\ ~UNCHANGED vars
    BY DEF Moves, Time, Tick, Subscription, ProfileChanges, Persist, Upsert
  <1> QED
    BY <1>1, <1>2, <1>3 DEF Next, Handle

LEMMA ArrivalIsUnderWay ==
  ASSUME TypeOK, NEW r \in Requests, NEW rt \in Routes, NEW s \in Signals \cup {None}, ArriveAt(r, rt, s)
  PROVE  pc[r] \in Resting /\ pc'[r] \in {"open", "first"} /\ answer'[r] = Nothing
  BY DEF ArriveAt, Arrive, TypeOK, GateTypeOK

(* What _get_tier returns is recent. *)
LEMMA TierIsRecent ==
  ASSUME TypeOK, ReadInv, NEW r \in Requests, Gate(r),
         pc'[r] \in {"second", "open", "tier_too_low"}
  PROVE  \E t \in Tiers : Admit(r, t) /\ Recent(held[t]) /\ pc[r] \in Reading
  <1>1. pc[r] \in Reading
    BY DEF Gate, GateStep, ReadCache, FetchTier, StoreTier, GateFails, Storing, Reading
  <1>2. CASE ReadCache(r) /\ cached # Missing /\ Admit(r, cached.tier)
    <2>1. cached.tier \in Tiers /\ cached.left \in 1..TTL
      BY <1>2 DEF TypeOK, GateTypeOK
    <2>2. held[cached.tier] \in 0..Horizon /\ held[cached.tier] + cached.left <= Horizon
      BY <1>2, <2>1 DEF ReadInv, GateInv, TypeOK, GateTypeOK
    <2> QED
      BY <1>1, <1>2, <2>1, <2>2, Numbers DEF Recent
  <1>3. CASE StoreTier(r)
    <2>1. tier[r] \in Tiers /\ wait[r] \in 0..FetchTime
      BY DEF TypeOK, GateTypeOK
    <2>2. held[tier[r]] \in 0..Horizon /\ held[tier[r]] <= wait[r]
      BY <1>3, <2>1 DEF StoreTier, ReadInv, GateInv, TypeOK, GateTypeOK
    <2> QED
      BY <1>1, <1>3, <2>1, <2>2, Numbers DEF StoreTier, Recent
  <1>4. ~(ReadCache(r) /\ Miss(r)) /\ ~FetchTier(r) /\ ~GateFails(r)
    BY DEF ReadCache, Miss, FetchTier, GateFails, Enter, End, TypeOK, GateTypeOK
  <1> QED
    BY <1>2, <1>3, <1>4 DEF Gate, GateStep, ReadCache

(* A tier is only taken for the user's if the user was entitled to it, or  *)
(* it is free, within the TTL and the time of a fetch before               *)
(* (tier_auth.py:10-11, 34-37), for any number of overlapping fetches.     *)
THEOREM Grants == Spec => GrantIsRecent
  <1>1. ASSUME TypeOK, ReadInv, [Next]_vars, NEW r \in Requests,
               Moves(r), pc[r] \in Reading, pc'[r] \in {"second", "open"}
        PROVE  Recent(held[tier'[r]])
    <2>1. Gate(r)
      BY <1>1, WhoMoves, ArrivalIsUnderWay
      DEF Serve, TurnAway, List, Detail, DetailFromVps1, Gekko, Relay, UpstreamFails, ServeFails, Reading,
          Resting, Answered
    <2>2. PICK t \in Tiers : Admit(r, t) /\ Recent(held[t])
      BY <1>1, <2>1, TierIsRecent
    <2>3. tier'[r] = t
      BY <1>1, <2>2 DEF Admit, Enter, End, TypeOK, GateTypeOK
    <2> QED
      BY <2>2, <2>3
  <1>2. TypeOK /\ ReadInv /\ [Next]_vars =>
          [\A r \in Requests :
             Moves(r) /\ pc[r] \in Reading /\ pc'[r] \in {"second", "open"} /\ tier'[r] # "free"
               => Recent(held[tier'[r]])]_gate
    BY <1>1
  <1> QED
    BY <1>2, TypeCorrect, Invariance, PTL DEF Spec, GrantIsRecent

(* Whoever is refused was below the minimum, or counted as free for an     *)
(* error of Supabase, within the TTL and the time of a fetch before        *)
(* (tier_auth.py:50-60, auth.py:115-123).                                  *)
THEOREM Refusals == Spec => RefusalHasCause
  <1>1. ASSUME TypeOK, ReadInv, [Next]_vars, NEW r \in Requests, Moves(r), pc'[r] = "tier_too_low"
        PROVE  \E t \in Tiers : ~AtLeast(t, MinTier[route[r]]) /\ Recent(held[t])
    <2>1. ~Serve(r)
      BY <1>1
      DEF Serve, TurnAway, List, Detail, DetailFromVps1, Gekko, Relay, UpstreamFails, ServeFails, Show, Answer,
          End, Enter, TypeOK, GateTypeOK
    <2>2. Gate(r)
      BY <1>1, <2>1, WhoMoves, ArrivalIsUnderWay
    <2>3. PICK t \in Tiers : Admit(r, t) /\ Recent(held[t])
      BY <1>1, <2>2, TierIsRecent
    <2>4. ~AtLeast(t, MinTier[route[r]])
      BY <1>1, <2>3 DEF Admit, Enter, TypeOK, GateTypeOK
    <2> QED
      BY <2>3, <2>4
  <1>2. TypeOK /\ ReadInv /\ [Next]_vars =>
          [\A r \in Requests :
             Moves(r) /\ pc'[r] = "tier_too_low"
               => \E t \in Tiers : ~AtLeast(t, MinTier[route[r]]) /\ Recent(held[t])]_gate
    BY <1>1
  <1> QED
    BY <1>2, TypeCorrect, Invariance, PTL DEF Spec, RefusalHasCause

(* What a step of Serve shows. *)
LEMMA Answers ==
  ASSUME TypeOK, ReadInv, NEW r \in Requests, Serve(r)
  PROVE  /\ answer'[r].holds \cap ProOnly # {} => tier[r] \in ProTiers
         /\ route[r] = "list" /\ answer'[r].shown \cap Old # {}
              => tier[r] \in ProTiers \/ tier[r] = "free"
         /\ route[r] = "detail" /\ pc'[r] = "not_found" => arrival[r].asked \notin persisted
  <1>0. tier[r] \in Tiers /\ RequestInv(r)
    BY DEF TypeOK, GateTypeOK, ReadInv
  <1>1. ASSUME NEW S, NEW b, Show(r, S, b)
        PROVE  answer'[r].shown = S /\ answer'[r].holds = b /\ pc'[r] = "ok"
    BY <1>1 DEF Show, Answer, End, TypeOK, GateTypeOK
  <1>2. ASSUME NEW status, Answer(r, status, Nothing)
        PROVE  answer'[r].shown = {} /\ answer'[r].holds = {} /\ pc'[r] = status
    BY <1>2 DEF Answer, End, Nothing, TypeOK, GateTypeOK
  <1>3. CASE List(r)
    <2>1. tier[r] = "global" => Window(tier[r]) \cap Old = {}
      BY DEF Window
    <2>2. PICK S \in SUBSET Window(tier[r]) : Show(r, S, {})
      BY <1>3 DEF List
    <2>3. answer'[r].shown = S /\ answer'[r].holds = {} /\ pc'[r] = "ok"
      BY <1>1, <2>2
    <2> QED
      BY <1>0, <2>1, <2>2, <2>3, TierFacts
  <1>4. CASE Detail(r)
    <2>1. CASE Show(r, {arrival[r].asked}, DetailParts(tier[r]))
      BY <1>0, <1>1, <1>4, <2>1, TierFacts DEF Detail, DetailParts, ProOnly, Unstripped
    <2>2. CASE Enter(r, "upstream", tier[r]) /\ UNCHANGED answer
      BY <1>0, <1>4, <2>2, UnderWayIsNoRest
      DEF Detail, Enter, TypeOK, GateTypeOK, RequestInv, LocalsOf, Nothing
    <2> QED
      BY <1>4, <2>1, <2>2 DEF Detail
  <1>5. CASE DetailFromVps1(r)
    <2>1. route[r] = "detail"
      BY <1>0, <1>5 DEF DetailFromVps1, RequestInv, OnItsRoute
    <2>2. CASE Show(r, {arrival[r].asked}, DetailParts(tier[r]))
      BY <1>0, <1>1, <2>1, <2>2, TierFacts DEF DetailParts, ProOnly, Unstripped
    <2>3. CASE arrival[r].asked \notin persisted /\ Answer(r, "not_found", Nothing)
      BY <1>2, <2>1, <2>3
    <2> QED
      BY <1>5, <2>2, <2>3 DEF DetailFromVps1
  <1>6. CASE Gekko(r)
    <2>1. route[r] = "detailed" => tier[r] \in ProTiers
      BY <1>0, <1>6, RouteFacts, TierFacts DEF Gekko, RequestInv, PassedTheGate
    <2>2. CASE Show(r, {arrival[r].asked}, {IF route[r] = "detailed" THEN "detailed" ELSE "levels"})
      BY <1>1, <1>6, <2>1, <2>2 DEF Gekko, ProOnly
    <2>3. CASE Answer(r, "not_found", Nothing)
      BY <1>2, <1>6, <2>3 DEF Gekko
    <2> QED
      BY <1>6, <2>2, <2>3 DEF Gekko
  <1>7. CASE Relay(r)
    <2>1. route[r] \notin Ungated => tier[r] \in ProTiers
      BY <1>0, <1>7, RouteFacts, TierFacts DEF Relay, RequestInv, PassedTheGate
    <2> QED
      BY <1>1, <1>7, <2>1 DEF Relay, Relayed, Ungated, ProOnly
  <1>8. CASE UpstreamFails(r)
    <2>1. Answer(r, "upstream_error", Nothing)
      BY <1>8 DEF UpstreamFails
    <2>2. answer'[r].shown = {} /\ answer'[r].holds = {} /\ pc'[r] = "upstream_error"
      BY <1>2, <2>1
    <2> QED
      BY <2>2
  <1>9. CASE ServeFails(r)
    BY <1>2, <1>9 DEF ServeFails
  <1>10. CASE TurnAway(r)
    <2>1. PICK status \in {"turned_away", "unhandled"} : Answer(r, status, Nothing)
      BY <1>10 DEF TurnAway
    <2>2. answer'[r].shown = {} /\ answer'[r].holds = {} /\ pc'[r] # "not_found"
      BY <1>2, <2>1
    <2> QED
      BY <2>2
  <1> QED
    BY <1>10, <1>3, <1>4, <1>5, <1>6, <1>7, <1>8, <1>9 DEF Serve

(* Only Serve shows anything. *)
LEMMA OnlyServeShows ==
  ASSUME TypeOK, ReadInv, [Next]_vars, NEW r \in Requests, Moves(r), ~Serve(r)
  PROVE  answer'[r] = Nothing /\ pc'[r] # "not_found"
  <1>1. CASE Gate(r)
    <2>1. pc[r] \in Reading /\ pc[r] \notin Resting
      BY <1>1 DEF Gate, GateStep, ReadCache, FetchTier, StoreTier, GateFails, Storing, Reading,
                  Resting, Answered
    <2>2. answer'[r] = Nothing
      BY <1>1, <2>1 DEF Gate, ReadInv, RequestInv, LocalsOf
    <2>3. pc'[r] # "not_found"
      BY <1>1 DEF Gate, GateStep, ReadCache, Miss, FetchTier, StoreTier, GateFails, Admit, Enter, End,
                  TypeOK, GateTypeOK
    <2> QED
      BY <2>2, <2>3
  <1> QED
    BY <1>1, WhoMoves, ArrivalIsUnderWay

(* Who lapsed is shown no detailed analysis and no tool that is for pro,   *)
(* on any route (v2_signals.py:72-74, v2_gekko.py, v2_tools.py).  Key      *)
(* levels, score and market regime of a signal are not withheld.           *)
THEOREM ProOnlyIsWithheld == Spec => ProOnlyNotForTheLapsed
  <1>1. ASSUME TypeOK, ReadInv, [Next]_vars, NEW r \in Requests, Shows(r, ProOnly)
        PROVE  ~arrival[r].lapsed
    <2>1. Serve(r)
      BY <1>1, OnlyServeShows DEF Nothing, Shows
    <2> QED
      BY <1>1, <2>1, Answers DEF ReadInv, RequestInv, LapsedIsNotPro, Shows
  <1>2. TypeOK /\ ReadInv /\ [Next]_vars =>
          [\A r \in Requests : Shows(r, ProOnly) => ~arrival[r].lapsed]_vars
    BY <1>1
  <1> QED
    BY <1>2, TypeCorrect, Invariance, PTL DEF Spec, ProOnlyNotForTheLapsed

(* The window of 24 h is missed by nobody but a user whose second read     *)
(* gave free (v2_signals.py:40-43).                                        *)
THEOREM Windows == Spec => WindowUnlessFree
  <1>1. ASSUME TypeOK, ReadInv, [Next]_vars, NEW r \in Requests, ListsOld(r)
        PROVE  ~arrival[r].lapsed \/ tier[r] = "free"
    <2>1. Serve(r)
      BY <1>1, OnlyServeShows DEF Nothing, ListsOld
    <2> QED
      BY <1>1, <2>1, Answers DEF ReadInv, RequestInv, LapsedIsNotPro, ListsOld
  <1>2. TypeOK /\ ReadInv /\ [Next]_vars =>
          [\A r \in Requests : ListsOld(r) => ~arrival[r].lapsed \/ tier[r] = "free"]_vars
    BY <1>1
  <1> QED
    BY <1>2, TypeCorrect, Invariance, PTL DEF Spec, WindowUnlessFree

(* get_signal answers 404 only for a signal that VPS-1 did not have when   *)
(* the request arrived (v2_signals.py:64-70).                              *)
THEOREM NotFoundOnlyWithoutVps1 == Spec => NotFoundIsTrue
  <1>1. ASSUME TypeOK, ReadInv, [Next]_vars, NEW r \in Requests,
               Moves(r), route[r] = "detail", pc'[r] = "not_found"
        PROVE  ~arrival[r].there
    <2>1. Serve(r)
      BY <1>1, OnlyServeShows
    <2> QED
      BY <1>1, <2>1, Answers DEF ReadInv, RequestInv, StillThere
  <1>2. TypeOK /\ ReadInv /\ [Next]_vars =>
          [\A r \in Requests :
             Moves(r) /\ route[r] = "detail" /\ pc'[r] = "not_found" => ~arrival[r].there]_vars
    BY <1>1
  <1> QED
    BY <1>2, TypeCorrect, Invariance, PTL DEF Spec, NotFoundIsTrue
=============================================================================
