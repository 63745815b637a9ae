----------------------- MODULE SignalPipeline_proofs ------------------------
(* Proofs about SignalPipeline, for every set of signals and any number of *)
(* analyses.                                                               *)
EXTENDS SignalPipeline, TLAPS

(* A step of one webhook. *)
Step(p) == LosePost(p) \/ Deliver(p) \/ Handle(p) \/ Kill(p)

-----------------------------------------------------------------------------
(* Webhooks and rows. *)
LEMMA PostFacts ==
  ASSUME NEW p \in Posts
  PROVE  Sig(p) \in Signals /\ Ver(p) \in Versions /\ Ver(p) \in Nat \ {0} /\ p = <<Sig(p), Ver(p)>>
  BY MaxVersionAssumption DEF Posts, Sig, Ver, Versions

LEMMA PairFacts ==
  ASSUME NEW s \in Signals, NEW v \in Versions
  PROVE  <<s, v>> \in Posts /\ Sig(<<s, v>>) = s /\ Ver(<<s, v>>) = v
  BY DEF Posts, Sig, Ver

(* An upsert makes a row of the webhook's version and leaves the others.   *)
LEMMA UpsertedFacts ==
  ASSUME TypeOK, NEW p \in Posts
  PROVE  /\ Upserted(p) \in [Signals -> [base : 0..MaxVersion, ver : 0..MaxVersion]]
         /\ Upserted(p)[Sig(p)].ver = Ver(p)
         /\ Upserted(p)[Sig(p)].base = IF cache[Sig(p)].base = 0 THEN Ver(p) ELSE cache[Sig(p)].base
         /\ \A s \in Signals : s # Sig(p) => Upserted(p)[s] = cache[s]
  <1>1. cache[Sig(p)] \in [base : 0..MaxVersion, ver : 0..MaxVersion]
    BY PostFacts DEF TypeOK
  <1>2. [base |-> IF cache[Sig(p)].base = 0 THEN Ver(p) ELSE cache[Sig(p)].base, ver |-> Ver(p)]
          \in [base : 0..MaxVersion, ver : 0..MaxVersion]
    BY <1>1, PostFacts DEF Versions
  <1> QED
    BY <1>2, PostFacts DEF Upserted, TypeOK

LEMMA LenFacts ==
  ASSUME TypeOK, NEW s \in Signals
  PROVE  Len(analyses[s]) \in Nat /\ analyses[s] \in Seq(Recommendations)
  BY DEF TypeOK

(* One more analysis, which is posted if it recommends the trade.          *)
Analysed(s, rec, v) ==
  /\ v = Len(analyses[s]) + 1
  /\ analyses' = [analyses EXCEPT ![s] = Append(analyses[s], rec)]
  /\ Len(analyses'[s]) = v
  /\ \A t \in Signals : t # s => analyses'[t] = analyses[t]
  /\ \/ post' = post /\ raced' = raced
     \/ /\ post' = [post EXCEPT ![<<s, v>>] = "posted"]
        /\ raced' = raced \cup (IF {w \in Versions : post[<<s, w>>] \in UnderWay} = {} THEN {} ELSE {s})
  /\ cache' = cache /\ dead' = dead /\ fanOut' = fanOut /\ pushed' = pushed

LEMMA AnalyseFacts ==
  ASSUME TypeOK, NEW s \in Signals, NEW rec \in Recommendations, Analyse(s, rec)
  PROVE  \E v \in Versions : Analysed(s, rec, v)
  <1>1. Len(analyses[s]) + 1 \in Versions
    BY LenFacts, MaxVersionAssumption DEF Analyse, Versions
  <1>2. analyses' = [analyses EXCEPT ![s] = Append(analyses[s], rec)]
    BY DEF Analyse
  <1>3. Len(analyses'[s]) = Len(analyses[s]) + 1 /\ \A t \in Signals : t # s => analyses'[t] = analyses[t]
    <2>1. Len(Append(analyses[s], rec)) = Len(analyses[s]) + 1
      BY LenFacts
    <2> QED
      BY <1>2, <2>1 DEF TypeOK
  <1> QED
    BY <1>1, <1>2, <1>3 DEF Analyse, MoveTo, Analysed

-----------------------------------------------------------------------------
(* Type correctness. *)
LEMMA TypeInit == Init => TypeOK
  <1>1. <<>> \in Seq(Recommendations) /\ Len(<<>>) = 0 /\ 0 \in 0..MaxVersion
    BY MaxVersionAssumption
  <1> QED
    BY <1>1, MaxVersionAssumption DEF Init, TypeOK, PostStates, FanOutStates, Posts, Versions

LEMMA TypeAnalyse ==
  ASSUME TypeOK, NEW s \in Signals, NEW rec \in Recommendations, Analyse(s, rec)
  PROVE  TypeOK'
  <1>1. PICK v \in Versions : Analysed(s, rec, v)
    BY AnalyseFacts
  <1>2. analyses' \in [Signals -> Seq(Recommendations)]
    <2>1. Append(analyses[s], rec) \in Seq(Recommendations)
      BY LenFacts
    <2> QED
      BY <1>1, <2>1 DEF TypeOK, Analysed
  <1>3. \A t \in Signals : Len(analyses'[t]) <= MaxVersion
    BY <1>1 DEF TypeOK, Versions, Analysed
  <1>4. post' \in [Posts -> PostStates] /\ raced' \subseteq Signals
    BY <1>1, PairFacts DEF TypeOK, PostStates, UnderWay, Analysed
  <1> QED
    BY <1>1, <1>2, <1>3, <1>4 DEF TypeOK, Analysed

LEMMA TypeWebhook ==
  ASSUME TypeOK, NEW p \in Posts, Step(p)
  PROVE  TypeOK'
  <1>1. analyses' = analyses /\ raced' = raced
    BY DEF Step, LosePost, Deliver, Handle, Upsert, Park, Notify, Kill, KillHandler, KillTask
  <1>2. post' \in [Posts -> PostStates]
    BY DEF Step, LosePost, Deliver, Handle, Upsert, Park, Notify, Kill, KillHandler, KillTask,
           MoveTo, TypeOK, PostStates,
           UnderWay, Answered
  <1>3. fanOut' \in [Posts -> FanOutStates]
    BY DEF Step, LosePost, Deliver, Handle, Upsert, Park, Notify, Kill, KillHandler, KillTask,
           TypeOK, FanOutStates
  <1>4. dead' \subseteq Posts /\ pushed' \subseteq Posts
    BY DEF Step, LosePost, Deliver, Handle, Upsert, Park, Notify, Kill, KillHandler, KillTask, TypeOK
  <1>5. cache' \in [Signals -> [base : 0..MaxVersion, ver : 0..MaxVersion]]
    BY UpsertedFacts DEF Step, LosePost, Deliver, Handle, Upsert, Park, Notify, Kill, KillHandler,
                         KillTask, TypeOK
  <1> QED
    BY <1>1, <1>2, <1>3, <1>4, <1>5 DEF TypeOK

LEMMA TypeStep == TypeOK /\ [Next]_vars => TypeOK'
  <1>1. TypeOK /\ UNCHANGED vars => TypeOK'
    BY DEF vars, TypeOK
  <1> QED
    BY <1>1, TypeAnalyse, TypeWebhook DEF Next, Step

-----------------------------------------------------------------------------
(* What a webhook's step does to its signal's row. *)
LEMMA RowFacts ==
  ASSUME TypeOK, NEW p \in Posts, Step(p), NEW s \in Signals
  PROVE  \/ cache'[s] = cache[s]
         \/ /\ s = Sig(p) /\ post[p] = "upsert"
            /\ cache'[s].ver = Ver(p)
            /\ cache'[s].base = IF cache[s].base = 0 THEN Ver(p) ELSE cache[s].base
  BY UpsertedFacts DEF Step, LosePost, Deliver, Handle, Upsert, Park, Notify, Kill, KillHandler, KillTask

LEMMA WebhookFrame ==
  ASSUME TypeOK, NEW p \in Posts, Step(p)
  PROVE  /\ analyses' = analyses /\ raced' = raced
         /\ \A q \in Posts : q # p => post'[q] = post[q] /\ fanOut'[q] = fanOut[q]
         /\ dead \subseteq dead' /\ dead' \subseteq dead \cup {p}
         /\ pushed \subseteq pushed' /\ pushed' \subseteq pushed \cup {p}
         /\ post'[p] # "none" => post[p] # "none"
         /\ post'[p] \in UnderWay => post[p] \in UnderWay
         /\ post'[p] = "accepted" => \/ post[p] = "accepted"
                                     \/ /\ post[p] = "upsert" /\ cache' = Upserted(p)
  <1>1. analyses' = analyses /\ raced' = raced
    BY DEF Step, LosePost, Deliver, Handle, Upsert, Park, Notify, Kill, KillHandler, KillTask
  <1>2. \A q \in Posts : q # p => post'[q] = post[q] /\ fanOut'[q] = fanOut[q]
    BY DEF Step, LosePost, Deliver, Handle, Upsert, Park, Notify, Kill, KillHandler, KillTask, MoveTo, TypeOK
  <1>3. /\ dead \subseteq dead' /\ dead' \subseteq dead \cup {p}
        /\ pushed \subseteq pushed' /\ pushed' \subseteq pushed \cup {p}
    BY DEF Step, LosePost, Deliver, Handle, Upsert, Park, Notify, Kill, KillHandler, KillTask
  <1>4. /\ post'[p] # "none" => post[p] # "none"
        /\ post'[p] \in UnderWay => post[p] \in UnderWay
        /\ post'[p] = "accepted" => \/ post[p] = "accepted"
                                    \/ /\ post[p] = "upsert" /\ cache' = Upserted(p)
    BY DEF Step, LosePost, Deliver, Handle, Upsert, Park, Notify, Kill, KillHandler, KillTask,
           MoveTo, TypeOK, UnderWay
  <1> QED
    BY <1>1, <1>2, <1>3, <1>4

-----------------------------------------------------------------------------
(* The invariant, for a webhook's step. *)
LEMMA PostInvStep ==
  ASSUME TypeOK, NEW p \in Posts, Step(p), NEW q \in Posts, PostInv(p), PostInv(q)
  PROVE  PostInv(q)'
  <1>1. cache[Sig(q)].ver # 0 => cache'[Sig(q)].ver # 0
    BY RowFacts, PostFacts
  <1>2. (post[q] # "none" => Ver(q) <= Len(analyses[Sig(q)]))'
    BY WebhookFrame DEF PostInv
  <1>3. CASE q # p
    BY <1>1, <1>2, <1>3, WebhookFrame DEF PostInv
  <1>4. CASE q = p
    <2>1. (post[p] = "persist_failed" => p \in dead)'
      BY DEF Step, LosePost, Deliver, Handle, Upsert, Park, Notify, Kill, KillHandler, KillTask,
             MoveTo, TypeOK, PostInv
    <2>2. (fanOut[p] # "none" => cache[Sig(p)].ver # 0)'
      <3>1. CASE fanOut[p] # "none"
        BY <1>1, <1>4, <3>1 DEF PostInv
      <3>2. CASE fanOut[p] = "none" /\ fanOut'[p] # "none"
        <4>1. cache' = Upserted(p)
          BY <3>2 DEF Step, LosePost, Deliver, Handle, Upsert, Park, Notify, Kill, KillHandler,
                      KillTask, MoveTo, TypeOK
        <4> QED
          BY <4>1, UpsertedFacts, PostFacts
      <3> QED
        BY <3>1, <3>2
    <2>3. (p \in pushed => fanOut[p] # "none")'
      BY DEF Step, LosePost, Deliver, Handle, Upsert, Park, Notify, Kill, KillHandler, KillTask,
             MoveTo, TypeOK, PostInv
    <2> QED
      BY <1>2, <1>4, <2>1, <2>2, <2>3 DEF PostInv
  <1> QED
    BY <1>3, <1>4

LEMMA CacheInvStep ==
  ASSUME TypeOK, NEW p \in Posts, Step(p), PostInv(p), NEW s \in Signals, CacheInv(s)
  PROVE  CacheInv(s)'
  BY RowFacts, PostFacts, WebhookFrame DEF CacheInv, PostInv

LEMMA OrderedStep ==
  ASSUME TypeOK, NEW p \in Posts, Step(p), NEW s \in Signals, CacheInv(s), Ordered(s)
  PROVE  Ordered(s)'
  <1> SUFFICES ASSUME s \notin raced
               PROVE  /\ (cache[s].base <= cache[s].ver)'
                      /\ \A v \in Versions :
                           /\ (post[<<s, v>>] \in UnderWay)' =>
                                /\ cache'[s].ver <= v
                                /\ \A w \in Versions : (post[<<s, w>>] \in UnderWay)' => w = v
                           /\ (post[<<s, v>>] = "accepted")' => v <= cache'[s].ver
    BY WebhookFrame DEF Ordered
  <1>1. /\ cache[s].base <= cache[s].ver
        /\ \A v \in Versions :
             /\ post[<<s, v>>] \in UnderWay =>
                  /\ cache[s].ver <= v
                  /\ \A w \in Versions : post[<<s, w>>] \in UnderWay => w = v
             /\ post[<<s, v>>] = "accepted" => v <= cache[s].ver
    BY DEF Ordered
  <1>2. \A v \in Versions : (post[<<s, v>>] \in UnderWay)' => post[<<s, v>>] \in UnderWay
    BY WebhookFrame, PairFacts
  <1>3. CASE Sig(p) # s
    <2>1. cache'[s] = cache[s]
      BY <1>3, RowFacts
    <2>2. \A v \in Versions : post'[<<s, v>>] = post[<<s, v>>]
      BY <1>3, WebhookFrame, PairFacts
    <2> QED
      BY <1>1, <2>1, <2>2
  <1>4. CASE Sig(p) = s /\ cache'[s] = cache[s]
    <2>1. \A v \in Versions : (post[<<s, v>>] = "accepted")' => v <= cache[s].ver
      BY <1>1, <1>4, WebhookFrame, PairFacts, PostFacts, UpsertedFacts
    <2> QED
      BY <1>1, <1>2, <1>4, <2>1
  <1>5. CASE Sig(p) = s /\ cache'[s] # cache[s]
    <2>1. /\ post[p] = "upsert" /\ cache'[s].ver = Ver(p)
          /\ cache'[s].base = IF cache[s].base = 0 THEN Ver(p) ELSE cache[s].base
      BY <1>5, RowFacts
    <2>2. p = <<s, Ver(p)>> /\ Ver(p) \in Versions /\ cache[s].ver <= Ver(p)
          /\ \A w \in Versions : post[<<s, w>>] \in UnderWay => w = Ver(p)
      BY <1>1, <1>5, <2>1, PostFacts DEF UnderWay
    <2>3. cache[s].ver \in Int /\ cache[s].base \in Int /\ \A v \in Versions : v \in Int
      BY DEF TypeOK, Versions
    <2>4. \A v \in Versions : v # Ver(p) => post'[<<s, v>>] = post[<<s, v>>]
      BY WebhookFrame, PairFacts
    <2> QED
      BY <1>1, <1>2, <2>1, <2>2, <2>3, <2>4
  <1> QED
    BY <1>3, <1>4, <1>5

-----------------------------------------------------------------------------
(* The invariant, for one more analysis. *)
LEMMA AnalysisInv ==
  ASSUME IInv, NEW s \in Signals, NEW rec \in Recommendations, NEW v \in Versions, Analysed(s, rec, v)
  PROVE  /\ \A q \in Posts : PostInv(q)'
         /\ \A t \in Signals : CacheInv(t)' /\ Ordered(t)'
  <1>0. TypeOK
    BY DEF IInv
  <1>1. \A t \in Signals : /\ Len(analyses[t]) \in Nat
                           /\ Len(analyses'[t]) = IF t = s THEN Len(analyses[t]) + 1 ELSE Len(analyses[t])
    BY <1>0, LenFacts DEF Analysed
  <1>2. \A q \in Posts : \/ post'[q] = post[q]
                         \/ q = <<s, v>> /\ post'[q] = "posted"
    BY <1>0 DEF Analysed, TypeOK
  <1>3. ASSUME NEW q \in Posts PROVE PostInv(q)'
    <2>1. PostInv(q)
      BY DEF IInv
    <2>2. (post[q] # "none" => Ver(q) <= Len(analyses[Sig(q)]))'
      BY <1>1, <1>2, <2>1, PostFacts, PairFacts DEF PostInv, Analysed
    <2> QED
      BY <1>2, <2>1, <2>2 DEF PostInv, Analysed
  <1>4. ASSUME NEW t \in Signals PROVE CacheInv(t)'
    <2>1. CacheInv(t) /\ cache[t].ver \in Nat
      BY <1>0 DEF IInv, TypeOK
    <2> QED
      BY <1>1, <2>1 DEF CacheInv, Analysed
  <1>5. ASSUME NEW t \in Signals PROVE Ordered(t)'
    <2> SUFFICES ASSUME t \notin raced'
                 PROVE  /\ cache[t].base <= cache[t].ver
                        /\ \A w \in Versions :
                             /\ (post[<<t, w>>] \in UnderWay)' =>
                                  /\ cache[t].ver <= w
                                  /\ \A x \in Versions : (post[<<t, x>>] \in UnderWay)' => x = w
                             /\ (post[<<t, w>>] = "accepted")' => w <= cache[t].ver
      BY DEF Ordered, Analysed
    <2>1. /\ cache[t].base <= cache[t].ver
          /\ \A w \in Versions :
               /\ post[<<t, w>>] \in UnderWay =>
                    /\ cache[t].ver <= w
                    /\ \A x \in Versions : post[<<t, x>>] \in UnderWay => x = w
               /\ post[<<t, w>>] = "accepted" => w <= cache[t].ver
      BY DEF IInv, Ordered, Analysed
    <2>2. CASE t # s \/ post' = post
      <3>1. \A w \in Versions : post'[<<t, w>>] = post[<<t, w>>]
        BY <1>2, <2>2, PairFacts
      <3> QED
        BY <2>1, <3>1
    <2>3. CASE t = s /\ post' # post
      <3>1. \A w \in Versions : post[<<s, w>>] \notin UnderWay
        BY <2>3 DEF Analysed
      <3>2. cache[s].ver <= v
        BY <1>1 DEF IInv, CacheInv, Analysed, TypeOK
      <3>3. \A w \in Versions : post'[<<s, w>>] = IF w = v THEN "posted" ELSE post[<<s, w>>]
        BY <1>0, <2>3, PairFacts DEF Analysed, TypeOK
      <3>4. "posted" \in UnderWay
        BY DEF UnderWay
      <3> QED
        BY <2>1, <2>3, <3>1, <3>2, <3>3, <3>4
    <2> QED
      BY <2>2, <2>3
  <1> QED
    BY <1>3, <1>4, <1>5

LEMMA InvInit == Init => IInv
  <1> SUFFICES ASSUME Init PROVE IInv
    OBVIOUS
  <1>1. \A p \in Posts : PostInv(p)
    BY DEF Init, PostInv
  <1>2. \A s \in Signals : CacheInv(s)
    <2>1. Len(<<>>) = 0
      OBVIOUS
    <2>2. \A s \in Signals : analyses[s] = <<>> /\ cache[s].ver = 0 /\ cache[s].base = 0
      BY DEF Init
    <2> SUFFICES ASSUME NEW s \in Signals PROVE CacheInv(s)
      OBVIOUS
    <2>3. Len(analyses[s]) = 0
      BY <2>1, <2>2, Zenon
    <2>4. cache[s].ver = 0 /\ cache[s].base = 0
      BY <2>2
    <2> QED
      BY <2>3, <2>4 DEF CacheInv
  <1>3. \A s \in Signals : Ordered(s)
    <2>1. \A s \in Signals, v \in Versions : post[<<s, v>>] = "none"
      BY PairFacts DEF Init
    <2> QED
      BY <2>1 DEF Init, Ordered, UnderWay
  <1> QED
    BY <1>1, <1>2, <1>3, TypeInit DEF IInv

LEMMA InvStep == IInv /\ [Next]_vars => IInv'
  <1> SUFFICES ASSUME IInv, [Next]_vars PROVE IInv'
    OBVIOUS
  <1>1. TypeOK'
    BY TypeStep DEF IInv
  <1>2. ASSUME NEW s \in Signals, NEW rec \in Recommendations, Analyse(s, rec) PROVE IInv'
    <2>1. PICK v \in Versions : Analysed(s, rec, v)
      BY <1>2, AnalyseFacts DEF IInv
    <2> QED
      BY <1>1, <2>1, AnalysisInv DEF IInv
  <1>3. ASSUME NEW p \in Posts, Step(p) PROVE IInv'
    BY <1>1, <1>3, PostInvStep, CacheInvStep, OrderedStep DEF IInv
  <1>4. CASE UNCHANGED vars
    BY <1>4 DEF IInv, TypeOK, PostInv, CacheInv, Ordered, vars
  <1> QED
    BY <1>2, <1>3, <1>4 DEF Next, Step

(* In every interleaving of threads, handlers, background tasks, losses    *)
(* and kills, a row is as new as what was accepted, unless webhooks raced. *)
THEOREM Invariance == Spec => []IInv
  BY InvInit, InvStep, PTL DEF Spec

(* Nothing is fanned out that a subscriber could not read.                 *)
THEOREM Readable == Spec => []ReadableWhenPushed
  <1>1. IInv => ReadableWhenPushed
    BY DEF IInv, PostInv, ReadableWhenPushed
  <1> QED
    BY <1>1, Invariance, PTL

(* What was answered 202 stays visible, in that version or a later one.    *)
THEOREM Visible == Spec => []AcceptedStaysVisible
  <1>1. IInv => AcceptedStaysVisible
    BY PostFacts DEF IInv, Ordered, AcceptedStaysVisible
  <1> QED
    BY <1>1, Invariance, PTL

(* What was answered "persist failed" is in the dead letters.              *)
THEOREM Parked == Spec => []RefusedIsParked
  <1>1. IInv => RefusedIsParked
    BY DEF IInv, PostInv, RefusedIsParked
  <1> QED
    BY <1>1, Invariance, PTL

(* A row goes back to an older analysis only if two webhooks of its signal *)
(* were under way at once.                                                 *)
THEOREM Forward == Spec => NoRegression
  <1>1. IInv /\ [Next]_vars => [\A s \in Signals : cache'[s].ver < cache[s].ver => s \in raced]_vars
    <2> SUFFICES ASSUME IInv, [Next]_vars, NEW s \in Signals, cache'[s].ver < cache[s].ver, s \notin raced
                 PROVE  FALSE
      OBVIOUS
    <2>0. TypeOK /\ Ordered(s) /\ cache[s].ver \in Nat
      BY DEF IInv, TypeOK
    <2>1. ASSUME NEW p \in Posts, Step(p) PROVE FALSE
      <3>1. s = Sig(p) /\ post[p] = "upsert" /\ cache'[s].ver = Ver(p)
        BY <2>0, <2>1, RowFacts
      <3>2. cache[s].ver <= Ver(p)
        BY <2>0, <3>1, PostFacts DEF Ordered, UnderWay
      <3> QED
        BY <2>0, <3>1, <3>2, PostFacts
    <2>2. ASSUME NEW t \in Signals, NEW rec \in Recommendations, Analyse(t, rec) PROVE FALSE
      BY <2>0, <2>2 DEF Analyse
    <2>3. CASE UNCHANGED vars
      BY <2>0, <2>3 DEF vars
    <2> QED
      BY <2>1, <2>2, <2>3 DEF Next, Step
  <1> QED
    BY <1>1, Invariance, PTL DEF Spec, NoRegression
=============================================================================
