--------------------------- MODULE SignalPipeline ---------------------------
(***************************************************************************)
(* A signal on its way from VPS-1 to the subscribers: each analysis that   *)
(* Gekko persists and recommends is posted by a thread of its own, without *)
(* retry; VPS-2 upserts it into signal_cache or parks it in                *)
(* signal_dead_letter, answers, and only then asks Supabase, in a          *)
(* background task, to fan it out.  Threads and handlers overtake each     *)
(* other; a thread or a worker may die at any point; any call may fail,    *)
(* also after having had its effect.                                       *)
(***************************************************************************)
EXTENDS Integers, Sequences

CONSTANTS
  Signals,      \* signal ids of VPS-1
  MaxVersion    \* bound: analyses of one signal

ASSUME MaxVersionAssumption == MaxVersion \in Nat \ {0}

Versions == 1..MaxVersion
Posts    == Signals \X Versions     \* one per analysis that is emitted

Recommendations == {"STRONG_GO", "GO", "NEUTRAL", "AVOID"}

VARIABLES
  analyses,  \* VPS-1: the recommendation of each analysis, in order
  post,      \* where the webhook of an analysis is
  cache,     \* signal_cache: the version that inserted the row of a signal,
             \* and the one its updated columns come from; 0 for no row
  dead,      \* signal_dead_letter
  fanOut,    \* the background task of a webhook
  pushed,    \* fan-outs that notify-subscribers began
  raced      \* history: signals of which two webhooks were under way at once

vars == <<analyses, post, cache, dead, fanOut, pushed, raced>>

Sig(p) == p[1]
Ver(p) == p[2]

UnderWay == {"posted", "upsert", "park"}
Answered == {"accepted", "persist_failed", "unhandled"}
PostStates == {"none", "lost", "killed"} \cup UnderWay \cup Answered
FanOutStates == {"none", "queued", "sent", "failed", "killed"}

TypeOK ==
  /\ analyses \in [Signals -> Seq(Recommendations)]
  /\ \A s \in Signals : Len(analyses[s]) <= MaxVersion
  /\ post \in [Posts -> PostStates]
  /\ cache \in [Signals -> [base : 0..MaxVersion, ver : 0..MaxVersion]]
  /\ dead \subseteq Posts
  /\ fanOut \in [Posts -> FanOutStates]
  /\ pushed \subseteq Posts
  /\ raced \subseteq Signals

Init ==
  /\ analyses = [s \in Signals |-> <<>>]
  /\ post = [p \in Posts |-> "none"]
  /\ cache = [s \in Signals |-> [base |-> 0, ver |-> 0]]
  /\ dead = {}
  /\ fanOut = [p \in Posts |-> "none"]
  /\ pushed = {}
  /\ raced = {}

-----------------------------------------------------------------------------
MoveTo(p, state) == post' = [post EXCEPT ![p] = state]

Emits(rec) == rec \in {"STRONG_GO", "GO"}

(* gekko_agent persists an analysis and, when it recommends the trade,     *)
(* emit_signal_to_app_vps starts a thread that posts it.                   *)
Analyse(s, rec) ==
  LET v == Len(analyses[s]) + 1
      others == {w \in Versions : post[<<s, w>>] \in UnderWay}
  IN  /\ v <= MaxVersion
      /\ analyses' = [analyses EXCEPT ![s] = Append(@, rec)]
      /\ IF Emits(rec) THEN /\ MoveTo(<<s, v>>, "posted")
                            /\ raced' = raced \cup (IF others = {} THEN {} ELSE {s})
                       ELSE UNCHANGED <<post, raced>>
      /\ UNCHANGED <<cache, dead, fanOut, pushed>>

(* Mutated form of LosePost: what was lost is posted again some time later. *)
LosePostRetried(p) ==
  /\ \/ post[p] = "posted" /\ MoveTo(p, "lost")
     \/ post[p] = "lost" /\ MoveTo(p, "posted")
  /\ UNCHANGED <<analyses, cache, dead, fanOut, pushed, raced>>

(* _post: VPS-2 unreachable, not ready or refusing (401, 422), or the end  *)
(* of the VPS-1 process, whose daemon threads die with it.                 *)
LosePost(p) ==
  /\ post[p] = "posted"
  /\ MoveTo(p, "lost")
  /\ UNCHANGED <<analyses, cache, dead, fanOut, pushed, raced>>

(* verify_service_token and the payload's validation have passed; this may *)
(* be after the emitter's timeout, which changes nothing here.             *)
Deliver(p) ==
  /\ post[p] = "posted"
  /\ MoveTo(p, "upsert")
  /\ UNCHANGED <<analyses, cache, dead, fanOut, pushed, raced>>

(* Mutated form of Upserted: ON CONFLICT DO NOTHING. *)
UpsertedOnce(p) ==
  [cache EXCEPT ![Sig(p)] = IF @.base = 0 THEN [base |-> Ver(p), ver |-> Ver(p)] ELSE @]

(* INSERT ... ON CONFLICT DO UPDATE: an existing row keeps received_at and *)
(* expires_at of the version that inserted it.                             *)
Upserted(p) ==
  [cache EXCEPT ![Sig(p)] = [base |-> IF @.base = 0 THEN Ver(p) ELSE @.base, ver |-> Ver(p)]]

(* Mutated forms of Upsert: the fan-out is queued before the row is known  *)
(* to be there; it is never queued.                                        *)
UpsertEager(p) ==
  /\ post[p] = "upsert"
  /\ \/ cache' = Upserted(p) /\ MoveTo(p, "accepted")
     \/ cache' \in {cache, Upserted(p)} /\ MoveTo(p, "park")
  /\ fanOut' = [fanOut EXCEPT ![p] = "queued"]
  /\ UNCHANGED <<analyses, dead, pushed, raced>>
UpsertSilent(p) ==
  /\ post[p] = "upsert"
  /\ \/ cache' = Upserted(p) /\ MoveTo(p, "accepted")
     \/ cache' \in {cache, Upserted(p)} /\ MoveTo(p, "park")
  /\ UNCHANGED <<analyses, dead, fanOut, pushed, raced>>

Upsert(p) ==
  /\ post[p] = "upsert"
  /\ \/ /\ cache' = Upserted(p)
        /\ MoveTo(p, "accepted")
        /\ fanOut' = [fanOut EXCEPT ![p] = "queued"]
     \/ /\ cache' \in {cache, Upserted(p)}
        /\ MoveTo(p, "park")
        /\ UNCHANGED fanOut
  /\ UNCHANGED <<analyses, dead, pushed, raced>>

(* Mutated forms of Park: its own failure is not looked at; on a failure   *)
(* the upsert is tried again.                                              *)
ParkUnchecked(p) ==
  /\ post[p] = "park"
  /\ dead' \in {dead, dead \cup {p}}
  /\ MoveTo(p, "persist_failed")
  /\ UNCHANGED <<analyses, cache, fanOut, pushed, raced>>
ParkRetries(p) ==
  /\ post[p] = "park"
  /\ \/ dead' = dead \cup {p} /\ MoveTo(p, "persist_failed")
     \/ UNCHANGED dead /\ MoveTo(p, "upsert")
  /\ UNCHANGED <<analyses, cache, fanOut, pushed, raced>>

(* Parking goes through the same pool as the upsert that has just failed. *)
Park(p) ==
  /\ post[p] = "park"
  /\ \/ dead' = dead \cup {p} /\ MoveTo(p, "persist_failed")
     \/ dead' \in {dead, dead \cup {p}} /\ MoveTo(p, "unhandled")
  /\ UNCHANGED <<analyses, cache, fanOut, pushed, raced>>

(* Mutated form of Notify: the background task writes the row once more. *)
NotifyRewrites(p) ==
  /\ fanOut[p] = "queued"
  /\ pushed' = pushed \cup {p}
  /\ fanOut' = [fanOut EXCEPT ![p] = "sent"]
  /\ cache' = Upserted(p)
  /\ UNCHANGED <<analyses, post, dead, raced>>

(* trigger_notify_subscribers: every failure is logged and swallowed. *)
Notify(p) ==
  /\ fanOut[p] = "queued"
  /\ \/ pushed' = pushed \cup {p} /\ fanOut' = [fanOut EXCEPT ![p] = "sent"]
     \/ pushed' \in {pushed, pushed \cup {p}} /\ fanOut' = [fanOut EXCEPT ![p] = "failed"]
  /\ UNCHANGED <<analyses, post, cache, dead, raced>>

(* The worker ends, with the handlers and the background tasks it runs;    *)
(* what they were waiting for may have had its effect.                     *)
KillHandler(p) ==
  /\ \/ post[p] = "upsert" /\ cache' \in {cache, Upserted(p)} /\ UNCHANGED dead
     \/ post[p] = "park" /\ dead' \in {dead, dead \cup {p}} /\ UNCHANGED cache
  /\ MoveTo(p, "killed")
  /\ UNCHANGED <<analyses, fanOut, pushed, raced>>

KillTask(p) ==
  /\ fanOut[p] = "queued"
  /\ fanOut' = [fanOut EXCEPT ![p] = "killed"]
  /\ pushed' \in {pushed, pushed \cup {p}}
  /\ UNCHANGED <<analyses, post, cache, dead, raced>>

Kill(p) == KillHandler(p) \/ KillTask(p)

Handle(p) == Upsert(p) \/ Park(p) \/ Notify(p)

Next ==
  \/ \E s \in Signals, rec \in Recommendations : Analyse(s, rec)
  \/ \E p \in Posts : LosePost(p) \/ Deliver(p) \/ Handle(p) \/ Kill(p)

(* A running handler or background task gets on or dies with its worker.   *)
(* Nothing is assumed of the network or of VPS-1.                          *)
Fairness == \A p \in Posts : WF_vars(Handle(p) \/ Kill(p))

Spec == Init /\ [][Next]_vars
FairSpec == Spec /\ Fairness

-----------------------------------------------------------------------------
(* The upsert has no ordering guard (cache.py:57-68), so an older analysis *)
(* can replace a newer one; only when two webhooks of the signal were      *)
(* under way at once.                                                      *)
NoRegression ==
  [][\A s \in Signals : cache'[s].ver < cache[s].ver => s \in raced]_vars

(* A subscriber who taps a push finds the signal: fan-out is only asked    *)
(* for what has been persisted (internal.py:46-48), so that what failed to *)
(* be sent can be replayed from signal_cache.                              *)
ReadableWhenPushed ==
  \A p \in Posts :
    p \in pushed \/ fanOut[p] # "none" => cache[Sig(p)].ver # 0

(* What VPS-2 answered 202 to stays visible, in that version or a later    *)
(* one, under a received_at that is not from a later version.              *)
AcceptedStaysVisible ==
  \A p \in Posts :
    post[p] = "accepted" /\ Sig(p) \notin raced
      => /\ cache[Sig(p)].ver >= Ver(p)
         /\ cache[Sig(p)].base <= cache[Sig(p)].ver

(* A webhook answered "persist failed" (internal.py:52-61) is parked.      *)
RefusedIsParked == \A p \in Posts : post[p] = "persist_failed" => p \in dead

(* "Inspect any webhooks that arrived during the outage in the             *)
(* signal_cache_dead_letter table" (ops/runbook.md:298-299).               *)
OutageIsParked == \A p \in Posts : post[p] = "lost" => p \in dead

(* A delivered webhook is answered, and an accepted one is fanned out or   *)
(* given up, unless the worker dies.                                       *)
DeliveredIsAnswered ==
  \A p \in Posts : post[p] = "upsert" ~> post[p] \in Answered \cup {"killed"}
AcceptedIsFannedOut ==
  \A p \in Posts : post[p] = "accepted" ~> fanOut[p] \in {"sent", "failed", "killed"}

-----------------------------------------------------------------------------
(* The invariant that the safety properties above follow from.             *)

(* What the place of a webhook tells of its row and of its fan-out.        *)
PostInv(p) ==
  /\ post[p] # "none" => Ver(p) <= Len(analyses[Sig(p)])
  /\ post[p] = "persist_failed" => p \in dead
  /\ fanOut[p] # "none" => cache[Sig(p)].ver # 0
  /\ p \in pushed => fanOut[p] # "none"

CacheInv(s) ==
  /\ cache[s].ver <= Len(analyses[s])
  /\ cache[s].base = 0 <=> cache[s].ver = 0

(* Without a race the only webhook of a signal that is under way is the    *)
(* newest that was posted, and the row holds one that is no older than any *)
(* that was accepted.                                                      *)
Ordered(s) ==
  s \notin raced =>
    /\ cache[s].base <= cache[s].ver
    /\ \A v \in Versions :
         /\ post[<<s, v>>] \in UnderWay =>
              /\ cache[s].ver <= v
              /\ \A w \in Versions : post[<<s, w>>] \in UnderWay => w = v
         /\ post[<<s, v>>] = "accepted" => v <= cache[s].ver

(* The inductive invariant. *)
IInv ==
  /\ TypeOK
  /\ \A p \in Posts : PostInv(p)
  /\ \A s \in Signals : CacheInv(s) /\ Ordered(s)
=============================================================================
