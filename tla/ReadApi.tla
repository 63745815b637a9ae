------------------------------ MODULE ReadApi ------------------------------
(***************************************************************************)
(* What the /api/v2 routes show to a request that TierGate has let in:     *)
(* signals from signal_cache, one signal with a fallback to VPS-1, Gekko's *)
(* analyses, and answers of VPS-1.  VPS-1 persists a signal, and its       *)
(* webhook caches it later; nothing is ever removed from signal_cache.     *)
(***************************************************************************)
EXTENDS TierGate, FiniteSets

CONSTANTS
  Signals,
  Old         \* signals received more than 24 h ago

ASSUME SignalsAssumption == Old \subseteq Signals

VARIABLES
  persisted,  \* VPS-1: its signals
  rows,       \* VPS-2: the signals in signal_cache
  answer,     \* what the answer to a request shows: signals, and which
              \* parts of them or of the tools beyond a summary
  arrival     \* the signal a request is about; history: whether the user had
              \* not been pro lately then and has not become so since, and
              \* whether VPS-1 had the signal then

signals == <<persisted, rows>>
vars    == <<gate, signals, answer, arrival>>

(* The parts: key_levels; score and market_regime of a signal;             *)
(* gekko_detailed and tools_used; the score and backtest tools.            *)
Parts   == {"levels", "context", "detailed", "tool"}
ProOnly == {"detailed", "tool"}

Nothing   == [shown |-> {}, holds |-> {}]
NoArrival == [asked |-> None, lapsed |-> FALSE, there |-> FALSE]

TypeOK ==
  /\ GateTypeOK
  /\ rows \subseteq persisted /\ persisted \subseteq Signals
  /\ answer \in [Requests -> [shown : SUBSET Signals, holds : SUBSET Parts]]
  /\ arrival \in [Requests -> [asked : Signals \cup {None}, lapsed : BOOLEAN, there : BOOLEAN]]

Init ==
  /\ GateInit
  /\ persisted = Old /\ rows = Old
  /\ answer = [r \in Requests |-> Nothing]
  /\ arrival = [r \in Requests |-> NoArrival]

-----------------------------------------------------------------------------
ProTiers == {t \in Tiers : AtLeast(t, "pro")}
AboutOne == {"detail", "basic", "detailed"}
Relayed  == {"price", "leverage", "score", "backtest"}

ArriveAt(r, rt, s) ==
  /\ rt \in Served[r]
  /\ rt \in AboutOne <=> s \in Signals
  /\ Arrive(r, rt)
  /\ arrival' = [arrival EXCEPT ![r] = [asked  |-> s,
                                        lapsed |-> \A t \in ProTiers : ~Recent(held[t]),
                                        there  |-> s \in persisted]]
  /\ answer' = [answer EXCEPT ![r] = Nothing]
  /\ UNCHANGED signals

Answer(r, status, a) ==
  /\ End(r, status)
  /\ answer' = [answer EXCEPT ![r] = a]
  /\ arrival' = [arrival EXCEPT ![r] = NoArrival]
  /\ UNCHANGED <<store, held, signals>>

Show(r, S, parts) == Answer(r, "ok", [shown |-> S, holds |-> parts])

(* get_current_user does not accept the token (401), or enforce_rate_limit *)
(* the user (429); or the signing keys or Redis cannot be reached.         *)
TurnAway(r) ==
  /\ pc[r] \in Resting
  /\ \E status \in {"turned_away", "unhandled"} : Answer(r, status, Nothing)

(* Mutated form of Window: the branches exchanged. *)
WindowExchanged(t) == IF t = "global" THEN rows ELSE rows \ Old

(* list_signals: only for the tier global there is a since. *)
Window(t) == IF t = "global" THEN rows \ Old ELSE rows

(* The filters and the limit of the request pick from the window. *)
List(r) ==
  /\ pc[r] = "open" /\ route[r] = "list"
  /\ \E S \in SUBSET Window(tier[r]) : Show(r, S, {})

(* Mutated form of Unstripped: require_tier has let the user in. *)
UnstrippedForAll(t) == AtLeast(t, "global")

(* get_signal: for whom gekko_detailed and tools_used are not stripped *)
Unstripped(t) == AtLeast(t, "pro")

(* SignalDetail has everything a row has, less what is stripped. *)
DetailParts(t) == {"levels", "context"} \cup (IF Unstripped(t) THEN {"detailed"} ELSE {})

(* Mutated form of Detail: nothing but signal_cache is asked. *)
DetailCachedOnly(r) ==
  /\ pc[r] = "open" /\ route[r] = "detail"
  /\ LET s == arrival[r].asked IN
       \/ s \in rows /\ Show(r, {s}, DetailParts(tier[r]))
       \/ s \notin rows /\ Answer(r, "not_found", Nothing)

(* get_signal: signal_cache, or else VPS-1 *)
Detail(r) ==
  /\ pc[r] = "open" /\ route[r] = "detail"
  /\ LET s == arrival[r].asked IN
       \/ s \in rows /\ Show(r, {s}, DetailParts(tier[r]))
       \/ /\ s \notin rows
          /\ Enter(r, "upstream", tier[r])
          /\ UNCHANGED <<store, held, signals, answer, arrival>>

DetailFromVps1(r) ==
  /\ pc[r] = "upstream"
  /\ LET s == arrival[r].asked IN
       \/ s \in persisted /\ Show(r, {s}, DetailParts(tier[r]))
       \/ s \notin persisted /\ Answer(r, "not_found", Nothing)

(* get_gekko_basic, key_levels among it, and get_gekko_detailed: no        *)
(* fallback, and a signal may lack the analysis.                           *)
Gekko(r) ==
  /\ pc[r] = "open" /\ route[r] \in {"basic", "detailed"}
  /\ LET s == arrival[r].asked IN
       \/ s \in rows /\ Show(r, {s}, {IF route[r] = "detailed" THEN "detailed" ELSE "levels"})
       \/ Answer(r, "not_found", Nothing)

(* v2_prices and v2_tools hand on what VPS-1 answers. *)
Relay(r) ==
  /\ pc[r] = "open" /\ route[r] \in Relayed
  /\ Show(r, {}, IF route[r] \in Ungated THEN {} ELSE {"tool"})

(* VPS-1 answers with an error, which becomes the status of the answer. *)
UpstreamFails(r) ==
  /\ \/ pc[r] = "upstream"
     \/ pc[r] = "open" /\ route[r] \in Relayed
  /\ Answer(r, "upstream_error", Nothing)

(* Postgres raises, or VPS-1 does not answer in time or not with the       *)
(* fields of the model: a 500.                                             *)
ServeFails(r) ==
  /\ pc[r] \in {"open", "upstream"}
  /\ Answer(r, "unhandled", Nothing)

Serve(r) ==
  \/ TurnAway(r) \/ List(r) \/ Detail(r) \/ DetailFromVps1(r) \/ Gekko(r) \/ Relay(r)
  \/ UpstreamFails(r) \/ ServeFails(r)

Gate(r) ==
  /\ GateStep(r)
  /\ arrival' = [arrival EXCEPT ![r] = IF pc'[r] \in Answered THEN NoArrival ELSE @]
  /\ UNCHANGED <<signals, answer>>

Handle(r) == Gate(r) \/ Serve(r)

(* gekko_agent persists a signal; its webhook reaches upsert_signal.       *)
Persist(s) ==
  /\ s \notin persisted
  /\ persisted' = persisted \cup {s}
  /\ UNCHANGED <<gate, rows, answer, arrival>>

Upsert(s) ==
  /\ s \in persisted \ rows
  /\ rows' = rows \cup {s}
  /\ UNCHANGED <<gate, persisted, answer, arrival>>

Time == Tick /\ UNCHANGED <<signals, answer, arrival>>

Subscription ==
  /\ ProfileChanges
  /\ arrival' = [r \in Requests |->
       [asked  |-> arrival[r].asked,
        lapsed |-> arrival[r].lapsed /\ Entitled(profile') \notin ProTiers,
        there  |-> arrival[r].there]]
  /\ UNCHANGED <<signals, answer>>

Next ==
  \/ Time \/ Subscription
  \/ \E s \in Signals : Persist(s) \/ Upsert(s)
  \/ \E r \in Requests : Handle(r)
  \/ \E r \in Requests, rt \in Routes, s \in Signals \cup {None} : ArriveAt(r, rt, s)

Spec == Init /\ [][Next]_vars

-----------------------------------------------------------------------------
(* The inductive invariant.  A request at rest has no locals, one under    *)
(* way no answer yet; a user who is not pro is not taken for pro by any    *)
(* request, whichever of its reads it is at; a request past a single read  *)
(* has a tier that suffices, and only certain routes read again or ask     *)
(* VPS-1 for a signal; VPS-1 still has what it had.                        *)
LocalsOf(r) ==
  /\ pc[r] \in Resting => tier[r] = "free" /\ arrival[r] = NoArrival
  /\ pc[r] \notin Resting => answer[r] = Nothing

LapsedIsNotPro(r) ==
  arrival[r].lapsed => tier[r] \notin ProTiers /\ \A t \in ProTiers : held[t] = Horizon

PassedTheGate(r) ==
  pc[r] = "open" /\ route[r] \notin Ungated \cup ReadsAgain
    => AtLeast(tier[r], MinTier[route[r]])

OnItsRoute(r) ==
  /\ pc[r] \in {"second", "second_fetch", "second_store"} => route[r] \in ReadsAgain
  /\ pc[r] = "upstream" => route[r] = "detail"

StillThere(r) == arrival[r].there => arrival[r].asked \in persisted

RequestInv(r) ==
  LocalsOf(r) /\ LapsedIsNotPro(r) /\ PassedTheGate(r) /\ OnItsRoute(r) /\ StillThere(r)

ReadInv == TypeOK /\ GateInv /\ \A r \in Requests : RequestInv(r)

(* Detailed analyses and tools are for pro and above (SKULLTRADING_iOS_    *)
(* SPEC.md:183-187): one who had not been pro for the time of the cache    *)
(* and a fetch when the request arrived, nor became so before the answer,  *)
(* is shown none, on whichever route and by whatever two reads of the tier.*)
(* Of key levels it is not true (KeyLevelsForPro).                         *)
Shows(r, parts) == Moves(r) /\ answer'[r].holds \cap parts # {}

ProOnlyNotForTheLapsed ==
  [][\A r \in Requests : Shows(r, ProOnly) => ~arrival[r].lapsed]_vars

(* The tier "Signals Pro" adds "risques, key levels" to the one before it  *)
(* (SKULLTRADING_iOS_SPEC.md:19): key levels are shown only to who is pro. *)
(* get_signal and get_gekko_basic show them to every tier from global on.  *)
KeyLevelsForPro ==
  [][\A r \in Requests : Shows(r, {"levels"}) => ~arrival[r].lapsed]_vars

ListsOld(r) == Moves(r) /\ route[r] = "list" /\ answer'[r].shown \cap Old # {}

(* "global : signals from the last 24 h; pro+ : signals from the last 7    *)
(* days" (v2_signals.py:37-38): who is not pro is listed no older signal.  *)
WindowByTier == [][\A r \in Requests : ListsOld(r) => ~arrival[r].lapsed]_vars

(* The one exception to WindowByTier: between the two reads of the tier it *)
(* became free, for which list_signals has no window (v2_signals.py:40-43).*)
WindowUnlessFree ==
  [][\A r \in Requests : ListsOld(r) => ~arrival[r].lapsed \/ tier[r] = "free"]_vars

(* A client that follows a push or a list finds the signal: get_signal     *)
(* does not answer 404 for what VPS-1 had when the request arrived, cached *)
(* yet or not (v2_signals.py:64-70).                                       *)
NotFoundIsTrue ==
  [][\A r \in Requests :
       Moves(r) /\ route[r] = "detail" /\ pc'[r] = "not_found" => ~arrival[r].there]_vars
=============================================================================
