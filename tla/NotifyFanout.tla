---------------------------- MODULE NotifyFanout ----------------------------
(***************************************************************************)
(* The Edge Function notify-subscribers: each call looks up the devices    *)
(* that want a signal, pushes to all of them at once through APNS, counts  *)
(* what became of the pushes in the order their answers arrive, switches   *)
(* off the tokens that APNS calls gone, and answers.  Calls overlap each   *)
(* other and the app's own writes to user_devices; one device may be       *)
(* registered by several users under the same token.  APNS and the app are *)
(* external.                                                               *)
(***************************************************************************)
EXTENDS Integers, FiniteSets

CONSTANTS
  Users,
  Devices,     \* user_devices: rows <<user, apns_token>> there may be
  Signals,     \* the signals VPS-2 may ask to fan out
  Entitled,    \* v_user_tier: users with an active tier other than free
  Subscribed,  \* user_pair_subscriptions: the rows of each user
  Calls        \* the POSTs of VPS-2

Recommendations == {"STRONG_GO", "GO", "NEUTRAL", "AVOID"}

ASSUME SignalsAssumption ==
  Signals \subseteq [symbol : STRING, recommendation : Recommendations, conviction : 1..10]
ASSUME UsersAssumption ==
  /\ Entitled \subseteq Users
  /\ \A u \in Users :
       Subscribed[u] \subseteq [symbol : STRING, min : 1..10,
                               notify : SUBSET {"STRONG_GO", "GO", "AVOID"}]
ASSUME DevicesAssumption == IsFiniteSet(Devices) /\ \A d \in Devices : d[1] \in Users

VARIABLES
  row,        \* user_devices: of each row whether notifications_enabled
  late,       \* database: calls whose update may still be applied though the
              \* handler has its error or was killed
  installed,  \* tokens whose app is installed
  pc,         \* handler: where it stands
  signal,     \* handler: the body
  open,       \* handler: targets whose push has not been settled
  push,       \* APNS: what it did with the push of a call to a target
  tally,      \* handler: dispatched, skipped, failed
  expired,    \* handler: tokens to switch off
  switched,   \* history: calls whose update was applied
  muted,      \* history: rows switched off by their owner
  current,    \* history: rows registered since the token was last uninstalled
  renewed,    \* history: calls and tokens registered after APNS told the call
              \* that they were gone
  raced       \* history: tokens registered between APNS's verdict and the last
              \* moment of the update it may lead to

app     == <<row, late, installed>>
handler == <<pc, signal, open, tally, expired>>
history == <<switched, muted, current, renewed, raced>>
vars    == <<app, handler, push, history>>

-----------------------------------------------------------------------------
Owner(d) == d[1]
Token(d) == d[2]
Tokens   == {Token(d) : d \in Devices}
WithToken(T) == {d \in Devices : Token(d) \in T}

Answered == {"refused", "lookup_failed", "unhandled", "answered"}
Ended    == Answered \cup {"killed"}
Stages   == {"idle", "lookup", "jwt", "push"} \cup Ended
Pushes   == {"none", "sent", "delivered", "gone", "rejected"}
Counters == {"dispatched", "skipped", "failed"}
Zero     == [k \in Counters |-> 0]
Count    == 0..Cardinality(Devices)

TypeOK ==
  /\ row \in [Devices -> {"absent", "on", "off"}]
  /\ late \subseteq Calls
  /\ installed \subseteq Tokens
  /\ pc \in [Calls -> Stages]
  /\ signal \in [Calls -> Signals]
  /\ open \in [Calls -> SUBSET Devices]
  /\ push \in [Calls -> [Devices -> Pushes]]
  /\ tally \in [Calls -> [Counters -> Count]]
  /\ expired \in [Calls -> SUBSET Tokens]
  /\ switched \subseteq Calls
  /\ muted \subseteq Devices /\ current \subseteq Devices
  /\ renewed \subseteq Calls \X Tokens
  /\ raced \subseteq Tokens

Init ==
  /\ row = [d \in Devices |-> "absent"]
  /\ late = {}
  /\ installed = Tokens
  /\ pc = [c \in Calls |-> "idle"]
  /\ signal \in [Calls -> Signals]
  /\ open = [c \in Calls |-> {}]
  /\ push = [c \in Calls |-> [d \in Devices |-> "none"]]
  /\ tally = [c \in Calls |-> Zero]
  /\ expired = [c \in Calls |-> {}]
  /\ switched = {} /\ muted = {} /\ current = {} /\ renewed = {} /\ raced = {}

-----------------------------------------------------------------------------
(* list_notification_targets: NEUTRAL has no flag, so nobody is told.      *)
(* Tiers and subscriptions are read only here, so that they stay the same  *)
(* is no loss: calls for different signals see different target lists.     *)
Wants(s, sig) ==
  /\ s.symbol = sig.symbol
  /\ s.min <= sig.conviction
  /\ sig.recommendation \in s.notify

Targets(sig) ==
  {d \in Devices : /\ row[d] = "on"
                   /\ Owner(d) \in Entitled
                   /\ \E s \in Subscribed[Owner(d)] : Wants(s, sig)}

Goto(c, stage) == pc' = [pc EXCEPT ![c] = stage]

(* verifyServiceRole and req.json *)
Receive(c) ==
  /\ pc[c] = "idle"
  /\ Goto(c, "lookup") \/ Goto(c, "refused")
  /\ UNCHANGED <<app, signal, open, tally, expired, push, history>>

Lookup(c) ==
  LET targets == Targets(signal[c]) IN
  /\ pc[c] = "lookup"
  /\ \/ Goto(c, "lookup_failed") /\ UNCHANGED open
     \/ targets = {} /\ Goto(c, "answered") /\ UNCHANGED open
     \/ targets # {} /\ Goto(c, "jwt") /\ open' = [open EXCEPT ![c] = targets]
  /\ UNCHANGED <<app, signal, tally, expired, push, history>>

(* An error of buildApnsJwt is not caught: no push was sent yet.  With the *)
(* token, Promise.all starts every push before it awaits one.              *)
SendAll(c) ==
  /\ pc[c] = "jwt"
  /\ \/ Goto(c, "unhandled") /\ UNCHANGED push
     \/ /\ Goto(c, "push")
        /\ push' = [push EXCEPT ![c] = [d \in Devices |-> IF d \in open[c] THEN "sent" ELSE "none"]]
  /\ UNCHANGED <<app, signal, open, tally, expired, history>>

(* sendApnsPush answers or throws; each answer is counted as it comes.     *)
Settle(c, d, count, gone) ==
  /\ pc[c] = "push" /\ d \in open[c]
  /\ open' = [open EXCEPT ![c] = @ \ {d}]
  /\ tally' = [tally EXCEPT ![c][count] = @ + 1]
  /\ expired' = [expired EXCEPT ![c] = @ \cup gone]
  /\ UNCHANGED <<app, pc, signal, push, history>>

(* Mutated forms of Skipped and Failed: the user is noted instead of the   *)
(* token; every failure counts as gone; an exception is only logged.       *)
SkippedByUser(c, d) == push[c][d] = "gone" /\ Settle(c, d, "skipped", {Owner(d)})
FailedAsGone(c, d)  == Settle(c, d, "failed", {Token(d)})
FailedUncounted(c, d) ==
  /\ pc[c] = "push" /\ d \in open[c]
  /\ open' = [open EXCEPT ![c] = @ \ {d}]
  /\ UNCHANGED <<app, pc, signal, tally, expired, push, history>>

Dispatched(c, d) == push[c][d] = "delivered" /\ Settle(c, d, "dispatched", {})
Skipped(c, d)    == push[c][d] = "gone" /\ Settle(c, d, "skipped", {Token(d)})
(* any other status, or an exception, whatever APNS did with the push *)
Failed(c, d)     == Settle(c, d, "failed", {})

(* UPDATE user_devices ... WHERE apns_token IN (expired): whoever owns the *)
(* row.                                                                    *)
SwitchOff(tokens) ==
  row' = [d \in Devices |-> IF Token(d) \in tokens /\ row[d] = "on" THEN "off" ELSE row[d]]

(* A call that has an update to do, or one that is still under way.        *)
Updates(c) == pc[c] = "push" /\ open[c] = {} /\ expired[c] # {}
AtWork(c)  == pc[c] = "push" \/ c \in late

(* Mutated form of Finish: only the rows that were pushed to are updated. *)
FinishTargetsOnly(c) ==
  /\ pc[c] = "push" /\ open[c] = {}
  /\ Goto(c, "answered")
  /\ row' = [d \in Devices |-> IF push[c][d] = "gone" THEN "off" ELSE row[d]]
  /\ switched' = switched \cup {c}
  /\ UNCHANGED <<late, installed, signal, open, tally, expired, push,
                 muted, current, renewed, raced>>

(* The error of the update is not looked at.  It may be applied yet, or    *)
(* never; so may the one that a killed handler was waiting for.            *)
Finish(c) ==
  /\ pc[c] = "push" /\ open[c] = {}
  /\ Goto(c, "answered")
  /\ \/ expired[c] = {} /\ UNCHANGED <<row, late, switched>>
     \/ /\ expired[c] # {} /\ SwitchOff(expired[c])
        /\ switched' = switched \cup {c} /\ UNCHANGED late
     \/ Updates(c) /\ late' = late \cup {c} /\ UNCHANGED <<row, switched>>
  /\ UNCHANGED <<installed, signal, open, tally, expired, push,
                 muted, current, renewed, raced>>

Kill(c) ==
  /\ pc[c] \notin Ended \cup {"idle"}
  /\ Goto(c, "killed")
  /\ late' = IF Updates(c) THEN late \cup {c} ELSE late
  /\ UNCHANGED <<row, installed, signal, open, tally, expired, push, history>>

(* The database applies an update whose handler has gone on without it.    *)
Land(c) ==
  /\ c \in late
  /\ late' = late \ {c}
  /\ SwitchOff(expired[c]) /\ switched' = switched \cup {c}
  /\ UNCHANGED <<installed, handler, push, muted, current, renewed, raced>>

-----------------------------------------------------------------------------
(* APNS carries out a push at its own time, also of a killed call.         *)
Apns(c, d) ==
  /\ push[c][d] = "sent"
  /\ \E verdict \in {"rejected", IF Token(d) \in installed THEN "delivered" ELSE "gone"} :
       push' = [push EXCEPT ![c][d] = verdict]
  /\ UNCHANGED <<app, handler, history>>

(* The app on a device: it registers its token for the signed-in user, its *)
(* user switches it off, it is uninstalled or installed again.             *)
Register(d) ==
  /\ Token(d) \in installed
  /\ row' = [row EXCEPT ![d] = "on"]
  /\ muted' = muted \ {d}
  /\ current' = current \cup {d}
  /\ LET told == {c \in Calls : \E e \in WithToken({Token(d)}) : push[c][e] = "gone"}
     IN  /\ renewed' = renewed \cup {<<c, Token(d)>> : c \in told}
         /\ raced' = raced \cup (IF \E c \in told : AtWork(c) THEN {Token(d)} ELSE {})
  /\ UNCHANGED <<installed, late, handler, push, switched>>

Mute(d) ==
  /\ row[d] = "on"
  /\ row' = [row EXCEPT ![d] = "off"]
  /\ muted' = muted \cup {d}
  /\ UNCHANGED <<installed, late, handler, push, switched, current, renewed, raced>>

Uninstall(t) ==
  /\ t \in installed
  /\ installed' = installed \ {t}
  /\ current' = current \ WithToken({t})
  /\ UNCHANGED <<row, late, handler, push, switched, muted, renewed, raced>>

Install(t) ==
  /\ t \notin installed
  /\ installed' = installed \cup {t}
  /\ UNCHANGED <<row, late, handler, push, history>>

Handle(c) ==
  \/ Receive(c) \/ Lookup(c) \/ SendAll(c) \/ Finish(c)
  \/ \E d \in Devices : Dispatched(c, d) \/ Skipped(c, d) \/ Failed(c, d)

Next ==
  \/ \E c \in Calls : Handle(c) \/ Kill(c) \/ Land(c) \/ \E d \in Devices : Apns(c, d)
  \/ \E d \in Devices : Register(d) \/ Mute(d)
  \/ \E t \in Tokens : Uninstall(t) \/ Install(t)

Spec == Init /\ [][Next]_vars
-----------------------------------------------------------------------------
Targeted(c) == {d \in Devices : push[c][d] # "none"}
Having(c, verdict) == {d \in Devices : push[c][d] = verdict}
Sum(t) == t["dispatched"] + t["skipped"] + t["failed"]

(* "Returns: { dispatched, skipped, failed }" (notify-subscribers/         *)
(* index.ts:21): in whatever order the answers come, every target is       *)
(* counted once, and never as better off than APNS left it.                *)
TallyIsTrue ==
  \A c \in Calls :
    LET t == tally[c] IN
    /\ pc[c] = "answered" => Sum(t) = Cardinality(Targeted(c))
    /\ t["dispatched"] <= Cardinality(Having(c, "delivered"))
    /\ t["skipped"] <= Cardinality(Having(c, "gone"))

(* A token that a call switched off stays off, for all its owners and      *)
(* however other calls interleave, until the app registers it again.       *)
GoneStaysSilent ==
  \A c \in switched : \A t \in expired[c] :
    <<c, t>> \notin renewed => \A d \in WithToken({t}) : row[d] # "on"

(* A row that the app has registered since its last installation is only   *)
(* off because its owner wanted so, or because a registration of the token *)
(* fell between APNS's verdict and the update of the call it was for, which *)
(* may be applied after that call has ended.                               *)
SilencedOnlyInARace ==
  \A d \in current : row[d] = "off" /\ d \notin muted => Token(d) \in raced

-----------------------------------------------------------------------------
(* The invariant that the properties above follow from.                    *)

Before == {"idle", "lookup", "jwt", "refused", "lookup_failed", "unhandled"}

(* Each target is open or counted once; what is counted as dispatched or   *)
(* skipped has its verdict; what is to be switched off was called gone.    *)
CallInv(c) ==
  /\ pc[c] \in Before => tally[c] = Zero /\ Targeted(c) = {}
  /\ pc[c] \in {"idle", "lookup", "answered"} => open[c] = {}
  /\ pc[c] \in {"push", "answered"} =>
       /\ open[c] \subseteq Targeted(c)
       /\ Sum(tally[c]) + Cardinality(open[c]) = Cardinality(Targeted(c))
  /\ tally[c]["dispatched"] <= Cardinality(Having(c, "delivered") \ open[c])
  /\ tally[c]["skipped"] <= Cardinality(Having(c, "gone") \ open[c])
  /\ \A t \in expired[c] : \E e \in WithToken({t}) : push[c][e] = "gone"
  /\ c \in switched \cup late => pc[c] \in {"answered", "killed"}

(* A row is registered on an installed app; if a call still at work, or    *)
(* its update, had its token called gone, the registration was later.      *)
RowInv(d) ==
  d \in current =>
    /\ Token(d) \in installed
    /\ \A c \in Calls : AtWork(c) /\ (\E e \in WithToken({Token(d)}) : push[c][e] = "gone")
         => Token(d) \in raced

(* The inductive invariant. *)
IInv ==
  /\ TypeOK
  /\ \A c \in Calls : CallInv(c)
  /\ \A d \in Devices : RowInv(d)
  /\ SilencedOnlyInARace
  /\ GoneStaysSilent
=============================================================================
