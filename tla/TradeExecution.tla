--------------------------- MODULE TradeExecution ---------------------------
(***************************************************************************)
(* The Edge Function binance-execute: each POST is a handler that checks   *)
(* the caller's tier, loads and decrypts the Binance credentials, sets     *)
(* leverage and margin mode, places a market entry, a stop loss and a take *)
(* profit, writes one trade_executions row and answers.  Handlers of one   *)
(* or of several users run concurrently, the runtime may kill a handler    *)
(* between any two awaits, and every call to Binance is unreliable: it may *)
(* be carried out long after the handler gave up on it, or its answer may  *)
(* be lost.  Binance itself is external and modelled by its answers.       *)
(***************************************************************************)
EXTENDS Integers

CONSTANTS
  Users,            \* owners of a profile and of at most one credentials row
  Symbols,          \* the futures markets
  Keys,             \* Binance API keys, one per Binance account
  Requests,         \* the POSTs the clients may send
  Bodies,           \* the bodies a POST may carry
  Lapsing,          \* bound: users whose tier changes meanwhile
  Relinking,        \* bound: users whose credentials change meanwhile
  DefaultLeverage   \* what an account trades with before it is told otherwise

ASSUME BodiesAssumption ==
  Bodies \subseteq [user : Users, symbol : Symbols, leverage : Nat, wellFormed : BOOLEAN]
ASSUME BoundsAssumption == Lapsing \subseteq Users /\ Relinking \subseteq Users
ASSUME KeysAssumption == Keys # {}
ASSUME LeverageAssumption == DefaultLeverage \in Nat

VARIABLES
  profile,   \* v_user_tier of each user
  cred,      \* binance_credentials row of each user
  market,    \* Binance: leverage and margin mode of an account in a market
  calls,     \* Binance: what became of each call of each request
  fills,     \* Binance: the market entries executed, with the settings they met
  rows,      \* trade_executions
  lastUsed,  \* users whose credentials row has a last_used_at
  pc,        \* handler: the await it stands at
  body,      \* handler: the parsed body (ExecuteBody and the caller)
  loaded,    \* handler: credRow
  got,       \* handler: what it knows of each call it made
  reply      \* the response the client received

exchange == <<market, calls, fills>>
database == <<profile, cred, rows, lastUsed>>
handler  == <<pc, loaded, got, reply>>
vars == <<exchange, database, handler, body>>

-----------------------------------------------------------------------------
(* The order of the Binance calls, each followed by the await reached when *)
(* it succeeds and the one reached when it throws.                         *)
PreFlight == {"leverage", "mode"}
Brackets  == {"sl", "tp"}
Orders    == {"entry"} \cup Brackets
Kinds     == PreFlight \cup Orders

(* Mutated form of OnSuccess: the take profit is placed before the stop    *)
(* loss.                                                                   *)
OnSuccessTakeProfitFirst == [leverage |-> "mode", mode |-> "entry", entry |-> "tp",
                             tp |-> "sl", sl |-> "record"]

OnSuccess == [leverage |-> "mode", mode |-> "entry", entry |-> "sl", sl |-> "tp", tp |-> "record"]
(* Mutated forms of OnError, each a catch block that goes on where the code *)
(* returns or leaves: a retried pre-flight, a swallowed error of the       *)
(* leverage, of the margin mode, of the entry and of the stop loss.        *)
OnErrorRetries == [leverage |-> "recordFailure", mode |-> "leverage", entry |-> "recordFailure",
                   sl |-> "record", tp |-> "record"]
OnErrorAnyLeverage == [leverage |-> "mode", mode |-> "recordFailure", entry |-> "recordFailure",
                       sl |-> "record", tp |-> "record"]
OnErrorAnyMode == [leverage |-> "recordFailure", mode |-> "entry", entry |-> "recordFailure",
                   sl |-> "record", tp |-> "record"]
OnErrorAnyEntry == [leverage |-> "recordFailure", mode |-> "recordFailure", entry |-> "sl",
                    sl |-> "record", tp |-> "record"]
OnErrorAnyStop == [leverage |-> "recordFailure", mode |-> "recordFailure",
                   entry |-> "recordFailure", sl |-> "tp", tp |-> "record"]

OnError   == [leverage |-> "recordFailure", mode |-> "recordFailure", entry |-> "recordFailure",
              sl |-> "record", tp |-> "record"]

Ended    == {"done", "killed"}
Stages   == {"idle", "tier", "creds", "decrypt", "record", "recordFailure", "touch", "respond"}
            \cup Kinds \cup Ended
Refusals == {"unauthorized", "invalid", "profile_missing", "tier_required", "lookup_failed",
             "not_connected", "decryption_failed"}
Verdicts == {"failed_pre_flight", "failed_entry", "partial", "filled"}
Replies  == {"none"} \cup Refusals \cup Verdicts

Profiles == {"free", "lapsed", "paid"}
(* readable: both ciphertexts were made under the master key that key_id names *)
Credential == [state : {"absent", "active", "inactive"}, key : Keys, readable : BOOLEAN]
NoCredential == [state |-> "absent", key |-> CHOOSE k \in Keys : TRUE, readable |-> FALSE]
Settings  == [leverage : Nat, mode : {"CROSSED", "ISOLATED"}]
CallState == {"unsent", "sent", "done", "already", "rejected"}
Knowledge == {"none", "ok", "error"}
Status    == {"failed", "partial", "filled"}
(* ids: the orders whose id the row names *)
Row == [req : Requests, status : Status, ids : SUBSET Orders]

Market(r)  == <<loaded[r].key, body[r].symbol>>
Live(r, k) == calls[r][k] = "done"
Known(r, k) == got[r][k] = "ok"

(* validateBody: leverage is the one checked number whose value is used    *)
(* later; wellFormed stands for the other fields.                          *)
ValidBody(b) == b.wellFormed /\ b.leverage \in 1..125

(* Mutated form of BracketError: the take profit's error is forgotten. *)
BracketErrorOfStopOnly(r) == got[r].sl = "error"

BracketError(r) == got[r].sl = "error" \/ got[r].tp = "error"

TypeOK ==
  /\ profile \in [Users -> Profiles]
  /\ cred \in [Users -> Credential]
  /\ market \in [Keys \X Symbols -> Settings]
  /\ calls \in [Requests -> [Kinds -> CallState]]
  /\ fills \subseteq [req : Requests, leverage : Nat, mode : {"CROSSED", "ISOLATED"}]
  /\ rows \subseteq Row
  /\ lastUsed \subseteq Users
  /\ pc \in [Requests -> Stages]
  /\ body \in [Requests -> Bodies]
  /\ loaded \in [Requests -> Credential]
  /\ got \in [Requests -> [Kinds -> Knowledge]]
  /\ reply \in [Requests -> Replies]

Init ==
  /\ profile \in [Users -> Profiles]
  /\ cred \in [Users -> Credential]
  /\ market = [m \in Keys \X Symbols |-> [leverage |-> DefaultLeverage, mode |-> "CROSSED"]]
  /\ calls = [r \in Requests |-> [k \in Kinds |-> "unsent"]]
  /\ fills = {}
  /\ rows = {}
  /\ lastUsed = {}
  /\ pc = [r \in Requests |-> "idle"]
  /\ body \in [Requests -> Bodies]
  /\ loaded = [r \in Requests |-> NoCredential]
  /\ got = [r \in Requests |-> [k \in Kinds |-> "none"]]
  /\ reply = [r \in Requests |-> "none"]

-----------------------------------------------------------------------------
(* The handler up to its first call of Binance.                            *)
Goto(r, stage) == pc' = [pc EXCEPT ![r] = stage]

Refuse(r, why) ==
  /\ Goto(r, "done")
  /\ reply' = [reply EXCEPT ![r] = why]
  /\ UNCHANGED loaded

(* requireAuthedUser and the body checks *)
Receive(r) ==
  /\ pc[r] = "idle"
  /\ \/ Refuse(r, "unauthorized")
     \/ ~ValidBody(body[r]) /\ Refuse(r, "invalid")
     \/ ValidBody(body[r]) /\ Goto(r, "tier") /\ UNCHANGED <<reply, loaded>>
  /\ UNCHANGED <<exchange, database, got, body>>

CheckTier(r) ==
  /\ pc[r] = "tier"
  /\ \/ Refuse(r, "profile_missing")
     \/ profile[body[r].user] # "paid" /\ Refuse(r, "tier_required")
     \/ profile[body[r].user] = "paid" /\ Goto(r, "creds") /\ UNCHANGED <<reply, loaded>>
  /\ UNCHANGED <<exchange, database, got, body>>

(* Mutated form of LoadCredentials: is_active is not looked at. *)
LoadCredentialsOfAnyState(r) ==
  LET row == cred[body[r].user] IN
  /\ pc[r] = "creds"
  /\ row.state # "absent"
  /\ Goto(r, "decrypt")
  /\ loaded' = [loaded EXCEPT ![r] = row]
  /\ UNCHANGED <<exchange, database, got, reply, body>>

LoadCredentials(r) ==
  LET row == cred[body[r].user] IN
  /\ pc[r] = "creds"
  /\ \/ Refuse(r, "lookup_failed")
     \/ row.state # "active" /\ Refuse(r, "not_connected")
     \/ /\ row.state = "active"
        /\ Goto(r, "decrypt")
        /\ loaded' = [loaded EXCEPT ![r] = row]
        /\ UNCHANGED reply
  /\ UNCHANGED <<exchange, database, got, body>>

Decrypt(r) ==
  /\ pc[r] = "decrypt"
  /\ \/ Refuse(r, "decryption_failed")
     \/ loaded[r].readable /\ Goto(r, "leverage") /\ UNCHANGED <<reply, loaded>>
  /\ UNCHANGED <<exchange, database, got, body>>

-----------------------------------------------------------------------------
(* signedRequest: a call is sent, carried out or rejected by Binance at    *)
(* its own time, and known to the handler by its answer or by an error.    *)
(* Mutated form of Send: each call reads the credentials row afresh. *)
SendRereading(r, k) ==
  /\ pc[r] = k
  /\ calls[r][k] = "unsent"
  /\ calls' = [calls EXCEPT ![r][k] = "sent"]
  /\ loaded' = [loaded EXCEPT ![r] = cred[body[r].user]]
  /\ UNCHANGED <<market, fills, database, pc, got, reply, body>>

Send(r, k) ==
  /\ pc[r] = k
  /\ calls[r][k] = "unsent"
  /\ calls' = [calls EXCEPT ![r][k] = "sent"]
  /\ UNCHANGED <<market, fills, database, handler, body>>

(* Mutated form of Acknowledge: the call is not awaited. *)
AcknowledgeUnawaited(r, k) ==
  /\ pc[r] = k
  /\ calls[r][k] \in {"sent", "done", "already"}
  /\ got' = [got EXCEPT ![r][k] = "ok"]
  /\ Goto(r, OnSuccess[k])
  /\ UNCHANGED <<exchange, database, loaded, reply, body>>

Acknowledge(r, k) ==
  /\ pc[r] = k
  /\ calls[r][k] \in {"done", "already"}
  /\ got' = [got EXCEPT ![r][k] = "ok"]
  /\ Goto(r, OnSuccess[k])
  /\ UNCHANGED <<exchange, database, loaded, reply, body>>

(* BinanceError, or a failed fetch whose outcome at Binance is unknown *)
CallFails(r, k) ==
  /\ pc[r] = k
  /\ calls[r][k] # "unsent"
  /\ got' = [got EXCEPT ![r][k] = "error"]
  /\ Goto(r, OnError[k])
  /\ UNCHANGED <<exchange, database, loaded, reply, body>>

-----------------------------------------------------------------------------
(* Binance.                                                                *)
CarryOut(r, k, outcome) ==
  /\ calls[r][k] = "sent"
  /\ calls' = [calls EXCEPT ![r][k] = outcome]
  /\ UNCHANGED <<database, handler, body>>

ApplyLeverage(r) ==
  /\ CarryOut(r, "leverage", "done")
  /\ market' = [market EXCEPT ![Market(r)].leverage = body[r].leverage]
  /\ UNCHANGED fills

ApplyIsolated(r) ==
  /\ market[Market(r)].mode = "CROSSED"
  /\ CarryOut(r, "mode", "done")
  /\ market' = [market EXCEPT ![Market(r)].mode = "ISOLATED"]
  /\ UNCHANGED fills

(* code -4046, which setMarginType turns into success *)
AlreadyIsolated(r) ==
  /\ market[Market(r)].mode = "ISOLATED"
  /\ CarryOut(r, "mode", "already")
  /\ UNCHANGED <<market, fills>>

FillEntry(r) ==
  /\ CarryOut(r, "entry", "done")
  /\ fills' = fills \cup {[req |-> r, leverage |-> market[Market(r)].leverage,
                           mode |-> market[Market(r)].mode]}
  /\ UNCHANGED market

AcceptBracket(r, k) ==
  /\ CarryOut(r, k, "done")
  /\ UNCHANGED <<market, fills>>

RejectCall(r, k) ==
  /\ CarryOut(r, k, "rejected")
  /\ UNCHANGED <<market, fills>>

-----------------------------------------------------------------------------
(* Recording and answering.  The error an insert returns is not looked at. *)
(* The answer to a call may have come without an id, or not be JSON        *)
(* (binance.ts:60): then the row names no order of it.                     *)
Named(r) == SUBSET {k \in Orders : Known(r, k)}
Insert(row) == rows' \in {rows, rows \cup {row}}

(* Mutated form of InsertExecution: the brackets do not count. *)
InsertExecutionAsFilled(r) ==
  /\ pc[r] = "record"
  /\ \E ids \in Named(r) : Insert([req |-> r, status |-> "filled", ids |-> ids])
  /\ Goto(r, "touch")
  /\ UNCHANGED <<exchange, profile, cred, lastUsed, loaded, got, reply, body>>

InsertExecution(r) ==
  /\ pc[r] = "record"
  /\ \E ids \in Named(r) :
       Insert([req |-> r, status |-> IF BracketError(r) THEN "partial" ELSE "filled", ids |-> ids])
  /\ Goto(r, "touch")
  /\ UNCHANGED <<exchange, profile, cred, lastUsed, loaded, got, reply, body>>

PersistFailure(r) ==
  /\ pc[r] = "recordFailure"
  /\ Insert([req |-> r, status |-> "failed", ids |-> {}])
  /\ Goto(r, "respond")
  /\ UNCHANGED <<exchange, profile, cred, lastUsed, loaded, got, reply, body>>

TouchCredentials(r) ==
  /\ pc[r] = "touch"
  /\ lastUsed' \in {lastUsed, lastUsed \cup {body[r].user}}
  /\ Goto(r, "respond")
  /\ UNCHANGED <<exchange, profile, cred, rows, loaded, got, reply, body>>

Verdict(r) ==
  IF got[r].leverage = "error" \/ got[r].mode = "error" THEN "failed_pre_flight"
  ELSE IF got[r].entry = "error" THEN "failed_entry"
  ELSE IF BracketError(r) THEN "partial"
  ELSE "filled"

Respond(r) ==
  /\ pc[r] = "respond"
  /\ Goto(r, "done")
  /\ reply' = [reply EXCEPT ![r] = Verdict(r)]
  /\ UNCHANGED <<exchange, database, loaded, got, body>>

(* the Edge runtime ends the isolate: wall-clock limit, deploy, crash *)
Kill(r) ==
  /\ pc[r] \notin Ended \cup {"idle"}
  /\ Goto(r, "killed")
  /\ UNCHANGED <<exchange, database, loaded, got, reply, body>>

-----------------------------------------------------------------------------
(* Writers of the tables the handler reads: RevenueCat updates and the     *)
(* passing of subscription_expires_at; binance-connect and -disconnect.    *)
ProfileChanges(u) ==
  /\ \E p \in Profiles : profile' = [profile EXCEPT ![u] = p]
  /\ UNCHANGED <<exchange, cred, rows, lastUsed, handler, body>>

CredentialsChange(u) ==
  /\ \E row \in Credential : cred' = [cred EXCEPT ![u] = row]
  /\ UNCHANGED <<exchange, profile, rows, lastUsed, handler, body>>

Handle(r) ==
  \/ Receive(r) \/ CheckTier(r) \/ LoadCredentials(r) \/ Decrypt(r)
  \/ \E k \in Kinds : Send(r, k) \/ Acknowledge(r, k) \/ CallFails(r, k)
  \/ InsertExecution(r) \/ PersistFailure(r) \/ TouchCredentials(r) \/ Respond(r)

Binance(r) ==
  \/ ApplyLeverage(r) \/ ApplyIsolated(r) \/ AlreadyIsolated(r) \/ FillEntry(r)
  \/ \E k \in Brackets : AcceptBracket(r, k)
  \/ \E k \in Kinds : RejectCall(r, k)

Execute == \E r \in Requests : Handle(r) \/ Binance(r) \/ Kill(r)

Next ==
  \/ Execute
  \/ \E u \in Lapsing : ProfileChanges(u)
  \/ \E u \in Relinking : CredentialsChange(u)

(* A handler that was entered either gets on or is ended by the runtime:   *)
(* fetch has no timeout here, but the platform's wall-clock limit does     *)
(* what a timeout would.  Nothing is assumed of Binance.                   *)
Fairness == \A r \in Requests : WF_vars((Handle(r) /\ pc[r] # "idle") \/ Kill(r))

Spec == Init /\ [][Next]_vars
FairSpec == Spec /\ Fairness

-----------------------------------------------------------------------------
(* Properties.                                                             *)
Told(r, status) ==
  \/ reply[r] = status
  \/ \E row \in rows : row.req = r /\ row.status = status

(* A client or a row that says "filled" (execute/index.ts:188-239) is only *)
(* ever right: entry, stop loss and take profit are all at Binance.        *)
FilledIsBracketed ==
  \A r \in Requests : Told(r, "filled") => \A k \in Orders : Live(r, k)

(* "partial" (:220-232) means a live position that lacks an acknowledged   *)
(* bracket; it is never said of an entry that did not execute.             *)
PartialHoldsPosition ==
  \A r \in Requests :
    Told(r, "partial") => Live(r, "entry") /\ \E k \in Brackets : ~Known(r, k)

(* A refused request made no call, and one that failed in pre-flight sent  *)
(* no order: neither can have a position now or later.                     *)
RefusalSendsNothing ==
  \A r \in Requests :
    /\ reply[r] \in Refusals => \A k \in Kinds : calls[r][k] = "unsent"
    /\ reply[r] = "failed_pre_flight" => \A k \in Orders : calls[r][k] = "unsent"

(* closePosition brackets act on whatever position the account has, so one *)
(* that is sent before its own entry is live, or a take profit without the *)
(* stop loss, would close or cap somebody else's trade (:164-185).         *)
BracketsFollowEntry ==
  \A r \in Requests :
    /\ calls[r]["sl"] # "unsent" => Live(r, "entry")
    /\ calls[r]["tp"] # "unsent" => Live(r, "sl")

(* The row and the response of a request tell the same story, there is at  *)
(* most one row per request, and an order id in it names a live order.     *)
LedgerAgrees ==
  \A row \in rows :
    /\ \A k \in row.ids : Live(row.req, k)
    /\ reply[row.req] # "none" =>
         reply[row.req] \in (IF row.status = "failed" THEN {"failed_pre_flight", "failed_entry"}
                                                     ELSE {row.status})
    /\ \A other \in rows : other.req = row.req => other = row

(* An entry executes ISOLATED, and at a leverage that a request for the    *)
(* same account and market confirmed: with one such request at a time, its *)
(* own; with two interleaved between :143 and :153, possibly the other's.  *)
EntrySettings ==
  \A f \in fills :
    /\ f.mode = "ISOLATED"
    /\ \E r \in Requests :
         /\ Live(r, "leverage")
         /\ Market(r) = Market(f.req)
         /\ body[r].leverage = f.leverage

(* After the response no order of the request becomes live, but for the    *)
(* outcomes that tell the client to look: "partial" and a failed entry.    *)
NoOrderAfterTheAnswer ==
  [][\A r \in Requests : \A k \in Orders :
       (reply[r] # "none" /\ ~Live(r, k) /\ Live(r, k)')
         => reply[r] = (IF k = "entry" THEN "failed_entry" ELSE "partial")]_vars

(* An executed entry ran at a leverage the table's CHECK and validateBody  *)
(* allow, whatever body the request carried (:59-77).                      *)
LegalLeverage == \A f \in fills : f.leverage \in 1..125

(* Every request that was entered is answered or ended by the runtime.     *)
Settles == \A r \in Requests : pc[r] # "idle" ~> pc[r] \in Ended

Position(r) ==
  IF Live(r, "tp") THEN "bracketed"
  ELSE IF Live(r, "sl") THEN "guarded"
  ELSE IF Live(r, "entry") THEN "open"
  ELSE "none"

ToldVerdict(r) ==
  IF reply[r] \in Refusals \cup {"failed_pre_flight"} THEN "refused"
  ELSE IF reply[r] = "failed_entry" THEN "failed"
  ELSE reply[r]

Contract == INSTANCE ExecutionContract WITH
  position <- [r \in Requests |-> Position(r)],
  verdict <- [r \in Requests |-> ToldVerdict(r)]

(* The handler and Binance together implement the contract.                *)
ImplementsContract == Contract!Spec

-----------------------------------------------------------------------------
(* The inductive invariant behind these properties (TradeExecution_proofs) *)
(* relates what a handler knows of its calls to what Binance did with them *)
(* and to the place the handler has reached.                               *)
Unsent(r) == \A k \in Kinds : calls[r][k] = "unsent"

(* Each call is only sent once the one before it is known to have worked. *)
SentInOrder(r) ==
  /\ calls[r]["mode"] # "unsent" => Known(r, "leverage")
  /\ calls[r]["entry"] # "unsent" => Known(r, "mode")
  /\ calls[r]["sl"] # "unsent" => Known(r, "entry")
  /\ calls[r]["tp"] # "unsent" => Known(r, "sl")

(* What the handler holds for done is done; it knows nothing of calls it   *)
(* has not made; only the margin mode can be "already" as wanted.          *)
KnowledgeIsTrue(r) ==
  \A k \in Kinds :
    /\ got[r][k] # "none" => calls[r][k] # "unsent"
    /\ Known(r, k) => calls[r][k] \in {"done", "already"}
    /\ calls[r][k] = "already" => k = "mode"

FailedEarly(r) == \E k \in PreFlight \cup {"entry"} : got[r][k] = "error"
Executed(r) == Known(r, "entry") /\ (BracketError(r) \/ Known(r, "tp"))

StageIsEarned(r) ==
  /\ pc[r] \in {"idle", "tier", "creds", "decrypt"} => Unsent(r)
  /\ pc[r] \in Kinds => got[r][pc[r]] = "none"
  /\ pc[r] = "mode" => Known(r, "leverage")
  /\ pc[r] = "entry" => Known(r, "mode")
  /\ pc[r] = "sl" => Known(r, "entry")
  /\ pc[r] = "tp" => Known(r, "sl")
  /\ pc[r] \in {"record", "touch"} => Executed(r)
  /\ pc[r] = "recordFailure" => FailedEarly(r)
  /\ pc[r] = "respond" => FailedEarly(r) \/ Executed(r)

ReplyIsEarned(r) ==
  /\ reply[r] # "none" => pc[r] = "done"
  /\ reply[r] \in Refusals => Unsent(r)
  /\ reply[r] \in Verdicts => (FailedEarly(r) \/ Executed(r)) /\ reply[r] = Verdict(r)

RowIsEarned(row) ==
  LET r == row.req IN
  /\ pc[r] \in {"touch", "respond"} \cup Ended
  /\ IF row.status = "failed"
       THEN FailedEarly(r) /\ row.ids = {}
       ELSE /\ Executed(r)
            /\ row.status = "partial" <=> BracketError(r)
            /\ \A k \in row.ids : Known(r, k)

OneRow == \A row, other \in rows : row.req = other.req => row = other

IInv ==
  /\ TypeOK
  /\ \A r \in Requests :
       SentInOrder(r) /\ KnowledgeIsTrue(r) /\ StageIsEarned(r) /\ ReplyIsEarned(r)
  /\ \A row \in rows : RowIsEarned(row)
  /\ OneRow

(* The settings of an account and market are those of the requests that    *)
(* changed them, and the account and market of a request stay the same     *)
(* once it has made a call.                                                *)
Confirmed(m, leverage) ==
  \E q \in Requests : Live(q, "leverage") /\ Market(q) = m /\ body[q].leverage = leverage

BodyIsValid(r) ==
  /\ pc[r] \notin {"idle"} \cup Ended => ValidBody(body[r])
  /\ ~Unsent(r) => ValidBody(body[r])

MarketIsSet(r) ==
  /\ calls[r]["mode"] \in {"done", "already"} => market[Market(r)].mode = "ISOLATED"
  /\ Live(r, "leverage") => Confirmed(Market(r), market[Market(r)].leverage)

FillIsConfirmed(f) ==
  /\ ~Unsent(f.req)
  /\ f.mode = "ISOLATED"
  /\ Confirmed(Market(f.req), f.leverage)

SettingsInv ==
  /\ \A r \in Requests : BodyIsValid(r) /\ MarketIsSet(r)
  /\ \A f \in fills : FillIsConfirmed(f)
=============================================================================
