----------------------- MODULE TradingAccount_proofs -----------------------
(***************************************************************************)
(* Proofs about TradingAccount, for all values of the constants.  It is    *)
(* shown to implement both of its parts, so that what is proved of each of *)
(* them alone holds here; the properties that relate the two follow from   *)
(* the parts' invariants and the little that neither of them can say.      *)
(***************************************************************************)
EXTENDS TradingAccount, TradeExecution_proofs

L == INSTANCE BinanceConnection_proofs WITH pc <- linkPc

USE DEF exchange, database, handler

-----------------------------------------------------------------------------
(* L is Link, with the proofs. *)
LEMMA SameInit == Link!Init => L!Init
  BY DEF Link!Init, L!Init, Link!NoCredential, L!NoCredential, Link!Calls, L!Calls

LEMMA SameNext == Link!Next => L!Next
  BY Zenon DEF
    Link!Next, L!Next, Link!RotateMaster, L!RotateMaster, Link!Handle, L!Handle, Link!Kill, L!Kill,
    Link!Enter, L!Enter, Link!CheckPermissions, L!CheckPermissions, Link!Vet, L!Vet, Link!EncryptKey, L!EncryptKey,
    Link!EncryptSecret, L!EncryptSecret, Link!Upsert, L!Upsert, Link!Flag, L!Flag,
    Link!Deactivate, L!Deactivate, Link!Unflag, L!Unflag, Link!Goto, L!Goto, Link!End, L!End,
    Link!InFlight, L!InFlight, Link!Rivals, L!Rivals,
    Link!Running, L!Running, Link!Writes, L!Writes, Link!Abandon, L!Abandon, Link!Land, L!Land,
    Link!StoreNew, L!StoreNew, Link!StoreInactive, L!StoreInactive,
    Link!Statement, L!Statement, Link!Store, L!Store, Link!SetFlag, L!SetFlag,
    Link!Inactive, L!Inactive, Link!Ended, L!Ended, Link!Calls, L!Calls,
    Link!row, L!row, Link!handler, L!handler, Link!history, L!history

-----------------------------------------------------------------------------
(* binance-execute writes no credentials.                                  *)
LEMMA ExecuteReads == Execute => UNCHANGED <<cred, body>>
  <1>1. ASSUME NEW r \in Requests, Handle(r) PROVE UNCHANGED <<cred, body>>
    BY <1>1 DEF Handle, Receive, CheckTier, LoadCredentials, Decrypt, Send, Acknowledge, CallFails,
                InsertExecution, PersistFailure, TouchCredentials, Respond
  <1>2. ASSUME NEW r \in Requests, Binance(r) \/ Kill(r) PROVE UNCHANGED <<cred, body>>
    BY <1>2 DEF Binance, ApplyLeverage, ApplyIsolated, AlreadyIsolated, FillEntry, AcceptBracket,
                RejectCall, CarryOut, Kill
  <1> QED
    BY <1>1, <1>2 DEF Execute

(* The composition implements BinanceConnection.                           *)
LEMMA LinkStutters ==
  ASSUME [AccountNext]_accountVars
  PROVE  [L!Next]_L!vars
  <1>1. CASE ExecuteStep \/ ProfileStep \/ UNCHANGED accountVars
    <2>1. UNCHANGED <<linkOnly, cred>>
      BY <1>1, ExecuteReads DEF ExecuteStep, ProfileStep, ProfileChanges, accountVars, vars
    <2> QED
      BY <2>1 DEF linkOnly, L!vars, L!row, L!handler, L!history
  <1>2. CASE LinkStep
    BY <1>2, SameNext DEF LinkStep
  <1> QED
    BY <1>1, <1>2 DEF AccountNext

THEOREM LinkInvariance == AccountSpec => []L!IInv
  <1>1. AccountInit => L!Init
    BY SameInit DEF AccountInit
  <1>2. L!Init => L!IInv
    BY L!InvInit, LinkAssumption, KeysAssumption
  <1>3. L!IInv /\ [AccountNext]_accountVars => L!IInv'
    BY LinkStutters, L!InvStep, LinkAssumption, KeysAssumption
  <1> QED
    BY <1>1, <1>2, <1>3, PTL DEF AccountSpec

-----------------------------------------------------------------------------
(* The composition implements TradeExecution.                              *)

(* The handlers of BinanceConnection change the row of one user, to a row. *)
LEMMA LinkWrites ==
  ASSUME L!IInv, L!IInv', L!Next
  PROVE  \/ cred' = cred
         \/ \E u \in Users : \E new \in Credential : cred' = [cred EXCEPT ![u] = new]
  <1>1. L!TypeOK /\ cred \in [Users -> Credential] /\ cred' \in [Users -> Credential]
    BY DEF L!IInv, L!TypeOK, L!Credential, Credential
  <1>2. CASE L!RotateMaster
    BY <1>2 DEF L!RotateMaster, L!row
  <1>3. ASSUME NEW c \in L!Calls, L!Step(c)
        PROVE  \E u \in Users : \E new \in Credential : cred' = [cred EXCEPT ![u] = new]
    <2>1. caller[c] \in Users
      BY <1>1 DEF L!TypeOK
    <2>2. \A u \in Users : u # caller[c] => cred'[u] = cred[u]
      BY <1>1, <1>3, L!UserFrame, LinkAssumption, KeysAssumption
    <2>3. cred' = [cred EXCEPT ![caller[c]] = cred'[caller[c]]]
      BY <1>1, <2>1, <2>2
    <2> QED
      BY <1>1, <2>1, <2>3
  <1>4. ASSUME NEW c \in L!Calls, L!Land(c)
        PROVE  \E u \in Users : \E new \in Credential : cred' = [cred EXCEPT ![u] = new]
    <2>1. caller[c] \in Users
      BY <1>1 DEF L!TypeOK
    <2>2. \A u \in Users : u # caller[c] => cred'[u] = cred[u]
      BY <1>1, <1>4, L!LandFrame, LinkAssumption, KeysAssumption
    <2>3. cred' = [cred EXCEPT ![caller[c]] = cred'[caller[c]]]
      BY <1>1, <2>1, <2>2
    <2> QED
      BY <1>1, <2>1, <2>3
  <1> QED
    BY <1>2, <1>3, <1>4 DEF L!Next, L!Step

LEMMA ExecutionStep ==
  ASSUME L!IInv, L!IInv', [AccountNext]_accountVars
  PROVE  [Next]_vars
  <1>1. CASE ExecuteStep
    BY <1>1 DEF ExecuteStep, Next
  <1>2. CASE ProfileStep
    BY <1>2 DEF ProfileStep, Next
  <1>3. CASE LinkStep
    <2>1. L!Next /\ UNCHANGED execOnly
      BY <1>3, SameNext DEF LinkStep
    <2>2. CASE cred' = cred
      BY <2>1, <2>2 DEF execOnly, vars
    <2>3. ASSUME NEW u \in Users, NEW new \in Credential, cred' = [cred EXCEPT ![u] = new]
          PROVE  CredentialsChange(u) /\ u \in Relinking
      BY <2>1, <2>3, RelinkingAssumption DEF execOnly, CredentialsChange
    <2> QED
      BY <2>1, <2>2, <2>3, LinkWrites DEF Next
  <1>4. CASE UNCHANGED accountVars
    BY <1>4 DEF accountVars
  <1> QED
    BY <1>1, <1>2, <1>3, <1>4 DEF AccountNext

(* Everything proved of TradeExecution, where credentials change in any    *)
(* way, holds of it with the functions that really change them.            *)
THEOREM ImplementsExecution == AccountSpec => ImplementsTradeExecution
  <1>1. AccountInit => Init
    BY DEF AccountInit
  <1>2. L!IInv /\ L!IInv' /\ [AccountNext]_accountVars => [Next]_vars
    BY ExecutionStep
  <1> QED
    BY <1>1, <1>2, LinkInvariance, PTL DEF AccountSpec, ImplementsTradeExecution, Spec

(* In particular clients of the whole account are told the truth about     *)
(* their positions while connects and disconnects change their keys.       *)
THEOREM AccountIsHonest == AccountSpec => []Contract!Honest
  BY ImplementsExecution, ToldTheTruth, PTL DEF ImplementsTradeExecution

-----------------------------------------------------------------------------
(* What a step of binance-execute does to the key a request has loaded, to *)
(* its place, and to its calls.                                            *)
LEMMA FrontMoves ==
  ASSUME TypeOK, NEW r \in Requests,
         Receive(r) \/ CheckTier(r) \/ LoadCredentials(r) \/ Decrypt(r)
  PROVE  /\ calls' = calls
         /\ \A q \in Requests \ {r} : pc'[q] = pc[q] /\ loaded'[q] = loaded[q]
         /\ pc[r] \in {"idle", "tier", "creds", "decrypt"}
         /\ \/ pc[r] = "idle" /\ pc'[r] \in {"tier", "done"} /\ loaded' = loaded
            \/ pc[r] = "tier" /\ pc'[r] \in {"creds", "done"} /\ loaded' = loaded
            \/ pc[r] = "creds" /\ pc'[r] = "done" /\ loaded' = loaded
            \/ /\ pc[r] = "creds" /\ pc'[r] = "decrypt"
               /\ cred[body[r].user].state = "active"
               /\ loaded'[r] = cred[body[r].user]
            \/ pc[r] = "decrypt" /\ loaded' = loaded
  <1>1. CASE Receive(r)
    BY <1>1 DEF TypeOK, Receive, Refuse, Goto
  <1>2. CASE CheckTier(r)
    BY <1>2 DEF TypeOK, CheckTier, Refuse, Goto
  <1>3. CASE LoadCredentials(r)
    BY <1>3 DEF TypeOK, LoadCredentials, Refuse, Goto
  <1>4. CASE Decrypt(r)
    BY <1>4 DEF TypeOK, Decrypt, Refuse, Goto
  <1> QED
    BY <1>1, <1>2, <1>3, <1>4

LEMMA OtherMoves ==
  ASSUME TypeOK, NEW r \in Requests,
         \/ \E k \in Kinds : Send(r, k) \/ Acknowledge(r, k) \/ CallFails(r, k)
         \/ InsertExecution(r) \/ PersistFailure(r) \/ TouchCredentials(r) \/ Respond(r)
         \/ Binance(r) \/ Kill(r)
  PROVE  /\ loaded' = loaded
         /\ \A q \in Requests \ {r} : pc'[q] = pc[q] /\ calls'[q] = calls[q]
         /\ \/ /\ pc[r] \in Kinds
               /\ pc'[r] # "idle"
            \/ /\ calls' = calls
               /\ pc[r] \in {"record", "recordFailure", "touch", "respond"}
               /\ pc'[r] \in {"record", "recordFailure", "touch", "respond", "done"}
            \/ calls' = calls /\ pc[r] # "idle" /\ pc'[r] = "killed"
            \/ pc' = pc /\ Trades(r)
  <1>1. ASSUME NEW k \in Kinds, Send(r, k)
        PROVE  /\ UNCHANGED <<loaded, pc>> /\ pc[r] \in Kinds /\ pc'[r] # "idle"
               /\ \A q \in Requests \ {r} : calls'[q] = calls[q]
    <2>1. pc[r] = k /\ calls' = [calls EXCEPT ![r][k] = "sent"] /\ UNCHANGED <<loaded, pc>>
      BY <1>1 DEF Send
    <2> QED
      BY <2>1 DEF TypeOK, Kinds, PreFlight, Orders, Brackets
  <1>2. ASSUME NEW k \in Kinds, Acknowledge(r, k) \/ CallFails(r, k)
        PROVE  /\ UNCHANGED <<loaded, calls>> /\ pc[r] \in Kinds /\ pc'[r] # "idle"
               /\ \A q \in Requests \ {r} : pc'[q] = pc[q]
    BY <1>2, Tables DEF TypeOK, Acknowledge, CallFails, Goto, OnSuccess, OnError
  <1>3. CASE InsertExecution(r) \/ PersistFailure(r) \/ TouchCredentials(r) \/ Respond(r) \/ Kill(r)
    BY <1>3 DEF TypeOK, InsertExecution, PersistFailure, TouchCredentials, Respond, Kill, Goto
  <1>4. ASSUME NEW k \in Kinds, NEW outcome, CarryOut(r, k, outcome)
        PROVE  /\ UNCHANGED <<loaded, pc>> /\ Trades(r)
               /\ \A q \in Requests \ {r} : calls'[q] = calls[q]
    <2>1. /\ calls[r][k] = "sent" /\ calls' = [calls EXCEPT ![r][k] = outcome]
          /\ UNCHANGED <<loaded, pc>>
      BY <1>4 DEF CarryOut
    <2> QED
      BY <2>1 DEF TypeOK, Trades
  <1>5. CASE Binance(r)
    <2>1. \E k \in Kinds : \E outcome \in CallState : CarryOut(r, k, outcome)
      BY <1>5, Tables DEF Binance, ApplyLeverage, ApplyIsolated, AlreadyIsolated, FillEntry,
                          AcceptBracket, RejectCall, CallState, Brackets
    <2> QED
      BY <2>1, <1>4
  <1> QED
    BY <1>1, <1>2, <1>3, <1>5

LEMMA TradesFrame ==
  ASSUME NEW r \in Requests, calls'[r] = calls[r]
  PROVE  Trades(r)' <=> Trades(r)
  BY DEF Trades

-----------------------------------------------------------------------------
(* The key a request trades with: what a connect found of it once is never *)
(* forgotten.                                                              *)
Vetted(r) == Link!VettedFor(body[r].user, loaded[r].key)

LEMMA VettedStays ==
  ASSUME NEW r \in Requests, Vetted(r), UNCHANGED <<body, caller, apiKey>>,
         loaded'[r] = loaded[r], vetted \subseteq vetted'
  PROVE  Vetted(r)'
  BY DEF Vetted, Link!VettedFor

LEMMA VetExecute ==
  ASSUME IInv, L!StoredKeysAreVetted, ExecuteStep, NEW q \in Requests, VetInv(q)
  PROVE  VetInv(q)'
  <1>0. UNCHANGED <<body, caller, apiKey, vetted>>
    BY ExecuteReads DEF ExecuteStep, linkOnly
  <1>1. PICK r \in Requests : Handle(r) \/ Binance(r) \/ Kill(r)
    BY DEF Execute, ExecuteStep
  <1>2. TypeOK /\ \A k \in Kinds : k \notin {"idle", "tier", "creds", "decrypt", "done"} /\ k \notin Ended
    BY DEF IInv, Kinds, PreFlight, Orders, Brackets, Ended
  <1>3. CASE Receive(r) \/ CheckTier(r) \/ LoadCredentials(r) \/ Decrypt(r)
    <2>1. CASE q # r
      BY <1>0, <1>2, <1>3, <2>1, FrontMoves, TradesFrame, VettedStays DEF VetInv, Vetted
    <2>2. CASE q = r /\ loaded' = loaded
      <3>1. calls'[r] = calls[r]
            /\ (pc[r] = "decrypt" \/ pc'[r] \in {"tier", "creds", "done", "decrypt"})
        BY <1>2, <1>3, FrontMoves
      <3>2. pc'[r] = "decrypt" /\ pc[r] # "decrypt" => loaded'[r] = cred[body[r].user]
        BY <1>2, <1>3, FrontMoves
      <3>3. CASE pc[r] = "decrypt" \/ pc'[r] \in {"tier", "creds", "done"}
        BY <1>0, <1>2, <2>2, <3>1, <3>3, TradesFrame, VettedStays DEF VetInv, Vetted
      <3>4. CASE pc'[r] = "decrypt" /\ pc[r] # "decrypt"
        <4>1. cred[body[r].user].state = "active" /\ body[r].user \in Users
          BY <1>2, <1>3, <3>4, FrontMoves, MarketType
        <4>2. loaded[r] = cred[body[r].user]
          BY <2>2, <3>2, <3>4
        <4>3. Vetted(r)
          BY <4>1, <4>2 DEF Vetted, L!StoredKeysAreVetted, L!VettedFor, Link!VettedFor
        <4> QED
          BY <1>0, <2>2, <4>3, VettedStays DEF VetInv, Vetted
      <3> QED
        BY <3>1, <3>3, <3>4
    <2>3. CASE q = r /\ cred[body[r].user].state = "active" /\ loaded'[r] = cred[body[r].user]
      <3>1. body[r].user \in Users
        BY <1>2, MarketType
      <3>2. Link!VettedFor(body[r].user, cred[body[r].user].key)
        BY <2>3, <3>1 DEF L!StoredKeysAreVetted, L!VettedFor, Link!VettedFor
      <3> QED
        BY <1>0, <2>3, <3>2 DEF VetInv, Link!VettedFor
    <2> QED
      BY <1>2, <1>3, <2>1, <2>2, <2>3, FrontMoves
  <1>4. CASE \/ \E k \in Kinds : Send(r, k) \/ Acknowledge(r, k) \/ CallFails(r, k)
             \/ InsertExecution(r) \/ PersistFailure(r) \/ TouchCredentials(r) \/ Respond(r)
             \/ Binance(r) \/ Kill(r)
    <2>1. CASE q # r
      BY <1>0, <1>2, <1>4, <2>1, OtherMoves, TradesFrame, VettedStays DEF VetInv, Vetted
    <2>2. CASE q = r
      <3>1. loaded' = loaded
        BY <1>2, <1>4, OtherMoves
      <3>2. CASE pc[r] \in Kinds \/ (pc' = pc /\ Trades(r))
        BY <1>0, <2>2, <3>1, <3>2, VettedStays DEF VetInv, Vetted
      <3>3. CASE /\ calls' = calls
                 /\ pc'[r] \in {"record", "recordFailure", "touch", "respond", "done", "killed"}
        <4>1. pc'[r] \notin {"decrypt"} \cup Kinds
          BY <3>3 DEF Kinds, PreFlight, Orders, Brackets
        <4> QED
          BY <1>0, <2>2, <3>1, <3>3, <4>1, TradesFrame, VettedStays DEF VetInv, Vetted
      <3> QED
        BY <1>2, <1>4, <3>2, <3>3, OtherMoves
    <2> QED
      BY <2>1, <2>2
  <1> QED
    BY <1>1, <1>3, <1>4 DEF Handle

LEMMA LinkRemembers ==
  ASSUME L!TypeOK, L!Next
  PROVE  UNCHANGED <<caller, apiKey>> /\ vetted \subseteq vetted'
  <1>1. CASE L!RotateMaster
    BY <1>1 DEF L!RotateMaster, L!handler, L!history
  <1>2. ASSUME NEW c \in L!Calls, L!Step(c) PROVE UNCHANGED <<caller, apiKey>> /\ vetted \subseteq vetted'
    BY <1>2, L!CallFrame, L!HistoryFrame, LinkAssumption, KeysAssumption
  <1>3. ASSUME NEW c \in L!Calls, L!Land(c) PROVE UNCHANGED <<caller, apiKey>> /\ vetted \subseteq vetted'
    BY <1>3, L!LandFrame, LinkAssumption, KeysAssumption
  <1> QED
    BY <1>1, <1>2, <1>3 DEF L!Next, L!Step

(* A request behind a disconnect.                                          *)
LEMMA BarExecute ==
  ASSUME IInv, L!IInv, ExecuteStep, NEW r \in Requests, NEW d \in DisconnectCalls, BarInv(r, d)
  PROVE  BarInv(r, d)'
  <1>1. Execute /\ UNCHANGED <<linkOnly, body>>
    BY ExecuteReads DEF ExecuteStep
  <1>2. /\ UNCHANGED <<answer, last, overlapped>>
        /\ Disconnects(body[r].user)' = Disconnects(body[r].user)
    BY <1>1 DEF linkOnly, Disconnects
  <1>3. PICK q \in Requests : Handle(q) \/ Binance(q) \/ Kill(q)
    BY <1>1 DEF Execute
  <1>4. TypeOK
    BY DEF IInv
  <1>5. ASSUME d \in Disconnects(body[r].user)
        PROVE  cred[body[r].user].state # "active"
    <2>1. body[r].user \in Users
      BY <1>4, MarketType
    <2>2. d \in last[body[r].user] /\ d \notin overlapped /\ answer[d] = "disconnected"
      BY <1>5 DEF Disconnects
    <2> QED
      BY <2>1, <2>2 DEF L!IInv, L!LastInv, L!Active
  <1>6. \A k \in Kinds : k \notin {"idle", "tier", "creds"} \cup Ended
    BY DEF Kinds, PreFlight, Orders, Brackets, Ended
  <1>7. CASE q # r
    <2>1. pc'[r] = pc[r] /\ calls'[r] = calls[r]
      BY <1>3, <1>4, <1>7, FrontMoves, OtherMoves DEF Handle
    <2> QED
      BY <1>2, <2>1, TradesFrame DEF BarInv
  <1>8. CASE q = r /\ (Receive(r) \/ CheckTier(r) \/ LoadCredentials(r) \/ Decrypt(r))
    <2>1. calls' = calls /\ pc'[r] # "idle"
      BY <1>4, <1>8, FrontMoves, TypeFront DEF Receive, CheckTier, LoadCredentials, Decrypt, Goto,
         Refuse, TypeOK
    <2>2. d \in Disconnects(body[r].user) => pc'[r] \in {"tier", "creds"} \cup Ended
      BY <1>4, <1>5, <1>8, FrontMoves DEF BarInv, Ended
    <2> QED
      BY <1>2, <2>1, <2>2, TradesFrame DEF BarInv
  <1>9. CASE /\ q = r
             /\ \/ \E k \in Kinds : Send(r, k) \/ Acknowledge(r, k) \/ CallFails(r, k)
                \/ InsertExecution(r) \/ PersistFailure(r) \/ TouchCredentials(r) \/ Respond(r)
                \/ Binance(r) \/ Kill(r)
    <2>1. pc'[r] # "idle"
      BY <1>4, <1>9, OtherMoves DEF BarInv
    <2>2. ASSUME d \in Disconnects(body[r].user)
          PROVE  pc'[r] \in {"tier", "creds"} \cup Ended /\ calls' = calls
      <3>1. pc[r] \in {"tier", "creds"} \cup Ended /\ ~Trades(r)
        BY <2>2 DEF BarInv
      <3>2. pc[r] \notin Kinds /\ pc[r] \notin {"record", "recordFailure", "touch", "respond"}
        BY <1>6, <3>1 DEF Ended
      <3> QED
        BY <1>4, <1>9, <3>1, <3>2, OtherMoves DEF Ended
    <2> QED
      BY <1>2, <2>1, <2>2, TradesFrame DEF BarInv
  <1> QED
    BY <1>3, <1>7, <1>8, <1>9 DEF Handle

(* A request that enters behind a disconnect has done nothing yet.         *)
LEMMA BarNew ==
  ASSUME IInv, ExecuteStep, NEW r \in Requests, NEW d \in DisconnectCalls,
         Enters(r), d \in Disconnects(body[r].user)
  PROVE  BarInv(r, d)'
  <1>1. Execute /\ UNCHANGED <<linkOnly, body>>
    BY ExecuteReads DEF ExecuteStep
  <1>2. UNCHANGED answer /\ answer[d] = "disconnected"
    BY <1>1 DEF linkOnly, Disconnects
  <1>3. TypeOK /\ pc[r] = "idle" /\ pc'[r] # "idle" /\ ~Trades(r)
    BY DEF IInv, StageIsEarned, Unsent, Trades, Enters
  <1>4. PICK q \in Requests : Handle(q) \/ Binance(q) \/ Kill(q)
    BY <1>1 DEF Execute
  <1>5. q = r
    BY <1>3, <1>4, FrontMoves, OtherMoves DEF Handle
  <1>6. \A k \in Kinds : k # "idle"
    BY DEF Kinds, PreFlight, Orders, Brackets
  <1>7. pc'[r] \in {"tier", "done"} /\ calls' = calls
    BY <1>3, <1>4, <1>5, <1>6, FrontMoves, OtherMoves DEF Handle
  <1> QED
    BY <1>2, <1>3, <1>7, TradesFrame DEF BarInv, Ended

(* The user's later calls replace a disconnect, and no call brings it back. *)
LEMMA BarLink ==
  ASSUME TypeOK, L!IInv, LinkStep, NEW r \in Requests, NEW d \in DisconnectCalls, BarInv(r, d)
  PROVE  BarInv(r, d)'
  <1>1. L!Next /\ UNCHANGED <<pc, calls, body>> /\ L!TypeOK /\ d \in L!Calls /\ L!CallInv(d)
    BY SameNext DEF LinkStep, execOnly, L!IInv, L!Calls
  <1>2. linkPc[d] = "done" /\ answer[d] = "disconnected"
    BY <1>1 DEF BarInv, L!CallInv
  <1>3. body[r].user \in Users
    BY MarketType
  <1>4. CASE L!RotateMaster
    <2>1. UNCHANGED <<answer, last, overlapped>>
      BY <1>4 DEF L!RotateMaster, L!handler, L!history
    <2> QED
      BY <1>1, <2>1 DEF BarInv, Disconnects, Trades
  <1>5. ASSUME NEW c \in L!Calls, L!Step(c)
        PROVE  BarInv(r, d)'
    <2>1. c # d
      BY <1>1, <1>2, <1>5, L!CallFrame, LinkAssumption, KeysAssumption DEF L!Ended
    <2>2. answer'[d] = answer[d] /\ overlapped \subseteq overlapped'
      BY <1>1, <1>5, <2>1, L!CallFrame, L!HistoryFrame, LinkAssumption, KeysAssumption
    <2>3. d \in last'[body[r].user] => d \in last[body[r].user]
      <3>1. CASE L!Later(c)
        BY <1>1, <1>5, <3>1, L!HistoryFrame, LinkAssumption, KeysAssumption
      <3>2. CASE L!Enter(c)
        <4>1. last' = last \/ last' = [last EXCEPT ![caller[c]] = {c}]
          BY <1>1, <3>2, L!EnterFacts, LinkAssumption, KeysAssumption
        <4> QED
          BY <1>1, <1>3, <2>1, <4>1 DEF L!TypeOK
      <3> QED
        BY <1>5, <3>1, <3>2 DEF L!Step, L!Handle, L!Later
    <2> QED
      BY <1>1, <2>2, <2>3 DEF BarInv, Disconnects, Trades
  <1>6. ASSUME NEW c \in L!Calls, L!Land(c)
        PROVE  BarInv(r, d)'
    <2>1. UNCHANGED <<answer, last, overlapped>>
      BY <1>1, <1>6, L!LandFrame, LinkAssumption, KeysAssumption
    <2> QED
      BY <1>1, <2>1 DEF BarInv, Disconnects, Trades
  <1> QED
    BY <1>1, <1>4, <1>5, <1>6 DEF L!Next, L!Step

-----------------------------------------------------------------------------
LEMMA AccountStep ==
  ASSUME IInv, L!IInv, AccountInv, [AccountNext]_accountVars
  PROVE  AccountInv'
  <1>1. L!StoredKeysAreVetted /\ TypeOK /\ L!TypeOK
    BY DEF IInv, L!IInv, L!RowInv, L!Wrote, L!StoredKeysAreVetted, L!VettedFor
  <1>2. CASE ExecuteStep
    <2>1. \A q \in Requests : VetInv(q)'
      BY <1>1, <1>2, VetExecute DEF AccountInv, ExecuteStep
    <2>2. barred' = barred \cup
            {bar \in Requests \X DisconnectCalls :
               Enters(bar[1]) /\ bar[2] \in Disconnects(body[bar[1]].user)}
      BY <1>2 DEF ExecuteStep
    <2>3. ASSUME NEW bar \in barred' PROVE BarInv(bar[1], bar[2])'
      <3>1. bar[1] \in Requests /\ bar[2] \in DisconnectCalls
        BY <2>2, <2>3 DEF AccountInv
      <3>2. CASE bar \in barred
        BY <1>2, <3>1, <3>2, BarExecute DEF AccountInv
      <3>3. CASE Enters(bar[1]) /\ bar[2] \in Disconnects(body[bar[1]].user)
        BY <1>2, <3>1, <3>3, BarNew
      <3> QED
        BY <2>2, <2>3, <3>2, <3>3
    <2> QED
      BY <2>1, <2>2, <2>3 DEF AccountInv
  <1>3. CASE LinkStep
    <2>1. UNCHANGED <<pc, calls, loaded, body, barred>>
      BY <1>3 DEF LinkStep, execOnly
    <2>4. UNCHANGED <<caller, apiKey>> /\ vetted \subseteq vetted'
      BY <1>1, <1>3, LinkRemembers, SameNext DEF LinkStep
    <2>2. \A q \in Requests : VetInv(q)'
      BY <2>1, <2>4, VettedStays DEF AccountInv, VetInv, Trades, Vetted
    <2>3. \A bar \in barred : BarInv(bar[1], bar[2])'
      BY <1>1, <1>3, BarLink DEF AccountInv
    <2> QED
      BY <2>1, <2>2, <2>3 DEF AccountInv
  <1>4. CASE ProfileStep \/ UNCHANGED accountVars
    <2>1. UNCHANGED <<pc, calls, loaded, barred, body, linkOnly>>
      BY <1>4 DEF ProfileStep, ProfileChanges, accountVars, vars
    <2>2. UNCHANGED <<answer, last, overlapped, caller, apiKey, vetted>>
      BY <2>1 DEF linkOnly
    <2> QED
      BY <2>1, <2>2 DEF AccountInv, VetInv, BarInv, Disconnects, Trades, Link!VettedFor
  <1> QED
    BY <1>2, <1>3, <1>4 DEF AccountNext

THEOREM AccountInvariance == AccountSpec => []AccountInv
  <1>1. AccountInit => AccountInv
    <2> SUFFICES ASSUME AccountInit PROVE AccountInv
      OBVIOUS
    <2>1. \A r \in Requests : pc[r] = "idle" /\ ~Trades(r)
      BY DEF AccountInit, Init, Trades
    <2>2. "idle" \notin {"decrypt"} \cup Kinds
      BY DEF Kinds, PreFlight, Orders, Brackets
    <2> QED
      BY <2>1, <2>2 DEF AccountInit, AccountInv, VetInv
  <1>2. IInv /\ L!IInv /\ AccountInv /\ [AccountNext]_accountVars => AccountInv'
    BY AccountStep
  <1>3. AccountSpec => []IInv
    BY ImplementsExecution, Invariance, PTL DEF ImplementsTradeExecution
  <1> QED
    BY <1>1, <1>2, <1>3, LinkInvariance, PTL DEF AccountSpec

(* No call is ever signed with a key that no connect of the same user      *)
(* found to trade futures and not to withdraw, however connects,           *)
(* disconnects, requests and late writes overlap.                          *)
THEOREM VettedTrades == AccountSpec => []OnlyVettedKeysTrade
  <1>1. AccountInv => OnlyVettedKeysTrade
    BY DEF AccountInv, VetInv, OnlyVettedKeysTrade
  <1> QED
    BY <1>1, AccountInvariance, PTL

(* A request that arrives after an answered disconnect calls Binance only  *)
(* if the user has called connect or disconnect again in between.          *)
THEOREM Barred == AccountSpec => []DisconnectBars
  <1>1. AccountInv => DisconnectBars
    BY DEF AccountInv, BarInv, DisconnectBars
  <1> QED
    BY <1>1, AccountInvariance, PTL
=============================================================================
