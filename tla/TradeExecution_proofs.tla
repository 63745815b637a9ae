------------------------ MODULE TradeExecution_proofs ------------------------
(***************************************************************************)
(* Proofs about TradeExecution, for all values of its constants: type      *)
(* correctness, the inductive invariant, the safety properties it implies, *)
(* and the implementation of ExecutionContract.                            *)
(***************************************************************************)
EXTENDS TradeExecution, TLAPS

USE DEF exchange, database, handler

-----------------------------------------------------------------------------
(* Facts about the constant tables.                                        *)

(* The elements of Kinds, and where each call leads (execute/index.ts:     *)
(* 141-185).                                                               *)
LEMMA Tables ==
  /\ Kinds = {"leverage", "mode", "entry", "sl", "tp"}
  /\ Kinds \subseteq Stages
  /\ \A k \in Kinds : OnSuccess[k] \in Stages /\ OnError[k] \in Stages
  BY DEF Kinds, PreFlight, Orders, Brackets, Stages, Ended, OnSuccess, OnError

(* The credentials a handler starts with are of the right type. *)
LEMMA NoCredentialType == NoCredential \in Credential
  <1>1. (CHOOSE k \in Keys : TRUE) \in Keys
    BY KeysAssumption
  <1> QED
    BY <1>1 DEF NoCredential, Credential

-----------------------------------------------------------------------------
(* Type correctness.                                                       *)

LEMMA TypeInit == Init => TypeOK
  <1> SUFFICES ASSUME Init PROVE TypeOK
    OBVIOUS
  <1>1. market \in [Keys \X Symbols -> Settings]
    BY LeverageAssumption DEF Init, Settings
  <1>2. loaded \in [Requests -> Credential]
    BY NoCredentialType DEF Init
  <1> QED
    BY <1>1, <1>2 DEF Init, TypeOK, CallState, Stages, Ended, Knowledge, Replies

(* The account and market a request trades in. *)
LEMMA MarketType ==
  ASSUME TypeOK, NEW r \in Requests
  PROVE  Market(r) \in Keys \X Symbols /\ body[r].leverage \in Nat /\ body[r].user \in Users
  BY BodiesAssumption DEF TypeOK, Market, Credential

(* Steps of the handler before its first call of Binance keep the types. *)
LEMMA TypeFront ==
  ASSUME TypeOK, NEW r \in Requests,
         Receive(r) \/ CheckTier(r) \/ LoadCredentials(r) \/ Decrypt(r)
  PROVE  TypeOK'
  <1> USE DEF Goto, Refuse, Stages, Ended, Replies, Refusals
  <1>1. CASE Receive(r)
    BY <1>1 DEF TypeOK, Receive
  <1>2. CASE CheckTier(r)
    BY <1>2 DEF TypeOK, CheckTier
  <1>3. CASE LoadCredentials(r)
    BY <1>3, MarketType DEF TypeOK, LoadCredentials
  <1>4. CASE Decrypt(r)
    <2>1. "leverage" \in Stages
      BY DEF Kinds, PreFlight
    <2> QED
      BY <1>4, <2>1 DEF TypeOK, Decrypt
  <1> QED
    BY <1>1, <1>2, <1>3, <1>4

(* Steps of a call, on the handler's side, keep the types. *)
LEMMA TypeCall ==
  ASSUME TypeOK, NEW r \in Requests, NEW k \in Kinds,
         Send(r, k) \/ Acknowledge(r, k) \/ CallFails(r, k)
  PROVE  TypeOK'
  <1>1. CASE Send(r, k)
    BY <1>1 DEF TypeOK, Send, CallState
  <1>2. CASE Acknowledge(r, k)
    BY <1>2, Tables DEF TypeOK, Acknowledge, Goto, Knowledge
  <1>3. CASE CallFails(r, k)
    BY <1>3, Tables DEF TypeOK, CallFails, Goto, Knowledge
  <1> QED
    BY <1>1, <1>2, <1>3

(* Binance's steps keep the types. *)
LEMMA TypeBinance ==
  ASSUME TypeOK, NEW r \in Requests, Binance(r)
  PROVE  TypeOK'
  <1> USE DEF CarryOut, CallState
  <1>1. CASE ApplyLeverage(r)
    BY <1>1, MarketType DEF TypeOK, ApplyLeverage, Settings, Kinds, PreFlight
  <1>2. CASE ApplyIsolated(r)
    BY <1>2, MarketType DEF TypeOK, ApplyIsolated, Settings, Kinds, PreFlight
  <1>3. CASE AlreadyIsolated(r)
    BY <1>3 DEF TypeOK, AlreadyIsolated, Kinds, PreFlight
  <1>4. CASE FillEntry(r)
    <2> DEFINE new == [req |-> r, leverage |-> market[Market(r)].leverage,
                       mode |-> market[Market(r)].mode]
    <2>1. market[Market(r)] \in Settings
      BY MarketType DEF TypeOK
    <2>2. new \in [req : Requests, leverage : Nat, mode : {"CROSSED", "ISOLATED"}]
      BY <2>1 DEF Settings
    <2>3. fills' = fills \cup {new}
      BY <1>4 DEF FillEntry
    <2>4. fills' \subseteq [req : Requests, leverage : Nat, mode : {"CROSSED", "ISOLATED"}]
      BY <2>2, <2>3 DEF TypeOK
    <2>5. calls' \in [Requests -> [Kinds -> CallState]]
      BY <1>4 DEF TypeOK, FillEntry, Kinds, Orders
    <2> QED
      BY <1>4, <2>4, <2>5 DEF TypeOK, FillEntry
  <1>5. ASSUME NEW k \in Brackets, AcceptBracket(r, k) PROVE TypeOK'
    BY <1>5 DEF TypeOK, AcceptBracket, Kinds, Orders
  <1>6. ASSUME NEW k \in Kinds, RejectCall(r, k) PROVE TypeOK'
    BY <1>6 DEF TypeOK, RejectCall
  <1> QED
    BY <1>1, <1>2, <1>3, <1>4, <1>5, <1>6 DEF Binance

(* Recording, answering and being killed keep the types. *)
LEMMA TypeBack ==
  ASSUME TypeOK, NEW r \in Requests,
         InsertExecution(r) \/ PersistFailure(r) \/ TouchCredentials(r) \/ Respond(r) \/ Kill(r)
  PROVE  TypeOK'
  <1> USE DEF Goto, Stages, Ended
  <1>1. CASE InsertExecution(r)
    <2> DEFINE status == IF BracketError(r) THEN "partial" ELSE "filled"
    <2>1. status \in Status
      BY DEF Status
    <2>2. PICK ids \in Named(r) : Insert([req |-> r, status |-> status, ids |-> ids])
      BY <1>1 DEF InsertExecution
    <2>3. [req |-> r, status |-> status, ids |-> ids] \in Row
      <3> HIDE DEF status
      <3> QED
        BY <2>1 DEF Row, Named
    <2>4. rows' \subseteq Row
      BY <2>2, <2>3 DEF TypeOK, Insert
    <2> QED
      BY <1>1, <2>4 DEF TypeOK, InsertExecution
  <1>2. CASE PersistFailure(r)
    <2>1. [req |-> r, status |-> "failed", ids |-> {}] \in Row
      BY DEF Row, Status
    <2>2. rows' \subseteq Row
      BY <1>2, <2>1 DEF TypeOK, PersistFailure, Insert
    <2> QED
      BY <1>2, <2>2 DEF TypeOK, PersistFailure
  <1>3. CASE TouchCredentials(r)
    BY <1>3, MarketType DEF TypeOK, TouchCredentials
  <1>4. CASE Respond(r)
    <2>1. Verdict(r) \in Replies
      BY DEF Verdict, Replies, Verdicts
    <2> QED
      BY <1>4, <2>1 DEF TypeOK, Respond
  <1>5. CASE Kill(r)
    BY <1>5 DEF TypeOK, Kill
  <1> QED
    BY <1>1, <1>2, <1>3, <1>4, <1>5

(* Every step keeps the types. *)
LEMMA TypeNext == TypeOK /\ [Next]_vars => TypeOK'
  <1> SUFFICES ASSUME TypeOK, [Next]_vars PROVE TypeOK'
    OBVIOUS
  <1>1. ASSUME NEW r \in Requests, Handle(r) PROVE TypeOK'
    BY <1>1, TypeFront, TypeCall, TypeBack DEF Handle
  <1>2. ASSUME NEW r \in Requests, Kill(r) PROVE TypeOK'
    BY <1>2, TypeBack
  <1>3. ASSUME NEW u \in Lapsing, ProfileChanges(u) PROVE TypeOK'
    BY <1>3 DEF TypeOK, ProfileChanges
  <1>4. ASSUME NEW u \in Relinking, CredentialsChange(u) PROVE TypeOK'
    BY <1>4 DEF TypeOK, CredentialsChange
  <1>5. CASE UNCHANGED vars
    BY <1>5 DEF TypeOK, vars
  <1> QED
    BY <1>1, <1>2, <1>3, <1>4, <1>5, TypeBinance DEF Next, Execute

(* Every reachable state is well typed. *)
THEOREM TypeCorrect == Spec => []TypeOK
  BY TypeInit, TypeNext, PTL DEF Spec

-----------------------------------------------------------------------------
(* The inductive invariant.                                                *)

(* What is said of one request. *)
RInv(r) == SentInOrder(r) /\ KnowledgeIsTrue(r) /\ StageIsEarned(r) /\ ReplyIsEarned(r)

Late == {"touch", "respond"} \cup Ended

(* A request that a step leaves alone keeps its part of the invariant. *)
LEMMA Frame ==
  ASSUME NEW q \in Requests, RInv(q),
         calls'[q] = calls[q], got'[q] = got[q], pc'[q] = pc[q], reply'[q] = reply[q]
  PROVE  RInv(q)'
  <1> USE DEF Known, Unsent, FailedEarly, Executed, BracketError
  <1>1. SentInOrder(q)'
    BY DEF RInv, SentInOrder
  <1>2. KnowledgeIsTrue(q)'
    BY DEF RInv, KnowledgeIsTrue
  <1>3. StageIsEarned(q)'
    BY DEF RInv, StageIsEarned
  <1>4. ReplyIsEarned(q)'
    BY DEF RInv, ReplyIsEarned, Verdict
  <1> QED
    BY <1>1, <1>2, <1>3, <1>4 DEF RInv

(* Rows stay true as long as handlers that have recorded learn nothing. *)
LEMMA RowsStay ==
  ASSUME TypeOK,
         \A row \in rows : RowIsEarned(row),
         \A q \in Requests : pc[q] \in Late => got'[q] = got[q] /\ pc'[q] \in Late
  PROVE  \A row \in rows : RowIsEarned(row)'
  <1> SUFFICES ASSUME NEW row \in rows PROVE RowIsEarned(row)'
    OBVIOUS
  <1>1. row.req \in Requests
    BY DEF TypeOK, Row
  <1>2. pc[row.req] \in Late
    BY DEF RowIsEarned, Late
  <1>3. got'[row.req] = got[row.req] /\ pc'[row.req] \in Late
    BY <1>1, <1>2
  <1> QED
    BY <1>3 DEF RowIsEarned, Late, FailedEarly, Executed, BracketError, Known

(* Nothing has been recorded, sent or learned when a request is new. *)
LEMMA InvInit == Init => IInv
  <1> SUFFICES ASSUME Init PROVE IInv
    OBVIOUS
  <1>1. TypeOK
    BY TypeInit
  <1>2. ASSUME NEW r \in Requests PROVE RInv(r)
    <2>1. \A k \in Kinds : calls[r][k] = "unsent" /\ got[r][k] = "none"
      BY DEF Init
    <2>2. pc[r] = "idle" /\ reply[r] = "none"
      BY DEF Init
    <2>3. SentInOrder(r)
      BY <2>1, Tables DEF SentInOrder
    <2>4. KnowledgeIsTrue(r)
      BY <2>1 DEF KnowledgeIsTrue, Known
    <2>5. StageIsEarned(r)
      BY <2>1, <2>2, Tables DEF StageIsEarned, Unsent
    <2>6. ReplyIsEarned(r)
      BY <2>2 DEF ReplyIsEarned, Refusals, Verdicts
    <2> QED
      BY <2>3, <2>4, <2>5, <2>6 DEF RInv
  <1>3. rows = {}
    BY DEF Init
  <1> QED
    BY <1>1, <1>2, <1>3 DEF IInv, RInv, OneRow

(* Checking and refusing, before any call. *)
LEMMA InvFront ==
  ASSUME IInv, NEW r \in Requests,
         Receive(r) \/ CheckTier(r) \/ LoadCredentials(r) \/ Decrypt(r)
  PROVE  IInv'
  <1>1. TypeOK'
    BY TypeFront DEF IInv
  <1>2. UNCHANGED <<calls, got, rows>>
    BY DEF Receive, CheckTier, LoadCredentials, Decrypt
  <1>3. /\ pc[r] \in {"idle", "tier", "creds", "decrypt"}
        /\ \/ /\ pc' = [pc EXCEPT ![r] = "done"]
              /\ \E why \in Refusals : reply' = [reply EXCEPT ![r] = why]
           \/ /\ \E stage \in {"tier", "creds", "decrypt", "leverage"} :
                    pc' = [pc EXCEPT ![r] = stage]
              /\ reply' = reply
    BY DEF Receive, CheckTier, LoadCredentials, Decrypt, Refuse, Goto, Refusals
  <1>4. RInv(r)'
    <2>1. RInv(r) /\ TypeOK
      BY DEF IInv, RInv
    <2>2. Unsent(r) /\ reply[r] = "none"
      BY <1>3, <2>1 DEF RInv, StageIsEarned, ReplyIsEarned
    <2>3. \A k \in Kinds : got[r][k] = "none"
      BY <2>1, <2>2 DEF RInv, KnowledgeIsTrue, Unsent
    <2>4. SentInOrder(r)' /\ KnowledgeIsTrue(r)' /\ Unsent(r)'
      BY <1>2, <2>1, <2>2 DEF RInv, SentInOrder, KnowledgeIsTrue, Known, Unsent
    <2>5. /\ pc'[r] \in {"done", "tier", "creds", "decrypt", "leverage"}
          /\ reply'[r] # "none" => pc'[r] = "done"
          /\ reply'[r] \in Refusals \cup {"none"}
      BY <1>3, <2>1, <2>2 DEF TypeOK
    <2>6. StageIsEarned(r)'
      BY <1>2, <2>3, <2>4, <2>5, Tables DEF StageIsEarned
    <2>7. ReplyIsEarned(r)'
      BY <2>4, <2>5 DEF ReplyIsEarned, Refusals, Verdicts
    <2> QED
      BY <2>4, <2>6, <2>7 DEF RInv
  <1>5. ASSUME NEW q \in Requests, q # r PROVE RInv(q)'
    <2>1. pc'[q] = pc[q] /\ reply'[q] = reply[q]
      BY <1>3, <1>5 DEF IInv, TypeOK
    <2> QED
      BY <1>2, <2>1, Frame DEF IInv, RInv
  <1>6. \A row \in rows : RowIsEarned(row)'
    <2>1. \A q \in Requests : pc[q] \in Late => got'[q] = got[q] /\ pc'[q] \in Late
      BY <1>2, <1>3 DEF IInv, TypeOK, Late, Ended
    <2> QED
      BY <2>1, RowsStay DEF IInv
  <1> QED
    BY <1>1, <1>2, <1>4, <1>5, <1>6 DEF IInv, RInv, OneRow

(* What the steps of a call leave alone. *)
LEMMA InvOthers ==
  ASSUME IInv, NEW r \in Requests, TypeOK', rows' = rows, RInv(r)',
         \A q \in Requests \ {r} : /\ calls'[q] = calls[q] /\ got'[q] = got[q]
                                   /\ pc'[q] = pc[q] /\ reply'[q] = reply[q],
         pc[r] \in Late => got'[r] = got[r] /\ pc'[r] \in Late
  PROVE  IInv'
  <1>1. ASSUME NEW q \in Requests, q # r PROVE RInv(q)'
    BY <1>1, Frame DEF IInv, RInv
  <1>2. \A row \in rows : RowIsEarned(row)'
    BY RowsStay DEF IInv
  <1> QED
    BY <1>1, <1>2 DEF IInv, RInv, OneRow

(* Sending the next call: the one before it is known to have worked. *)
LEMMA InvSend ==
  ASSUME IInv, NEW r \in Requests, NEW k \in Kinds, Send(r, k)
  PROVE  IInv'
  <1>1. TypeOK'
    BY TypeCall DEF IInv
  <1>2. pc[r] = k /\ calls[r][k] = "unsent" /\ UNCHANGED <<pc, got, reply, rows>>
    BY DEF Send
  <1>3. /\ calls'[r] = [calls[r] EXCEPT ![k] = "sent"]
        /\ \A q \in Requests \ {r} : calls'[q] = calls[q]
    BY DEF Send, IInv, TypeOK
  <1>4. RInv(r) /\ calls[r] \in [Kinds -> CallState]
    BY DEF IInv, RInv, TypeOK
  <1>5. SentInOrder(r)'
    <2>1. \A j \in Kinds : calls'[r][j] # "unsent" => j = k \/ calls[r][j] # "unsent"
      BY <1>3, <1>4
    <2>2. StageIsEarned(r) /\ SentInOrder(r)
      BY <1>4 DEF RInv
    <2> QED
      BY <1>2, <2>1, <2>2, Tables DEF StageIsEarned, SentInOrder, Known
  <1>6. KnowledgeIsTrue(r)'
    BY <1>2, <1>3, <1>4 DEF RInv, KnowledgeIsTrue, Known
  <1>7. StageIsEarned(r)'
    <2>1. k \notin {"idle", "tier", "creds", "decrypt", "record", "touch", "recordFailure", "respond"}
      BY Tables
    <2> QED
      BY <1>2, <1>4, <2>1 DEF RInv, StageIsEarned, Known
  <1>8. ReplyIsEarned(r)'
    <2>1. reply[r] = "none"
      BY <1>2, <1>4, Tables DEF RInv, ReplyIsEarned
    <2> QED
      BY <1>2, <2>1 DEF ReplyIsEarned, Refusals, Verdicts
  <1>9. k \notin Late
    BY Tables DEF Late, Ended
  <1> QED
    BY <1>1, <1>2, <1>3, <1>5, <1>6, <1>7, <1>8, <1>9, InvOthers DEF RInv

(* Learning what became of a call, and moving on accordingly. *)
LEMMA InvLearn ==
  ASSUME IInv, NEW r \in Requests, NEW k \in Kinds, Acknowledge(r, k) \/ CallFails(r, k)
  PROVE  IInv'
  <1> USE DEF Known
  <1>1. TypeOK'
    BY TypeCall DEF IInv
  <1>2. /\ pc[r] = k
        /\ calls[r][k] # "unsent"
        /\ UNCHANGED <<calls, reply, rows>>
        /\ \/ /\ calls[r][k] \in {"done", "already"}
              /\ got' = [got EXCEPT ![r][k] = "ok"]
              /\ pc' = [pc EXCEPT ![r] = OnSuccess[k]]
           \/ /\ got' = [got EXCEPT ![r][k] = "error"]
              /\ pc' = [pc EXCEPT ![r] = OnError[k]]
    BY DEF Acknowledge, CallFails, Goto
  <1>3. RInv(r) /\ TypeOK
    BY DEF IInv, RInv
  <1>4. \A q \in Requests \ {r} : pc'[q] = pc[q] /\ got'[q] = got[q]
    BY <1>2, <1>3 DEF TypeOK
  <1>5. /\ pc'[r] \in {OnSuccess[k], OnError[k]}
        /\ \A j \in Kinds \ {k} : got'[r][j] = got[r][j]
        /\ \/ /\ got'[r][k] = "ok" /\ pc'[r] = OnSuccess[k]
              /\ calls[r][k] \in {"done", "already"}
           \/ got'[r][k] = "error" /\ pc'[r] = OnError[k]
    BY <1>2, <1>3 DEF TypeOK
  <1>6. got[r][k] = "none"
    BY <1>2, <1>3 DEF RInv, StageIsEarned
  <1>7. KnowledgeIsTrue(r)'
    BY <1>2, <1>3, <1>5 DEF RInv, KnowledgeIsTrue
  <1>8. SentInOrder(r)'
    BY <1>2, <1>3, <1>5, <1>6, Tables DEF RInv, SentInOrder
  <1>9. StageIsEarned(r)'
    <2>1. \A j \in Kinds : got[r][j] # "none" => calls[r][j] # "unsent"
      BY <1>3 DEF RInv, KnowledgeIsTrue
    <2>2. SentInOrder(r)
      BY <1>3 DEF RInv
    <2> USE DEF StageIsEarned, SentInOrder, FailedEarly, Executed, BracketError
    <2>4. CASE k = "leverage"
      <3>1. OnSuccess[k] = "mode" /\ OnError[k] = "recordFailure"
        BY <2>4 DEF OnSuccess, OnError
      <3>2. got[r]["mode"] = "none"
        BY <1>6, <2>1, <2>2, <2>4, Tables
      <3>3. got'[r]["mode"] = "none"
        BY <1>5, <2>4, <3>2, Tables
      <3>5. CASE got'[r][k] = "ok" /\ pc'[r] = OnSuccess[k]
        BY <2>4, <3>1, <3>5, <3>2, <3>3, Tables
      <3>6. CASE got'[r][k] = "error" /\ pc'[r] = OnError[k]
        BY <2>4, <3>1, <3>6, <3>2, <3>3, Tables DEF PreFlight
      <3> QED
        BY <1>5, <3>5, <3>6
    <2>5. CASE k = "mode"
      <3>1. OnSuccess[k] = "entry" /\ OnError[k] = "recordFailure"
        BY <2>5 DEF OnSuccess, OnError
      <3>2. got[r]["entry"] = "none"
        BY <1>6, <2>1, <2>2, <2>5, Tables
      <3>3. got'[r]["entry"] = "none"
        BY <1>5, <2>5, <3>2, Tables
      <3>5. CASE got'[r][k] = "ok" /\ pc'[r] = OnSuccess[k]
        BY <2>5, <3>1, <3>5, <3>2, <3>3, Tables
      <3>6. CASE got'[r][k] = "error" /\ pc'[r] = OnError[k]
        BY <2>5, <3>1, <3>6, <3>2, <3>3, Tables DEF PreFlight
      <3> QED
        BY <1>5, <3>5, <3>6
    <2>6. CASE k = "entry"
      <3>1. OnSuccess[k] = "sl" /\ OnError[k] = "recordFailure"
        BY <2>6 DEF OnSuccess, OnError
      <3>2. got[r]["sl"] = "none"
        BY <1>6, <2>1, <2>2, <2>6, Tables
      <3>3. got'[r]["sl"] = "none"
        BY <1>5, <2>6, <3>2, Tables
      <3>5. CASE got'[r][k] = "ok" /\ pc'[r] = OnSuccess[k]
        BY <2>6, <3>1, <3>5, <3>2, <3>3, Tables
      <3>6. CASE got'[r][k] = "error" /\ pc'[r] = OnError[k]
        BY <2>6, <3>1, <3>6, <3>2, <3>3, Tables DEF PreFlight
      <3> QED
        BY <1>5, <3>5, <3>6
    <2>7. CASE k = "sl"
      <3>1. OnSuccess[k] = "tp" /\ OnError[k] = "record"
        BY <2>7 DEF OnSuccess, OnError
      <3>2. got[r]["tp"] = "none"
        BY <1>6, <2>1, <2>2, <2>7, Tables
      <3>3. got'[r]["tp"] = "none"
        BY <1>5, <2>7, <3>2, Tables
      <3>4. got'[r]["entry"] = "ok"
        BY <1>2, <1>5, <2>2, <2>7, <1>3, Tables DEF RInv, StageIsEarned, KnowledgeIsTrue
      <3>5. CASE got'[r][k] = "ok" /\ pc'[r] = OnSuccess[k]
        BY <2>7, <3>1, <3>5, <3>2, <3>3, <3>4, Tables
      <3>6. CASE got'[r][k] = "error" /\ pc'[r] = OnError[k]
        BY <2>7, <3>1, <3>6, <3>2, <3>3, <3>4, Tables DEF PreFlight
      <3> QED
        BY <1>5, <3>5, <3>6
    <2>8. CASE k = "tp"
      <3>1. OnSuccess[k] = "record" /\ OnError[k] = "record"
        BY <2>8 DEF OnSuccess, OnError
      <3>4. got'[r]["entry"] = "ok"
        BY <1>2, <1>5, <2>2, <2>8, <1>3, Tables DEF RInv, StageIsEarned, KnowledgeIsTrue
      <3>5. CASE got'[r][k] = "ok" /\ pc'[r] = OnSuccess[k]
        BY <2>8, <3>1, <3>5, <3>4, Tables
      <3>6. CASE got'[r][k] = "error" /\ pc'[r] = OnError[k]
        BY <2>8, <3>1, <3>6, <3>4, Tables DEF PreFlight
      <3> QED
        BY <1>5, <3>5, <3>6
    <2> QED
      BY <2>4, <2>5, <2>6, <2>7, <2>8, Tables
  <1>10. ReplyIsEarned(r)'
    <2>1. reply[r] = "none"
      BY <1>2, <1>3, Tables DEF RInv, ReplyIsEarned
    <2> QED
      BY <1>2, <2>1 DEF ReplyIsEarned, Refusals, Verdicts
  <1>11. pc[r] \notin Late
    BY <1>2, Tables DEF Late, Ended
  <1> QED
    BY <1>1, <1>2, <1>4, <1>7, <1>8, <1>9, <1>10, <1>11, InvOthers DEF RInv

(* Binance carrying out or rejecting a call does not change what is known. *)
LEMMA InvBinance ==
  ASSUME IInv, NEW r \in Requests, Binance(r)
  PROVE  IInv'
  <1>1. TypeOK'
    BY TypeBinance DEF IInv
  <1>2. PICK k \in Kinds, outcome \in {"done", "already", "rejected"} :
          /\ calls[r][k] = "sent"
          /\ calls' = [calls EXCEPT ![r][k] = outcome]
          /\ outcome = "already" => k = "mode"
          /\ UNCHANGED <<pc, got, reply, rows>>
    BY DEF Binance, ApplyLeverage, ApplyIsolated, AlreadyIsolated, FillEntry, AcceptBracket,
           RejectCall, CarryOut, Kinds, PreFlight, Orders
  <1>3. RInv(r) /\ TypeOK
    BY DEF IInv, RInv
  <1>4. /\ calls'[r][k] = outcome
        /\ \A j \in Kinds \ {k} : calls'[r][j] = calls[r][j]
        /\ \A q \in Requests \ {r} : calls'[q] = calls[q]
    BY <1>2, <1>3 DEF TypeOK
  <1>5. \A j \in Kinds : calls'[r][j] = "unsent" <=> calls[r][j] = "unsent"
    BY <1>2, <1>4
  <1>6. SentInOrder(r)'
    BY <1>2, <1>3, <1>5, Tables DEF RInv, SentInOrder, Known
  <1>7. KnowledgeIsTrue(r)'
    BY <1>2, <1>3, <1>4 DEF RInv, KnowledgeIsTrue, Known
  <1>8. StageIsEarned(r)'
    <2>1. Unsent(r)' <=> Unsent(r)
      BY <1>5 DEF Unsent
    <2> QED
      BY <1>2, <1>3, <2>1 DEF RInv, StageIsEarned, Known, FailedEarly, Executed, BracketError
  <1>9. ReplyIsEarned(r)'
    <2>1. Unsent(r)' <=> Unsent(r)
      BY <1>5 DEF Unsent
    <2>2. Verdict(r)' = Verdict(r)
      BY <1>2 DEF Verdict, BracketError
    <2> QED
      BY <1>2, <1>3, <2>1, <2>2 DEF RInv, ReplyIsEarned, Known, FailedEarly, Executed, BracketError
  <1> QED
    BY <1>1, <1>2, <1>4, <1>6, <1>7, <1>8, <1>9, InvOthers DEF RInv

(* Recording: the one row of a request is written from what it knows. *)
LEMMA InvRecord ==
  ASSUME IInv, NEW r \in Requests, InsertExecution(r) \/ PersistFailure(r)
  PROVE  IInv'
  <1>1. TypeOK'
    BY TypeBack DEF IInv
  <1>2. RInv(r) /\ TypeOK
    BY DEF IInv, RInv
  <1>3. /\ UNCHANGED <<calls, got, reply>>
        /\ \/ /\ pc[r] = "record" /\ pc' = [pc EXCEPT ![r] = "touch"]
           \/ /\ pc[r] = "recordFailure" /\ pc' = [pc EXCEPT ![r] = "respond"]
    BY DEF InsertExecution, PersistFailure, Goto
  <1>4. RInv(r)'
    <2> USE DEF Unsent, Executed, FailedEarly, BracketError, Known
    <2>1. /\ \/ pc[r] = "record" /\ pc'[r] = "touch"
             \/ pc[r] = "recordFailure" /\ pc'[r] = "respond"
          /\ reply[r] = "none"
      BY <1>2, <1>3 DEF TypeOK, RInv, ReplyIsEarned
    <2>2. SentInOrder(r)' /\ KnowledgeIsTrue(r)'
      BY <1>2, <1>3 DEF RInv, SentInOrder, KnowledgeIsTrue
    <2>3. StageIsEarned(r)'
      BY <1>2, <1>3, <2>1, Tables DEF RInv, StageIsEarned
    <2>4. ReplyIsEarned(r)'
      BY <1>3, <2>1 DEF ReplyIsEarned, Refusals, Verdicts
    <2> QED
      BY <2>2, <2>3, <2>4 DEF RInv
  <1>5. ASSUME NEW q \in Requests, q # r PROVE RInv(q)'
    <2>1. pc'[q] = pc[q]
      BY <1>2, <1>3, <1>5 DEF TypeOK
    <2> QED
      BY <1>3, <2>1, Frame DEF IInv, RInv
  <1>6. \A row \in rows : RowIsEarned(row)'
    <2>1. \A q \in Requests : pc[q] \in Late => got'[q] = got[q] /\ pc'[q] \in Late
      BY <1>2, <1>3 DEF TypeOK, Late, Ended
    <2> QED
      BY <1>2, <2>1, RowsStay DEF IInv
  <1>7. ASSUME NEW row \in rows', row \notin rows PROVE RowIsEarned(row)'
    <2>1. CASE InsertExecution(r)
      <3>1. PICK ids \in Named(r) :
              row = [req |-> r, status |-> IF BracketError(r) THEN "partial" ELSE "filled",
                     ids |-> ids]
        BY <1>7, <2>1 DEF InsertExecution, Insert
      <3>2. Executed(r)
        BY <1>2, <2>1 DEF InsertExecution, RInv, StageIsEarned
      <3>3. pc'[r] = "touch"
        BY <1>2, <2>1 DEF InsertExecution, Goto, TypeOK
      <3> QED
        BY <1>3, <3>1, <3>2, <3>3 DEF RowIsEarned, Executed, BracketError, Known, Named
    <2>2. CASE PersistFailure(r)
      <3>1. row = [req |-> r, status |-> "failed", ids |-> {}]
        BY <1>7, <2>2 DEF PersistFailure, Insert
      <3>2. FailedEarly(r)
        BY <1>2, <2>2 DEF PersistFailure, RInv, StageIsEarned
      <3>3. pc'[r] = "respond"
        BY <1>2, <2>2 DEF PersistFailure, Goto, TypeOK
      <3> QED
        BY <1>3, <3>1, <3>2, <3>3 DEF RowIsEarned, FailedEarly
    <2> QED
      BY <2>1, <2>2
  <1>8. OneRow'
    <2>1. \A row \in rows : row.req # r
      BY <1>3 DEF IInv, RowIsEarned, Ended
    <2>2. ASSUME NEW status, NEW ids, Insert([req |-> r, status |-> status, ids |-> ids])
          PROVE  OneRow'
      <3>1. PICK new : new = [req |-> r, status |-> status, ids |-> ids]
        OBVIOUS
      <3>2. rows' \in {rows, rows \cup {new}} /\ new.req = r
        BY <2>2, <3>1 DEF Insert
      <3> QED
        BY <2>1, <3>2 DEF IInv, OneRow
    <2>3. CASE InsertExecution(r)
      BY <2>2, <2>3 DEF InsertExecution
    <2>4. CASE PersistFailure(r)
      BY <2>2, <2>4 DEF PersistFailure
    <2> QED
      BY <2>3, <2>4
  <1> QED
    BY <1>1, <1>4, <1>5, <1>6, <1>7, <1>8 DEF IInv, RInv

(* Touching the credentials, answering, and being killed. *)
LEMMA InvEnd ==
  ASSUME IInv, NEW r \in Requests, TouchCredentials(r) \/ Respond(r) \/ Kill(r)
  PROVE  IInv'
  <1> USE DEF Unsent, Executed, FailedEarly, BracketError, Known
  <1>1. TypeOK'
    BY TypeBack DEF IInv
  <1>2. RInv(r) /\ TypeOK
    BY DEF IInv, RInv
  <1>3. UNCHANGED <<calls, got, rows>>
    BY DEF TouchCredentials, Respond, Kill
  <1>4. /\ \A q \in Requests \ {r} : pc'[q] = pc[q] /\ reply'[q] = reply[q]
        /\ \/ pc[r] = "touch" /\ pc'[r] = "respond" /\ reply'[r] = reply[r]
           \/ pc[r] = "respond" /\ pc'[r] = "done" /\ reply'[r] = Verdict(r)
           \/ pc[r] \notin Ended /\ pc'[r] = "killed" /\ reply'[r] = reply[r]
    BY <1>2 DEF TouchCredentials, Respond, Kill, Goto, TypeOK
  <1>5. SentInOrder(r)' /\ KnowledgeIsTrue(r)'
    BY <1>2, <1>3 DEF RInv, SentInOrder, KnowledgeIsTrue
  <1>6. StageIsEarned(r)'
    BY <1>2, <1>3, <1>4, Tables DEF RInv, StageIsEarned
  <1>7. ReplyIsEarned(r)'
    <2>1. reply[r] = "none"
      BY <1>2, <1>4 DEF RInv, ReplyIsEarned, Ended
    <2>2. Verdict(r)' = Verdict(r)
      BY <1>3 DEF Verdict
    <2>3. Verdict(r) \in Verdicts
      BY DEF Verdict, Verdicts
    <2>4. CASE reply'[r] = "none"
      BY <2>4 DEF ReplyIsEarned, Refusals, Verdicts
    <2>5. CASE pc[r] = "respond" /\ pc'[r] = "done" /\ reply'[r] = Verdict(r)
      <3>1. FailedEarly(r)' \/ Executed(r)'
        BY <1>2, <1>3, <2>5 DEF RInv, StageIsEarned
      <3>2. reply'[r] \notin Refusals
        BY <2>3, <2>5 DEF Refusals, Verdicts
      <3> QED
        BY <2>2, <2>5, <3>1, <3>2 DEF ReplyIsEarned
    <2> QED
      BY <1>4, <2>1, <2>4, <2>5
  <1>8. pc[r] \in Late => got'[r] = got[r] /\ pc'[r] \in Late
    BY <1>3, <1>4 DEF Late, Ended
  <1> QED
    BY <1>1, <1>3, <1>4, <1>5, <1>6, <1>7, <1>8, InvOthers DEF RInv

(* Every step keeps the invariant. *)
LEMMA InvNext == IInv /\ [Next]_vars => IInv'
  <1> SUFFICES ASSUME IInv, [Next]_vars PROVE IInv'
    OBVIOUS
  <1>1. ASSUME NEW r \in Requests, Handle(r) PROVE IInv'
    BY <1>1, InvFront, InvSend, InvLearn, InvRecord, InvEnd DEF Handle
  <1>2. ASSUME NEW r \in Requests, Kill(r) PROVE IInv'
    BY <1>2, InvEnd
  <1>3. ASSUME UNCHANGED <<calls, got, pc, reply, rows>>, TypeOK' PROVE IInv'
    <2>1. ASSUME NEW q \in Requests PROVE RInv(q)'
      BY <1>3, Frame DEF IInv, RInv
    <2>2. \A row \in rows : RowIsEarned(row)'
      BY <1>3, RowsStay DEF IInv
    <2> QED
      BY <1>3, <2>1, <2>2 DEF IInv, RInv, OneRow
  <1>4. ASSUME NEW u \in Lapsing, ProfileChanges(u) PROVE IInv'
    BY <1>3, <1>4, TypeNext DEF IInv, ProfileChanges, Next
  <1>5. ASSUME NEW u \in Relinking, CredentialsChange(u) PROVE IInv'
    BY <1>3, <1>5, TypeNext DEF IInv, CredentialsChange, Next
  <1>6. CASE UNCHANGED vars
    BY <1>3, <1>6, TypeNext DEF IInv, vars
  <1> QED
    BY <1>1, <1>2, <1>4, <1>5, <1>6, InvBinance DEF Next, Execute

(* What handlers know, what they have reached and what Binance has done    *)
(* stay related as execute/index.ts:141-268 orders them.                   *)
THEOREM Invariance == Spec => []IInv
  BY InvInit, InvNext, PTL DEF Spec

-----------------------------------------------------------------------------
(* Safety.                                                                 *)

(* Sent calls and learned answers form a chain: none is without the        *)
(* success of all before it.                                               *)
LEMMA Chain ==
  ASSUME IInv, NEW r \in Requests
  PROVE  /\ \A k \in Kinds : got[r][k] # "none" => calls[r][k] # "unsent"
         /\ calls[r]["mode"] # "unsent" => Known(r, "leverage")
         /\ calls[r]["entry"] # "unsent" => Known(r, "mode") /\ Known(r, "leverage")
         /\ calls[r]["sl"] # "unsent" => Known(r, "entry") /\ calls[r]["entry"] # "unsent"
         /\ calls[r]["tp"] # "unsent" => Known(r, "sl") /\ calls[r]["sl"] # "unsent"
         /\ \A k \in Orders : Known(r, k) => Live(r, k)
  <1>1. SentInOrder(r) /\ KnowledgeIsTrue(r)
    BY DEF IInv
  <1>2. \A k \in Orders : Known(r, k) => Live(r, k)
    BY <1>1 DEF KnowledgeIsTrue, Live, Kinds, Orders, Brackets
  <1> QED
    BY <1>1, <1>2, Tables DEF SentInOrder, KnowledgeIsTrue, Known

(* What a request that executed knows of its brackets decides its verdict. *)
LEMMA ExecutedVerdict ==
  ASSUME IInv, NEW r \in Requests, Executed(r)
  PROVE  /\ ~FailedEarly(r)
         /\ Verdict(r) = IF BracketError(r) THEN "partial" ELSE "filled"
         /\ BracketError(r) => \E k \in Brackets : ~Known(r, k)
         /\ ~BracketError(r) => \A k \in Orders : Live(r, k)
         /\ Live(r, "entry")
  <1>1. Known(r, "entry") /\ Known(r, "mode") /\ Known(r, "leverage")
    BY Chain, Tables DEF Executed, Known
  <1>2. ~FailedEarly(r)
    BY <1>1 DEF FailedEarly, PreFlight, Known
  <1>3. Verdict(r) = IF BracketError(r) THEN "partial" ELSE "filled"
    BY <1>1 DEF Verdict, Known
  <1>4. BracketError(r) => \E k \in Brackets : ~Known(r, k)
    BY DEF BracketError, Brackets, Known
  <1>5. ASSUME ~BracketError(r) PROVE \A k \in Orders : Live(r, k)
    <2>1. Known(r, "tp")
      BY <1>5 DEF Executed
    <2>2. Known(r, "sl")
      BY <2>1, Chain, Tables DEF Known
    <2> QED
      BY <1>1, <2>1, <2>2, Chain DEF Orders, Brackets
  <1>6. Live(r, "entry")
    BY <1>1, Chain DEF Orders
  <1> QED
    BY <1>2, <1>3, <1>4, <1>5, <1>6

(* A request that failed early has a verdict that says so, and no bracket. *)
LEMMA FailedVerdict ==
  ASSUME IInv, NEW r \in Requests, FailedEarly(r)
  PROVE  /\ Verdict(r) \in {"failed_pre_flight", "failed_entry"}
         /\ ~Known(r, "entry")
         /\ \A k \in Brackets : calls[r][k] = "unsent"
         /\ Verdict(r) = "failed_pre_flight" => \A k \in Orders : calls[r][k] = "unsent"
  <1>1. PICK k \in PreFlight \cup {"entry"} : got[r][k] = "error"
    BY DEF FailedEarly
  <1>2. k \in {"leverage", "mode", "entry"}
    BY DEF PreFlight
  <1>3. ~Known(r, "entry")
    BY <1>1, <1>2, Chain, Tables DEF Known
  <1>4. calls[r]["sl"] = "unsent" /\ calls[r]["tp"] = "unsent"
    BY <1>3, Chain
  <1>5. Verdict(r) = "failed_pre_flight" \/ Verdict(r) = "failed_entry"
    <2>1. got[r].leverage = "error" \/ got[r].mode = "error" \/ got[r].entry = "error"
      BY <1>1, <1>2
    <2> QED
      BY <2>1 DEF Verdict
  <1>6. Verdict(r) = "failed_pre_flight" => got[r].leverage = "error" \/ got[r].mode = "error"
    BY DEF Verdict, BracketError
  <1>7. got[r].leverage = "error" \/ got[r].mode = "error" => calls[r]["entry"] = "unsent"
    BY Chain DEF Known
  <1> QED
    BY <1>3, <1>4, <1>5, <1>6, <1>7 DEF Brackets, Orders

(* The invariant implies that rows and replies agree with the exchange. *)
LEMMA InvSafe ==
  IInv => FilledIsBracketed /\ PartialHoldsPosition /\ RefusalSendsNothing /\ BracketsFollowEntry
  <1> SUFFICES ASSUME IInv
               PROVE  /\ FilledIsBracketed /\ PartialHoldsPosition
                      /\ RefusalSendsNothing /\ BracketsFollowEntry
    OBVIOUS
  <1>1. ASSUME NEW r \in Requests, NEW status \in {"filled", "partial"}, Told(r, status)
        PROVE  Executed(r) /\ (status = "partial" <=> BracketError(r))
    <2>1. CASE reply[r] = status
      <3>1. (FailedEarly(r) \/ Executed(r)) /\ status = Verdict(r)
        BY <2>1 DEF IInv, ReplyIsEarned, Verdicts
      <3>2. ~FailedEarly(r)
        BY <3>1, FailedVerdict
      <3> QED
        BY <3>1, <3>2, ExecutedVerdict
    <2>2. CASE \E row \in rows : row.req = r /\ row.status = status
      BY <2>2 DEF IInv, RowIsEarned
    <2> QED
      BY <1>1, <2>1, <2>2 DEF Told
  <1>2. FilledIsBracketed
    BY <1>1, ExecutedVerdict DEF FilledIsBracketed
  <1>3. PartialHoldsPosition
    BY <1>1, ExecutedVerdict DEF PartialHoldsPosition
  <1>4. RefusalSendsNothing
    <2>1. ASSUME NEW r \in Requests, reply[r] \in Refusals PROVE Unsent(r)
      BY <2>1 DEF IInv, ReplyIsEarned
    <2>2. ASSUME NEW r \in Requests, reply[r] = "failed_pre_flight"
          PROVE  \A k \in Orders : calls[r][k] = "unsent"
      <3>1. (FailedEarly(r) \/ Executed(r)) /\ Verdict(r) = "failed_pre_flight"
        BY <2>2 DEF IInv, ReplyIsEarned, Verdicts
      <3> QED
        BY <3>1, ExecutedVerdict, FailedVerdict
    <2> QED
      BY <2>1, <2>2 DEF RefusalSendsNothing, Unsent
  <1>5. BracketsFollowEntry
    BY Chain DEF BracketsFollowEntry, Orders, Brackets
  <1> QED
    BY <1>2, <1>3, <1>4, <1>5

(* A client or a row that says "filled" is right (execute/index.ts:188-239) *)
(* for any number of concurrent requests: all three orders are at Binance. *)
THEOREM Filled == Spec => []FilledIsBracketed
  BY Invariance, InvSafe, PTL

(* "partial" is only said of a live position that lacks an acknowledged    *)
(* bracket (execute/index.ts:220-232).                                     *)
THEOREM Partial == Spec => []PartialHoldsPosition
  BY Invariance, InvSafe, PTL

(* Refused requests made no call, failed pre-flights sent no order         *)
(* (execute/index.ts:105-148).                                             *)
THEOREM Refused == Spec => []RefusalSendsNothing
  BY Invariance, InvSafe, PTL

(* No bracket is ever sent before its own entry is live (:164-185). *)
THEOREM InOrder == Spec => []BracketsFollowEntry
  BY Invariance, InvSafe, PTL

(* The invariant implies that rows, replies and orders tell one story. *)
LEMMA InvLedger == IInv => LedgerAgrees
  <1> SUFFICES ASSUME IInv, NEW row \in rows
               PROVE  /\ \A k \in row.ids : Live(row.req, k)
                      /\ reply[row.req] # "none" =>
                           reply[row.req] \in (IF row.status = "failed"
                             THEN {"failed_pre_flight", "failed_entry"} ELSE {row.status})
                      /\ \A other \in rows : other.req = row.req => other = row
    BY DEF LedgerAgrees
  <1> DEFINE r == row.req
  <1>1. r \in Requests /\ row.status \in Status /\ row \in Row /\ RowIsEarned(row)
    BY DEF IInv, TypeOK, Row
  <1>2. /\ row.status = "failed" => FailedEarly(r) /\ row.ids = {}
        /\ row.status # "failed" =>
             /\ Executed(r) /\ (row.status = "partial" <=> BracketError(r))
             /\ \A k \in row.ids : Known(r, k)
    BY <1>1 DEF RowIsEarned
  <1>3. \A k \in row.ids : Live(r, k)
    BY <1>1, <1>2, Chain DEF Row
  <1>4. ASSUME reply[r] # "none"
        PROVE  reply[r] \in (IF row.status = "failed"
                             THEN {"failed_pre_flight", "failed_entry"} ELSE {row.status})
    <2>1. reply[r] \in Refusals \cup Verdicts
      BY <1>1, <1>4 DEF IInv, TypeOK, Replies
    <2>2. reply[r] \notin Refusals
      <3>1. ~Unsent(r)
        <4>1. \E k \in Kinds : got[r][k] # "none"
          BY <1>1, <1>2, Tables DEF FailedEarly, Executed, Known, Status, PreFlight
        <4> QED
          BY <1>1, <4>1, Chain DEF Unsent
      <3> QED
        BY <1>1, <3>1 DEF IInv, ReplyIsEarned
    <2>3. reply[r] = Verdict(r)
      BY <1>1, <2>1, <2>2 DEF IInv, ReplyIsEarned
    <2> QED
      BY <1>1, <1>2, <2>3, FailedVerdict, ExecutedVerdict DEF Status
  <1>5. \A other \in rows : other.req = r => other = row
    BY DEF IInv, OneRow
  <1> QED
    BY <1>3, <1>4, <1>5

(* A row, the response and the orders of a request never contradict each   *)
(* other, whatever the interleaving, and no request has two rows.          *)
THEOREM Ledger == Spec => []LedgerAgrees
  BY Invariance, InvLedger, PTL

-----------------------------------------------------------------------------
(* What may still happen after the answer, and the contract.               *)

(* An order under way says which answers its request can have received,    *)
(* and what is already at Binance.                                         *)
LEMMA UnderWay ==
  ASSUME IInv, NEW r \in Requests, NEW k \in Orders, calls[r][k] = "sent"
  PROVE  /\ k = "entry" => /\ reply[r] \in {"none", "failed_entry"}
                           /\ calls[r]["sl"] = "unsent" /\ calls[r]["tp"] = "unsent"
         /\ k # "entry" => reply[r] \in {"none", "partial"} /\ Live(r, "entry")
         /\ k = "sl" => calls[r]["tp"] = "unsent"
         /\ k = "tp" => Live(r, "sl")
  <1>1. ~Live(r, k) /\ ~Known(r, k) /\ ~Unsent(r) /\ k \in Kinds
    BY Chain DEF Live, Unsent, Kinds
  <1>2. reply[r] \in {"none"} \cup Verdicts
    BY <1>1 DEF IInv, TypeOK, Replies, ReplyIsEarned
  <1>3. reply[r] \in Verdicts => (FailedEarly(r) \/ Executed(r)) /\ reply[r] = Verdict(r)
    BY DEF IInv, ReplyIsEarned
  <1>4. ASSUME k = "entry"
        PROVE  /\ reply[r] \in {"none", "failed_entry"}
               /\ calls[r]["sl"] = "unsent" /\ calls[r]["tp"] = "unsent"
    <2>1. calls[r]["sl"] = "unsent" /\ calls[r]["tp"] = "unsent"
      BY <1>1, <1>4, Chain
    <2>2. ~Executed(r)
      BY <1>1, <1>4 DEF Executed
    <2>3. reply[r] \in Verdicts => Verdict(r) = "failed_entry"
      BY <1>3, <2>2, FailedVerdict
    <2> QED
      BY <1>2, <1>3, <2>1, <2>3
  <1>5. ASSUME k # "entry"
        PROVE  reply[r] \in {"none", "partial"} /\ Live(r, "entry")
    <2>1. k \in Brackets /\ Known(r, "entry")
      BY <1>5, Chain DEF Orders, Brackets
    <2>2. ~FailedEarly(r)
      BY <2>1, FailedVerdict
    <2>3. reply[r] \in Verdicts => Verdict(r) = "partial"
      BY <1>1, <1>3, <2>2, ExecutedVerdict
    <2> QED
      BY <1>2, <1>3, <2>1, <2>3, Chain DEF Orders
  <1>6. k = "sl" => calls[r]["tp"] = "unsent"
    BY <1>1, Chain
  <1>7. k = "tp" => Live(r, "sl")
    BY Chain DEF Orders, Brackets
  <1> QED
    BY <1>4, <1>5, <1>6, <1>7

(* Only Binance makes an order live, and one that was under way. *)
LEMMA OnlyBinance ==
  ASSUME IInv, [Next]_vars, NEW r \in Requests, NEW k \in Kinds, ~Live(r, k), Live(r, k)'
  PROVE  calls[r][k] = "sent" /\ reply' = reply
  <1>1. ASSUME NEW q \in Requests, Handle(q) PROVE calls'[r][k] # "done" \/ Live(r, k)
    <2>1. \/ calls' = calls
          \/ \E j \in Kinds : calls' = [calls EXCEPT ![q][j] = "sent"]
      BY <1>1 DEF Handle, Receive, CheckTier, LoadCredentials, Decrypt, Send, Acknowledge,
                  CallFails, InsertExecution, PersistFailure, TouchCredentials, Respond
    <2> QED
      BY <2>1 DEF IInv, TypeOK, Live
  <1>2. ASSUME NEW q \in Requests, Binance(q), calls'[r][k] = "done"
        PROVE  calls[r][k] = "sent" /\ reply' = reply
    <2>1. PICK j \in Kinds, outcome \in CallState : CarryOut(q, j, outcome)
      BY <1>2 DEF Binance, ApplyLeverage, ApplyIsolated, AlreadyIsolated, FillEntry,
                  AcceptBracket, RejectCall, CallState, Kinds, PreFlight, Orders
    <2> QED
      BY <1>2, <2>1 DEF CarryOut, IInv, TypeOK, Live
  <1>3. ASSUME UNCHANGED calls PROVE FALSE
    BY <1>3 DEF Live
  <1> QED
    BY <1>1, <1>2, <1>3 DEF Next, Execute, Kill, ProfileChanges, CredentialsChange, vars, Live

(* The step form of NoOrderAfterTheAnswer. *)
LEMMA InvQuiet ==
  IInv /\ [Next]_vars =>
    [\A r \in Requests : \A k \in Orders :
       (reply[r] # "none" /\ ~Live(r, k) /\ Live(r, k)')
         => reply[r] = (IF k = "entry" THEN "failed_entry" ELSE "partial")]_vars
  <1> SUFFICES ASSUME IInv, [Next]_vars, NEW r \in Requests, NEW k \in Orders,
                      reply[r] # "none", ~Live(r, k), Live(r, k)'
               PROVE  reply[r] = (IF k = "entry" THEN "failed_entry" ELSE "partial")
    OBVIOUS
  <1>1. calls[r][k] = "sent"
    BY OnlyBinance DEF Kinds
  <1> QED
    BY <1>1, UnderWay

(* An order that becomes live after the client was answered is one the     *)
(* answer left open (execute/index.ts:187-239).                            *)
THEOREM Quiet == Spec => NoOrderAfterTheAnswer
  <1>1. IInv /\ [Next]_vars =>
          [\A r \in Requests : \A k \in Orders :
             (reply[r] # "none" /\ ~Live(r, k) /\ Live(r, k)')
               => reply[r] = (IF k = "entry" THEN "failed_entry" ELSE "partial")]_vars
    BY InvQuiet
  <1> QED
    BY <1>1, Invariance, PTL DEF Spec, NoOrderAfterTheAnswer

-----------------------------------------------------------------------------
(* TradeExecution implements ExecutionContract.                            *)

LEMMA ContractInit == Init => Contract!Init
  <1> SUFFICES ASSUME Init, NEW r \in Requests
               PROVE  Position(r) = "none" /\ ToldVerdict(r) = "none"
    BY DEF Contract!Init
  <1> QED
    BY DEF Init, Position, ToldVerdict, Live, Kinds, Orders, Brackets, Refusals

(* The three orders of a request determine its position, the reply its     *)
(* verdict: a step that changes neither is a stutter of the contract.      *)
LEMMA ContractStutter ==
  ASSUME reply' = reply, \A q \in Requests : \A k \in Orders : Live(q, k)' <=> Live(q, k)
  PROVE  UNCHANGED Contract!vars
  <1>1. ASSUME NEW q \in Requests
        PROVE  Position(q)' = Position(q) /\ ToldVerdict(q)' = ToldVerdict(q)
    BY DEF Position, ToldVerdict, Orders, Brackets
  <1> QED
    BY <1>1 DEF Contract!vars

(* An order that becomes live opens, guards or brackets its position. *)
LEMMA ContractOrder ==
  ASSUME IInv, NEW r \in Requests, NEW k \in Orders,
         CarryOut(r, k, "done"), reply' = reply
  PROVE  Contract!Next
  <1>1. calls[r][k] = "sent" /\ calls' = [calls EXCEPT ![r][k] = "done"]
    BY DEF CarryOut
  <1>2. \A q \in Requests : \A j \in Orders :
          Live(q, j)' <=> Live(q, j) \/ (q = r /\ j = k)
    BY <1>1 DEF IInv, TypeOK, Live, Kinds
  <1>3. \A q \in Requests : ToldVerdict(q)' = ToldVerdict(q)
    BY DEF ToldVerdict
  <1>4. \A q \in Requests \ {r} : Position(q)' = Position(q)
    BY <1>2 DEF Position, Orders, Brackets
  <1>5. \A j \in Orders : calls[r][j] = "unsent" => ~Live(r, j)
    BY DEF Live
  <1>6. ~Live(r, k)
    BY <1>1 DEF Live
  <1>7. CASE k = "entry"
    <2>1. Position(r) = "none" /\ Position(r)' = "open"
      BY <1>1, <1>2, <1>5, <1>6, <1>7, UnderWay DEF Position, Orders, Brackets
    <2>2. ToldVerdict(r) \in {"none", "failed"}
      BY <1>1, <1>7, UnderWay DEF ToldVerdict, Refusals
    <2>3. Contract!Open(r)
      BY <1>3, <1>4, <2>1, <2>2 DEF Contract!Open, Contract!Advance
    <2> QED
      BY <2>3 DEF Contract!Next
  <1>8. CASE k = "sl"
    <2>1. Position(r) = "open" /\ Position(r)' = "guarded"
      BY <1>1, <1>2, <1>5, <1>6, <1>8, UnderWay DEF Position, Orders, Brackets
    <2>2. ToldVerdict(r) \in {"none", "partial"}
      BY <1>1, <1>8, UnderWay DEF ToldVerdict, Refusals
    <2>3. Contract!Guard(r)
      BY <1>3, <1>4, <2>1, <2>2 DEF Contract!Guard, Contract!Advance
    <2> QED
      BY <2>3 DEF Contract!Next
  <1>9. CASE k = "tp"
    <2>1. Position(r) = "guarded" /\ Position(r)' = "bracketed"
      BY <1>1, <1>2, <1>5, <1>6, <1>9, UnderWay DEF Position, Orders, Brackets
    <2>2. ToldVerdict(r) \in {"none", "partial"}
      BY <1>1, <1>9, UnderWay DEF ToldVerdict, Refusals
    <2>3. Contract!Bracket(r)
      BY <1>3, <1>4, <2>1, <2>2 DEF Contract!Bracket, Contract!Advance
    <2> QED
      BY <2>3 DEF Contract!Next
  <1> QED
    BY <1>7, <1>8, <1>9 DEF Orders, Brackets

(* Telling the client maps to one of the contract's verdicts. *)
LEMMA ContractTell ==
  ASSUME IInv, NEW r \in Requests, NEW answer \in Refusals \cup Verdicts,
         UNCHANGED calls, reply[r] = "none", reply' = [reply EXCEPT ![r] = answer],
         answer \in Refusals => Unsent(r),
         answer \in Verdicts => (FailedEarly(r) \/ Executed(r)) /\ answer = Verdict(r)
  PROVE  Contract!Next
  <1>1. reply'[r] = answer /\ \A q \in Requests \ {r} : reply'[q] = reply[q]
    BY DEF IInv, TypeOK
  <1>2. \A q \in Requests : Position(q)' = Position(q)
    BY DEF Position, Live
  <1>3. \A q \in Requests \ {r} : ToldVerdict(q)' = ToldVerdict(q)
    BY <1>1 DEF ToldVerdict
  <1>4. ToldVerdict(r) = "none"
    BY DEF ToldVerdict, Refusals
  <1>5. ASSUME \A k \in Orders : calls[r][k] = "unsent" PROVE Position(r) = "none"
    BY <1>5 DEF Position, Live, Orders, Brackets
  <1>6. CASE answer \in Refusals
    <2>1. Position(r) = "none" /\ ToldVerdict(r)' = "refused"
      BY <1>1, <1>5, <1>6 DEF ToldVerdict, Unsent, Kinds
    <2>2. Contract!Refuse(r)
      BY <1>2, <1>3, <1>4, <2>1 DEF Contract!Refuse, Contract!Tell
    <2> QED
      BY <2>2 DEF Contract!Next
  <1>7. CASE answer \in Verdicts /\ FailedEarly(r)
    <2>1. answer \in {"failed_pre_flight", "failed_entry"}
      BY <1>7, FailedVerdict
    <2>2. CASE answer = "failed_pre_flight"
      <3>1. Position(r) = "none" /\ ToldVerdict(r)' = "refused"
        BY <1>1, <1>5, <1>7, <2>2, FailedVerdict DEF ToldVerdict
      <3>2. Contract!Refuse(r)
        BY <1>2, <1>3, <1>4, <3>1 DEF Contract!Refuse, Contract!Tell
      <3> QED
        BY <3>2 DEF Contract!Next
    <2>3. CASE answer = "failed_entry"
      <3>1. Position(r) \in {"none", "open"}
        BY <1>7, FailedVerdict DEF Position, Live, Brackets
      <3>2. ToldVerdict(r)' = "failed"
        BY <1>1, <2>3 DEF ToldVerdict, Refusals
      <3>3. Contract!Fail(r)
        BY <1>2, <1>3, <1>4, <3>1, <3>2 DEF Contract!Fail, Contract!Tell
      <3> QED
        BY <3>3 DEF Contract!Next
    <2> QED
      BY <2>1, <2>2, <2>3
  <1>8. CASE answer \in Verdicts /\ Executed(r)
    <2>1. answer = (IF BracketError(r) THEN "partial" ELSE "filled") /\ Live(r, "entry")
      BY <1>8, ExecutedVerdict
    <2>2. CASE BracketError(r)
      <3>1. Position(r) \in Contract!Positions \ {"none"}
        BY <2>1 DEF Position, Contract!Positions
      <3>2. ToldVerdict(r)' = "partial"
        BY <1>1, <2>1, <2>2 DEF ToldVerdict, Refusals
      <3>3. Contract!Partial(r)
        BY <1>2, <1>3, <1>4, <3>1, <3>2 DEF Contract!Partial, Contract!Tell
      <3> QED
        BY <3>3 DEF Contract!Next
    <2>3. CASE ~BracketError(r)
      <3>1. Position(r) = "bracketed"
        BY <1>8, <2>3, ExecutedVerdict DEF Position, Orders, Brackets
      <3>2. ToldVerdict(r)' = "filled"
        BY <1>1, <2>1, <2>3 DEF ToldVerdict, Refusals
      <3>3. Contract!Fill(r)
        BY <1>2, <1>3, <1>4, <3>1, <3>2 DEF Contract!Fill, Contract!Tell
      <3> QED
        BY <3>3 DEF Contract!Next
    <2> QED
      BY <2>2, <2>3
  <1> QED
    BY <1>6, <1>7, <1>8

(* Every step of TradeExecution is a step or a stutter of the contract. *)
LEMMA ContractStep ==
  IInv /\ [Next]_vars => [Contract!Next]_Contract!vars
  <1> SUFFICES ASSUME IInv, [Next]_vars PROVE Contract!Next \/ UNCHANGED Contract!vars
    OBVIOUS
  <1>1. ASSUME UNCHANGED <<calls, reply>> PROVE UNCHANGED Contract!vars
    BY <1>1, ContractStutter DEF Live
  <1>2. ASSUME NEW r \in Requests, Receive(r) \/ CheckTier(r) \/ LoadCredentials(r) \/ Decrypt(r)
        PROVE  Contract!Next \/ UNCHANGED Contract!vars
    <2>1. /\ UNCHANGED calls
          /\ \/ UNCHANGED reply
             \/ \E why \in Refusals : reply' = [reply EXCEPT ![r] = why]
          /\ pc[r] \in {"idle", "tier", "creds", "decrypt"}
      BY <1>2 DEF Receive, CheckTier, LoadCredentials, Decrypt, Refuse, Refusals
    <2>2. Unsent(r) /\ reply[r] = "none"
      BY <2>1 DEF IInv, StageIsEarned, ReplyIsEarned
    <2>3. ASSUME NEW why \in Refusals, reply' = [reply EXCEPT ![r] = why] PROVE Contract!Next
      <3>1. why \notin Verdicts
        BY DEF Refusals, Verdicts
      <3> QED
        BY <2>1, <2>2, <2>3, <3>1, ContractTell
    <2> QED
      BY <1>1, <2>1, <2>3
  <1>3. ASSUME NEW r \in Requests, NEW k \in Kinds, Send(r, k)
        PROVE  UNCHANGED Contract!vars
    <2>1. \A q \in Requests : \A j \in Orders : Live(q, j)' <=> Live(q, j)
      BY <1>3 DEF Send, Live, IInv, TypeOK, Kinds
    <2> QED
      BY <1>3, <2>1, ContractStutter DEF Send
  <1>4. ASSUME NEW r \in Requests, Respond(r) PROVE Contract!Next
    <2>1. (FailedEarly(r) \/ Executed(r)) /\ reply[r] = "none"
      BY <1>4 DEF Respond, IInv, StageIsEarned, ReplyIsEarned
    <2>2. Verdict(r) \in Verdicts /\ Verdict(r) \notin Refusals
      BY DEF Verdict, Verdicts, Refusals
    <2> QED
      BY <1>4, <2>1, <2>2, ContractTell DEF Respond
  <1>5. ASSUME NEW r \in Requests, Handle(r)
        PROVE  Contract!Next \/ UNCHANGED Contract!vars
    <2>1. CASE \E k \in Kinds : Acknowledge(r, k) \/ CallFails(r, k)
      BY <1>1, <2>1 DEF Acknowledge, CallFails
    <2>2. CASE InsertExecution(r) \/ PersistFailure(r) \/ TouchCredentials(r)
      BY <1>1, <2>2 DEF InsertExecution, PersistFailure, TouchCredentials
    <2> QED
      BY <1>2, <1>3, <1>4, <1>5, <2>1, <2>2 DEF Handle
  <1>6. ASSUME NEW r \in Requests, NEW k \in Kinds, NEW outcome \in CallState,
               CarryOut(r, k, outcome), outcome = "done" => k \in PreFlight
        PROVE  UNCHANGED Contract!vars
    <2>1. calls[r][k] = "sent" /\ calls' = [calls EXCEPT ![r][k] = outcome] /\ reply' = reply
      BY <1>6 DEF CarryOut
    <2>2. \A q \in Requests : \A j \in Orders : Live(q, j)' <=> Live(q, j)
      BY <1>6, <2>1 DEF Live, IInv, TypeOK, Kinds, PreFlight, Orders, Brackets
    <2> QED
      BY <2>1, <2>2, ContractStutter
  <1>7. ASSUME NEW r \in Requests, Binance(r)
        PROVE  Contract!Next \/ UNCHANGED Contract!vars
    <2>1. \A k \in Kinds, outcome \in CallState : CarryOut(r, k, outcome) => reply' = reply
      BY DEF CarryOut
    <2>2. PICK k \in Kinds, outcome \in CallState : CarryOut(r, k, outcome)
      BY <1>7 DEF Binance, ApplyLeverage, ApplyIsolated, AlreadyIsolated, FillEntry,
                  AcceptBracket, RejectCall, CallState, Kinds, PreFlight, Orders
    <2>3. CASE k \in Orders /\ outcome = "done"
      BY <2>1, <2>2, <2>3, ContractOrder
    <2>4. CASE outcome = "done" => k \in PreFlight
      BY <1>6, <2>2, <2>4
    <2> QED
      BY <2>3, <2>4 DEF Kinds
  <1>8. ASSUME NEW r \in Requests, Kill(r) PROVE UNCHANGED Contract!vars
    BY <1>1, <1>8 DEF Kill
  <1>9. ASSUME NEW u \in Lapsing, ProfileChanges(u) PROVE UNCHANGED Contract!vars
    BY <1>1, <1>9 DEF ProfileChanges
  <1>10. ASSUME NEW u \in Relinking, CredentialsChange(u) PROVE UNCHANGED Contract!vars
    BY <1>1, <1>10 DEF CredentialsChange
  <1>11. CASE UNCHANGED vars
    BY <1>1, <1>11 DEF vars
  <1> QED
    BY <1>5, <1>7, <1>8, <1>9, <1>10, <1>11 DEF Next, Execute

(* The handler, its database and Binance together keep the contract: a     *)
(* position is opened, guarded and bracketed in order, and the one verdict *)
(* the client gets bounds what it is and can still become.                 *)
THEOREM Implementation == Spec => ImplementsContract
  BY ContractInit, ContractStep, Invariance, PTL DEF Spec, ImplementsContract, Contract!Spec

(* The contract's own theorem, about the positions and verdicts above.     *)
C == INSTANCE ExecutionContract_proofs WITH
  position <- [r \in Requests |-> Position(r)],
  verdict <- [r \in Requests |-> ToldVerdict(r)]

(* What a client was told stays true of its account at Binance, whatever   *)
(* lost answers, other requests and the runtime do afterwards: "filled" is *)
(* bracketed for good, "failed" may have become a bare position but never  *)
(* more, and "refused" stays without one.                                  *)
THEOREM ToldTheTruth == Spec => []Contract!Honest
  <1>1. Contract!Init => C!Init
    BY DEF Contract!Init, C!Init
  <1>2. C!Init => C!TypeOK /\ C!Honest
    BY DEF C!Init, C!TypeOK, C!Honest, C!Positions, C!Verdicts
  <1>3. [Contract!Next]_Contract!vars => [C!Next]_C!vars
    BY DEF Contract!Next, C!Next, Contract!vars, C!vars,
           Contract!Open, C!Open, Contract!Guard, C!Guard, Contract!Bracket, C!Bracket,
           Contract!Refuse, C!Refuse, Contract!Fail, C!Fail, Contract!Partial, C!Partial,
           Contract!Fill, C!Fill, Contract!Advance, C!Advance, Contract!Tell, C!Tell,
           Contract!Positions, C!Positions
  <1>4. C!TypeOK /\ C!Honest /\ [C!Next]_C!vars => (C!TypeOK /\ C!Honest)'
    BY C!HonestStep
  <1>5. C!Honest => Contract!Honest
    BY DEF C!Honest, Contract!Honest
  <1> QED
    BY <1>1, <1>2, <1>3, <1>4, <1>5, Implementation, PTL DEF ImplementsContract, Contract!Spec
-----------------------------------------------------------------------------
(* The settings entries execute with: the leverage and margin mode of a    *)
(* market are those its requests confirmed, whatever else happens to it    *)
(* between the pre-flight calls and the entry (execute/index.ts:141-162).  *)

LEMMA SettingsInit == Init => SettingsInv
  <1> SUFFICES ASSUME Init PROVE SettingsInv
    OBVIOUS
  <1>1. ASSUME NEW r \in Requests PROVE BodyIsValid(r) /\ MarketIsSet(r)
    BY Tables DEF Init, BodyIsValid, MarketIsSet, Live, Unsent
  <1> QED
    BY <1>1 DEF Init, SettingsInv

(* A step that keeps the markets of requests that made a call.             *)
Keeps ==
  /\ body' = body
  /\ \A q \in Requests : ~Unsent(q) => ~Unsent(q)' /\ Market(q)' = Market(q)
  /\ \A q \in Requests : Live(q, "leverage") => Live(q, "leverage")'

(* What was confirmed stays confirmed. *)
LEMMA ConfirmedStays ==
  ASSUME Keeps, NEW m, NEW leverage, Confirmed(m, leverage)
  PROVE  Confirmed(m, leverage)'
  <1>1. PICK q \in Requests :
          Live(q, "leverage") /\ Market(q) = m /\ body[q].leverage = leverage
    BY DEF Confirmed
  <1>2. ~Unsent(q)
    BY <1>1, Tables DEF Live, Unsent
  <1>3. Live(q, "leverage")' /\ Market(q)' = m /\ body'[q].leverage = leverage
    BY <1>1, <1>2 DEF Keeps
  <1> QED
    BY <1>3 DEF Confirmed

(* What was filled stays confirmed. *)
LEMMA FillsStay ==
  ASSUME TypeOK, SettingsInv, Keeps, NEW f \in fills
  PROVE  FillIsConfirmed(f)'
  <1>1. FillIsConfirmed(f) /\ f.req \in Requests
    BY DEF SettingsInv, TypeOK
  <1>2. ~Unsent(f.req)' /\ Market(f.req)' = Market(f.req)
    BY <1>1 DEF FillIsConfirmed, Keeps
  <1>3. Confirmed(Market(f.req), f.leverage)'
    BY <1>1, <1>2, ConfirmedStays DEF FillIsConfirmed
  <1> QED
    BY <1>1, <1>2, <1>3 DEF FillIsConfirmed

(* A step that changes no setting and fills nothing. *)
LEMMA SettingsStay ==
  ASSUME TypeOK, SettingsInv, Keeps, UNCHANGED <<market, fills>>,
         \A q \in Requests :
           /\ BodyIsValid(q)'
           /\ calls'[q]["mode"] \in {"done", "already"} => calls[q]["mode"] = calls'[q]["mode"]
           /\ Live(q, "leverage")' => Live(q, "leverage")
  PROVE  SettingsInv'
  <1>1. ASSUME NEW q \in Requests PROVE MarketIsSet(q)'
    <2>1. MarketIsSet(q)
      BY DEF SettingsInv
    <2>2. CASE Unsent(q)
      BY <2>2, Tables DEF MarketIsSet, Unsent, Live
    <2>3. CASE ~Unsent(q)
      <3>1. Market(q)' = Market(q)
        BY <2>3 DEF Keeps
      <3>2. Live(q, "leverage")' => Confirmed(Market(q), market[Market(q)].leverage)'
        BY <2>1, <3>1, ConfirmedStays DEF MarketIsSet
      <3>3. calls'[q]["mode"] \in {"done", "already"} => market'[Market(q)'].mode = "ISOLATED"
        BY <2>1, <3>1 DEF MarketIsSet
      <3> QED
        BY <3>1, <3>2, <3>3 DEF MarketIsSet
    <2> QED
      BY <2>2, <2>3
  <1>2. \A f \in fills' : FillIsConfirmed(f)'
    BY FillsStay
  <1> QED
    BY <1>1, <1>2 DEF SettingsInv

(* The handler's own steps, and those of other writers. *)
LEMMA SettingsHandler ==
  ASSUME IInv, SettingsInv, NEW r \in Requests, Handle(r) \/ Kill(r)
  PROVE  SettingsInv'
  <1>1. TypeOK /\ StageIsEarned(r) /\ BodyIsValid(r)
    BY DEF IInv, SettingsInv
  <1>2. /\ UNCHANGED <<market, fills, body>>
        /\ \A q \in Requests \ {r} : pc'[q] = pc[q] /\ loaded'[q] = loaded[q] /\ calls'[q] = calls[q]
    BY <1>1 DEF Handle, Receive, CheckTier, LoadCredentials, Decrypt, Send, Acknowledge,
                CallFails, InsertExecution, PersistFailure, TouchCredentials, Respond, Kill,
                Refuse, Goto, TypeOK
  <1>3. /\ Unsent(r) \/ loaded'[r] = loaded[r]
        /\ ~Unsent(r) => ~Unsent(r)'
        /\ \A k \in Kinds : calls'[r][k] \in {"done", "already"} <=> calls[r][k] \in {"done", "already"}
        /\ \A k \in Kinds : calls'[r][k] \in {"done", "already"} => calls'[r][k] = calls[r][k]
    <2>1. CASE LoadCredentials(r)
      BY <1>1, <2>1 DEF LoadCredentials, StageIsEarned, Unsent
    <2>2. CASE \E k \in Kinds : Send(r, k)
      BY <1>1, <2>2 DEF Send, TypeOK, Unsent
    <2>3. CASE UNCHANGED <<calls, loaded>>
      BY <2>3 DEF Unsent
    <2> QED
      BY <2>1, <2>2, <2>3 DEF Handle, Receive, CheckTier, Decrypt, Acknowledge, Refuse,
                CallFails, InsertExecution, PersistFailure, TouchCredentials, Respond, Kill
  <1>4. BodyIsValid(r)'
    <2>1. ValidBody(body[r])' = ValidBody(body[r])
      BY <1>2 DEF ValidBody
    <2>2. CASE Receive(r)
      <3>1. Unsent(r)' /\ pc'[r] \in {"done", "tier"} /\ (pc'[r] = "tier" => ValidBody(body[r]))
        BY <1>1, <2>2 DEF Receive, Refuse, Goto, TypeOK, StageIsEarned, Unsent
      <3> QED
        BY <2>1, <3>1 DEF BodyIsValid, Ended
    <2>3. CASE pc[r] \notin {"idle"} \cup Ended
      BY <1>1, <2>1, <2>3 DEF BodyIsValid
    <2> QED
      BY <2>2, <2>3, Tables DEF Handle, CheckTier, LoadCredentials, Decrypt, Send, Acknowledge,
                CallFails, InsertExecution, PersistFailure, TouchCredentials, Respond, Kill, Ended
  <1>5. \A q \in Requests \ {r} : BodyIsValid(q)'
    BY <1>2 DEF SettingsInv, BodyIsValid, ValidBody, Unsent
  <1>6. Keeps
    BY <1>2, <1>3, Tables DEF Keeps, Unsent, Market, Live
  <1>7. \A q \in Requests :
          /\ calls'[q]["mode"] \in {"done", "already"} => calls[q]["mode"] = calls'[q]["mode"]
          /\ Live(q, "leverage")' => Live(q, "leverage")
    BY <1>2, <1>3, Tables DEF Live
  <1> QED
    BY <1>1, <1>2, <1>4, <1>5, <1>6, <1>7, SettingsStay

(* Binance's steps: the only ones that change settings or fill an entry. *)
LEMMA SettingsBinance ==
  ASSUME IInv, SettingsInv, NEW r \in Requests, Binance(r)
  PROVE  SettingsInv'
  <1>1. TypeOK /\ MarketIsSet(r)
    BY DEF IInv, SettingsInv
  <1>2. PICK k \in Kinds, outcome \in {"done", "already", "rejected"} :
          /\ calls[r][k] = "sent"
          /\ calls' = [calls EXCEPT ![r][k] = outcome]
          /\ UNCHANGED <<pc, loaded, body>>
          /\ k \in PreFlight /\ outcome # "rejected" =>
               \/ k = "leverage" /\ outcome = "done" /\ ApplyLeverage(r)
               \/ k = "mode" /\ (ApplyIsolated(r) \/ AlreadyIsolated(r))
          /\ k = "entry" /\ outcome # "rejected" => FillEntry(r)
          /\ k \in Brackets \/ outcome = "rejected" => UNCHANGED <<market, fills>>
    BY DEF Binance, ApplyLeverage, ApplyIsolated, AlreadyIsolated, FillEntry, AcceptBracket,
           RejectCall, CarryOut, Kinds, PreFlight, Orders, Brackets
  <1>3. /\ calls'[r][k] = outcome
        /\ \A j \in Kinds \ {k} : calls'[r][j] = calls[r][j]
        /\ \A q \in Requests \ {r} : calls'[q] = calls[q]
    BY <1>1, <1>2 DEF TypeOK
  <1>4. \A q \in Requests : Market(q)' = Market(q) /\ (Unsent(q)' <=> Unsent(q))
    BY <1>2, <1>3 DEF Market, Unsent
  <1>5. Keeps
    BY <1>2, <1>3, <1>4, Tables DEF Keeps, Live
  <1>6. \A q \in Requests : BodyIsValid(q)'
    BY <1>2, <1>4 DEF SettingsInv, BodyIsValid, ValidBody
  <1>7. \A f \in fills : FillIsConfirmed(f)'
    BY <1>1, <1>5, FillsStay
  <1>8. CASE k \in Brackets \/ outcome = "rejected"
    BY <1>1, <1>2, <1>3, <1>5, <1>6, <1>8, Tables, SettingsStay DEF Live, Brackets
  <1>9. CASE k = "leverage" /\ ApplyLeverage(r)
    <2>1. /\ market' = [market EXCEPT ![Market(r)].leverage = body[r].leverage]
          /\ fills' = fills /\ outcome = "done"
      BY <1>2, <1>3, <1>9, Tables DEF ApplyLeverage, CarryOut, PreFlight
    <2>2. Confirmed(Market(r), body[r].leverage)'
      BY <1>2, <1>3, <1>4, <1>9, <2>1 DEF Confirmed, Live
    <2>3. ASSUME NEW q \in Requests PROVE MarketIsSet(q)'
      <3>1. MarketIsSet(q) /\ Market(q) \in Keys \X Symbols
        BY <1>1, MarketType DEF SettingsInv
      <3>2. /\ market'[Market(q)].mode = market[Market(q)].mode
            /\ market'[Market(q)].leverage =
                 IF Market(q) = Market(r) THEN body[r].leverage ELSE market[Market(q)].leverage
        BY <1>1, <2>1, <3>1 DEF TypeOK, Settings
      <3>3. calls'[q]["mode"] = calls[q]["mode"]
        BY <1>3, <1>9, Tables
      <3>4. Market(q) # Market(r) => Live(q, "leverage")' = Live(q, "leverage")
        BY <1>3 DEF Live
      <3>5. Live(q, "leverage")' => Confirmed(Market(q), market[Market(q)].leverage)'
        <4>1. CASE Market(q) = Market(r)
          BY <1>2, <1>4, <2>2, <3>2, <4>1 DEF Confirmed
        <4>2. CASE Market(q) # Market(r)
          BY <1>4, <1>5, <3>1, <3>2, <3>4, <4>2, ConfirmedStays DEF MarketIsSet
        <4> QED
          BY <4>1, <4>2
      <3> QED
        BY <1>4, <3>1, <3>2, <3>3, <3>5 DEF MarketIsSet
    <2> QED
      BY <1>6, <1>7, <2>1, <2>3 DEF SettingsInv
  <1>10. CASE k = "mode" /\ (ApplyIsolated(r) \/ AlreadyIsolated(r))
    <2>1. fills' = fills
      BY <1>10 DEF ApplyIsolated, AlreadyIsolated
    <2>2. \A m \in Keys \X Symbols :
            /\ market'[m].leverage = market[m].leverage
            /\ market[m].mode = "ISOLATED" => market'[m].mode = "ISOLATED"
      BY <1>1, <1>10 DEF TypeOK, Settings, ApplyIsolated, AlreadyIsolated
    <2>3. market'[Market(r)].mode = "ISOLATED"
      BY <1>1, <1>10, MarketType DEF TypeOK, Settings, ApplyIsolated, AlreadyIsolated
    <2>4. ASSUME NEW q \in Requests PROVE MarketIsSet(q)'
      <3>1. MarketIsSet(q) /\ Market(q) \in Keys \X Symbols
        BY <1>1, MarketType DEF SettingsInv
      <3>2. Live(q, "leverage")' = Live(q, "leverage")
        BY <1>3, <1>10, Tables DEF Live
      <3>3. Live(q, "leverage")' => Confirmed(Market(q), market[Market(q)].leverage)'
        BY <1>4, <1>5, <2>2, <3>1, <3>2, ConfirmedStays DEF MarketIsSet
      <3>4. calls'[q]["mode"] \in {"done", "already"} => market'[Market(q)].mode = "ISOLATED"
        BY <1>3, <2>2, <2>3, <3>1 DEF MarketIsSet
      <3> QED
        BY <1>4, <3>3, <3>4 DEF MarketIsSet
    <2> QED
      BY <1>6, <1>7, <2>1, <2>4 DEF SettingsInv
  <1>11. CASE k = "entry" /\ FillEntry(r)
    <2> DEFINE new == [req |-> r, leverage |-> market[Market(r)].leverage,
                       mode |-> market[Market(r)].mode]
    <2>1. market' = market /\ fills' = fills \cup {new}
      BY <1>11 DEF FillEntry
    <2>2. Known(r, "mode") /\ Known(r, "leverage") /\ calls[r]["entry"] # "unsent"
      BY <1>2, <1>11, Chain
    <2>3. calls[r]["mode"] \in {"done", "already"} /\ Live(r, "leverage")
      BY <2>2, Tables DEF IInv, KnowledgeIsTrue, Live
    <2>4. new.mode = "ISOLATED" /\ Confirmed(Market(r), new.leverage)
      BY <1>1, <2>3 DEF MarketIsSet
    <2>5. Confirmed(Market(r), new.leverage)'
      <3>1. ASSUME NEW leverage, Confirmed(Market(r), leverage)
            PROVE  Confirmed(Market(r), leverage)'
        BY <1>4, <1>5, <3>1, ConfirmedStays
      <3> QED
        BY <1>4, <2>1, <2>4, <3>1
    <2>6. ~Unsent(r)'
      BY <1>4, <2>2, Tables DEF Unsent
    <2>7. ASSUME NEW f, f = new PROVE FillIsConfirmed(f)'
      <3>1. f.req = r /\ f.mode = "ISOLATED" /\ f.leverage = market[Market(r)].leverage
        BY <2>4, <2>7
      <3> QED
        BY <1>4, <2>1, <2>5, <2>6, <3>1 DEF FillIsConfirmed, Confirmed
    <2>8. ASSUME NEW q \in Requests PROVE MarketIsSet(q)'
      <3>1. MarketIsSet(q)
        BY DEF SettingsInv
      <3>2. calls'[q]["mode"] = calls[q]["mode"] /\ Live(q, "leverage")' = Live(q, "leverage")
        BY <1>3, <1>11, Tables DEF Live
      <3>3. Live(q, "leverage")' => Confirmed(Market(q), market[Market(q)].leverage)'
        BY <1>4, <1>5, <2>1, <3>1, <3>2, ConfirmedStays DEF MarketIsSet
      <3> QED
        BY <1>4, <2>1, <3>1, <3>2, <3>3 DEF MarketIsSet
    <2> QED
      BY <1>6, <1>7, <2>1, <2>7, <2>8 DEF SettingsInv
  <1> QED
    BY <1>2, <1>8, <1>9, <1>10, <1>11 DEF Kinds, Orders

LEMMA SettingsNext == IInv /\ SettingsInv /\ [Next]_vars => SettingsInv'
  <1> SUFFICES ASSUME IInv, SettingsInv, [Next]_vars PROVE SettingsInv'
    OBVIOUS
  <1>1. ASSUME UNCHANGED <<market, calls, fills, pc, loaded, body>> PROVE SettingsInv'
    <2>1. Keeps
      BY <1>1 DEF Keeps, Unsent, Market, Live
    <2>2. \A q \in Requests : BodyIsValid(q)'
      BY <1>1 DEF SettingsInv, BodyIsValid, ValidBody, Unsent
    <2> QED
      BY <1>1, <2>1, <2>2, SettingsStay DEF IInv, Live
  <1>2. ASSUME NEW u \in Lapsing, ProfileChanges(u) PROVE SettingsInv'
    BY <1>1, <1>2 DEF ProfileChanges
  <1>3. ASSUME NEW u \in Relinking, CredentialsChange(u) PROVE SettingsInv'
    BY <1>1, <1>3 DEF CredentialsChange
  <1>4. CASE UNCHANGED vars
    BY <1>1, <1>4 DEF vars
  <1> QED
    BY <1>2, <1>3, <1>4, SettingsHandler, SettingsBinance DEF Next, Execute

(* What requests confirmed is what their markets hold, always. *)
THEOREM SettingsInvariance == Spec => []SettingsInv
  BY SettingsInit, SettingsNext, Invariance, PTL DEF Spec

(* The invariant says of every fill what EntrySettings and LegalLeverage do. *)
LEMMA SettingsSafe == IInv /\ SettingsInv => EntrySettings /\ LegalLeverage
  <1> SUFFICES ASSUME IInv, SettingsInv, NEW f \in fills
               PROVE  /\ f.mode = "ISOLATED"
                      /\ \E r \in Requests : /\ Live(r, "leverage")
                                             /\ Market(r) = Market(f.req)
                                             /\ body[r].leverage = f.leverage
                      /\ f.leverage \in 1..125
    BY DEF EntrySettings, LegalLeverage
  <1>1. PICK r \in Requests :
          Live(r, "leverage") /\ Market(r) = Market(f.req) /\ body[r].leverage = f.leverage
    BY DEF SettingsInv, FillIsConfirmed, Confirmed
  <1>2. ~Unsent(r)
    BY <1>1, Tables DEF Live, Unsent
  <1>3. f.leverage \in 1..125
    BY <1>1, <1>2 DEF SettingsInv, BodyIsValid, ValidBody
  <1>4. f.mode = "ISOLATED"
    BY DEF SettingsInv, FillIsConfirmed
  <1> QED
    BY <1>1, <1>3, <1>4

(* An executed entry was isolated, and at a leverage that some request for *)
(* its account and market confirmed, whatever handlers interleave and      *)
(* whichever credentials change meanwhile (execute/index.ts:143-160).      *)
THEOREM EntryMeetsSettings == Spec => []EntrySettings
  BY Invariance, SettingsInvariance, SettingsSafe, PTL

(* No entry ever executes at a leverage out of 1..125, whatever bodies are *)
(* sent (execute/index.ts:68).                                             *)
THEOREM EntryIsLegal == Spec => []LegalLeverage
  BY Invariance, SettingsInvariance, SettingsSafe, PTL
=============================================================================
