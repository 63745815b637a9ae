---------------------- MODULE BinanceConnection_proofs ----------------------
(* Proofs about BinanceConnection, for every set of users, keys and calls  *)
(* and any number of rotations of the master key.                          *)
EXTENDS BinanceConnection, TLAPS

(* A handler's step of one call. *)
Step(c) == Handle(c) \/ Kill(c)

-----------------------------------------------------------------------------
(* Type correctness. *)
LEMMA TypeInit == Init => TypeOK
  <1>1. (CHOOSE k \in Keys : TRUE) \in Keys
    BY KeysAssumption
  <1>2. NoCredential \in Credential
    BY <1>1 DEF NoCredential, Credential
  <1>3. 1 \in Masters
    BY MasterAssumption DEF Masters
  <1> QED
    BY <1>2, <1>3 DEF Init, TypeOK, Stages, Writes, Answers, Ended

LEMMA TypeEnter ==
  ASSUME TypeOK, NEW c \in Calls, CallInv(c), Enter(c) \/ CheckPermissions(c) \/ Kill(c)
  PROVE  TypeOK'
  <1>1. cred' = cred /\ connected' = connected /\ master' = master /\ caller' = caller
        /\ apiKey' = apiKey /\ keyId' = keyId /\ secretId' = secretId
    BY DEF Enter, CheckPermissions, Kill, row
  <1>0. stray' \in [Calls -> Writes \cup {"none"}]
    BY DEF Enter, CheckPermissions, Kill, Abandon, TypeOK, row
  <1>2. pc' \in [Calls -> Stages] /\ answer' \in [Calls -> Answers]
    BY DEF Enter, CheckPermissions, Vet, Kill, Goto, End, TypeOK, Stages, Writes, Answers, Ended
  <1>3. overlapped' \subseteq Calls /\ last' \in [Users -> SUBSET Calls]
    BY DEF Enter, CheckPermissions, Vet, Kill, TypeOK, Rivals, history
  <1>4. vetted' \subseteq ConnectCalls
    BY DEF Enter, CheckPermissions, Vet, Kill, CallInv, Linking, TypeOK, history
  <1> QED
    BY <1>0, <1>1, <1>2, <1>3, <1>4 DEF TypeOK

LEMMA TypeEncrypt ==
  ASSUME TypeOK, NEW c \in ConnectCalls, EncryptKey(c) \/ EncryptSecret(c)
  PROVE  TypeOK'
  BY DEF EncryptKey, EncryptSecret, Goto, End, TypeOK, Stages, Writes, Answers, Ended, Calls, row, history

LEMMA TypeWrite ==
  ASSUME TypeOK, NEW c \in Calls,
         (c \in ConnectCalls /\ Upsert(c)) \/ Flag(c) \/ Deactivate(c) \/ Unflag(c)
  PROVE  TypeOK'
  <1>1. master' = master /\ caller' = caller /\ apiKey' = apiKey /\ keyId' = keyId
        /\ secretId' = secretId /\ overlapped' = overlapped /\ last' = last /\ vetted' = vetted
    BY DEF Upsert, Flag, Deactivate, Unflag, history
  <1>0. stray' \in [Calls -> Writes \cup {"none"}]
    <2>1. stray' = stray \/ (pc[c] \in Writes /\ stray' \in {stray, [stray EXCEPT ![c] = pc[c]]})
      BY DEF Upsert, Flag, Deactivate, Unflag, Statement, Abandon, Writes
    <2> QED
      BY <2>1 DEF TypeOK
  <1>2. pc' \in [Calls -> Stages] /\ answer' \in [Calls -> Answers]
    <2>1. {"flag", "unflag", "done"} \subseteq Stages
          /\ {"store_failed", "profile_update_failed", "disconnect_failed", "connected", "disconnected"}
               \subseteq Answers
      BY DEF Stages, Writes, Answers, Ended
    <2>2. \/ \E stage \in {"flag", "unflag"} : Goto(c, stage)
          \/ \E with \in Answers : End(c, with)
      BY <2>1 DEF Upsert, Flag, Deactivate, Unflag, Statement
    <2> QED
      BY <2>1, <2>2 DEF Goto, End, TypeOK
  <1>3. cred' \in [Users -> Credential]
    <2>1. CASE c \in ConnectCalls /\ Upsert(c)
      <3>1. [state |-> "active", key |-> apiKey[c], readable |-> keyId[c] = secretId[c]] \in Credential
        BY <2>1 DEF TypeOK, Credential
      <3> QED
        BY <2>1, <3>1 DEF Upsert, Statement, Abandon, Store, StoreNew, StoreInactive, TypeOK
    <2>2. CASE Deactivate(c)
      <3>1. Inactive(cred[caller[c]]) \in Credential
        BY DEF Inactive, TypeOK, Credential
      <3> QED
        BY <2>2, <3>1 DEF Deactivate, Statement, Abandon, Store, StoreNew, StoreInactive, TypeOK
    <2> QED
      BY <2>1, <2>2 DEF Flag, Unflag, TypeOK
  <1>4. connected' \in [Users -> BOOLEAN]
    BY DEF Upsert, Flag, Deactivate, Unflag, Statement, SetFlag, TypeOK
  <1> QED
    BY <1>0, <1>1, <1>2, <1>3, <1>4 DEF TypeOK

LEMMA TypeLand ==
  ASSUME TypeOK, NEW c \in Calls, CallInv(c), Land(c)
  PROVE  TypeOK'
  <1>1. /\ master' = master /\ caller' = caller /\ apiKey' = apiKey /\ keyId' = keyId
        /\ secretId' = secretId /\ overlapped' = overlapped /\ last' = last /\ vetted' = vetted
        /\ pc' = pc /\ answer' = answer /\ stray' \in [Calls -> Writes \cup {"none"}]
    BY DEF Land, handler, history, TypeOK
  <1>2. cred' \in [Users -> Credential]
    <2>1. CASE stray[c] = "upsert" /\ StoreNew(c)
      <3>1. [state |-> "active", key |-> apiKey[c], readable |-> keyId[c] = secretId[c]] \in Credential
        BY <2>1 DEF TypeOK, Credential, CallInv, StrayInv
      <3> QED
        BY <2>1, <3>1 DEF Store, StoreNew, TypeOK
    <2>2. CASE StoreInactive(c)
      <3>1. Inactive(cred[caller[c]]) \in Credential
        BY DEF Inactive, TypeOK, Credential
      <3> QED
        BY <2>2, <3>1 DEF Store, StoreInactive, TypeOK
    <2> QED
      BY <2>1, <2>2 DEF Land, TypeOK
  <1>3. connected' \in [Users -> BOOLEAN]
    BY DEF Land, SetFlag, TypeOK
  <1> QED
    BY <1>1, <1>2, <1>3 DEF TypeOK

LEMMA TypeStep ==
  ASSUME TypeOK, \A c \in Calls : CallInv(c), [Next]_vars
  PROVE  TypeOK'
  <1>1. CASE RotateMaster
    BY <1>1, MasterAssumption DEF RotateMaster, TypeOK, Masters, row, handler, history
  <1>2. CASE UNCHANGED vars
    BY <1>2 DEF vars, row, handler, history, TypeOK
  <1>4. ASSUME NEW c \in Calls, Land(c) PROVE TypeOK'
    BY <1>4, TypeLand
  <1>3. ASSUME NEW c \in Calls, Step(c) PROVE TypeOK'
    <2>1. CallInv(c) /\ (pc[c] \in Linking => c \in ConnectCalls)
      BY DEF CallInv
    <2> QED
      BY <1>3, <2>1, TypeEnter, TypeEncrypt, TypeWrite
      DEF Step, Handle, EncryptKey, EncryptSecret, Upsert, Linking
  <1> QED
    BY <1>1, <1>2, <1>3, <1>4 DEF Next, Step

-----------------------------------------------------------------------------
(* What a step leaves alone. *)
Later(c) == \/ CheckPermissions(c) \/ EncryptKey(c) \/ EncryptSecret(c)
            \/ Upsert(c) \/ Flag(c) \/ Deactivate(c) \/ Unflag(c) \/ Kill(c)

LEMMA CallFrame ==
  ASSUME TypeOK, NEW c \in Calls, Step(c)
  PROVE  /\ master' = master /\ caller' = caller /\ apiKey' = apiKey
         /\ pc[c] \notin Ended /\ pc'[c] # "idle"
         /\ \A d \in Calls \ {c} : pc'[d] = pc[d] /\ answer'[d] = answer[d] /\ stray'[d] = stray[d]
         /\ \A d \in ConnectCalls \ {c} : keyId'[d] = keyId[d] /\ secretId'[d] = secretId[d]
  <1>1. master' = master /\ caller' = caller /\ apiKey' = apiKey
    BY DEF Step, Handle, Enter, CheckPermissions, Vet, EncryptKey, EncryptSecret, Upsert, Flag,
           Deactivate, Unflag, Kill
  <1>2. pc[c] \notin Ended
    BY DEF Step, Handle, Enter, CheckPermissions, Vet, EncryptKey, EncryptSecret, Upsert, Flag,
           Deactivate, Unflag, Kill, InFlight, Running, Ended
  <1>3. /\ pc'[c] # "idle"
        /\ \A d \in Calls \ {c} : pc'[d] = pc[d] /\ answer'[d] = answer[d]
    BY DEF Step, Handle, Enter, CheckPermissions, EncryptKey, EncryptSecret, Upsert, Flag,
           Deactivate, Unflag, Kill, Statement, Goto, End, TypeOK
  <1>5. \A d \in Calls \ {c} : stray'[d] = stray[d]
    BY DEF Step, Handle, Enter, CheckPermissions, EncryptKey, EncryptSecret, Upsert, Flag,
           Deactivate, Unflag, Kill, Statement, Abandon, TypeOK, row
  <1>4. \A d \in ConnectCalls \ {c} : keyId'[d] = keyId[d] /\ secretId'[d] = secretId[d]
    BY DEF Step, Handle, Enter, CheckPermissions, Vet, EncryptKey, EncryptSecret, Upsert, Flag,
           Deactivate, Unflag, Kill, TypeOK
  <1> QED
    BY <1>1, <1>2, <1>3, <1>4, <1>5

LEMMA UserFrame ==
  ASSUME TypeOK, NEW c \in Calls, Step(c), NEW u \in Users, u # caller[c]
  PROVE  cred'[u] = cred[u] /\ connected'[u] = connected[u] /\ last'[u] = last[u]
  BY DEF Step, Handle, Enter, CheckPermissions, Vet, EncryptKey, EncryptSecret, Upsert, Flag,
         Deactivate, Unflag, Kill, Statement, Abandon, Store, StoreNew, StoreInactive, SetFlag, TypeOK, row, history

LEMMA HistoryFrame ==
  ASSUME TypeOK, NEW c \in Calls, Step(c)
  PROVE  /\ overlapped \subseteq overlapped' /\ vetted \subseteq vetted'
         /\ Later(c) => overlapped' = overlapped /\ last' = last
  BY DEF Step, Handle, Later, Enter, CheckPermissions, Vet, EncryptKey, EncryptSecret, Upsert, Flag,
         Deactivate, Unflag, Kill, history

(* Entering reads no row; the answer, if there is one, is a refusal.       *)
LEMMA EnterFacts ==
  ASSUME TypeOK, NEW c \in Calls, Enter(c)
  PROVE  /\ cred' = cred /\ connected' = connected /\ stray' = stray /\ keyId' = keyId /\ secretId' = secretId
         /\ pc[c] = "idle"
         /\ \/ pc'[c] = "done" /\ answer'[c] = "refused" /\ overlapped' = overlapped /\ last' = last
            \/ /\ pc'[c] = (IF c \in ConnectCalls THEN "permissions" ELSE "deactivate")
               /\ answer' = answer
               /\ overlapped' = overlapped \cup (IF Rivals(c) = {} THEN {} ELSE Rivals(c) \cup {c})
               /\ last' = [last EXCEPT ![caller[c]] = {c}]
  BY DEF Enter, Goto, End, TypeOK, row, history

(* A call that goes on was under way, and stays so until it has ended.     *)
LEMMA InFlightFrame ==
  ASSUME TypeOK, NEW c \in Calls, Step(c), NEW d \in Calls
  PROVE  /\ d # c => (InFlight(d)' <=> InFlight(d))
         /\ Later(c) => (InFlight(d)' => InFlight(d))
         /\ Later(c) => Rivals(d)' \subseteq Rivals(d)
         /\ d # c /\ caller[d] # caller[c] => Rivals(d)' = Rivals(d)
         /\ Rivals(c)' = Rivals(c)
  <1>1. \A e \in Calls : e # c => (InFlight(e)' <=> InFlight(e))
    BY CallFrame DEF InFlight, Running
  <1>2. Later(c) => InFlight(c)
    BY DEF Later, CheckPermissions, Vet, EncryptKey, EncryptSecret, Upsert, Flag, Deactivate, Unflag,
           Kill, InFlight, Running, Ended
  <1> QED
    BY <1>1, <1>2, CallFrame DEF Rivals

-----------------------------------------------------------------------------
(* CallInv. *)
LEMMA StrayInvStep ==
  ASSUME TypeOK, NEW c \in Calls, Step(c), NEW d \in Calls, CallInv(d)
  PROVE  StrayInv(d)'
  <1>1. /\ StrayInv(d) /\ vetted \subseteq vetted' /\ overlapped \subseteq overlapped'
        /\ vetted \subseteq ConnectCalls
    BY HistoryFrame DEF CallInv, TypeOK
  <1>2. CASE d # c
    BY <1>1, <1>2, CallFrame DEF StrayInv, Troubled
  <1>3. CASE d = c
    <2>1. stray[c] = "none" /\ pc[c] \notin Ended
      BY <1>1, <1>3, CallFrame DEF StrayInv
    <2>2. CASE stray' = stray
      BY <1>3, <2>1, <2>2 DEF StrayInv
    <2>3. CASE Abandon(c) /\ pc[c] \in Writes
      <3>1. stray'[c] \in {"none", pc[c]}
        BY <2>1, <2>3 DEF Abandon, TypeOK
      <3>2. stray'[c] # "none" => (pc[c] \in Ended)' /\ Troubled(c)'
        BY <2>1, <2>3, <2>2
        DEF Step, Handle, Enter, CheckPermissions, EncryptKey, EncryptSecret, Upsert, Flag, Deactivate,
            Unflag, Kill, Statement, Goto, End, TypeOK, Ended, Troubled, Writes, row
      <3>3. stray'[c] = "upsert" => pc[c] = "upsert"
        BY <3>1
      <3>4. pc[c] = "upsert" => c \in vetted /\ keyId[c] <= secretId[c] /\ UNCHANGED <<keyId, secretId>>
        BY <1>3, <2>1, <2>3 DEF CallInv, Linking, Step, Handle, Enter, CheckPermissions, EncryptKey,
           EncryptSecret, Upsert, Flag, Deactivate, Unflag, Kill
      <3> QED
        BY <1>1, <1>3, <3>2, <3>3, <3>4 DEF StrayInv
    <2> QED
      BY <2>2, <2>3
      DEF Step, Handle, Enter, CheckPermissions, EncryptKey, EncryptSecret, Upsert, Flag, Deactivate,
          Unflag, Kill, Statement, row, Writes
  <1> QED
    BY <1>2, <1>3

LEMMA CallInvOthers ==
  ASSUME TypeOK, NEW c \in Calls, Step(c), NEW d \in Calls, d # c, CallInv(d)
  PROVE  CallInv(d)'
  <1>1. /\ (pc[d] \in Linking)' <=> pc[d] \in Linking
        /\ (pc[d] \in Linking => d \in ConnectCalls)'
        /\ (pc[d] \in Unlinking => d \in DisconnectCalls)'
        /\ (pc[d] \in Linking \ {"permissions"} => d \in vetted)'
        /\ (answer[d] # "none" => pc[d] = "done")'
    BY CallFrame, HistoryFrame DEF CallInv
  <1>2. d \in ConnectCalls => /\ (pc[d] = "encryptSecret" => keyId[d] <= master)'
                              /\ (pc[d] \in {"upsert", "flag"} => keyId[d] <= secretId[d])'
    BY CallFrame DEF CallInv
  <1>3. (d \notin overlapped => (InFlight(d) => Rivals(d) = {}))'
    <2>1. CASE Later(c)
      BY <2>1, InFlightFrame, HistoryFrame DEF CallInv
    <2>2. CASE Enter(c)
      <3>1. CASE caller[d] # caller[c]
        BY <3>1, HistoryFrame, InFlightFrame DEF CallInv
      <3>2. CASE caller[d] = caller[c] /\ InFlight(d)
        <4>1. d \in Rivals(c)
          BY <3>2 DEF Rivals
        <4> QED
          BY <2>2, <4>1, EnterFacts, CallFrame, InFlightFrame DEF CallInv, InFlight, Running, Ended, Rivals
      <3>3. CASE ~InFlight(d)
        BY <3>3, InFlightFrame
      <3> QED
        BY <3>1, <3>2, <3>3
    <2> QED
      BY <2>1, <2>2 DEF Step, Handle, Later
  <1> QED
    BY <1>1, <1>2, <1>3, StrayInvStep DEF CallInv, Linking

LEMMA CallInvEnter ==
  ASSUME TypeOK, NEW c \in Calls, Enter(c), CallInv(c)
  PROVE  CallInv(c)'
  <1>1. Step(c)
    BY DEF Step, Handle
  <1>0. StrayInv(c)' /\ stray'[c] = "none"
    BY <1>1, StrayInvStep, EnterFacts DEF CallInv, StrayInv, Ended
  <1>2. CASE pc'[c] = "done" /\ answer'[c] = "refused"
    BY <1>0, <1>2 DEF CallInv, Linking, Unlinking, InFlight, Running, Ended
  <1>3. CASE /\ pc'[c] = (IF c \in ConnectCalls THEN "permissions" ELSE "deactivate")
             /\ answer' = answer
             /\ overlapped' = overlapped \cup (IF Rivals(c) = {} THEN {} ELSE Rivals(c) \cup {c})
    <2>1. (c \notin overlapped => Rivals(c) = {})'
      BY <1>1, <1>3, InFlightFrame
    <2>2. answer[c] = "none"
      BY EnterFacts DEF CallInv
    <2> QED
      BY <1>0, <1>3, <2>1, <2>2 DEF CallInv, Linking, Unlinking, Calls
  <1> QED
    BY <1>2, <1>3, EnterFacts

LEMMA CallInvLater ==
  ASSUME TypeOK, NEW c \in Calls, Later(c), CallInv(c)
  PROVE  CallInv(c)'
  <1>1. Step(c)
    BY DEF Step, Handle, Later
  <1>2. (c \notin overlapped => (InFlight(c) => Rivals(c) = {}))'
    BY <1>1, HistoryFrame, InFlightFrame DEF CallInv
  <1>3. answer[c] = "none" /\ StrayInv(c)'
    BY <1>1, StrayInvStep
    DEF Later, CallInv, CheckPermissions, EncryptKey, EncryptSecret, Upsert, Flag, Deactivate,
        Unflag, Kill, Running, Ended
  <1>4. (answer[c] # "none" => pc[c] = "done")'
    BY <1>3
    DEF Later, CheckPermissions, Vet, EncryptKey, EncryptSecret, Upsert, Flag, Deactivate, Unflag, Kill,
        Statement, Abandon, Goto, End, TypeOK
  <1>5. /\ (pc[c] \in Linking => c \in ConnectCalls)'
        /\ (pc[c] \in Unlinking => c \in DisconnectCalls)'
        /\ (pc[c] \in Linking \ {"permissions"} => c \in vetted)'
        /\ (pc[c] = "encryptSecret" => keyId[c] <= master)'
        /\ (pc[c] \in {"upsert", "flag"} => keyId[c] <= secretId[c])'
    <2>1. CASE CheckPermissions(c)
      BY <2>1 DEF CheckPermissions, Vet, Goto, End, TypeOK, CallInv, Linking, Unlinking, Writes
    <2>2. CASE EncryptKey(c)
      BY <2>2 DEF EncryptKey, history, Goto, End, TypeOK, CallInv, Linking, Unlinking, Masters
    <2>3. CASE EncryptSecret(c)
      BY <2>3 DEF EncryptSecret, history, Goto, End, TypeOK, CallInv, Linking, Unlinking
    <2>4. CASE Upsert(c)
      BY <2>4 DEF Upsert, Statement, history, Goto, End, TypeOK, CallInv, Linking, Unlinking
    <2>5. CASE Deactivate(c)
      BY <2>5 DEF Deactivate, Statement, Goto, End, TypeOK, CallInv, Linking, Unlinking
    <2>6. CASE Flag(c) \/ Unflag(c) \/ Kill(c)
      BY <2>6 DEF Flag, Unflag, Kill, Statement, Goto, End, TypeOK, Linking, Unlinking
    <2> QED
      BY <2>1, <2>2, <2>3, <2>4, <2>5, <2>6 DEF Later
  <1> QED
    BY <1>2, <1>3, <1>4, <1>5 DEF CallInv

-----------------------------------------------------------------------------
(* RowInv. *)

(* The state and key that a step leaves in a row: another call's, or what  *)
(* this one writes.                                                        *)
LEMMA RowChanges ==
  ASSUME TypeOK, NEW c \in Calls, Step(c), CallInv(c), NEW u \in Users
  PROVE  \/ cred'[u] = cred[u]
         \/ /\ u = caller[c] /\ pc[c] = "upsert" /\ c \in ConnectCalls
            /\ pc'[c] \in {"flag", "done"}
            /\ keyId' = keyId /\ secretId' = secretId
            /\ cred'[u] = [state |-> "active", key |-> apiKey[c], readable |-> keyId[c] = secretId[c]]
         \/ /\ u = caller[c] /\ pc[c] = "deactivate"
            /\ cred[u].state # "absent"
            /\ cred'[u] = [state |-> "inactive", key |-> cred[u].key, readable |-> cred[u].readable]
  <1>1. CASE Upsert(c)
    BY <1>1 DEF Upsert, Statement, Abandon, Store, StoreNew, StoreInactive, Goto, End, TypeOK,
                CallInv, Linking
  <1>2. CASE Deactivate(c)
    BY <1>2 DEF Deactivate, Statement, Abandon, Store, StoreNew, StoreInactive, Inactive, TypeOK
  <1>3. CASE ~(Upsert(c) \/ Deactivate(c))
    BY <1>3 DEF Step, Handle, Enter, CheckPermissions, Vet, EncryptKey, EncryptSecret, Flag, Unflag, Kill, row
  <1> QED
    BY <1>1, <1>2, <1>3

LEMMA WroteStays ==
  ASSUME TypeOK, NEW c \in Calls, Step(c), NEW d \in ConnectCalls, NEW u \in Users, Wrote(d, u),
         cred'[u].key = cred[u].key, cred'[u].readable = cred[u].readable
  PROVE  Wrote(d, u)'
  <1>0. d \in Calls
    BY DEF Calls
  <1>1. keyId'[d] = keyId[d] /\ secretId'[d] = secretId[d] /\ pc'[d] \in {"flag", "done", "killed"}
    <2>1. CASE d # c
      BY <1>0, <2>1, CallFrame DEF Wrote
    <2>2. CASE d = c
      <3>1. Flag(c) \/ Kill(c)
        BY <2>2 DEF Step, Handle, Enter, CheckPermissions, Vet, EncryptKey, EncryptSecret, Upsert,
                    Deactivate, Unflag, Wrote
      <3> QED
        BY <2>2, <3>1 DEF Flag, Kill, Statement, Abandon, Goto, End, TypeOK
    <2> QED
      BY <2>1, <2>2
  <1> QED
    BY <1>1, CallFrame, HistoryFrame DEF Wrote

LEMMA RowInvStep ==
  ASSUME TypeOK, NEW c \in Calls, Step(c), CallInv(c), NEW u \in Users, RowInv(u)
  PROVE  RowInv(u)'
  <1>1. CASE cred'[u] = cred[u]
    BY <1>1, WroteStays DEF RowInv
  <1>2. CASE /\ u = caller[c] /\ pc[c] = "upsert" /\ c \in ConnectCalls
             /\ pc'[c] \in {"flag", "done"}
             /\ keyId' = keyId /\ secretId' = secretId
             /\ cred'[u] = [state |-> "active", key |-> apiKey[c], readable |-> keyId[c] = secretId[c]]
    <2>1. c \in vetted /\ keyId[c] <= secretId[c]
      BY <1>2 DEF CallInv, Linking
    <2>2. Wrote(c, u)'
      BY <1>2, <2>1, CallFrame, HistoryFrame DEF Wrote
    <2> QED
      BY <1>2, <2>2 DEF RowInv
  <1>3. CASE /\ cred[u].state # "absent"
             /\ cred'[u] = [state |-> "inactive", key |-> cred[u].key, readable |-> cred[u].readable]
    BY <1>3, WroteStays DEF RowInv
  <1> QED
    BY <1>1, <1>2, <1>3, RowChanges

-----------------------------------------------------------------------------
(* LastInv. *)

(* What a step of a user's last call does to the row and the flag.         *)
LEMMA LastInvOwn ==
  ASSUME TypeOK, NEW c \in Calls, Later(c), CallInv(c),
         LastInv(caller[c]), c \in last[caller[c]], c \notin overlapped
  PROVE  /\ (pc[c] = "flag" => Active(caller[c]) /\ cred[caller[c]].key = apiKey[c])'
         /\ (pc[c] = "unflag" => ~Active(caller[c]))'
         /\ (answer[c] = "connected" =>
               Active(caller[c]) /\ cred[caller[c]].key = apiKey[c] /\ connected[caller[c]])'
         /\ (answer[c] = "disconnected" => ~Active(caller[c]) /\ ~connected[caller[c]])'
  <1>0. answer[c] = "none" /\ caller[c] \in Users
    BY DEF TypeOK, Later, CallInv, CheckPermissions, Vet, EncryptKey, EncryptSecret, Upsert, Flag, Deactivate,
           Unflag, Kill, InFlight, Running, Ended
  <1>1. CASE CheckPermissions(c) \/ EncryptKey(c) \/ EncryptSecret(c) \/ Kill(c)
    BY <1>0, <1>1
    DEF CheckPermissions, Vet, EncryptKey, EncryptSecret, Kill, Goto, End, TypeOK
  <1>2. CASE Upsert(c)
    BY <1>0, <1>2 DEF Upsert, Statement, Abandon, Store, StoreNew, StoreInactive, Goto, End, TypeOK, Active
  <1>3. CASE Deactivate(c)
    BY <1>0, <1>3 DEF Deactivate, Statement, Abandon, Store, StoreNew, StoreInactive, Inactive,
                      Goto, End, TypeOK, Active
  <1>4. CASE Flag(c)
    BY <1>0, <1>4 DEF Flag, Statement, Abandon, SetFlag, End, TypeOK, Active, LastInv
  <1>5. CASE Unflag(c)
    BY <1>0, <1>5 DEF Unflag, Statement, Abandon, SetFlag, End, TypeOK, Active, LastInv
  <1> QED
    BY <1>1, <1>2, <1>3, <1>4, <1>5 DEF Later

LEMMA LastInvLater ==
  ASSUME TypeOK, NEW c \in Calls, Later(c), CallInv(c), NEW u \in Users, LastInv(u)
  PROVE  LastInv(u)'
  <1>0. Step(c)
    BY DEF Step, Handle, Later
  <1>1. overlapped' = overlapped /\ last' = last
    BY <1>0, HistoryFrame
  <1>2. ASSUME NEW d \in last[u], d \notin overlapped PROVE Rivals(d)' = {}
    BY <1>0, <1>2, InFlightFrame DEF LastInv, TypeOK
  <1>3. CASE u # caller[c]
    <2>1. ASSUME NEW d \in last[u] PROVE d \in Calls \ {c} /\ caller[d] = u
      BY <1>3 DEF LastInv, TypeOK
    <2>2. cred'[u] = cred[u] /\ connected'[u] = connected[u]
      BY <1>0, <1>3, UserFrame
    <2> QED
      BY <1>0, <1>1, <1>2, <2>1, <2>2, CallFrame DEF LastInv, Active
  <1>4. CASE u = caller[c]
    <2>1. InFlight(c)
      BY DEF Later, CheckPermissions, Vet, EncryptKey, EncryptSecret, Upsert, Flag, Deactivate, Unflag,
             Kill, InFlight, Running, Ended
    <2>2. ASSUME NEW d \in last[u], d \notin overlapped PROVE d = c
      BY <1>4, <2>1, <2>2 DEF LastInv, Rivals, TypeOK
    <2> QED
      BY <1>0, <1>1, <1>2, <1>4, <2>2, CallFrame, LastInvOwn DEF LastInv
  <1> QED
    BY <1>3, <1>4

LEMMA LastInvEnter ==
  ASSUME TypeOK, NEW c \in Calls, Enter(c), CallInv(c), NEW u \in Users, LastInv(u)
  PROVE  LastInv(u)'
  <1>0. Step(c)
    BY DEF Step, Handle
  <1>1. ASSUME NEW d \in last[u], d \in last'[u], d \notin overlapped'
        PROVE  Rivals(d)' = {}
    <2>1. d \in Calls /\ caller[d] = u /\ Rivals(d) = {}
      BY <1>0, <1>1, HistoryFrame DEF LastInv, TypeOK
    <2>2. CASE d = c \/ caller[c] # u
      BY <1>0, <2>1, <2>2, InFlightFrame
    <2>3. CASE d # c /\ caller[c] = u
      <3>1. pc'[c] = "done" /\ stray'[c] = "none"
        BY <1>1, <2>3, EnterFacts DEF TypeOK, CallInv, StrayInv, Ended
      <3>2. ~InFlight(c)'
        BY <3>1 DEF InFlight, Running, Ended
      <3>3. \A e \in Calls \ {c} : InFlight(e)' <=> InFlight(e)
        BY <1>0, InFlightFrame
      <3> QED
        BY <1>0, <2>1, <3>2, <3>3, CallFrame DEF Rivals
    <2> QED
      BY <2>2, <2>3
  <1>2. CASE last' = last
    <2>1. ASSUME NEW d \in last[u], d \notin overlapped'
          PROVE  /\ (pc[d] = "flag" => Active(u) /\ cred[u].key = apiKey[d])'
                 /\ (pc[d] = "unflag" => ~Active(u))'
                 /\ (answer[d] = "connected" => Active(u) /\ cred[u].key = apiKey[d] /\ connected[u])'
                 /\ (answer[d] = "disconnected" => ~Active(u) /\ ~connected[u])'
      <3>1. d \in Calls /\ d \notin overlapped
        BY <1>0, <2>1, HistoryFrame DEF TypeOK
      <3>2. \/ pc'[d] = pc[d] /\ answer'[d] = answer[d]
            \/ pc'[d] \notin {"flag", "unflag"} /\ answer'[d] \notin {"connected", "disconnected"}
        BY <1>0, <3>1, CallFrame, EnterFacts DEF CallInv
      <3> QED
        BY <1>0, <3>1, <3>2, CallFrame, EnterFacts DEF LastInv, Active
    <2> QED
      BY <1>0, <1>1, <1>2, <2>1, CallFrame DEF LastInv
  <1>3. CASE last' = [last EXCEPT ![caller[c]] = {c}] /\ u # caller[c]
    <2>1. last'[u] = last[u] /\ \A d \in last[u] : d \in Calls \ {c} /\ caller[d] = u
      BY <1>3 DEF LastInv, TypeOK
    <2> QED
      BY <1>0, <1>1, <2>1, CallFrame, EnterFacts, HistoryFrame DEF LastInv, Active
  <1>4. CASE last' = [last EXCEPT ![caller[c]] = {c}] /\ u = caller[c]
    <2>1. last'[u] = {c}
      BY <1>4 DEF TypeOK
    <2>2. pc'[c] \notin {"flag", "unflag"} /\ answer'[c] \notin {"connected", "disconnected"}
      BY EnterFacts DEF CallInv
    <2>3. c \notin overlapped' => Rivals(c)' = {}
      <3>1. CASE last = last'
        BY <1>0, <1>1, <2>1, <3>1
      <3>2. CASE last # last'
        BY <1>0, <3>2, EnterFacts, InFlightFrame
      <3> QED
        BY <3>1, <3>2
    <2> QED
      BY <1>0, <1>4, <2>1, <2>2, <2>3, CallFrame DEF LastInv
  <1> QED
    BY <1>2, <1>3, <1>4, EnterFacts

-----------------------------------------------------------------------------
(* FlagInv. *)

(* Trouble is never forgotten. *)
LEMMA TroubleStays ==
  ASSUME TypeOK, NEW c \in Calls, Step(c), CallInv(c), NEW d \in Calls, Troubled(d)
  PROVE  Troubled(d)'
  <1>1. CASE d # c
    BY <1>1, CallFrame, HistoryFrame DEF Troubled
  <1>2. CASE d = c
    BY <1>2, CallFrame, HistoryFrame DEF Troubled, CallInv, Ended
  <1> QED
    BY <1>1, <1>2

(* A call without trouble leaves flag and row equal, or is between them.   *)
LEMMA FlagInvOwn ==
  ASSUME TypeOK, NEW c \in Calls, Later(c), ~Troubled(c)',
         pc[c] = "flag" => Active(caller[c]),
         pc[c] = "unflag" => ~Active(caller[c])
  PROVE  /\ (pc[c] = "flag" => Active(caller[c]))'
         /\ (pc[c] = "unflag" => ~Active(caller[c]))'
         /\ pc[c] \in {"flag", "unflag"} => (connected[caller[c]] = Active(caller[c]))'
         /\ pc[c] \notin {"flag", "unflag"} /\ pc'[c] \notin {"flag", "unflag"} =>
              /\ connected'[caller[c]] = connected[caller[c]]
              /\ (Active(caller[c]))' = Active(caller[c])
  <1>0. caller[c] \in Users
    BY DEF TypeOK
  <1>1. CASE CheckPermissions(c) \/ EncryptKey(c) \/ EncryptSecret(c) \/ Kill(c)
    BY <1>0, <1>1
    DEF CheckPermissions, Vet, EncryptKey, EncryptSecret, Kill, Goto, End, TypeOK, Troubled, Active, row
  <1>2. CASE Upsert(c)
    BY <1>0, <1>2 DEF Upsert, Statement, Abandon, Store, StoreNew, StoreInactive, Goto, End, TypeOK,
                      Active, Troubled
  <1>3. CASE Deactivate(c)
    BY <1>0, <1>3 DEF Deactivate, Statement, Abandon, Store, StoreNew, StoreInactive, Inactive,
                      Goto, End, TypeOK, Active, Troubled
  <1>4. CASE Flag(c)
    BY <1>0, <1>4 DEF Flag, Statement, Abandon, SetFlag, End, TypeOK, Active, Troubled
  <1>5. CASE Unflag(c)
    BY <1>0, <1>5 DEF Unflag, Statement, Abandon, SetFlag, End, TypeOK, Active, Troubled
  <1> QED
    BY <1>1, <1>2, <1>3, <1>4, <1>5 DEF Later

LEMMA FlagInvStep ==
  ASSUME TypeOK, NEW c \in Calls, Step(c), \A d \in Calls : CallInv(d),
         NEW u \in Users, FlagInv(u)
  PROVE  FlagInv(u)'
  <1> SUFFICES ASSUME Untroubled(u)'
               PROVE  /\ \A d \in Calls : (caller[d] = u =>
                           /\ pc[d] = "flag" => Active(u)
                           /\ pc[d] = "unflag" => ~Active(u))'
                      /\ \/ (connected[u] = Active(u))'
                         \/ \E d \in Calls : (caller[d] = u /\ pc[d] \in {"flag", "unflag"})'
    BY DEF FlagInv
  <1>1. Untroubled(u)
    BY CallFrame, TroubleStays DEF Untroubled
  <1>2. /\ \A d \in Calls : caller[d] = u =>
             /\ pc[d] = "flag" => Active(u)
             /\ pc[d] = "unflag" => ~Active(u)
        /\ \/ connected[u] = Active(u)
           \/ \E d \in Calls : caller[d] = u /\ pc[d] \in {"flag", "unflag"}
    BY <1>1 DEF FlagInv
  <1>3. CASE caller[c] # u
    <2>1. cred'[u] = cred[u] /\ connected'[u] = connected[u]
      BY <1>3, UserFrame
    <2>2. \A d \in Calls : caller[d] = u => caller'[d] = u /\ pc'[d] = pc[d]
      BY <1>3, CallFrame
    <2> QED
      BY <1>2, <2>1, <2>2, CallFrame DEF Active
  <1>4. CASE caller[c] = u /\ Enter(c)
    <2>1. pc'[c] \notin {"flag", "unflag"} /\ pc[c] \notin {"flag", "unflag"}
          /\ cred' = cred /\ connected' = connected
      BY <1>4, EnterFacts
    <2> QED
      BY <1>2, <2>1, CallFrame DEF Active
  <1>5. CASE caller[c] = u /\ Later(c)
    <2>1. c \notin overlapped /\ ~Troubled(c)'
      BY <1>1, <1>5, CallFrame DEF Untroubled, Troubled
    <2>2. InFlight(c)
      BY <1>5 DEF Later, CheckPermissions, Vet, EncryptKey, EncryptSecret, Upsert, Flag, Deactivate, Unflag,
                  Kill, InFlight, Running, Ended
    <2>3. \A d \in Calls \ {c} : caller[d] = u => pc[d] \notin {"flag", "unflag"}
      BY <1>5, <2>1, <2>2 DEF CallInv, Rivals, InFlight, Running, Ended
    <2>4. \A d \in Calls \ {c} : caller[d] = u => pc'[d] \notin {"flag", "unflag"}
      BY <2>3, CallFrame
    <2> QED
      BY <1>2, <1>5, <2>1, <2>3, <2>4, CallFrame, FlagInvOwn
  <1> QED
    BY <1>3, <1>4, <1>5 DEF Step, Handle, Later

-----------------------------------------------------------------------------
(* The invariant. *)
LEMMA InvInit == Init => IInv
  <1> SUFFICES ASSUME Init PROVE IInv
    OBVIOUS
  <1>1. \A c \in Calls : CallInv(c)
    BY DEF Init, CallInv, StrayInv, Linking, Unlinking, InFlight, Running
  <1>2. \A u \in Users : RowInv(u) /\ LastInv(u)
    BY DEF Init, RowInv, LastInv, NoCredential
  <1>3. \A u \in Users : FlagInv(u)
    BY DEF Init, FlagInv, NoCredential, Active
  <1> QED
    BY <1>1, <1>2, <1>3, TypeInit DEF IInv

(* A rotation of the master key only makes the key later. *)
LEMMA RotateKeepsInv == ASSUME IInv, RotateMaster PROVE (\A c \in Calls : CallInv(c))'
                                                     /\ (\A u \in Users : RowInv(u) /\ LastInv(u) /\ FlagInv(u))'
  <1>1. cred' = cred /\ connected' = connected /\ pc' = pc /\ caller' = caller /\ apiKey' = apiKey
        /\ keyId' = keyId /\ secretId' = secretId /\ answer' = answer /\ overlapped' = overlapped
        /\ last' = last /\ vetted' = vetted /\ stray' = stray
    BY DEF RotateMaster, row, handler, history
  <1>2. ASSUME NEW c \in Calls PROVE CallInv(c)'
    <2>1. CallInv(c)
      BY DEF IInv
    <2>2. (pc[c] = "encryptSecret" => keyId[c] <= master)'
      <3>1. pc[c] = "encryptSecret" => keyId[c] \in Int /\ keyId[c] <= master /\ master \in Int
        BY <2>1 DEF CallInv, IInv, TypeOK, Masters, Linking
      <3> QED
        BY <1>1, <3>1 DEF RotateMaster
    <2> QED
      BY <1>1, <2>1, <2>2 DEF CallInv, StrayInv, InFlight, Running, Rivals, Troubled
  <1>3. ASSUME NEW u \in Users PROVE RowInv(u)' /\ LastInv(u)' /\ FlagInv(u)'
    <2>1. RowInv(u) /\ LastInv(u) /\ FlagInv(u)
      BY DEF IInv
    <2> QED
      BY <1>1, <2>1
      DEF RowInv, LastInv, FlagInv, Wrote, Rivals, InFlight, Running, Active, Untroubled, Troubled
  <1> QED
    BY <1>2, <1>3

(* A late write is the write of a call that has had its trouble.           *)
LEMMA LandFrame ==
  ASSUME TypeOK, NEW c \in Calls, Land(c)
  PROVE  /\ UNCHANGED <<master, pc, caller, apiKey, keyId, secretId, answer, overlapped, last, vetted>>
         /\ stray[c] # "none"
         /\ \A d \in Calls : InFlight(d)' => InFlight(d)
         /\ \A d \in Calls : stray'[d] # "none" => stray'[d] = stray[d]
         /\ \A u \in Users : u # caller[c] => cred'[u] = cred[u] /\ connected'[u] = connected[u]
  <1>1. UNCHANGED <<master, pc, caller, apiKey, keyId, secretId, answer, overlapped, last, vetted>>
    BY DEF Land, handler, history
  <1>2. stray[c] # "none" /\ stray' = [stray EXCEPT ![c] = "none"]
    BY DEF Land
  <1>3. \A d \in Calls : stray'[d] # "none" => stray'[d] = stray[d]
    BY <1>2 DEF TypeOK
  <1>4. \A u \in Users : u # caller[c] => cred'[u] = cred[u] /\ connected'[u] = connected[u]
    BY DEF Land, StoreNew, StoreInactive, Store, SetFlag, TypeOK
  <1> QED
    BY <1>1, <1>2, <1>3, <1>4 DEF InFlight, Running

LEMMA LandKeepsInv ==
  ASSUME IInv, NEW c \in Calls, Land(c)
  PROVE  /\ (\A d \in Calls : CallInv(d))'
         /\ (\A u \in Users : RowInv(u) /\ LastInv(u) /\ FlagInv(u))'
  <1>1. TypeOK /\ CallInv(c) /\ \A d \in Calls : Rivals(d)' \subseteq Rivals(d)
    BY LandFrame DEF IInv, Rivals
  <1>2. pc[c] \in Ended /\ Troubled(c) /\ caller[c] \in Users
    BY <1>1, LandFrame DEF CallInv, StrayInv, TypeOK
  <1>3. ASSUME NEW d \in Calls PROVE CallInv(d)'
    <2>1. CallInv(d)
      BY DEF IInv
    <2> QED
      BY <1>1, <2>1, LandFrame DEF CallInv, StrayInv, Troubled
  <1>4. ASSUME NEW u \in Users PROVE RowInv(u)'
    <2>1. RowInv(u)
      BY DEF IInv
    <2>2. CASE cred'[u] = cred[u]
      BY <1>1, <2>1, <2>2, LandFrame DEF RowInv, Wrote
    <2>3. CASE u = caller[c] /\ stray[c] = "upsert" /\ StoreNew(c)
      <3>1. cred'[u] = [state |-> "active", key |-> apiKey[c], readable |-> keyId[c] = secretId[c]]
        BY <1>1, <2>3 DEF StoreNew, Store, TypeOK
      <3>2. c \in vetted /\ c \in ConnectCalls /\ keyId[c] <= secretId[c]
        BY <1>1, <2>3 DEF CallInv, StrayInv, TypeOK
      <3>3. pc[c] \in {"flag", "done", "killed"}
        BY <1>2 DEF Ended
      <3>4. Wrote(c, u)'
        BY <1>1, <2>3, <3>1, <3>2, <3>3, LandFrame DEF Wrote
      <3> QED
        BY <3>2, <3>4 DEF RowInv
    <2>4. CASE u = caller[c] /\ StoreInactive(c)
      <3>1. cred'[u] = Inactive(cred[u])
        BY <1>1, <2>4 DEF StoreInactive, Store, TypeOK
      <3> QED
        BY <1>1, <2>1, <3>1, LandFrame DEF RowInv, Wrote, Inactive
    <2> QED
      BY <1>1, <2>2, <2>3, <2>4, LandFrame DEF Land
  <1>5. ASSUME NEW u \in Users PROVE LastInv(u)'
    <2>1. LastInv(u) /\ last[u] \subseteq Calls
      BY <1>1 DEF IInv, TypeOK
    <2>2. CASE u # caller[c]
      BY <1>1, <2>1, <2>2, LandFrame DEF LastInv, Active
    <2>3. CASE u = caller[c]
      <3>1. ASSUME NEW d \in last[u], d \notin overlapped PROVE d = c
        <4>1. d \in Calls /\ caller[d] = u /\ Rivals(d) = {} /\ InFlight(c)
          BY <1>1, <2>1, <3>1, LandFrame DEF LastInv, InFlight
        <4> QED
          BY <2>3, <4>1 DEF Rivals
      <3>2. /\ pc[c] \notin {"flag", "unflag"}
            /\ c \notin overlapped => answer[c] \notin {"connected", "disconnected"}
        BY <1>1, <1>2 DEF Ended, Troubled, CallInv
      <3> QED
        BY <1>1, <2>1, <3>1, <3>2, LandFrame DEF LastInv
    <2> QED
      BY <2>2, <2>3
  <1>6. ASSUME NEW u \in Users PROVE FlagInv(u)'
    <2>1. FlagInv(u)
      BY DEF IInv
    <2>2. CASE u # caller[c]
      BY <2>1, <2>2, LandFrame, <1>1 DEF FlagInv, Untroubled, Troubled, Active
    <2>3. CASE u = caller[c]
      <3>1. ~Untroubled(u)'
        BY <1>1, <1>2, <2>3, LandFrame DEF Untroubled, Troubled
      <3> QED
        BY <3>1 DEF FlagInv
    <2> QED
      BY <2>2, <2>3
  <1> QED
    BY <1>3, <1>4, <1>5, <1>6

LEMMA InvStep == IInv /\ [Next]_vars => IInv'
  <1> SUFFICES ASSUME IInv, [Next]_vars PROVE IInv'
    OBVIOUS
  <1>1. TypeOK'
    BY TypeStep DEF IInv
  <1>2. CASE RotateMaster
    BY <1>1, <1>2, RotateKeepsInv DEF IInv
  <1>5. ASSUME NEW c \in Calls, Land(c) PROVE IInv'
    BY <1>1, <1>5, LandKeepsInv DEF IInv
  <1>3. ASSUME NEW c \in Calls, Step(c) PROVE IInv'
    <2>1. \A d \in Calls : CallInv(d)'
      BY <1>3, CallInvOthers, CallInvEnter, CallInvLater DEF IInv, Step, Handle, Later
    <2>2. \A u \in Users : RowInv(u)'
      BY <1>3, RowInvStep DEF IInv
    <2>3. \A u \in Users : LastInv(u)'
      BY <1>3, LastInvEnter, LastInvLater DEF IInv, Step, Handle, Later
    <2>4. \A u \in Users : FlagInv(u)'
      BY <1>3, FlagInvStep DEF IInv
    <2> QED
      BY <1>1, <2>1, <2>2, <2>3, <2>4 DEF IInv
  <1>4. CASE UNCHANGED vars
    BY <1>4 DEF IInv, TypeOK, CallInv, StrayInv, RowInv, LastInv, FlagInv, Wrote, Rivals, InFlight,
                Running, Active, Untroubled, Troubled, vars, row, handler, history
  <1> QED
    BY <1>2, <1>3, <1>4, <1>5 DEF Next, Step

(* Throughout any interleaving of calls, failed and late writes, kills and  *)
(* rotations a row is what one connect wrote, and row and flag differ only between    *)
(* the two writes of a call or after something went wrong.                  *)
THEOREM Invariance == Spec => []IInv
  BY InvInit, InvStep, PTL DEF Spec

(* "We never accept a key that can withdraw": every row ever stored holds   *)
(* a key that a connect of its own user found acceptable.                   *)
THEOREM KeysAreVetted == Spec => []StoredKeysAreVetted
  <1>1. IInv => StoredKeysAreVetted
    BY DEF IInv, RowInv, Wrote, StoredKeysAreVetted, VettedFor
  <1> QED
    BY <1>1, Invariance, PTL

(* At rest, is_active and binance_connected disagree only after a failed    *)
(* write, a kill or an overlap of the user's calls.                         *)
THEOREM FlagAndRow == Spec => []FlagFollowsRow
  <1>1. IInv => FlagFollowsRow
    BY DEF IInv, FlagInv, FlagFollowsRow, Untroubled, Quiet, InFlight, Running, Ended
  <1> QED
    BY <1>1, Invariance, PTL

(* The answer of an undisturbed last call is true of row and flag.         *)
THEOREM Answered == Spec => []AnswersAreTrue
  <1>1. IInv => AnswersAreTrue
    BY DEF IInv, LastInv, AnswersAreTrue
  <1> QED
    BY <1>1, Invariance, PTL

(* A row cannot be decrypted only if a rotation fell between the two RPCs  *)
(* of the call that wrote it.                                              *)
THEOREM Readable == Spec => []UnreadableOnlyByRotation
  <1>1. IInv => UnreadableOnlyByRotation
    <2> SUFFICES ASSUME IInv, NEW u \in Users, cred[u].state # "absent", ~cred[u].readable
                 PROVE  \E c \in ConnectCalls :
                          caller[c] = u /\ apiKey[c] = cred[u].key /\ keyId[c] < secretId[c]
      BY DEF UnreadableOnlyByRotation
    <2>1. PICK c \in ConnectCalls : Wrote(c, u)
      BY DEF IInv, RowInv
    <2>2. keyId[c] \in Int /\ secretId[c] \in Int
      BY DEF IInv, TypeOK, Masters
    <2>3. keyId[c] # secretId[c]
      BY <2>1, Zenon DEF Wrote
    <2> QED
      BY <2>1, <2>2, <2>3 DEF Wrote
  <1> QED
    BY <1>1, Invariance, PTL
=============================================================================
