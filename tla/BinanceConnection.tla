-------------------------- MODULE BinanceConnection --------------------------
(***************************************************************************)
(* The Edge Functions binance-connect and binance-disconnect.  Each call   *)
(* makes two writes that no transaction joins: the user's row of           *)
(* binance_credentials, then user_profiles.binance_connected.  A write may *)
(* fail, or be applied, even later, although its error came back; the      *)
(* runtime may kill the handler in between; calls of one user may overlap; *)
(* and operators may point the encryption helper at a new master key at    *)
(* any time.  What a key may do is set by its owner at Binance, at any     *)
(* time too: every check of it may find something else.                    *)
(***************************************************************************)
EXTENDS Integers

CONSTANTS
  Users,
  Keys,         \* Binance API keys (key and secret)
  ConnectCalls,     \* the POSTs to binance-connect
  DisconnectCalls,  \* the POSTs to binance-disconnect
  MaxMaster     \* bound on rotations of the master key

Calls == ConnectCalls \cup DisconnectCalls

ASSUME CallsAreDistinct == ConnectCalls \cap DisconnectCalls = {}
ASSUME KeysAssumption == Keys # {}
ASSUME MasterAssumption == MaxMaster \in Nat

VARIABLES
  cred,       \* binance_credentials: the row of each user
  connected,  \* user_profiles.binance_connected
  stray,      \* the statement of an ended handler that may still be applied
  master,     \* the master key that encrypt_binance_secret picks
  pc,         \* handler: the await it stands at
  caller,     \* handler: the authenticated user
  apiKey,     \* handler: the key submitted
  keyId,      \* handler: encKey.key_id
  secretId,   \* handler: the master key that encrypted the secret
  answer,     \* the response
  overlapped, \* history: calls that ran while another of the same user did
  last,       \* history: the call of each user that was entered last, if any
  vetted      \* history: connects to which Binance said that their key
              \* trades futures and does not withdraw

row     == <<cred, connected, stray>>
handler == <<pc, caller, apiKey, keyId, secretId, answer>>
history == <<overlapped, last, vetted>>
vars    == <<row, master, handler, history>>

-----------------------------------------------------------------------------
Ended   == {"done", "killed"}
Writes  == {"upsert", "flag", "deactivate", "unflag"}
Stages  == {"idle", "permissions", "encryptKey", "encryptSecret"} \cup Writes \cup Ended
Answers == {"none", "refused", "encryption_failed", "store_failed", "profile_update_failed",
            "disconnect_failed", "connected", "disconnected"}
Masters == 1..(MaxMaster + 1)

(* readable: both ciphertexts were made under the master key that key_id names *)
Credential == [state : {"absent", "active", "inactive"}, key : Keys, readable : BOOLEAN]
NoCredential == [state |-> "absent", key |-> CHOOSE k \in Keys : TRUE, readable |-> FALSE]

TypeOK ==
  /\ cred \in [Users -> Credential]
  /\ connected \in [Users -> BOOLEAN]
  /\ stray \in [Calls -> Writes \cup {"none"}]
  /\ master \in Masters
  /\ pc \in [Calls -> Stages]
  /\ caller \in [Calls -> Users]
  /\ apiKey \in [ConnectCalls -> Keys]
  /\ keyId \in [ConnectCalls -> Masters]
  /\ secretId \in [ConnectCalls -> Masters]
  /\ answer \in [Calls -> Answers]
  /\ overlapped \subseteq Calls
  /\ last \in [Users -> SUBSET Calls]
  /\ vetted \subseteq ConnectCalls

Init ==
  /\ cred = [u \in Users |-> NoCredential]
  /\ connected = [u \in Users |-> FALSE]
  /\ stray = [c \in Calls |-> "none"]
  /\ master = 1
  /\ pc = [c \in Calls |-> "idle"]
  /\ caller \in [Calls -> Users]
  /\ apiKey \in [ConnectCalls -> Keys]
  /\ keyId = [c \in ConnectCalls |-> 1]
  /\ secretId = [c \in ConnectCalls |-> 1]
  /\ answer = [c \in Calls |-> "none"]
  /\ overlapped = {}
  /\ last = [u \in Users |-> {}]
  /\ vetted = {}

-----------------------------------------------------------------------------
Goto(c, stage) == pc' = [pc EXCEPT ![c] = stage] /\ UNCHANGED answer

End(c, with) ==
  /\ pc' = [pc EXCEPT ![c] = "done"]
  /\ answer' = [answer EXCEPT ![c] = with]

Running(c) == pc[c] \notin Ended \cup {"idle"}

(* A call is in flight until its handler has ended and the database has    *)
(* nothing of it left to apply.                                            *)
InFlight(c) == Running(c) \/ stray[c] # "none"

Rivals(c) == {d \in Calls \ {c} : InFlight(d) /\ caller[d] = caller[c]}

(* Authentication and, for connect, the body checks. *)
Enter(c) ==
  /\ pc[c] = "idle"
  /\ \/ End(c, "refused") /\ UNCHANGED history
     \/ /\ Goto(c, IF c \in ConnectCalls THEN "permissions" ELSE "deactivate")
        /\ overlapped' = overlapped \cup
             (IF Rivals(c) = {} THEN {} ELSE Rivals(c) \cup {c})
        /\ last' = [last EXCEPT ![caller[c]] = {c}]
        /\ UNCHANGED vetted
  /\ UNCHANGED <<row, master, caller, apiKey, keyId, secretId>>

(* What Binance says of the key now, if it answers at all. *)
Vet(c, acceptable) ==
  /\ vetted' = IF acceptable THEN vetted \cup {c} ELSE vetted
  /\ UNCHANGED <<overlapped, last>>

(* Mutated form of CheckPermissions: the restrictions are read, not heeded. *)
CheckPermissionsUnheeded(c) ==
  /\ pc[c] = "permissions"
  /\ \E acceptable \in BOOLEAN : Vet(c, acceptable) /\ Goto(c, "encryptKey")
  /\ UNCHANGED <<row, master, caller, apiKey, keyId, secretId>>

CheckPermissions(c) ==
  /\ pc[c] = "permissions"
  /\ \/ Vet(c, TRUE) /\ Goto(c, "encryptKey")
     \/ Vet(c, FALSE) /\ End(c, "refused")
  /\ UNCHANGED <<row, master, caller, apiKey, keyId, secretId>>

(* Mutated form of EncryptKey: without an answer there is no key_id. *)
EncryptKeyOrNot(c) ==
  /\ pc[c] = "encryptKey"
  /\ \E id \in {0, master} : keyId' = [keyId EXCEPT ![c] = id]
  /\ Goto(c, "encryptSecret")
  /\ UNCHANGED <<row, master, caller, apiKey, secretId, history>>

(* The errors of both RPCs are looked at after the second one. *)
EncryptKey(c) ==
  /\ pc[c] = "encryptKey"
  /\ keyId' = [keyId EXCEPT ![c] = master]
  /\ Goto(c, "encryptSecret")
  /\ UNCHANGED <<row, master, caller, apiKey, secretId, history>>

(* Mutated form of EncryptSecret: a ciphertext made earlier is kept. *)
EncryptSecretEarlier(c) ==
  /\ pc[c] = "encryptSecret"
  /\ Goto(c, "upsert")
  /\ UNCHANGED <<row, master, caller, apiKey, keyId, secretId, history>>

EncryptSecret(c) ==
  /\ pc[c] = "encryptSecret"
  /\ \/ End(c, "encryption_failed") /\ UNCHANGED secretId
     \/ Goto(c, "upsert") /\ secretId' = [secretId EXCEPT ![c] = master]
  /\ UNCHANGED <<row, master, caller, apiKey, keyId, history>>

(* The statement c was at is lost, or the database has it still.           *)
Abandon(c) == stray' \in {stray, [stray EXCEPT ![c] = pc[c]]}

(* Mutated form of Statement: the error is not looked at. *)
StatementUnchecked(c, effect, unchanged, next, error) ==
  \/ effect /\ next /\ UNCHANGED stray
  \/ unchanged /\ next /\ Abandon(c)

(* A statement is applied and known to be, or its error comes back, in     *)
(* which case it may be applied all the same, at once or later (Land).     *)
Statement(c, effect, unchanged, next, error) ==
  \/ effect /\ next /\ UNCHANGED stray
  \/ unchanged /\ End(c, error) /\ Abandon(c)

Store(u, new) == cred' = [cred EXCEPT ![u] = new]

StoreNew(c) == Store(caller[c], [state |-> "active", key |-> apiKey[c],
                                 readable |-> keyId[c] = secretId[c]])

Upsert(c) ==
  /\ pc[c] = "upsert"
  /\ Statement(c, StoreNew(c), UNCHANGED cred, Goto(c, "flag"), "store_failed")
  /\ UNCHANGED <<connected, master, caller, apiKey, keyId, secretId, history>>

SetFlag(u, value) == connected' = [connected EXCEPT ![u] = value]

Flag(c) ==
  /\ pc[c] = "flag"
  /\ Statement(c, SetFlag(caller[c], TRUE), UNCHANGED connected,
               End(c, "connected"), "profile_update_failed")
  /\ UNCHANGED <<cred, master, caller, apiKey, keyId, secretId, history>>

(* Mutated form of Inactive: the key is erased as well. *)
InactiveErased(credential) ==
  IF credential.state = "absent" THEN credential
                                 ELSE [credential EXCEPT !.state = "inactive", !.key = "erased"]

(* An UPDATE that meets no row is no error. *)
Inactive(credential) ==
  IF credential.state = "absent" THEN credential
                                 ELSE [state |-> "inactive", key |-> credential.key,
                                       readable |-> credential.readable]

StoreInactive(c) == Store(caller[c], Inactive(cred[caller[c]]))

(* Mutated form of Deactivate: the profile's flag is forgotten. *)
DeactivateOnly(c) ==
  /\ pc[c] = "deactivate"
  /\ Statement(c, StoreInactive(c), UNCHANGED cred,
               End(c, "disconnected"), "disconnect_failed")
  /\ UNCHANGED <<connected, master, caller, apiKey, keyId, secretId, history>>

Deactivate(c) ==
  /\ pc[c] = "deactivate"
  /\ Statement(c, StoreInactive(c), UNCHANGED cred,
               Goto(c, "unflag"), "disconnect_failed")
  /\ UNCHANGED <<connected, master, caller, apiKey, keyId, secretId, history>>

Unflag(c) ==
  /\ pc[c] = "unflag"
  /\ Statement(c, SetFlag(caller[c], FALSE), UNCHANGED connected,
               End(c, "disconnected"), "profile_update_failed")
  /\ UNCHANGED <<cred, master, caller, apiKey, keyId, secretId, history>>

Kill(c) ==
  /\ Running(c)
  /\ Goto(c, "killed")
  /\ (UNCHANGED stray \/ (pc[c] \in Writes /\ Abandon(c)))
  /\ UNCHANGED <<cred, connected, master, caller, apiKey, keyId, secretId, history>>

(* The database applies a statement whose handler no longer waits for it.  *)
Land(c) ==
  /\ \/ stray[c] = "upsert" /\ StoreNew(c) /\ UNCHANGED connected
     \/ stray[c] = "flag" /\ SetFlag(caller[c], TRUE) /\ UNCHANGED cred
     \/ stray[c] = "deactivate" /\ StoreInactive(c) /\ UNCHANGED connected
     \/ stray[c] = "unflag" /\ SetFlag(caller[c], FALSE) /\ UNCHANGED cred
  /\ stray' = [stray EXCEPT ![c] = "none"]
  /\ UNCHANGED <<master, handler, history>>

(* docs/BACKEND_V2.md, section 5, steps 1 and 2: the helpers are pointed   *)
(* at a new master key while the functions are being served.               *)
RotateMaster ==
  /\ master <= MaxMaster
  /\ master' = master + 1
  /\ UNCHANGED <<row, handler, history>>

Handle(c) ==
  \/ Enter(c) \/ CheckPermissions(c) \/ EncryptKey(c) \/ EncryptSecret(c)
  \/ Upsert(c) \/ Flag(c) \/ Deactivate(c) \/ Unflag(c)

Next ==
  \/ RotateMaster
  \/ \E c \in Calls : Handle(c) \/ Kill(c) \/ Land(c)

Spec == Init /\ [][Next]_vars

-----------------------------------------------------------------------------
Active(u) == cred[u].state = "active"
Quiet(u)  == \A c \in Calls : caller[c] = u => ~InFlight(c)

(* "We never accept a key that can withdraw" (connect/index.ts:9-10): the  *)
(* row that survives any interleaving of calls, late writes included,      *)
(* holds a key that one of this user's own connects found to trade futures *)
(* and not to withdraw.  What it may do since, nothing checks.             *)
VettedFor(u, k) == \E c \in vetted : caller[c] = u /\ apiKey[c] = k

StoredKeysAreVetted ==
  \A u \in Users : cred[u].state # "absent" => VettedFor(u, cred[u].key)

(* The row's is_active and the profile's binance_connected disagree at     *)
(* rest only when a call of that user failed between its two writes, was   *)
(* killed there, or overlapped another one.                                *)
Troubled(c) ==
  \/ c \in overlapped
  \/ pc[c] = "killed"
  \/ answer[c] \in {"store_failed", "disconnect_failed", "profile_update_failed"}

FlagFollowsRow ==
  \A u \in Users :
    Quiet(u) /\ connected[u] # Active(u)
      => \E c \in Calls : caller[c] = u /\ Troubled(c)

(* The answers are true when no other call of the user interferes: after   *)
(* "connected" the user's own key is active, after "disconnected" none is, *)
(* and the flag says so, until the user's next call.                       *)
AnswersAreTrue ==
  \A u \in Users : \A c \in last[u] \ overlapped :
    /\ answer[c] = "connected" => Active(u) /\ cred[u].key = apiKey[c] /\ connected[u]
    /\ answer[c] = "disconnected" => ~Active(u) /\ ~connected[u]

(* A row is unreadable only when a rotation fell between the two RPCs that *)
(* encrypted it: without one, key_id opens both ciphertexts.               *)
UnreadableOnlyByRotation ==
  \A u \in Users :
    cred[u].state # "absent" /\ ~cred[u].readable
      => \E c \in ConnectCalls :
           caller[c] = u /\ apiKey[c] = cred[u].key /\ keyId[c] < secretId[c]

-----------------------------------------------------------------------------
(* The invariant that the properties above follow from.                    *)

Linking   == {"permissions", "encryptKey", "encryptSecret", "upsert", "flag"}
Unlinking == {"deactivate", "unflag"}

(* Only a handler that failed or was killed leaves a statement behind.     *)
StrayInv(c) ==
  /\ stray[c] # "none" => pc[c] \in Ended /\ Troubled(c)
  /\ stray[c] = "upsert" => c \in vetted /\ keyId[c] <= secretId[c]

(* What a call's place tells of it alone: which function it runs, and what *)
(* that has checked and encrypted so far.                                  *)
CallInv(c) ==
  /\ pc[c] \in Linking => c \in ConnectCalls
  /\ pc[c] \in Unlinking => c \in DisconnectCalls
  /\ pc[c] \in Linking \ {"permissions"} => c \in vetted
  /\ pc[c] = "encryptSecret" => keyId[c] <= master
  /\ pc[c] \in {"upsert", "flag"} => keyId[c] <= secretId[c]
  /\ StrayInv(c)
  /\ answer[c] # "none" => pc[c] = "done"
  /\ c \notin overlapped => (InFlight(c) => Rivals(c) = {})

(* A call that may have written a row: nothing of it changes any more that *)
(* the row depends on.                                                     *)
Wrote(c, u) ==
  /\ caller[c] = u
  /\ pc[c] \in {"flag", "done", "killed"}
  /\ cred[u].key = apiKey[c]
  /\ cred[u].readable = (keyId[c] = secretId[c])
  /\ c \in vetted
  /\ keyId[c] <= secretId[c]

RowInv(u) == cred[u].state # "absent" => \E c \in ConnectCalls : Wrote(c, u)

(* The user's last call, if nothing overlapped it, is alone, and row and   *)
(* flag are where it has brought them.                                     *)
LastInv(u) ==
  \A c \in last[u] :
    /\ caller[c] = u
    /\ c \notin overlapped =>
         /\ Rivals(c) = {}
         /\ pc[c] = "flag" => Active(u) /\ cred[u].key = apiKey[c]
         /\ pc[c] = "unflag" => ~Active(u)
         /\ answer[c] = "connected" => Active(u) /\ cred[u].key = apiKey[c] /\ connected[u]
         /\ answer[c] = "disconnected" => ~Active(u) /\ ~connected[u]

(* While nothing has gone wrong for a user, only a call between its two    *)
(* writes keeps flag and row apart.                                        *)
Untroubled(u) == \A c \in Calls : caller[c] = u => ~Troubled(c)

FlagInv(u) ==
  Untroubled(u) =>
    /\ \A c \in Calls : caller[c] = u =>
         /\ pc[c] = "flag" => Active(u)
         /\ pc[c] = "unflag" => ~Active(u)
    /\ \/ connected[u] = Active(u)
       \/ \E c \in Calls : caller[c] = u /\ pc[c] \in {"flag", "unflag"}

(* The inductive invariant. *)
IInv ==
  /\ TypeOK
  /\ \A c \in Calls : CallInv(c)
  /\ \A u \in Users : RowInv(u) /\ LastInv(u) /\ FlagInv(u)
=============================================================================
