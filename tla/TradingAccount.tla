--------------------------- MODULE TradingAccount ---------------------------
(***************************************************************************)
(* binance-execute, binance-connect and binance-disconnect over one        *)
(* database: TradeExecution with its environment action CredentialsChange  *)
(* replaced by the handlers of BinanceConnection, which share its variable *)
(* cred.  Nothing orders the three functions' statements.                  *)
(***************************************************************************)
EXTENDS TradeExecution

CONSTANTS ConnectCalls, DisconnectCalls, MaxMaster

(* Whoever has a credentials row may change it. *)
ASSUME RelinkingAssumption == Users \subseteq Relinking
(* What BinanceConnection assumes of its constants. *)
ASSUME LinkAssumption ==
  /\ ConnectCalls \cap DisconnectCalls = {}
  /\ MaxMaster \in Nat

VARIABLES
  connected, stray, master, linkPc, caller, apiKey, keyId, secretId, answer, overlapped, last, vetted,
  barred     \* history: requests, each with a disconnect of its user's that
             \* had been answered when the request was entered

Link == INSTANCE BinanceConnection WITH pc <- linkPc

linkOnly == <<connected, stray, master, linkPc, caller, apiKey, keyId, secretId, answer,
              overlapped, last, vetted>>
execOnly == <<exchange, profile, rows, lastUsed, handler, body>>
accountVars == <<vars, linkOnly, barred>>

(* Undisturbed disconnects that answered and are their user's last call.   *)
Disconnects(u) == {d \in last[u] \ overlapped : answer[d] = "disconnected"}

AccountInit == Link!Init /\ Init /\ barred = {}

Enters(r) == pc[r] = "idle" /\ pc'[r] # "idle"

ExecuteStep ==
  /\ Execute
  /\ barred' = barred \cup
       {bar \in Requests \X DisconnectCalls :
          Enters(bar[1]) /\ bar[2] \in Disconnects(body[bar[1]].user)}
  /\ UNCHANGED linkOnly

ProfileStep ==
  /\ \E u \in Lapsing : ProfileChanges(u)
  /\ UNCHANGED <<linkOnly, barred>>

LinkStep == Link!Next /\ UNCHANGED <<execOnly, barred>>

AccountNext == ExecuteStep \/ ProfileStep \/ LinkStep

AccountSpec == AccountInit /\ [][AccountNext]_accountVars

-----------------------------------------------------------------------------
Trades(r) == \E k \in Kinds : calls[r][k] # "unsent"

(* A request that arrives after "disconnected" was answered calls Binance  *)
(* only if the user has called connect or disconnect again in between.     *)
DisconnectBars ==
  \A bar \in barred : bar[2] \in Disconnects(body[bar[1]].user) => ~Trades(bar[1])

(* binance-execute asks for no permissions: it trades only with a key that *)
(* an earlier connect of the same user found to trade futures and not to   *)
(* withdraw, whatever is connected, disconnected or applied late meanwhile.*)
OnlyVettedKeysTrade ==
  \A r \in Requests : Trades(r) => Link!VettedFor(body[r].user, loaded[r].key)

(* What is checked and proved of TradeExecution, with credentials changing *)
(* arbitrarily, holds of it with the handlers that really change them.     *)
ImplementsTradeExecution == Spec

(* "The encrypted blob ... will never be used again because is_active =    *)
(* false short-circuits the binance-execute function" (binance-disconnect/ *)
(* index.ts:4-6).                                                          *)
NeverUsedAgain ==
  [][\A r \in Requests :
       pc[r] = "decrypt" /\ pc'[r] = "leverage" => Disconnects(body[r].user) = {}]_accountVars

-----------------------------------------------------------------------------
(* What the invariants of the two parts do not say: the key a request has  *)
(* loaded was vetted for its user before, and a request that came after an *)
(* answered disconnect gets no further than the look-up while that is the  *)
(* user's last call.                                                       *)
VetInv(r) ==
  Trades(r) \/ pc[r] \in {"decrypt"} \cup Kinds => Link!VettedFor(body[r].user, loaded[r].key)

BarInv(r, d) ==
  /\ answer[d] = "disconnected"
  /\ pc[r] # "idle"
  /\ d \in Disconnects(body[r].user) => pc[r] \in {"tier", "creds"} \cup Ended /\ ~Trades(r)

AccountInv ==
  /\ barred \subseteq Requests \X DisconnectCalls
  /\ \A r \in Requests : VetInv(r)
  /\ \A bar \in barred : BarInv(bar[1], bar[2])
=============================================================================
