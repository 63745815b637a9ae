-------------------------- MODULE ExecutionContract --------------------------
(***************************************************************************)
(* What binance-execute promises for each request, without its handler,    *)
(* its database or Binance's protocol: a position is opened once, then     *)
(* guarded by a stop loss, then bracketed by a take profit, and the one    *)
(* verdict the client receives bounds what the position is and what it can *)
(* still become.  TradeExecution implements this specification.            *)
(***************************************************************************)
CONSTANT Requests

VARIABLES
  position,  \* of each request: none, open, guarded (SL), bracketed (SL and TP)
  verdict    \* of each request: what the client was told, if it was

vars == <<position, verdict>>

Positions == {"none", "open", "guarded", "bracketed"}
Verdicts  == {"none", "refused", "failed", "partial", "filled"}

TypeOK ==
  /\ position \in [Requests -> Positions]
  /\ verdict \in [Requests -> Verdicts]

Init ==
  /\ position = [r \in Requests |-> "none"]
  /\ verdict = [r \in Requests |-> "none"]

Advance(r, from, to, told) ==
  /\ position[r] = from
  /\ verdict[r] \in told
  /\ position' = [position EXCEPT ![r] = to]
  /\ UNCHANGED verdict

(* An entry reported as failed may still be executed: its answer was lost. *)
Open(r) == Advance(r, "none", "open", {"none", "failed"})
(* Brackets reported as missing may still be accepted, for the same reason. *)
Guard(r) == Advance(r, "open", "guarded", {"none", "partial"})
Bracket(r) == Advance(r, "guarded", "bracketed", {"none", "partial"})

Tell(r, what, when) ==
  /\ verdict[r] = "none"
  /\ position[r] \in when
  /\ verdict' = [verdict EXCEPT ![r] = what]
  /\ UNCHANGED position

Refuse(r)  == Tell(r, "refused", {"none"})
Fail(r)    == Tell(r, "failed", {"none", "open"})
Partial(r) == Tell(r, "partial", Positions \ {"none"})
Fill(r)    == Tell(r, "filled", {"bracketed"})

Next ==
  \E r \in Requests :
    \/ Open(r) \/ Guard(r) \/ Bracket(r)
    \/ Refuse(r) \/ Fail(r) \/ Partial(r) \/ Fill(r)

Spec == Init /\ [][Next]_vars

-----------------------------------------------------------------------------
(* The verdict never claims more protection than the position has, and a   *)
(* position the client was not told about cannot exist once it was told.   *)
Honest ==
  \A r \in Requests :
    /\ verdict[r] = "filled" => position[r] = "bracketed"
    /\ verdict[r] = "partial" => position[r] # "none"
    /\ verdict[r] = "failed" => position[r] \in {"none", "open"}
    /\ verdict[r] = "refused" => position[r] = "none"
=============================================================================
