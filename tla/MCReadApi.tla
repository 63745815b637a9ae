----------------------------- MODULE MCReadApi -----------------------------
(* Instances of ReadApi for TLC. *)
EXTENDS ReadApi, TLC
CONSTANTS r1, r2, recent, old
MCRequests == {r1, r2}
MCSignals == {recent, old}
MCOld == {old}
(* one request of any kind, next to one that only passes the gate *)
MCServed == (r1 :> {"list", "detail", "detailed"}) @@ (r2 :> {"score"})
(* a subscriber who changes between global and pro, and whose pro lapses   *)
MCProfiles == {[tier |-> "global", active |-> TRUE],
               [tier |-> "pro", active |-> TRUE],
               [tier |-> "pro", active |-> FALSE]}
=============================================================================
