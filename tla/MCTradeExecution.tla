-------------------------- MODULE MCTradeExecution --------------------------
(* Instances of TradeExecution for TLC. *)
EXTENDS TradeExecution, TLC

CONSTANTS u1, btc, k1, k2, r1, r2

MCUsers == {u1}
MCSymbols == {btc}
MCKeys == {k1}
MCTwoKeys == {k1, k2}
MCRequests == {r1, r2}
MCOneRequest == {r1}

Order(leverage, ok) == [user |-> u1, symbol |-> btc, leverage |-> leverage, wellFormed |-> ok]

(* two leverages a user may confirm *)
MCBodies == {Order(1, TRUE), Order(125, TRUE)}
(* and the bodies just outside of what validateBody accepts *)
MCEdgeBodies == {Order(0, TRUE), Order(126, TRUE), Order(5, FALSE), Order(5, TRUE)}

Symmetry == Permutations(MCRequests)
=============================================================================
