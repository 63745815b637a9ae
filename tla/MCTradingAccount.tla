-------------------------- MODULE MCTradingAccount --------------------------
(* Instances of TradingAccount for TLC. *)
EXTENDS TradingAccount

CONSTANTS u1, btc, k1, r1, c1, d1

MCUsers == {u1}
MCSymbols == {btc}
MCKeys == {k1}
MCBodies == {[user |-> u1, symbol |-> btc, leverage |-> 5, wellFormed |-> TRUE]}
MCOneRequest == {r1}
MCOneConnect == {c1}
MCOneDisconnect == {d1}
=============================================================================
