------------------------- MODULE MCBinanceConnection -------------------------
(* Instances of BinanceConnection for TLC. *)
EXTENDS BinanceConnection

CONSTANTS u1, k1, k2, c1, c2, d1
MCUsers == {u1}
MCKeys == {k1, k2}
MCConnectCalls == {c1, c2}
MCDisconnectCalls == {d1}
=============================================================================
