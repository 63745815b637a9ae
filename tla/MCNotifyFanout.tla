--------------------------- MODULE MCNotifyFanout ---------------------------
(* Instances of NotifyFanout for TLC. *)
EXTENDS NotifyFanout, TLC

CONSTANTS u1, u2, tok, c1, c2

MCUsers == {u1, u2}
(* a phone that both use *)
MCDevices == {<<u1, tok>>, <<u2, tok>>}
MCCalls == {c1, c2}

Subscription(notify, min) == [symbol |-> "BTCUSDT", notify |-> notify, min |-> min]
Signal(rec, conviction) == [symbol |-> "BTCUSDT", recommendation |-> rec, conviction |-> conviction]

MCSubscribed == [u \in MCUsers |-> {Subscription({"GO", "AVOID"}, 6)}]
(* one that both want, one below their conviction, and one nobody may want; *)
(* whose rows a call finds registered makes its targets differ              *)
MCSignals == {Signal("GO", 7), Signal("AVOID", 5), Signal("NEUTRAL", 10)}

Symmetry == Permutations(MCCalls) \cup Permutations(MCUsers)
=============================================================================
