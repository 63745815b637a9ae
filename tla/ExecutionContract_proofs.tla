----------------------- MODULE ExecutionContract_proofs -----------------------
(* Proofs about ExecutionContract, for every set of requests. *)
EXTENDS ExecutionContract, TLAPS

LEMMA HonestStep == TypeOK /\ Honest /\ [Next]_vars => (TypeOK /\ Honest)'
  <1> SUFFICES ASSUME TypeOK, Honest, [Next]_vars PROVE (TypeOK /\ Honest)'
    OBVIOUS
  <1> USE DEF TypeOK, Honest, Positions, Verdicts
  <1>1. ASSUME NEW r \in Requests, Open(r) \/ Guard(r) \/ Bracket(r) PROVE (TypeOK /\ Honest)'
    BY <1>1 DEF Open, Guard, Bracket, Advance
  <1>2. ASSUME NEW r \in Requests, Refuse(r) \/ Fail(r) \/ Partial(r) \/ Fill(r)
        PROVE  (TypeOK /\ Honest)'
    BY <1>2 DEF Refuse, Fail, Partial, Fill, Tell
  <1>3. CASE UNCHANGED vars
    BY <1>3 DEF vars
  <1> QED
    BY <1>1, <1>2, <1>3 DEF Next

(* The verdict a client is given stays true of its position, although the  *)
(* position may still change after it: "filled" is bracketed for good, and *)
(* what was refused never becomes a position.                              *)
THEOREM Honesty == Spec => []Honest
  <1>1. Init => TypeOK /\ Honest
    BY DEF Init, TypeOK, Honest, Positions, Verdicts
  <1> QED
    BY <1>1, HonestStep, PTL DEF Spec
=============================================================================
