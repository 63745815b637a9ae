------------------------ MODULE NotifyFanout_proofs ------------------------
(* Proofs about NotifyFanout, for every set of calls, signals, users and   *)
(* devices.                                                                *)
EXTENDS NotifyFanout, FiniteSetTheorems, TLAPS

-----------------------------------------------------------------------------
(* Counting devices. *)
LEMMA Countable ==
  ASSUME NEW S \in SUBSET Devices
  PROVE  IsFiniteSet(S) /\ Cardinality(S) \in Nat /\ Cardinality(S) <= Cardinality(Devices)
  BY DevicesAssumption, FS_Subset, FS_CardinalityType

LEMMA Monotonic ==
  ASSUME NEW S \in SUBSET Devices, NEW T \in SUBSET S
  PROVE  Cardinality(T) <= Cardinality(S)
  BY Countable, FS_Subset

LEMMA Without ==
  ASSUME NEW S \in SUBSET Devices, NEW d \in S
  PROVE  Cardinality(S \ {d}) = Cardinality(S) - 1
  BY Countable, FS_RemoveElement

LEMMA OneMore ==
  ASSUME NEW S \in SUBSET Devices, NEW d \in Devices, d \notin S
  PROVE  Cardinality(S \cup {d}) = Cardinality(S) + 1
  BY Countable, FS_AddElement

LEMMA NoneLeft == Cardinality({}) = 0
  BY FS_EmptySet

LEMMA SubsetsOfDevices ==
  ASSUME NEW c \in Calls, NEW v
  PROVE  Targeted(c) \in SUBSET Devices /\ Having(c, v) \in SUBSET Devices
  BY DEF Targeted, Having

(* What is counted and what is open are never more than the devices.       *)
LEMMA RoomToCount ==
  ASSUME TypeOK, NEW c \in Calls, CallInv(c), pc[c] = "push", NEW d \in open[c], NEW k \in Counters
  PROVE  tally[c][k] + 1 \in Count
  <1>1. /\ tally[c] \in [Counters -> Count] /\ open[c] \in SUBSET Devices
    BY DEF TypeOK
  <1>2. Sum(tally[c]) + Cardinality(open[c]) = Cardinality(Targeted(c))
    BY DEF CallInv
  <1>3. Cardinality(Targeted(c)) \in Nat /\ Cardinality(Targeted(c)) <= Cardinality(Devices)
    BY Countable, SubsetsOfDevices
  <1>4. Cardinality(open[c]) \in Nat /\ Cardinality(Devices) \in Nat
    BY <1>1, Countable
  <1>5. Cardinality(open[c] \ {d}) = Cardinality(open[c]) - 1 /\ Cardinality(open[c] \ {d}) \in Nat
    BY <1>1, Without, Countable
  <1>6. /\ tally[c]["dispatched"] \in Nat /\ tally[c]["skipped"] \in Nat /\ tally[c]["failed"] \in Nat
    BY <1>1, <1>4 DEF Counters, Count
  <1>7. k \in {"dispatched", "skipped", "failed"}
    BY DEF Counters
  <1>8. tally[c][k] \in Nat /\ tally[c][k] <= Sum(tally[c]) /\ Sum(tally[c]) \in Nat
    BY <1>6, <1>7 DEF Sum
  <1> QED
    BY <1>2, <1>3, <1>4, <1>5, <1>8 DEF Count

-----------------------------------------------------------------------------
(* Types. *)
LEMMA SettleType ==
  ASSUME TypeOK, NEW c \in Calls, CallInv(c), NEW d \in Devices, NEW k \in Counters,
         NEW gone \in SUBSET Tokens, Settle(c, d, k, gone)
  PROVE  TypeOK'
  <1>1. tally[c][k] + 1 \in Count
    BY RoomToCount DEF Settle
  <1>2. [tally[c] EXCEPT ![k] = @ + 1] \in [Counters -> Count]
    BY <1>1 DEF TypeOK
  <1>3. tally' = [tally EXCEPT ![c] = [tally[c] EXCEPT ![k] = @ + 1]]
    BY DEF TypeOK, Settle
  <1>4. tally' \in [Calls -> [Counters -> Count]]
    <2>1. PICK t : t = [tally[c] EXCEPT ![k] = @ + 1]
      OBVIOUS
    <2>2. t \in [Counters -> Count] /\ tally' = [tally EXCEPT ![c] = t]
      BY <1>2, <1>3, <2>1
    <2> QED
      BY <2>2 DEF TypeOK
  <1> QED
    BY <1>4 DEF TypeOK, Settle, app, history

LEMMA TypeStep ==
  ASSUME TypeOK, \A c \in Calls : CallInv(c), [Next]_vars
  PROVE  TypeOK'
  <1>1. CASE UNCHANGED vars
    BY <1>1 DEF TypeOK, vars, app, handler, history
  <1>2. ASSUME NEW c \in Calls, Receive(c) \/ Lookup(c) \/ SendAll(c) \/ Kill(c)
        PROVE  TypeOK'
    <2>1. CASE Receive(c) \/ Kill(c)
      BY <2>1 DEF TypeOK, Receive, Kill, Updates, Goto, Stages, Ended, Answered, app, history
    <2>2. CASE Lookup(c)
      <3>1. Targets(signal[c]) \in SUBSET Devices
        BY DEF Targets
      <3>2. /\ pc' \in [Calls -> Stages]
            /\ open' \in [Calls -> SUBSET Devices]
        BY <2>2, <3>1 DEF TypeOK, Lookup, Goto, Stages, Ended, Answered
      <3>3. UNCHANGED <<row, late, installed, signal, tally, expired, push,
                        switched, muted, current, renewed, raced>>
        BY <2>2 DEF Lookup, app, history
      <3> QED
        BY <3>2, <3>3 DEF TypeOK
    <2>3. CASE SendAll(c)
      <3>1. [d \in Devices |-> IF d \in open[c] THEN "sent" ELSE "none"] \in [Devices -> Pushes]
        BY DEF Pushes
      <3>2. push' \in [Calls -> [Devices -> Pushes]]
        BY <2>3, <3>1 DEF TypeOK, SendAll
      <3>3. pc' \in [Calls -> Stages]
        BY <2>3 DEF TypeOK, SendAll, Goto, Stages, Ended, Answered
      <3> QED
        BY <2>3, <3>2, <3>3 DEF TypeOK, SendAll, app, history
    <2> QED
      BY <1>2, <2>1, <2>2, <2>3
  <1>3. ASSUME NEW c \in Calls, Finish(c) PROVE TypeOK'
    BY <1>3 DEF TypeOK, Finish, SwitchOff, Goto, Stages, Ended, Answered
  <1>9. ASSUME NEW c \in Calls, Land(c) PROVE TypeOK'
    BY <1>9 DEF TypeOK, Land, SwitchOff, handler
  <1>4. ASSUME NEW c \in Calls, NEW d \in Devices,
               Dispatched(c, d) \/ Skipped(c, d) \/ Failed(c, d)
        PROVE  TypeOK'
    <2>1. {} \in SUBSET Tokens /\ {Token(d)} \in SUBSET Tokens
      BY DEF Tokens
    <2>2. "dispatched" \in Counters /\ "skipped" \in Counters /\ "failed" \in Counters
      BY DEF Counters
    <2> QED
      BY <1>4, <2>1, <2>2, SettleType DEF Dispatched, Skipped, Failed
  <1>5. ASSUME NEW c \in Calls, NEW d \in Devices, Apns(c, d) PROVE TypeOK'
    <2>1. PICK verdict \in {"rejected", IF Token(d) \in installed THEN "delivered" ELSE "gone"} :
            push' = [push EXCEPT ![c][d] = verdict]
      BY <1>5 DEF Apns
    <2>2. verdict \in Pushes
      BY DEF Pushes
    <2> QED
      BY <1>5, <2>1, <2>2 DEF TypeOK, Apns, app, handler, history
  <1>6. ASSUME NEW d \in Devices, Register(d) PROVE TypeOK'
    <2>1. Token(d) \in Tokens
      BY DEF Tokens
    <2> QED
      BY <1>6, <2>1 DEF TypeOK, Register, handler
  <1>7. ASSUME NEW d \in Devices, Mute(d) PROVE TypeOK'
    BY <1>7 DEF TypeOK, Mute, handler
  <1>8. ASSUME NEW t \in Tokens, Uninstall(t) \/ Install(t) PROVE TypeOK'
    BY <1>8 DEF TypeOK, Uninstall, Install, handler, history
  <1> QED
    BY <1>1, <1>2, <1>3, <1>4, <1>5, <1>6, <1>7, <1>8, <1>9 DEF Next, Handle

-----------------------------------------------------------------------------
(* What a call promises of itself. *)
LEMMA CallFrame ==
  ASSUME NEW c \in Calls, CallInv(c),
         pc'[c] = pc[c], tally'[c] = tally[c], open'[c] = open[c], push'[c] = push[c],
         expired'[c] = expired[c],
         c \in switched' \cup late' => c \in switched \cup late
  PROVE  CallInv(c)'
  <1>1. Targeted(c)' = Targeted(c) /\ Having(c, "delivered")' = Having(c, "delivered")
        /\ Having(c, "gone")' = Having(c, "gone")
    BY DEF Targeted, Having
  <1> QED
    BY <1>1 DEF CallInv

(* An end that counts nothing. *)
LEMMA CallMoves ==
  ASSUME TypeOK, NEW c \in Calls, CallInv(c),
         Receive(c) \/ Lookup(c) \/ Kill(c)
  PROVE  CallInv(c)'
  <1>1. Targeted(c)' = Targeted(c) /\ Having(c, "delivered")' = Having(c, "delivered")
        /\ Having(c, "gone")' = Having(c, "gone")
    BY DEF Targeted, Having, Receive, Lookup, Kill
  <1>2. UNCHANGED <<tally, expired, push, switched>>
    BY DEF Receive, Lookup, Kill, history
  <1>3. pc[c] \notin {"answered", "killed"}
    BY DEF Receive, Lookup, Kill, Ended, Answered
  <1>4. c \notin switched /\ c \notin late
    BY <1>3 DEF CallInv
  <1>8. Receive(c) \/ Lookup(c) => late' = late
    BY DEF Receive, Lookup, app
  <1>5. CASE Receive(c)
    <2>1. pc'[c] \in {"lookup", "refused"} /\ pc[c] = "idle" /\ open' = open
      BY <1>5 DEF TypeOK, Receive, Goto
    <2> QED
      BY <1>1, <1>2, <1>4, <1>5, <1>8, <2>1 DEF CallInv, Before
  <1>6. CASE Kill(c)
    <2>1. pc'[c] = "killed" /\ open' = open
      BY <1>6 DEF TypeOK, Kill, Goto
    <2> QED
      BY <1>1, <1>2, <1>4, <2>1 DEF CallInv, Before
  <1>7. CASE Lookup(c)
    <2>1. /\ tally[c] = Zero /\ Targeted(c) = {} /\ open[c] = {} /\ pc[c] = "lookup"
      BY <1>7 DEF Lookup, CallInv, Before
    <2>2. Sum(Zero) = 0 /\ Zero["dispatched"] = 0 /\ Zero["skipped"] = 0
      BY DEF Sum, Zero, Counters
    <2>3. \/ pc'[c] = "lookup_failed" /\ open' = open
          \/ pc'[c] = "answered" /\ open' = open
          \/ pc'[c] = "jwt" /\ open'[c] \in SUBSET Devices
      <3>1. Targets(signal[c]) \in SUBSET Devices
        BY DEF Targets
      <3> QED
        BY <1>7, <3>1 DEF TypeOK, Lookup, Goto
    <2>4. /\ Having(c, "delivered") = {} /\ Having(c, "gone") = {}
      BY <2>1 DEF Having, Targeted
    <2>5. /\ tally'[c]["dispatched"] <= Cardinality(Having(c, "delivered")' \ open'[c])
          /\ tally'[c]["skipped"] <= Cardinality(Having(c, "gone")' \ open'[c])
      <3>1. {} \ open'[c] = {}
        OBVIOUS
      <3> QED
        BY <1>1, <1>2, <2>1, <2>2, <2>4, <3>1, NoneLeft
    <2>6. \A t \in expired'[c] : \E e \in WithToken({t}) : push'[c][e] = "gone"
      BY <1>2 DEF CallInv
    <2>7. pc'[c] \in {"push", "answered"} =>
             /\ open'[c] \subseteq Targeted(c)'
             /\ Sum(tally'[c]) + Cardinality(open'[c]) = Cardinality(Targeted(c)')
      BY <1>1, <1>2, <2>1, <2>2, <2>3, NoneLeft
    <2> QED
      BY <1>1, <1>2, <1>4, <1>7, <1>8, <2>1, <2>3, <2>5, <2>6, <2>7 DEF CallInv, Before
  <1> QED
    BY <1>5, <1>6, <1>7

LEMMA CallSends ==
  ASSUME TypeOK, NEW c \in Calls, CallInv(c), SendAll(c)
  PROVE  CallInv(c)'
  <1>1. pc[c] = "jwt" /\ tally[c] = Zero /\ Targeted(c) = {} /\ c \notin switched
        /\ c \notin late
    BY DEF SendAll, CallInv, Before
  <1>2. UNCHANGED <<tally, expired, open, switched, late>>
    BY DEF SendAll, app, history
  <1>3. expired[c] = {}
    <2>1. SUFFICES ASSUME NEW t \in expired[c] PROVE FALSE
      OBVIOUS
    <2>2. PICK e \in WithToken({t}) : push[c][e] = "gone"
      BY DEF CallInv
    <2> QED
      BY <1>1, <2>2 DEF Targeted, WithToken
  <1>4. Sum(Zero) = 0 /\ Zero["dispatched"] = 0 /\ Zero["skipped"] = 0
    BY DEF Sum, Zero, Counters
  <1>5. CASE pc'[c] = "unhandled" /\ push' = push
    <2>1. Targeted(c)' = Targeted(c) /\ Having(c, "delivered")' = Having(c, "delivered")
          /\ Having(c, "gone")' = Having(c, "gone")
      BY <1>5 DEF Targeted, Having
    <2> QED
      BY <1>1, <1>2, <1>5, <2>1 DEF CallInv, Before
  <1>6. CASE /\ pc'[c] = "push"
             /\ push'[c] = [d \in Devices |-> IF d \in open[c] THEN "sent" ELSE "none"]
    <2>1. open[c] \in SUBSET Devices
      BY DEF TypeOK
    <2>2. Targeted(c)' = open[c]
      BY <1>6, <2>1 DEF Targeted
    <2>3. /\ Having(c, "delivered")' = {} /\ Having(c, "gone")' = {}
      BY <1>6 DEF Having
    <2>4. Cardinality(open[c]) \in Nat
      BY <2>1, Countable
    <2>5. Sum(tally'[c]) + Cardinality(open'[c]) = Cardinality(Targeted(c)')
      BY <1>1, <1>2, <1>4, <2>2, <2>4
    <2>6. /\ tally'[c]["dispatched"] <= Cardinality(Having(c, "delivered")' \ open'[c])
          /\ tally'[c]["skipped"] <= Cardinality(Having(c, "gone")' \ open'[c])
      <3>1. {} \ open'[c] = {}
        OBVIOUS
      <3> QED
        BY <1>1, <1>2, <1>4, <2>3, <3>1, NoneLeft
    <2> QED
      BY <1>1, <1>2, <1>3, <1>6, <2>2, <2>5, <2>6 DEF CallInv, Before
  <1> QED
    BY <1>5, <1>6 DEF TypeOK, SendAll, Goto

LEMMA CallSettles ==
  ASSUME TypeOK, NEW c \in Calls, CallInv(c), NEW d \in Devices, NEW k \in Counters,
         NEW gone \in SUBSET Tokens, Settle(c, d, k, gone),
         k = "dispatched" => push[c][d] = "delivered",
         k = "skipped" => push[c][d] = "gone",
         gone \subseteq {Token(d)}, gone # {} => push[c][d] = "gone"
  PROVE  CallInv(c)'
  <1>1. /\ pc[c] = "push" /\ d \in open[c]
        /\ UNCHANGED <<pc, push, switched, late>>
    BY DEF Settle, app, history
  <1>2. open'[c] = open[c] \ {d} /\ expired'[c] = expired[c] \cup gone
    BY DEF TypeOK, Settle
  <1>3. tally'[c] = [tally[c] EXCEPT ![k] = @ + 1]
    BY DEF TypeOK, Settle
  <1>4. /\ Targeted(c)' = Targeted(c)
        /\ Having(c, "delivered")' = Having(c, "delivered")
        /\ Having(c, "gone")' = Having(c, "gone")
    BY <1>1 DEF Targeted, Having
  <1>5. tally[c] \in [Counters -> Count] /\ open[c] \in SUBSET Devices
    BY DEF TypeOK
  <1>6. Cardinality(Devices) \in Nat
    BY Countable
  <1>7. /\ tally[c]["dispatched"] \in Nat /\ tally[c]["skipped"] \in Nat /\ tally[c]["failed"] \in Nat
    BY <1>5, <1>6 DEF Counters, Count
  <1>8. k \in {"dispatched", "skipped", "failed"}
    BY DEF Counters
  <1>9. \A j \in {"dispatched", "skipped", "failed"} :
          tally'[c][j] = IF j = k THEN tally[c][j] + 1 ELSE tally[c][j]
    BY <1>3, <1>5 DEF Counters
  <1>10. Sum(tally'[c]) = Sum(tally[c]) + 1 /\ Sum(tally[c]) \in Nat
    <2>1. /\ tally'[c]["dispatched"] = IF k = "dispatched" THEN tally[c]["dispatched"] + 1
                                       ELSE tally[c]["dispatched"]
          /\ tally'[c]["skipped"] = IF k = "skipped" THEN tally[c]["skipped"] + 1
                                    ELSE tally[c]["skipped"]
          /\ tally'[c]["failed"] = IF k = "failed" THEN tally[c]["failed"] + 1
                                   ELSE tally[c]["failed"]
      BY <1>9
    <2> QED
      BY <1>7, <1>8, <2>1 DEF Sum
  <1>11. /\ open'[c] \subseteq Targeted(c)'
         /\ Sum(tally'[c]) + Cardinality(open'[c]) = Cardinality(Targeted(c)')
    <2>1. /\ open[c] \subseteq Targeted(c)
          /\ Sum(tally[c]) + Cardinality(open[c]) = Cardinality(Targeted(c))
      BY <1>1 DEF CallInv
    <2>2. Cardinality(open'[c]) = Cardinality(open[c]) - 1 /\ Cardinality(open[c]) \in Nat
      BY <1>1, <1>2, <1>5, Without, Countable
    <2> QED
      BY <1>2, <1>4, <1>10, <2>1, <2>2
  <1>12. ASSUME NEW v, push[c][d] = v
         PROVE  Cardinality(Having(c, v) \ open'[c]) = Cardinality(Having(c, v) \ open[c]) + 1
    <2>1. /\ Having(c, v) \ open[c] \in SUBSET Devices /\ d \notin Having(c, v) \ open[c]
      BY <1>1 DEF Having
    <2>2. Having(c, v) \ open'[c] = (Having(c, v) \ open[c]) \cup {d}
      BY <1>1, <1>2, <1>12 DEF Having
    <2> QED
      BY <2>1, <2>2, OneMore
  <1>13. ASSUME NEW v
         PROVE  /\ Cardinality(Having(c, v) \ open[c]) \in Nat
                /\ Cardinality(Having(c, v) \ open'[c]) \in Nat
                /\ Cardinality(Having(c, v) \ open[c]) <= Cardinality(Having(c, v) \ open'[c])
    <2>1. /\ Having(c, v) \ open'[c] \in SUBSET Devices
          /\ Having(c, v) \ open[c] \in SUBSET (Having(c, v) \ open'[c])
      BY <1>2 DEF Having
    <2> QED
      BY <2>1, Monotonic, Countable
  <1>14. tally'[c]["dispatched"] <= Cardinality(Having(c, "delivered")' \ open'[c])
    <2>1. tally[c]["dispatched"] <= Cardinality(Having(c, "delivered") \ open[c])
      BY DEF CallInv
    <2>2. k = "dispatched" =>
            Cardinality(Having(c, "delivered") \ open'[c]) = Cardinality(Having(c, "delivered") \ open[c]) + 1
      BY <1>12
    <2> QED
      <3>1. /\ tally[c]["dispatched"] \in Nat
            /\ tally'[c]["dispatched"] = IF k = "dispatched" THEN tally[c]["dispatched"] + 1
                                       ELSE tally[c]["dispatched"]
        BY <1>7, <1>9
      <3>2. /\ Cardinality(Having(c, "delivered") \ open[c]) \in Nat
            /\ Cardinality(Having(c, "delivered") \ open'[c]) \in Nat
            /\ Cardinality(Having(c, "delivered") \ open[c]) <= Cardinality(Having(c, "delivered") \ open'[c])
        BY <1>13
      <3>3. tally'[c]["dispatched"] <= Cardinality(Having(c, "delivered") \ open'[c])
        <4>1. CASE k = "dispatched"
          BY <2>1, <2>2, <3>1, <3>2, <4>1
        <4>2. CASE k # "dispatched"
          BY <2>1, <3>1, <3>2, <4>2
        <4> QED
          BY <4>1, <4>2
      <3> QED
        BY <1>4, <3>3
  <1>15. tally'[c]["skipped"] <= Cardinality(Having(c, "gone")' \ open'[c])
    <2>1. tally[c]["skipped"] <= Cardinality(Having(c, "gone") \ open[c])
      BY DEF CallInv
    <2>2. k = "skipped" =>
            Cardinality(Having(c, "gone") \ open'[c]) = Cardinality(Having(c, "gone") \ open[c]) + 1
      BY <1>12
    <2> QED
      <3>1. /\ tally[c]["skipped"] \in Nat
            /\ tally'[c]["skipped"] = IF k = "skipped" THEN tally[c]["skipped"] + 1
                                       ELSE tally[c]["skipped"]
        BY <1>7, <1>9
      <3>2. /\ Cardinality(Having(c, "gone") \ open[c]) \in Nat
            /\ Cardinality(Having(c, "gone") \ open'[c]) \in Nat
            /\ Cardinality(Having(c, "gone") \ open[c]) <= Cardinality(Having(c, "gone") \ open'[c])
        BY <1>13
      <3>3. tally'[c]["skipped"] <= Cardinality(Having(c, "gone") \ open'[c])
        <4>1. CASE k = "skipped"
          BY <2>1, <2>2, <3>1, <3>2, <4>1
        <4>2. CASE k # "skipped"
          BY <2>1, <3>1, <3>2, <4>2
        <4> QED
          BY <4>1, <4>2
      <3> QED
        BY <1>4, <3>3
  <1>16. \A t \in expired'[c] : \E e \in WithToken({t}) : push'[c][e] = "gone"
    <2> SUFFICES ASSUME NEW t \in expired'[c] PROVE \E e \in WithToken({t}) : push[c][e] = "gone"
      BY <1>1
    <2>1. CASE t \in expired[c]
      BY <2>1 DEF CallInv
    <2>2. CASE t \in gone
      BY <2>2 DEF WithToken
    <2> QED
      BY <1>2, <2>1, <2>2
  <1>17. c \notin switched /\ c \notin late
    BY <1>1 DEF CallInv
  <1> QED
    BY <1>1, <1>11, <1>14, <1>15, <1>16, <1>17 DEF CallInv, Before

LEMMA CallFinishes ==
  ASSUME TypeOK, NEW c \in Calls, CallInv(c), Finish(c)
  PROVE  CallInv(c)'
  <1>1. /\ pc'[c] = "answered" /\ pc[c] = "push" /\ open[c] = {}
        /\ UNCHANGED <<open, tally, expired, push>>
    BY DEF TypeOK, Finish, Goto
  <1>2. Targeted(c)' = Targeted(c) /\ Having(c, "delivered")' = Having(c, "delivered")
        /\ Having(c, "gone")' = Having(c, "gone")
    BY <1>1 DEF Targeted, Having
  <1> QED
    BY <1>1, <1>2 DEF CallInv, Before

LEMMA CallLands ==
  ASSUME TypeOK, NEW c \in Calls, CallInv(c), Land(c)
  PROVE  CallInv(c)'
  <1>1. c \in late /\ UNCHANGED <<pc, open, tally, expired, push>>
    BY DEF Land, handler
  <1>2. Targeted(c)' = Targeted(c) /\ Having(c, "delivered")' = Having(c, "delivered")
        /\ Having(c, "gone")' = Having(c, "gone")
    BY <1>1 DEF Targeted, Having
  <1> QED
    BY <1>1, <1>2 DEF CallInv

(* A verdict comes at any time and only adds to what may be counted.       *)
LEMMA CallHears ==
  ASSUME TypeOK, NEW c \in Calls, CallInv(c), NEW d \in Devices, Apns(c, d)
  PROVE  CallInv(c)'
  <1>1. PICK verdict \in {"rejected", IF Token(d) \in installed THEN "delivered" ELSE "gone"} :
          push' = [push EXCEPT ![c][d] = verdict]
    BY DEF Apns
  <1>2. /\ verdict \in {"rejected", "delivered", "gone"} /\ push[c][d] = "sent"
        /\ \A e \in Devices : push'[c][e] = IF e = d THEN verdict ELSE push[c][e]
        /\ UNCHANGED <<pc, tally, open, expired, switched, late>>
    BY <1>1 DEF TypeOK, Apns, app, handler, history
  <1>3. Targeted(c)' = Targeted(c)
    BY <1>2 DEF Targeted
  <1>4. ASSUME NEW v \in {"delivered", "gone"}
        PROVE  /\ Cardinality(Having(c, v) \ open[c]) \in Nat
               /\ Cardinality(Having(c, v)' \ open'[c]) \in Nat
               /\ Cardinality(Having(c, v) \ open[c]) <= Cardinality(Having(c, v)' \ open'[c])
    <2>1. Having(c, v)' = {e \in Devices : push'[c][e] = v}
      BY DEF Having
    <2>2. /\ Having(c, v)' \ open'[c] \in SUBSET Devices
          /\ Having(c, v) \ open[c] \in SUBSET (Having(c, v)' \ open'[c])
      BY <1>2, <2>1 DEF Having
    <2> QED
      BY <2>2, Monotonic, Countable
  <1>5. tally[c] \in [Counters -> Count] /\ Cardinality(Devices) \in Nat
    BY Countable DEF TypeOK
  <1>6. /\ tally[c]["dispatched"] \in Nat /\ tally[c]["skipped"] \in Nat
    BY <1>5 DEF Counters, Count
  <1>7. tally'[c]["dispatched"] <= Cardinality(Having(c, "delivered")' \ open'[c])
    <2>1. tally[c]["dispatched"] <= Cardinality(Having(c, "delivered") \ open[c])
      BY DEF CallInv
    <2> QED
      BY <1>2, <1>4, <1>6, <2>1
  <1>8. tally'[c]["skipped"] <= Cardinality(Having(c, "gone")' \ open'[c])
    <2>1. tally[c]["skipped"] <= Cardinality(Having(c, "gone") \ open[c])
      BY DEF CallInv
    <2> QED
      BY <1>2, <1>4, <1>6, <2>1
  <1>9. \A t \in expired'[c] : \E e \in WithToken({t}) : push'[c][e] = "gone"
    <2> SUFFICES ASSUME NEW t \in expired[c] PROVE \E e \in WithToken({t}) : push'[c][e] = "gone"
      BY <1>2
    <2>1. PICK e \in WithToken({t}) : push[c][e] = "gone"
      BY DEF CallInv
    <2>2. e \in Devices /\ e # d
      BY <1>2, <2>1 DEF WithToken
    <2> QED
      BY <1>2, <2>1, <2>2
  <1> QED
    BY <1>2, <1>3, <1>7, <1>8, <1>9 DEF CallInv

(* A step of one call leaves every other as it was.                        *)
LEMMA CallStep ==
  ASSUME TypeOK, \A c \in Calls : CallInv(c), [Next]_vars
  PROVE  \A c \in Calls : CallInv(c)'
  <1> SUFFICES ASSUME NEW c \in Calls PROVE CallInv(c)'
    OBVIOUS
  <1>0. CallInv(c)
    OBVIOUS
  <1>1. CASE UNCHANGED vars
    BY <1>0, <1>1, CallFrame DEF vars, app, handler, history
  <1>2. ASSUME NEW d \in Calls,
               Receive(d) \/ Lookup(d) \/ SendAll(d) \/ Kill(d) \/ Finish(d) \/ Land(d)
        PROVE  CallInv(c)'
    <2>1. CASE c = d
      BY <1>0, <1>2, <2>1, CallMoves, CallSends, CallFinishes, CallLands
    <2>2. CASE c # d
      <3>1. /\ pc'[c] = pc[c] /\ tally'[c] = tally[c] /\ expired'[c] = expired[c]
            /\ switched' \subseteq switched \cup {d} /\ late' \subseteq late \cup {d}
        BY <1>2, <2>2 DEF TypeOK, Receive, Lookup, SendAll, Kill, Finish, Land, Goto, app, handler,
                          history
      <3>2. open'[c] = open[c] /\ push'[c] = push[c]
        BY <1>2, <2>2 DEF TypeOK, Receive, Lookup, SendAll, Kill, Finish, Land, Goto, handler
      <3> QED
        BY <1>0, <2>2, <3>1, <3>2, CallFrame
    <2> QED
      BY <2>1, <2>2
  <1>3. ASSUME NEW b \in Calls, NEW d \in Devices,
               Dispatched(b, d) \/ Skipped(b, d) \/ Failed(b, d)
        PROVE  CallInv(c)'
    <2>1. {} \in SUBSET Tokens /\ {Token(d)} \in SUBSET Tokens
      BY DEF Tokens
    <2>2. "dispatched" \in Counters /\ "skipped" \in Counters /\ "failed" \in Counters
      BY DEF Counters
    <2>3. CASE c = b
      <3>1. CASE Dispatched(c, d)
        <4>1. push[c][d] = "delivered" /\ Settle(c, d, "dispatched", {})
          BY <3>1 DEF Dispatched
        <4> QED
          BY <1>0, <2>1, <2>2, <4>1, CallSettles
      <3>2. CASE Skipped(c, d)
        <4>1. push[c][d] = "gone" /\ Settle(c, d, "skipped", {Token(d)})
          BY <3>2 DEF Skipped
        <4> QED
          BY <1>0, <2>1, <2>2, <4>1, CallSettles
      <3>3. CASE Failed(c, d)
        <4>1. Settle(c, d, "failed", {})
          BY <3>3 DEF Failed
        <4> QED
          BY <1>0, <2>1, <2>2, <4>1, CallSettles
      <3> QED
        BY <1>3, <2>3, <3>1, <3>2, <3>3
    <2>4. CASE c # b
      <3>1. /\ pc'[c] = pc[c] /\ tally'[c] = tally[c] /\ open'[c] = open[c]
            /\ expired'[c] = expired[c] /\ push'[c] = push[c] /\ UNCHANGED <<switched, late>>
        BY <1>3, <2>4 DEF TypeOK, Dispatched, Skipped, Failed, Settle, app, history
      <3> QED
        BY <1>0, <3>1, CallFrame
    <2> QED
      BY <2>3, <2>4
  <1>4. ASSUME NEW b \in Calls, NEW d \in Devices, Apns(b, d)
        PROVE  CallInv(c)'
    <2>1. CASE c = b
      BY <1>0, <1>4, <2>1, CallHears
    <2>2. CASE c # b
      BY <1>0, <1>4, <2>2, CallFrame DEF TypeOK, Apns, app, handler, history
    <2> QED
      BY <2>1, <2>2
  <1>5. ASSUME NEW d \in Devices, Register(d) \/ Mute(d) PROVE CallInv(c)'
    BY <1>0, <1>5, CallFrame DEF Register, Mute, handler
  <1>6. ASSUME NEW t \in Tokens, Uninstall(t) \/ Install(t) PROVE CallInv(c)'
    BY <1>0, <1>6, CallFrame DEF Uninstall, Install, handler, history
  <1> QED
    BY <1>1, <1>2, <1>3, <1>4, <1>5, <1>6 DEF Next, Handle

-----------------------------------------------------------------------------
(* Rows: every action, by what it may do to them.                          *)

(* Calls at work, the verdicts they were given and the app are as before,  *)
(* or fewer.                                                               *)
LEMMA RowFrame ==
  ASSUME NEW d \in Devices, RowInv(d), current' \subseteq current, installed' = installed,
         raced' = raced,
         \A c \in Calls : AtWork(c)' /\ (\E e \in WithToken({Token(d)}) : push'[c][e] = "gone")
           => AtWork(c) /\ (\E e \in WithToken({Token(d)}) : push[c][e] = "gone")
  PROVE  RowInv(d)'
  BY DEF RowInv

LEMMA RowStep ==
  ASSUME TypeOK, \A d \in Devices : RowInv(d), [Next]_vars
  PROVE  \A d \in Devices : RowInv(d)'
  <1> SUFFICES ASSUME NEW d \in Devices PROVE RowInv(d)'
    OBVIOUS
  <1>0. RowInv(d)
    OBVIOUS
  <1>1. CASE UNCHANGED vars
    BY <1>0, <1>1, RowFrame DEF AtWork, vars, app, handler, history
  <1>2. ASSUME NEW c \in Calls, Receive(c) \/ Lookup(c) \/ Kill(c) \/ Finish(c) \/ Land(c)
        PROVE  RowInv(d)'
    <2>1. UNCHANGED <<current, installed, raced, push>>
      BY <1>2 DEF Receive, Lookup, Kill, Finish, Land, app, history
    <2>2. \A b \in Calls : AtWork(b)' => AtWork(b)
      BY <1>2 DEF TypeOK, AtWork, Updates, Receive, Lookup, Kill, Finish, Land, Goto, app, handler
    <2> QED
      BY <1>0, <2>1, <2>2, RowFrame
  <1>3. ASSUME NEW c \in Calls, SendAll(c)
        PROVE  RowInv(d)'
    <2>1. UNCHANGED <<current, installed, raced>>
      BY <1>3 DEF SendAll, app, history
    <2>2. ASSUME NEW b \in Calls, AtWork(b)',
                 NEW e \in WithToken({Token(d)}), push'[b][e] = "gone"
          PROVE  AtWork(b) /\ push[b][e] = "gone"
      <3>1. e \in Devices
        BY DEF WithToken
      <3>2. CASE b # c
        BY <1>3, <2>2, <3>2 DEF TypeOK, SendAll, AtWork, Goto, app
      <3>3. CASE b = c
        <4>1. \/ pc'[c] = "unhandled" /\ push' = push
              \/ push'[c] = [g \in Devices |-> IF g \in open[c] THEN "sent" ELSE "none"]
          BY <1>3 DEF TypeOK, SendAll, Goto
        <4>2. push'[c][e] = "gone" /\ AtWork(c)'
          BY <2>2, <3>3
        <4>3. pc'[c] = "unhandled" /\ push' = push
          BY <3>1, <4>1, <4>2
        <4>4. c \in late
          BY <1>3, <4>2, <4>3 DEF AtWork, SendAll, app
        <4> QED
          BY <3>3, <4>2, <4>3, <4>4 DEF AtWork
      <3> QED
        BY <3>2, <3>3
    <2> QED
      BY <1>0, <2>1, <2>2, RowFrame
  <1>4. ASSUME NEW c \in Calls, NEW e \in Devices,
               Dispatched(c, e) \/ Skipped(c, e) \/ Failed(c, e)
        PROVE  RowInv(d)'
    BY <1>0, <1>4, RowFrame DEF AtWork, Dispatched, Skipped, Failed, Settle, app, history
  <1>5. ASSUME NEW c \in Calls, NEW e \in Devices, Apns(c, e)
        PROVE  RowInv(d)'
    <2>1. UNCHANGED <<current, installed, raced, pc, late>>
      BY <1>5 DEF Apns, app, handler, history
    <2>2. CASE d \in current
      <3>1. Token(d) \in installed
        BY <1>0, <2>2 DEF RowInv
      <3>2. ASSUME NEW b \in Calls, NEW g \in WithToken({Token(d)}), push'[b][g] = "gone"
            PROVE  push[b][g] = "gone"
        <4>1. g \in Devices /\ Token(g) \in installed
          BY <3>1 DEF WithToken
        <4>2. PICK verdict \in {"rejected", IF Token(e) \in installed THEN "delivered" ELSE "gone"} :
                push' = [push EXCEPT ![c][e] = verdict]
          BY <1>5 DEF Apns
        <4> QED
          BY <3>2, <4>1, <4>2 DEF TypeOK
      <3> QED
        BY <1>0, <2>1, <3>2, RowFrame DEF AtWork
    <2>3. CASE d \notin current
      BY <2>1, <2>3 DEF RowInv
    <2> QED
      BY <2>2, <2>3
  <1>6. ASSUME NEW e \in Devices, Register(e)
        PROVE  RowInv(d)'
    <2>1. /\ Token(e) \in installed /\ current' = current \cup {e}
          /\ UNCHANGED <<installed, late, pc, push>>
          /\ raced \subseteq raced'
          /\ (\E c \in {b \in Calls : \E g \in WithToken({Token(e)}) : push[b][g] = "gone"} :
                AtWork(c)) => Token(e) \in raced'
      BY <1>6 DEF Register, handler
    <2>2. CASE d = e
      BY <2>1, <2>2 DEF RowInv, AtWork
    <2>3. CASE d # e
      BY <1>0, <2>1, <2>3 DEF RowInv, AtWork
    <2> QED
      BY <2>2, <2>3
  <1>7. ASSUME NEW e \in Devices, Mute(e) PROVE RowInv(d)'
    BY <1>0, <1>7, RowFrame DEF AtWork, Mute, handler
  <1>8. ASSUME NEW t \in Tokens, Uninstall(t) PROVE RowInv(d)'
    <2>1. d \in current' => d \in current /\ Token(d) # t
      BY <1>8 DEF Uninstall, WithToken
    <2>2. installed' = installed \ {t} /\ UNCHANGED <<pc, push, late, raced>>
      BY <1>8 DEF Uninstall, handler
    <2> QED
      BY <1>0, <2>1, <2>2 DEF RowInv, AtWork
  <1>9. ASSUME NEW t \in Tokens, Install(t) PROVE RowInv(d)'
    BY <1>0, <1>9 DEF RowInv, AtWork, Install, handler, history
  <1> QED
    BY <1>1, <1>2, <1>3, <1>4, <1>5, <1>6, <1>7, <1>8, <1>9 DEF Next, Handle

(* What the update does to the rows, in time or late: only those go off    *)
(* whose token the call was told is gone, and afterwards they all are.     *)
LEMMA UpdateRows ==
  ASSUME TypeOK, NEW c \in Calls, CallInv(c), Finish(c) \/ Land(c)
  PROVE  /\ AtWork(c)
         /\ \A d \in Devices :
              \/ row'[d] = row[d]
              \/ /\ row[d] = "on" /\ row'[d] = "off"
                 /\ \E e \in WithToken({Token(d)}) : push[c][e] = "gone"
         /\ \/ switched' = switched
            \/ /\ switched' = switched \cup {c}
               /\ \A d \in Devices : Token(d) \in expired[c] => row'[d] # "on"
  <1>0. AtWork(c)
    BY DEF Finish, Land, AtWork
  <1>1. CASE row' = row /\ switched' = switched
    BY <1>0, <1>1
  <1>2. CASE SwitchOff(expired[c]) /\ switched' = switched \cup {c}
    <2>1. \A d \in Devices :
            row'[d] = IF Token(d) \in expired[c] /\ row[d] = "on" THEN "off" ELSE row[d]
      BY <1>2 DEF SwitchOff
    <2>2. \A t \in expired[c] : \E e \in WithToken({t}) : push[c][e] = "gone"
      BY DEF CallInv
    <2> QED
      BY <1>0, <1>2, <2>1, <2>2
  <1> QED
    BY <1>1, <1>2 DEF Finish, Land

LEMMA RaceStep ==
  ASSUME TypeOK, \A c \in Calls : CallInv(c), \A d \in Devices : RowInv(d),
         SilencedOnlyInARace, [Next]_vars
  PROVE  SilencedOnlyInARace'
  <1> SUFFICES ASSUME NEW d \in Devices, d \in current', row'[d] = "off", d \notin muted'
               PROVE  Token(d) \in raced'
    <2>1. current' \subseteq Devices
      BY TypeStep DEF TypeOK
    <2> QED
      BY <2>1 DEF SilencedOnlyInARace
  <1>1. CASE UNCHANGED <<row, muted, raced>> /\ current' \subseteq current
    BY <1>1 DEF SilencedOnlyInARace
  <1>2. ASSUME NEW c \in Calls, Handle(c) \/ Kill(c) \/ \E e \in Devices : Apns(c, e), ~Finish(c)
        PROVE  UNCHANGED <<row, muted, raced, current>>
    BY <1>2 DEF Handle, Receive, Lookup, SendAll, Dispatched, Skipped, Failed, Settle, Kill, Apns,
                app, history
  <1>3. ASSUME NEW c \in Calls, Finish(c) \/ Land(c) PROVE Token(d) \in raced'
    <2>1. UNCHANGED <<muted, raced, current>>
      BY <1>3 DEF Finish, Land
    <2>2. CASE row'[d] = row[d]
      BY <2>1, <2>2 DEF SilencedOnlyInARace
    <2>3. CASE AtWork(c) /\ \E e \in WithToken({Token(d)}) : push[c][e] = "gone"
      BY <2>1, <2>3 DEF RowInv
    <2> QED
      BY <1>3, <2>2, <2>3, UpdateRows
  <1>4. ASSUME NEW e \in Devices, Register(e) PROVE Token(d) \in raced'
    <2>1. /\ row' = [row EXCEPT ![e] = "on"] /\ muted' = muted \ {e}
          /\ current' = current \cup {e} /\ raced \subseteq raced'
      BY <1>4 DEF Register
    <2>2. d # e
      BY <2>1 DEF TypeOK
    <2> QED
      BY <2>1, <2>2 DEF TypeOK, SilencedOnlyInARace
  <1>5. ASSUME NEW e \in Devices, Mute(e) PROVE Token(d) \in raced'
    BY <1>5 DEF Mute, TypeOK, SilencedOnlyInARace
  <1>6. ASSUME NEW t \in Tokens, Uninstall(t) \/ Install(t)
        PROVE  UNCHANGED <<row, muted, raced>> /\ current' \subseteq current
    BY <1>6 DEF Uninstall, Install, history
  <1> QED
    BY <1>1, <1>2, <1>3, <1>4, <1>5, <1>6 DEF Next, vars, app, history

LEMMA SilenceStep ==
  ASSUME TypeOK, \A c \in Calls : CallInv(c), GoneStaysSilent, [Next]_vars
  PROVE  GoneStaysSilent'
  <1> SUFFICES ASSUME NEW c \in Calls, c \in switched', NEW t \in expired'[c],
                      <<c, t>> \notin renewed', NEW d \in WithToken({t})
               PROVE  row'[d] # "on"
    <2>1. switched' \subseteq Calls
      BY TypeStep DEF TypeOK
    <2> QED
      BY <2>1 DEF GoneStaysSilent, WithToken
  <1>0. d \in Devices /\ Token(d) = t
    BY DEF WithToken
  <1>1. CASE /\ c \in switched /\ expired'[c] = expired[c]
             /\ renewed' = renewed /\ (row'[d] = row[d] \/ row'[d] = "off")
    BY <1>0, <1>1 DEF GoneStaysSilent
  <1>2. ASSUME NEW b \in Calls, Handle(b) \/ Kill(b) \/ (\E e \in Devices : Apns(b, e)), ~Finish(b)
        PROVE  UNCHANGED <<row, switched, renewed>>
    BY <1>2 DEF Handle, Receive, Lookup, SendAll, Dispatched, Skipped, Failed, Settle, Kill, Apns,
                app, history
  <1>3. ASSUME NEW b \in Calls, Handle(b) \/ Kill(b) \/ (\E e \in Devices : Apns(b, e)), c \in switched
        PROVE  expired'[c] = expired[c]
    <2>1. pc[c] \in {"answered", "killed"}
      BY <1>3 DEF CallInv
    <2>2. CASE c = b
      BY <1>3, <2>1, <2>2 DEF Handle, Receive, Lookup, SendAll, Dispatched, Skipped, Failed, Settle,
                              Finish, Kill, Ended, Answered, Apns, handler
    <2>3. CASE c # b
      BY <1>3, <2>3 DEF TypeOK, Handle, Receive, Lookup, SendAll, Dispatched, Skipped, Failed, Settle,
                        Finish, Kill, Apns, handler
    <2> QED
      BY <2>2, <2>3
  <1>4. ASSUME NEW b \in Calls, Finish(b) \/ Land(b) PROVE row'[d] # "on"
    <2>1. UNCHANGED <<renewed, expired>>
      BY <1>4 DEF Finish, Land, handler
    <2>2. row'[d] = row[d] \/ row'[d] = "off"
      BY <1>0, <1>4, UpdateRows
    <2>3. CASE c \in switched
      BY <1>1, <2>1, <2>2, <2>3
    <2>4. CASE c \notin switched
      BY <1>0, <1>4, <2>1, <2>4, UpdateRows
    <2> QED
      BY <2>3, <2>4
  <1>5. ASSUME NEW e \in Devices, Register(e) PROVE row'[d] # "on"
    <2>1. /\ switched' = switched /\ expired' = expired /\ renewed \subseteq renewed'
          /\ row' = [row EXCEPT ![e] = "on"]
          /\ \A b \in Calls : (\E g \in WithToken({Token(e)}) : push[b][g] = "gone")
               => <<b, Token(e)>> \in renewed'
      BY <1>5 DEF Register, handler
    <2>2. \E g \in WithToken({t}) : push[c][g] = "gone"
      BY <2>1 DEF CallInv
    <2>3. Token(e) # t
      BY <2>1, <2>2
    <2>4. row'[d] = row[d]
      BY <1>0, <2>1, <2>3 DEF TypeOK
    <2> QED
      BY <1>0, <2>1, <2>4 DEF GoneStaysSilent
  <1>6. ASSUME NEW e \in Devices, Mute(e) PROVE row'[d] # "on"
    <2>1. UNCHANGED <<switched, expired, renewed>> /\ row' = [row EXCEPT ![e] = "off"]
      BY <1>6 DEF Mute, handler
    <2>2. row'[d] = row[d] \/ row'[d] = "off"
      BY <1>0, <2>1 DEF TypeOK
    <2> QED
      BY <1>1, <2>1, <2>2
  <1>7. ASSUME NEW s \in Tokens, Uninstall(s) \/ Install(s)
        PROVE  UNCHANGED <<row, switched, expired, renewed>>
    BY <1>7 DEF Uninstall, Install, handler, history
  <1>8. CASE UNCHANGED vars
    BY <1>1, <1>8 DEF vars, app, handler, history
  <1> QED
    <2>1. ASSUME NEW b \in Calls, Handle(b) \/ Kill(b) \/ (\E e \in Devices : Apns(b, e))
          PROVE  row'[d] # "on"
      BY <1>1, <1>2, <1>3, <1>4, <2>1
    <2> QED
      BY <1>1, <1>4, <1>5, <1>6, <1>7, <1>8, <2>1 DEF Next

-----------------------------------------------------------------------------
LEMMA InitInv == Init => IInv
  <1> SUFFICES ASSUME Init PROVE IInv
    OBVIOUS
  <1>1. 0 \in Count
    BY Countable DEF Count
  <1>2. Zero \in [Counters -> Count] /\ Zero["dispatched"] = 0 /\ Zero["skipped"] = 0
    BY <1>1 DEF Zero, Counters
  <1>3. TypeOK
    BY <1>2 DEF Init, TypeOK, Stages, Pushes
  <1>4. ASSUME NEW c \in Calls PROVE CallInv(c)
    <2>1. /\ pc[c] = "idle" /\ tally[c] = Zero /\ open[c] = {} /\ expired[c] = {}
          /\ Targeted(c) = {} /\ Having(c, "delivered") = {} /\ Having(c, "gone") = {}
          /\ c \notin switched \cup late
      BY DEF Init, Targeted, Having
    <2> QED
      BY <1>2, <2>1, NoneLeft DEF CallInv
  <1>5. ASSUME NEW d \in Devices PROVE RowInv(d)
    BY DEF Init, RowInv
  <1>6. SilencedOnlyInARace /\ GoneStaysSilent
    BY DEF Init, SilencedOnlyInARace, GoneStaysSilent
  <1> QED
    BY <1>3, <1>4, <1>5, <1>6 DEF IInv

(* The inductive invariant: each call's books, what a call knows of the    *)
(* registrations it overlaps, and the two promises about rows.             *)
THEOREM Invariance == Spec => []IInv
  <1>1. IInv /\ [Next]_vars => IInv'
    BY TypeStep, CallStep, RowStep, RaceStep, SilenceStep DEF IInv
  <1> QED
    BY InitInv, <1>1, PTL DEF Spec

(* The answer of notify-subscribers counts every target once, whatever the *)
(* order in which APNS answers, and no push as better than it was.         *)
THEOREM Tally == Spec => []TallyIsTrue
  <1>1. IInv => TallyIsTrue
    <2> SUFFICES ASSUME IInv, NEW c \in Calls
                 PROVE  /\ pc[c] = "answered" => Sum(tally[c]) = Cardinality(Targeted(c))
                        /\ tally[c]["dispatched"] <= Cardinality(Having(c, "delivered"))
                        /\ tally[c]["skipped"] <= Cardinality(Having(c, "gone"))
      BY DEF TallyIsTrue
    <2>1. CallInv(c) /\ TypeOK
      BY DEF IInv
    <2>2. tally[c] \in [Counters -> Count] /\ Cardinality(Devices) \in Nat
      BY <2>1, Countable DEF TypeOK
    <2>3. /\ tally[c]["dispatched"] \in Nat /\ tally[c]["skipped"] \in Nat /\ tally[c]["failed"] \in Nat
      BY <2>2 DEF Counters, Count
    <2>4. Sum(tally[c]) \in Nat
      BY <2>3 DEF Sum
    <2>5. ASSUME pc[c] = "answered" PROVE Sum(tally[c]) = Cardinality(Targeted(c))
      <3>1. open[c] = {} /\ Sum(tally[c]) + Cardinality(open[c]) = Cardinality(Targeted(c))
        BY <2>1, <2>5 DEF CallInv
      <3> QED
        BY <2>4, <3>1, NoneLeft
    <2>6. ASSUME NEW v
          PROVE  /\ Cardinality(Having(c, v) \ open[c]) <= Cardinality(Having(c, v))
                 /\ Cardinality(Having(c, v) \ open[c]) \in Nat /\ Cardinality(Having(c, v)) \in Nat
      <3>1. Having(c, v) \in SUBSET Devices /\ Having(c, v) \ open[c] \in SUBSET Having(c, v)
        BY SubsetsOfDevices
      <3>2. Having(c, v) \ open[c] \in SUBSET Devices
        BY <3>1
      <3> QED
        BY <3>1, <3>2, Monotonic, Countable
    <2>7. /\ tally[c]["dispatched"] <= Cardinality(Having(c, "delivered") \ open[c])
          /\ tally[c]["skipped"] <= Cardinality(Having(c, "gone") \ open[c])
      BY <2>1 DEF CallInv
    <2>8. tally[c]["dispatched"] <= Cardinality(Having(c, "delivered"))
      BY <2>3, <2>6, <2>7
    <2>9. tally[c]["skipped"] <= Cardinality(Having(c, "gone"))
      BY <2>3, <2>6, <2>7
    <2> QED
      BY <2>5, <2>8, <2>9
  <1> QED
    BY <1>1, Invariance, PTL

(* A token switched off by a call stays off for every owner until the app  *)
(* registers it again.                                                     *)
THEOREM Silence == Spec => []GoneStaysSilent
  <1>1. IInv => GoneStaysSilent
    BY DEF IInv
  <1> QED
    BY <1>1, Invariance, PTL

(* A registered row is silenced only by its owner or by the race between   *)
(* APNS's verdict and the registration.                                    *)
THEOREM Race == Spec => []SilencedOnlyInARace
  <1>1. IInv => SilencedOnlyInARace
    BY DEF IInv
  <1> QED
    BY <1>1, Invariance, PTL
=============================================================================
