------------------------- MODULE ProxyRecoveryProofs -------------------------
(* Proofs about ProxyRecovery: its invariant is inductive, so a mutating tool  *)
(* runs at most once for a call, and its loss with a broker is reported.       *)
EXTENDS ProxyRecovery, TLAPS

LEMMA InvInit == Init => ProxyInv
  BY OwnersBounded DEF Init, Brokers!Init, ProxyInv, TypeOK, AttemptsInOrder, OneRequestEach,
     UsedNoLater, RunsAreCounted, Ran, Attempts, Requests, NoRequest, Discovering

LEMMA InvStep == ProxyInv /\ [Next]_vars => ProxyInv'
<1> SUFFICES ASSUME ProxyInv, [Next]_vars PROVE ProxyInv'
  OBVIOUS
<1> USE DEF ProxyInv, broker
<1>1. ASSUME NEW c \in Calls, Begin(c) PROVE ProxyInv'
  <2>1. TypeOK'
    BY <1>1 DEF Begin, TypeOK
  <2>2. AttemptsInOrder'
    BY <1>1 DEF Begin, AttemptsInOrder, TypeOK
  <2>3. OneRequestEach'
    BY <1>1 DEF Begin, OneRequestEach, Attempts, Discovering, AttemptsInOrder
  <2>4. UsedNoLater'
    BY <1>1 DEF Begin, UsedNoLater, NoRequest, OneRequestEach, AttemptsInOrder
  <2>5. RunsAreCounted'
    BY <1>1 DEF Begin, RunsAreCounted, Ran
  <2> QED BY <2>1, <2>2, <2>3, <2>4, <2>5
<1>2. ASSUME NEW c \in Calls, Lists(c) PROVE ProxyInv'
  <2>1. TypeOK'
    BY <1>2 DEF Lists, TypeOK
  <2>2. AttemptsInOrder'
    BY <1>2 DEF Lists, AttemptsInOrder
  <2>3. OneRequestEach'
    BY <1>2 DEF Lists, OneRequestEach, Discovering
  <2>4. UsedNoLater'
    BY <1>2 DEF Lists, UsedNoLater, NoRequest, OneRequestEach, Discovering
  <2>5. RunsAreCounted'
    BY <1>2 DEF Lists, RunsAreCounted, Ran
  <2> QED BY <2>1, <2>2, <2>3, <2>4, <2>5
<1>3. ASSUME NEW c \in Calls, Discover(c) PROVE ProxyInv'
  <2>1. TypeOK'
    BY <1>3 DEF Discover, TypeOK
  <2>2. AttemptsInOrder'
    BY <1>3 DEF Discover, AttemptsInOrder
  <2>3. OneRequestEach'
    BY <1>3 DEF Discover, OneRequestEach, Discovering
  <2>4. UsedNoLater'
    BY <1>3 DEF Discover, UsedNoLater
  <2>5. RunsAreCounted'
    BY <1>3 DEF Discover, RunsAreCounted, Ran
  <2> QED BY <2>1, <2>2, <2>3, <2>4, <2>5
<1>4. ASSUME NEW c \in Calls, Send(c) PROVE ProxyInv'
  <2>1. TypeOK'
    BY <1>4 DEF Send, TypeOK, Attempts, Requests, AttemptsInOrder
  <2>2. AttemptsInOrder'
    BY <1>4 DEF Send, AttemptsInOrder
  <2>3. OneRequestEach'
    BY <1>4 DEF Send, OneRequestEach, Discovering, TypeOK
  <2>4. UsedNoLater'
    BY <1>4 DEF Send, UsedNoLater, TypeOK
  <2>5. RunsAreCounted'
    BY <1>4 DEF Send, RunsAreCounted, Ran, Attempts, OneRequestEach, NoRequest
  <2> QED BY <2>1, <2>2, <2>3, <2>4, <2>5
<1>5. ASSUME NEW c \in Calls, Answered(c) PROVE ProxyInv'
  <2>1. TypeOK'
    BY <1>5 DEF Answered, Conclude, TypeOK
  <2>2. AttemptsInOrder'
    BY <1>5 DEF Answered, Conclude, AttemptsInOrder
  <2>3. OneRequestEach'
    BY <1>5 DEF Answered, Conclude, OneRequestEach, Discovering
  <2>4. UsedNoLater'
    BY <1>5 DEF Answered, UsedNoLater
  <2>5. RunsAreCounted'
    BY <1>5 DEF Answered, RunsAreCounted, Ran
  <2> QED BY <2>1, <2>2, <2>3, <2>4, <2>5
<1>6. ASSUME NEW c \in Calls, Fails(c) PROVE ProxyInv'
  <2>1. TypeOK'
    <3>1. used' \in [Calls -> 0..owner] /\ owner' = owner
      BY <1>6 DEF Fails, TypeOK
    <3>2. pc' \in [Calls -> {"idle", "finding", "listing", "relisting", "found",
                             "sent", "failed", "lost", "done"}]
      BY <1>6 DEF Fails, Conclude, TypeOK
    <3>3. result' \in [Calls -> {"none", "ok", "error", "unknown", "cancelled"}]
      BY <1>6 DEF Fails, Conclude, TypeOK
    <3> QED BY <1>6, <3>1, <3>2, <3>3 DEF Fails, TypeOK
  <2>2. AttemptsInOrder'
    BY <1>6 DEF Fails, Discovering, Calling, LastAttempt, Conclude,
       AttemptsInOrder, TypeOK
  <2>3. OneRequestEach'
    BY <1>6 DEF Fails, Discovering, Conclude, OneRequestEach, TypeOK
  <2>4. UsedNoLater'
    BY <1>6 DEF Fails, UsedNoLater, NoRequest, OneRequestEach
  <2>5. RunsAreCounted'
    BY <1>6 DEF Fails, RunsAreCounted, Ran
  <2> QED BY <2>1, <2>2, <2>3, <2>4, <2>5
<1>7. ASSUME NEW c \in Calls, OwnerLost(c) PROVE ProxyInv'
  <2>1. TypeOK'
    BY <1>7 DEF OwnerLost, Calling, LastAttempt, Conclude, TypeOK, Attempts,
       Requests, NoRequest, AttemptsInOrder, Discovering
  <2>2. AttemptsInOrder'
    BY <1>7 DEF OwnerLost, Calling, LastAttempt, Conclude, AttemptsInOrder,
       TypeOK
  <2>3. OneRequestEach'
    BY <1>7 DEF OwnerLost, Conclude, OneRequestEach, Discovering, TypeOK
  <2>4. UsedNoLater'
    BY <1>7 DEF OwnerLost, UsedNoLater
  <2>5. RunsAreCounted'
    BY <1>7 DEF OwnerLost, RunsAreCounted, Ran
  <2> QED BY <2>1, <2>2, <2>3, <2>4, <2>5
<1>8. ASSUME NEW c \in Calls, Recovered(c) PROVE ProxyInv'
  <2>1. TypeOK'
    <3>1. attempt' \in [Calls -> 0..2]
      BY <1>8 DEF Recovered, Replay, TypeOK, AttemptsInOrder
    <3>2. used' \in [Calls -> 0..owner] /\ owner' = owner
      BY <1>8 DEF Recovered, Replay, TypeOK
    <3>3. pc' \in [Calls -> {"idle", "finding", "listing", "relisting", "found",
                             "sent", "failed", "lost", "done"}]
      BY <1>8 DEF Recovered, Replay, Conclude, TypeOK
    <3>4. result' \in [Calls -> {"none", "ok", "error", "unknown", "cancelled"}]
      BY <1>8 DEF Recovered, Replay, Conclude, TypeOK
    <3> QED BY <1>8, <3>1, <3>2, <3>3, <3>4 DEF Recovered, TypeOK
  <2>2. AttemptsInOrder'
    BY <1>8 DEF Recovered, Replayable, Replay, Conclude, AttemptsInOrder,
       TypeOK
  <2>3. OneRequestEach'
    BY <1>8 DEF Recovered, SameOwner, Replayable, Replay, Conclude,
       OneRequestEach, Attempts, NoRequest, Discovering, AttemptsInOrder,
       Calling, TypeOK, Requests
  <2>4. UsedNoLater'
    BY <1>8 DEF Recovered, Replay, UsedNoLater, TypeOK, Requests
  <2>5. RunsAreCounted'
    BY <1>8 DEF Recovered, RunsAreCounted, Ran
  <2> QED BY <2>1, <2>2, <2>3, <2>4, <2>5
<1>9. ASSUME NEW c \in Calls, RecoveryFails(c) PROVE ProxyInv'
  <2>1. TypeOK'
    BY <1>9 DEF RecoveryFails, Conclude, TypeOK
  <2>2. AttemptsInOrder'
    BY <1>9 DEF RecoveryFails, Conclude, AttemptsInOrder
  <2>3. OneRequestEach'
    BY <1>9 DEF RecoveryFails, Conclude, OneRequestEach, Discovering
  <2>4. UsedNoLater'
    BY <1>9 DEF RecoveryFails, UsedNoLater
  <2>5. RunsAreCounted'
    BY <1>9 DEF RecoveryFails, RunsAreCounted, Ran
  <2> QED BY <2>1, <2>2, <2>3, <2>4, <2>5
<1>10. ASSUME NEW c \in Calls, Cancelled(c) PROVE ProxyInv'
  <2>1. TypeOK'
    BY <1>10 DEF Cancelled, Conclude, TypeOK
  <2>2. AttemptsInOrder'
    BY <1>10 DEF Cancelled, Conclude, AttemptsInOrder
  <2>3. OneRequestEach'
    BY <1>10 DEF Cancelled, Conclude, OneRequestEach, Discovering
  <2>4. UsedNoLater'
    BY <1>10 DEF Cancelled, UsedNoLater
  <2>5. RunsAreCounted'
    BY <1>10 DEF Cancelled, RunsAreCounted, Ran
  <2> QED BY <2>1, <2>2, <2>3, <2>4, <2>5
<1>11. ASSUME NEW c \in Calls, NEW k \in Attempts, Execute(c, k)
     PROVE  ProxyInv'
  <2>1. TypeOK'
    BY <1>11 DEF Execute, Serves, TypeOK, Attempts, Requests, NoRequest,
       AttemptsInOrder, Discovering, Calling
  <2>2. AttemptsInOrder'
    BY <1>11 DEF Execute, AttemptsInOrder
  <2>3. OneRequestEach'
    BY <1>11 DEF Execute, OneRequestEach, NoRequest, Discovering
  <2>4. UsedNoLater'
    BY <1>11 DEF Execute, UsedNoLater
  <2>5. RunsAreCounted'
    BY <1>11 DEF Execute, RunsAreCounted, Ran, Attempts, TypeOK
  <2> QED BY <2>1, <2>2, <2>3, <2>4, <2>5
<1>12. ASSUME NEW c \in Calls, NEW k \in Attempts, Respond(c, k)
     PROVE  ProxyInv'
  <2>1. TypeOK'
    BY <1>12 DEF Respond, Serves, TypeOK, Attempts, Requests, NoRequest,
       AttemptsInOrder
  <2>2. AttemptsInOrder'
    BY <1>12 DEF Respond, AttemptsInOrder
  <2>3. OneRequestEach'
    BY <1>12 DEF Respond, OneRequestEach, NoRequest, Discovering
  <2>4. UsedNoLater'
    BY <1>12 DEF Respond, UsedNoLater
  <2>5. RunsAreCounted'
    BY <1>12 DEF Respond, RunsAreCounted, Ran
  <2> QED BY <2>1, <2>2, <2>3, <2>4, <2>5
<1>13. CASE OwnerHangs
  <2>1. TypeOK'
    BY <1>13 DEF OwnerHangs, Brokers!Hang, proxy, TypeOK
  <2>2. AttemptsInOrder'
    BY <1>13 DEF OwnerHangs, Brokers!Hang, proxy, AttemptsInOrder
  <2>3. OneRequestEach'
    BY <1>13 DEF OwnerHangs, Brokers!Hang, proxy, OneRequestEach, Discovering
  <2>4. UsedNoLater'
    BY <1>13 DEF OwnerHangs, Brokers!Hang, proxy, UsedNoLater
  <2>5. RunsAreCounted'
    BY <1>13 DEF OwnerHangs, Brokers!Hang, proxy, RunsAreCounted, Ran
  <2> QED BY <2>1, <2>2, <2>3, <2>4, <2>5
<1>14. CASE OwnerDies
  <2>1. TypeOK'
    BY <1>14 DEF OwnerDies, Brokers!Die, proxy, TypeOK
  <2>2. AttemptsInOrder'
    BY <1>14 DEF OwnerDies, Brokers!Die, proxy, AttemptsInOrder
  <2>3. OneRequestEach'
    BY <1>14 DEF OwnerDies, Brokers!Die, proxy, OneRequestEach, Discovering
  <2>4. UsedNoLater'
    BY <1>14 DEF OwnerDies, Brokers!Die, proxy, UsedNoLater
  <2>5. RunsAreCounted'
    BY <1>14 DEF OwnerDies, Brokers!Die, proxy, RunsAreCounted, Ran
  <2> QED BY <2>1, <2>2, <2>3, <2>4, <2>5
<1>15. CASE Replace
  <2>1. TypeOK'
    BY <1>15 DEF Replace, Brokers!Replace, proxy, TypeOK
  <2>2. AttemptsInOrder'
    BY <1>15 DEF Replace, Brokers!Replace, proxy, AttemptsInOrder
  <2>3. OneRequestEach'
    BY <1>15 DEF Replace, Brokers!Replace, proxy, OneRequestEach, Discovering
  <2>4. UsedNoLater'
    BY <1>15 DEF Replace, Brokers!Replace, proxy, UsedNoLater, TypeOK, Requests
  <2>5. RunsAreCounted'
    BY <1>15 DEF Replace, Brokers!Replace, proxy, RunsAreCounted, Ran
  <2> QED BY <2>1, <2>2, <2>3, <2>4, <2>5
<1>16. CASE OwnerServes
  <2>1. TypeOK'
    BY <1>16 DEF OwnerServes, Brokers!Serve, proxy, TypeOK
  <2>2. AttemptsInOrder'
    BY <1>16 DEF OwnerServes, Brokers!Serve, proxy, AttemptsInOrder
  <2>3. OneRequestEach'
    BY <1>16 DEF OwnerServes, Brokers!Serve, proxy, OneRequestEach, Discovering
  <2>4. UsedNoLater'
    BY <1>16 DEF OwnerServes, Brokers!Serve, proxy, UsedNoLater
  <2>5. RunsAreCounted'
    BY <1>16 DEF OwnerServes, Brokers!Serve, proxy, RunsAreCounted, Ran
  <2> QED BY <2>1, <2>2, <2>3, <2>4, <2>5
<1>17. CASE UNCHANGED vars
  BY <1>17 DEF vars, TypeOK, AttemptsInOrder, OneRequestEach, UsedNoLater,
     RunsAreCounted, Ran, Discovering
<1> QED BY <1>1, <1>2, <1>3, <1>4, <1>5, <1>6, <1>7, <1>8, <1>9, <1>10, <1>11,
       <1>12, <1>13, <1>14, <1>15, <1>16, <1>17 DEF Next, ProxyStep

(* The calls change nothing of the brokers: what is proved here holds over any *)
(* brokers that behave as BrokerOwnership says, those of BrokerElection among  *)
(* them.                                                                       *)
THEOREM BrokersAreOwners == Spec => Brokers!Spec
<1>1. Init => Brokers!Init
  BY DEF Init
<1>2. [Next]_vars => [Brokers!Next]_<<owner, health>>
  <2> SUFFICES ASSUME [Next]_vars PROVE [Brokers!Next]_<<owner, health>>
    OBVIOUS
  <2>1. CASE OwnerServes \/ OwnerHangs \/ OwnerDies \/ Replace
    BY <2>1 DEF OwnerServes, OwnerHangs, OwnerDies, Replace, Brokers!Next
  <2>2. CASE ~(OwnerServes \/ OwnerHangs \/ OwnerDies \/ Replace)
    BY <2>2 DEF Next, ProxyStep, Begin, Lists, Discover, Send, Answered, Fails,
       OwnerLost, Recovered, RecoveryFails, Cancelled, Execute, Respond, vars, broker
  <2> QED BY <2>1, <2>2
<1> QED BY <1>1, <1>2, PTL DEF Spec, Brokers!Spec

(* The invariant of the calls under recovery. *)
THEOREM CallsAreRecoveredOnce == Spec => []ProxyInv
  BY InvInit, InvStep, PTL DEF Spec

(* ProxyRecovery's variables keep their types. *)
THEOREM ProxyTypeCorrect == Spec => []TypeOK
<1>1. ProxyInv => TypeOK
  BY DEF ProxyInv
<1> QED BY <1>1, CallsAreRecoveredOnce, PTL

(* However brokers hang, die and replace each other, a tool that changes       *)
(* anything runs at most once for a call of call_tool.                         *)
THEOREM MutatingRunsOnce == Spec => []RunsAtMostOnce
<1>1. ProxyInv => RunsAtMostOnce
  <2> SUFFICES ASSUME ProxyInv, NEW c \in Calls
               PROVE  runs[c] <= IF c \in Mutating THEN 1 ELSE 2
    BY DEF RunsAtMostOnce
  <2>1. runs[c] = Ran(c, 1) + Ran(c, 2)
    BY DEF ProxyInv, RunsAreCounted
  <2>2. c \in Mutating => Ran(c, 2) = 0
    BY DEF ProxyInv, TypeOK, AttemptsInOrder, OneRequestEach, Attempts,
       NoRequest, Ran
  <2> QED BY <2>1, <2>2 DEF Ran
<1> QED BY <1>1, CallsAreRecoveredOnce, PTL

(* A mutating call whose broker is gone when it is concluded is not reported   *)
(* as a plain error.                                                           *)
THEOREM LossesAreReported == Spec => LossIsReported
<1>1. ASSUME ProxyInv, [Next]_vars
      PROVE  [\A c \in Mutating : result[c] = "none" /\ result'[c] = "error" =>
                request[c][1].at \in {0, owner}]_vars
  <2> SUFFICES ASSUME Next, NEW c \in Mutating,
                      result[c] = "none", result'[c] = "error"
               PROVE  request[c][1].at \in {0, owner}
    BY <1>1
  <2> c \in Calls
    BY MutatingAreCalls
  <2>1. /\ attempt[c] # 2
        /\ result \in [Calls -> {"none", "ok", "error", "unknown", "cancelled"}]
    BY <1>1 DEF ProxyInv, TypeOK, AttemptsInOrder
  <2>2. pc[c] = "failed" /\ SameOwner(c)
    BY <2>1 DEF Next, ProxyStep, Begin, Lists, Discover, Send, Answered, Fails,
       OwnerLost, Recovered, RecoveryFails, Cancelled, Execute, Respond,
       OwnerServes, OwnerHangs, OwnerDies, Replace, proxy, Conclude, LastAttempt, Replay
  <2>3. attempt[c] = 1
    BY <1>1, <2>2 DEF ProxyInv, AttemptsInOrder
  <2>4. request[c][1].at # 0 => used[c] <= request[c][1].at
    BY <1>1, <2>3 DEF ProxyInv, UsedNoLater, Attempts
  <2>5. request[c][1].at <= owner /\ request[c][1].at \in Nat /\ owner \in Nat
    BY <1>1 DEF ProxyInv, TypeOK, UsedNoLater, Attempts, Requests
  <2> QED BY <2>2, <2>4, <2>5 DEF SameOwner
<1> QED BY <1>1, CallsAreRecoveredOnce, PTL DEF Spec, LossIsReported
==============================================================================
