------------------------- MODULE BrowserSessionProofs -------------------------
(* Proofs about BrowserSession: its invariant is inductive, so requests go to  *)
(* the tab that is connected, one reconciliation loop works for it, and the    *)
(* session implements RuntimeContract.                                         *)
EXTENDS BrowserSessionInv, TLAPS

LEMMA SessionInit == Init => SessionInv
  BY FaultsBounded, ResetsBounded DEF Init, Fresh, NoCall, SessionInv, TypeOK,
     BridgeInv, SupervisorInv, LoopInv, CallInv, ToldInv, Starting

LEMMA SessionStep == SessionInv /\ [Next]_vars => SessionInv'
<1> SUFFICES ASSUME SessionInv, [Next]_vars PROVE SessionInv'
  OBVIOUS
<1> USE DEF SessionInv, bridge, page, supervisor, runtime, listener
<1>1. CASE Connect
  <2>1. TypeOK'
    BY <1>1 DEF Connect, TypeOK
  <2>2. BridgeInv'
    BY <1>1 DEF Connect, BridgeInv, TypeOK
  <2>3. SupervisorInv'
    BY <1>1 DEF Connect, SupervisorInv, Starting
  <2>4. LoopInv'
    BY <1>1 DEF Connect, LoopInv, Starting
  <2>5. CallInv'
    BY <1>1 DEF Connect, Accepts, CallInv, Starting, TypeOK
  <2>6. ToldInv'
    BY <1>1 DEF Connect, ToldInv
  <2> QED BY <2>1, <2>2, <2>3, <2>4, <2>5, <2>6
<1>2. CASE SocketDrops
  <2>1. TypeOK'
    BY <1>2 DEF SocketDrops, Fault, TypeOK
  <2>2. BridgeInv'
    BY <1>2 DEF SocketDrops, BridgeInv
  <2>3. SupervisorInv'
    BY <1>2 DEF SocketDrops, SupervisorInv, Starting
  <2>4. LoopInv'
    BY <1>2 DEF SocketDrops, LoopInv, Starting
  <2>5. CallInv'
    BY <1>2 DEF SocketDrops, CallInv, Starting
  <2>6. ToldInv'
    BY <1>2 DEF SocketDrops, ToldInv
  <2> QED BY <2>1, <2>2, <2>3, <2>4, <2>5, <2>6
<1>3. CASE StreamsClose
  <2>1. TypeOK'
    BY <1>3 DEF StreamsClose, TypeOK
  <2>2. BridgeInv'
    BY <1>3 DEF StreamsClose, BridgeInv
  <2>3. SupervisorInv'
    BY <1>3 DEF StreamsClose, SupervisorInv, Starting
  <2>4. LoopInv'
    BY <1>3 DEF StreamsClose, LoopInv, Starting
  <2>5. CallInv'
    BY <1>3 DEF StreamsClose, CallInv, Starting
  <2>6. ToldInv'
    BY <1>3 DEF StreamsClose, ToldInv
  <2> QED BY <2>1, <2>2, <2>3, <2>4, <2>5, <2>6
<1>4. CASE HandlerEnds
  <2>1. TypeOK'
    BY <1>4 DEF HandlerEnds, TypeOK
  <2>2. BridgeInv'
    BY <1>4 DEF HandlerEnds, BridgeInv
  <2>3. SupervisorInv'
    BY <1>4 DEF HandlerEnds, SupervisorInv, Starting
  <2>4. LoopInv'
    BY <1>4 DEF HandlerEnds, LoopInv, Starting
  <2>5. CallInv'
    BY <1>4 DEF HandlerEnds, Reading, Pending, CallInv, Starting
  <2>6. ToldInv'
    BY <1>4 DEF HandlerEnds, ToldInv
  <2> QED BY <2>1, <2>2, <2>3, <2>4, <2>5, <2>6
<1>5. CASE Announce
  <2>1. TypeOK'
    BY <1>5 DEF Announce, Move, TypeOK
  <2>2. BridgeInv'
    BY <1>5 DEF Announce, BridgeInv, TypeOK
  <2>3. SupervisorInv'
    BY <1>5 DEF Announce, Move, SupervisorInv, BridgeInv
  <2>4. LoopInv'
    BY <1>5 DEF Announce, Move, LoopInv
  <2>5. CallInv'
    BY <1>5 DEF Announce, Newer, CallInv
  <2>6. ToldInv'
    BY <1>5 DEF Announce, ToldInv
  <2> QED BY <2>1, <2>2, <2>3, <2>4, <2>5, <2>6
<1>6. CASE PageAnswers
  <2>1. TypeOK'
    BY <1>6 DEF PageAnswers, Move, TypeOK
  <2>2. BridgeInv'
    BY <1>6 DEF PageAnswers, BridgeInv
  <2>3. SupervisorInv'
    BY <1>6 DEF PageAnswers, Move, SupervisorInv, BridgeInv
  <2>4. LoopInv'
    BY <1>6 DEF PageAnswers, Move, LoopInv, Starting
  <2>5. CallInv'
    BY <1>6 DEF PageAnswers, Move, CallInv, Starting
  <2>6. ToldInv'
    BY <1>6 DEF PageAnswers, Move, ToldInv
  <2> QED BY <2>1, <2>2, <2>3, <2>4, <2>5, <2>6
<1>7. CASE PageFails
  <2>1. TypeOK'
    BY <1>7 DEF PageFails, StartFails, Fault, TypeOK
  <2>2. BridgeInv'
    BY <1>7 DEF PageFails, StartFails, BridgeInv
  <2>3. SupervisorInv'
    BY <1>7 DEF PageFails, StartFails, SupervisorInv, BridgeInv
  <2>4. LoopInv'
    BY <1>7 DEF PageFails, StartFails, LoopInv, Starting
  <2>5. CallInv'
    BY <1>7 DEF PageFails, StartFails, CallInv, Starting
  <2>6. ToldInv'
    BY <1>7 DEF PageFails, StartFails, ToldInv
  <2> QED BY <2>1, <2>2, <2>3, <2>4, <2>5, <2>6
<1>8. CASE PageGone
  <2>1. TypeOK'
    BY <1>8 DEF PageGone, StartFails, TypeOK
  <2>2. BridgeInv'
    BY <1>8 DEF PageGone, StartFails, BridgeInv
  <2>3. SupervisorInv'
    BY <1>8 DEF PageGone, StartFails, SupervisorInv, Starting
  <2>4. LoopInv'
    BY <1>8 DEF PageGone, StartFails, LoopInv, Starting
  <2>5. CallInv'
    BY <1>8 DEF PageGone, StartFails, CallInv, Starting
  <2>6. ToldInv'
    BY <1>8 DEF PageGone, StartFails, ToldInv
  <2> QED BY <2>1, <2>2, <2>3, <2>4, <2>5, <2>6
<1>9. CASE Aborts
  <2>1. TypeOK'
    BY <1>9 DEF Aborts, Move, CloseSocket, TypeOK
  <2>2. BridgeInv'
    BY <1>9 DEF Aborts, CloseSocket, BridgeInv
  <2>3. SupervisorInv'
    BY <1>9 DEF Aborts, Move, SupervisorInv, Starting
  <2>4. LoopInv'
    BY <1>9 DEF Aborts, Move, LoopInv
  <2>5. CallInv'
    BY <1>9 DEF Aborts, Move, CallInv, Starting
  <2>6. ToldInv'
    BY <1>9 DEF Aborts, Move, ToldInv
  <2> QED BY <2>1, <2>2, <2>3, <2>4, <2>5, <2>6
<1>10. CASE Ready
  <2>1. TypeOK'
    BY <1>10 DEF Ready, Move, TypeOK
  <2>2. BridgeInv'
    BY <1>10 DEF Ready, BridgeInv
  <2>3. SupervisorInv'
    BY <1>10 DEF Ready, Move, SupervisorInv, Starting
  <2>4. LoopInv'
    BY <1>10 DEF Ready, Move, LoopInv, SupervisorInv, Starting
  <2>5. CallInv'
    BY <1>10 DEF Ready, Move, CallInv, Starting
  <2>6. ToldInv'
    BY <1>10 DEF Ready, Move, ToldInv, SupervisorInv, LoopInv, Starting
  <2> QED BY <2>1, <2>2, <2>3, <2>4, <2>5, <2>6
<1>11. CASE NotReady
  <2>1. TypeOK'
    BY <1>11 DEF NotReady, Move, TypeOK
  <2>2. BridgeInv'
    BY <1>11 DEF NotReady, BridgeInv
  <2>3. SupervisorInv'
    BY <1>11 DEF NotReady, Move, SupervisorInv, Starting
  <2>4. LoopInv'
    BY <1>11 DEF NotReady, Move, LoopInv, Starting
  <2>5. CallInv'
    BY <1>11 DEF NotReady, Move, CallInv, Starting
  <2>6. ToldInv'
    BY <1>11 DEF NotReady, Move, ToldInv
  <2> QED BY <2>1, <2>2, <2>3, <2>4, <2>5, <2>6
<1>12. CASE Lost
  <2>1. TypeOK'
    BY <1>12 DEF Lost, Move, Clear, TypeOK
  <2>2. BridgeInv'
    BY <1>12 DEF Lost, BridgeInv
  <2>3. SupervisorInv'
    BY <1>12 DEF Lost, Move, Clear, SupervisorInv
  <2>4. LoopInv'
    BY <1>12 DEF Lost, Move, LoopInv, Starting
  <2>5. CallInv'
    BY <1>12 DEF Lost, Move, CallInv, Starting
  <2>6. ToldInv'
    BY <1>12 DEF Lost, Move, ToldInv
  <2> QED BY <2>1, <2>2, <2>3, <2>4, <2>5, <2>6
<1>13. CASE Left
  <2>1. TypeOK'
    BY <1>13 DEF Left, Move, CloseSocket, TypeOK
  <2>2. BridgeInv'
    BY <1>13 DEF Left, CloseSocket, BridgeInv
  <2>3. SupervisorInv'
    BY <1>13 DEF Left, Move, SupervisorInv, Starting
  <2>4. LoopInv'
    BY <1>13 DEF Left, Move, LoopInv, Starting
  <2>5. CallInv'
    BY <1>13 DEF Left, Move, CallInv, Starting
  <2>6. ToldInv'
    BY <1>13 DEF Left, Move, ToldInv
  <2> QED BY <2>1, <2>2, <2>3, <2>4, <2>5, <2>6
<1>14. CASE Drained
  <2>1. TypeOK'
    BY <1>14 DEF Drained, Move, TypeOK
  <2>2. BridgeInv'
    BY <1>14 DEF Drained, BridgeInv
  <2>3. SupervisorInv'
    BY <1>14 DEF Drained, Move, SupervisorInv, Starting
  <2>4. LoopInv'
    BY <1>14 DEF Drained, Move, LoopInv, Starting
  <2>5. CallInv'
    BY <1>14 DEF Drained, Move, CallInv, Starting
  <2>6. ToldInv'
    BY <1>14 DEF Drained, ToldInv
  <2> QED BY <2>1, <2>2, <2>3, <2>4, <2>5, <2>6
<1>15. CASE Reported
  <2>1. TypeOK'
    BY <1>15 DEF Reported, TypeOK
  <2>2. BridgeInv'
    BY <1>15 DEF Reported, BridgeInv
  <2>3. SupervisorInv'
    BY <1>15 DEF Reported, SupervisorInv, Starting
  <2>4. LoopInv'
    BY <1>15 DEF Reported, LoopIsOver, Running, LoopInv
  <2>5. CallInv'
    BY <1>15 DEF Reported, CallInv, Starting
  <2>6. ToldInv'
    BY <1>15 DEF Reported, ToldInv
  <2> QED BY <2>1, <2>2, <2>3, <2>4, <2>5, <2>6
<1>16. ASSUME NEW l \in loops, LoopEnds(l) PROVE SessionInv'
  <2>1. TypeOK'
    BY <1>16 DEF LoopEnds, TypeOK
  <2>2. BridgeInv'
    BY <1>16 DEF LoopEnds, BridgeInv
  <2>3. SupervisorInv'
    BY <1>16 DEF LoopEnds, SupervisorInv, Starting
  <2>4. LoopInv'
    BY <1>16 DEF LoopEnds, LoopInv, SupervisorInv
  <2>5. CallInv'
    BY <1>16 DEF LoopEnds, CallInv, Starting
  <2>6. ToldInv'
    BY <1>16 DEF LoopEnds, ToldInv
  <2> QED BY <2>1, <2>2, <2>3, <2>4, <2>5, <2>6
<1>17. CASE ResetBegins
  <2>1. TypeOK'
    <3>1. /\ told' = [kind |-> "reset", conn |-> conn]
          /\ UNCHANGED <<epoch, issued, gen, made, saved, active, socket, conn,
                         seen, call, faults>>
      BY <1>17 DEF ResetBegins
    <3>2. told' \in [kind : {"none", "browser_connected", "runtime_ready",
                             "browser_disconnected", "reset"}, conn : Nat]
      BY <3>1 DEF TypeOK
    <3>3. /\ pc' \in {pc, "leaving", "none"}
          /\ reset' \in {"announcing", "cancelling"}
          /\ client' \in {client, 0} /\ rgen' \in {rgen, 0}
          /\ task' \in {task, 0} /\ loops' \subseteq loops
      BY <1>17 DEF ResetBegins, CancelSupervisor, EndLoop, Clear
    <3>4. cancelled' \in BOOLEAN
      BY <1>17 DEF ResetBegins, CancelSupervisor, TypeOK
    <3> QED BY <3>1, <3>2, <3>3, <3>4 DEF TypeOK
  <2>2. BridgeInv'
    BY <1>17 DEF ResetBegins, BridgeInv
  <2>3. SupervisorInv'
    BY <1>17 DEF ResetBegins, CancelSupervisor, Clear, SupervisorInv, Starting
  <2>4. LoopInv'
    BY <1>17 DEF ResetBegins, CancelSupervisor, EndLoop, Running, LoopInv,
       Starting
  <2>5. CallInv'
    BY <1>17 DEF ResetBegins, CancelSupervisor, CallInv, Starting
  <2>6. ToldInv'
    BY <1>17 DEF ResetBegins, ToldInv
  <2> QED BY <2>1, <2>2, <2>3, <2>4, <2>5, <2>6
<1>18. CASE ResetCancels
  <2>1. TypeOK'
    BY <1>18 DEF ResetCancels, CancelSupervisor, EndLoop, Clear, TypeOK
  <2>2. BridgeInv'
    BY <1>18 DEF ResetCancels, BridgeInv
  <2>3. SupervisorInv'
    BY <1>18 DEF ResetCancels, CancelSupervisor, Clear, SupervisorInv, Starting
  <2>4. LoopInv'
    BY <1>18 DEF ResetCancels, CancelSupervisor, EndLoop, LoopInv
  <2>5. CallInv'
    BY <1>18 DEF ResetCancels, CancelSupervisor, CallInv, Starting
  <2>6. ToldInv'
    BY <1>18 DEF ResetCancels, ToldInv
  <2> QED BY <2>1, <2>2, <2>3, <2>4, <2>5, <2>6
<1>19. CASE ResetCloses
  <2>1. TypeOK'
    BY <1>19 DEF ResetCloses, Clear, CloseSocket, TypeOK
  <2>2. BridgeInv'
    BY <1>19 DEF ResetCloses, CloseSocket, BridgeInv
  <2>3. SupervisorInv'
    BY <1>19 DEF ResetCloses, Clear, SupervisorInv, Starting
  <2>4. LoopInv'
    BY <1>19 DEF ResetCloses, LoopInv, SupervisorInv
  <2>5. CallInv'
    BY <1>19 DEF ResetCloses, CallInv, Starting
  <2>6. ToldInv'
    BY <1>19 DEF ResetCloses, ToldInv
  <2> QED BY <2>1, <2>2, <2>3, <2>4, <2>5, <2>6
<1>20. CASE ServerCloses
  <2>1. TypeOK'
    BY <1>20 DEF ServerCloses, CloseSocket, TypeOK
  <2>2. BridgeInv'
    BY <1>20 DEF ServerCloses, CloseSocket, BridgeInv
  <2>3. SupervisorInv'
    BY <1>20 DEF ServerCloses, SupervisorInv, Starting
  <2>4. LoopInv'
    BY <1>20 DEF ServerCloses, LoopInv, SupervisorInv
  <2>5. CallInv'
    BY <1>20 DEF ServerCloses, CallInv, Starting
  <2>6. ToldInv'
    BY <1>20 DEF ServerCloses, ToldInv
  <2> QED BY <2>1, <2>2, <2>3, <2>4, <2>5, <2>6
<1>21. CASE ResetStarts
  <2>1. TypeOK'
    <3>1. epoch' \in Nat /\ issued' \in Nat
      BY <1>21 DEF ResetStarts, NewIdentity, TypeOK
    <3>2. UNCHANGED <<call, told, loops, task, socket, active, made, saved, client,
                      rgen, faults>>
      BY <1>21 DEF ResetStarts
    <3>3. /\ gen' = 0 /\ pc' = "waiting" /\ conn' = 0 /\ seen' = 0
          /\ cancelled' = FALSE /\ reset' = "idle"
      BY <1>21 DEF ResetStarts
    <3> QED BY <3>1, <3>2, <3>3 DEF TypeOK
  <2>2. BridgeInv'
    BY <1>21 DEF ResetStarts, NewIdentity, BridgeInv, TypeOK
  <2>3. SupervisorInv'
    BY <1>21 DEF ResetStarts, SupervisorInv, Starting
  <2>4. LoopInv'
    BY <1>21 DEF ResetStarts, LoopInv, SupervisorInv
  <2>5. CallInv'
    BY <1>21 DEF ResetStarts, NewIdentity, CallInv, Starting, TypeOK
  <2>6. ToldInv'
    BY <1>21 DEF ResetStarts, ToldInv, SupervisorInv
  <2> QED BY <2>1, <2>2, <2>3, <2>4, <2>5, <2>6
<1>22. CASE Persist
  <2>1. TypeOK'
    BY <1>22 DEF Persist, TypeOK
  <2>2. BridgeInv'
    BY <1>22 DEF Persist, BridgeInv
  <2>3. SupervisorInv'
    BY <1>22 DEF Persist, SupervisorInv, Starting
  <2>4. LoopInv'
    BY <1>22 DEF Persist, LoopInv, Starting
  <2>5. CallInv'
    BY <1>22 DEF Persist, CallInv, Starting
  <2>6. ToldInv'
    BY <1>22 DEF Persist, ToldInv
  <2> QED BY <2>1, <2>2, <2>3, <2>4, <2>5, <2>6
<1>23. CASE BrokerRestarts
  <2>1. TypeOK'
    BY <1>23 DEF BrokerRestarts, Fresh, Fault, TypeOK
  <2>2. BridgeInv'
    BY <1>23 DEF BrokerRestarts, Fresh, BridgeInv, TypeOK
  <2>3. SupervisorInv'
    BY <1>23 DEF BrokerRestarts, Fresh, SupervisorInv, Starting
  <2>4. LoopInv'
    BY <1>23 DEF BrokerRestarts, Fresh, LoopInv
  <2>5. CallInv'
    BY <1>23 DEF BrokerRestarts, Fresh, CallInv, Starting
  <2>6. ToldInv'
    BY <1>23 DEF BrokerRestarts, Fresh, ToldInv
  <2> QED BY <2>1, <2>2, <2>3, <2>4, <2>5, <2>6
<1>24. ASSUME NEW k \in Calls, Ask(k) PROVE SessionInv'
  <2>1. TypeOK'
    BY <1>24 DEF Ask, TypeOK
  <2>2. BridgeInv'
    BY <1>24 DEF Ask, BridgeInv
  <2>3. SupervisorInv'
    BY <1>24 DEF Ask, IsConnected, SupervisorInv
  <2>4. LoopInv'
    BY <1>24 DEF Ask, LoopInv, Starting
  <2>5. CallInv'
    BY <1>24 DEF Ask, IsConnected, CallInv, BridgeInv, SupervisorInv, Starting,
       TypeOK
  <2>6. ToldInv'
    BY <1>24 DEF Ask, ToldInv
  <2> QED BY <2>1, <2>2, <2>3, <2>4, <2>5, <2>6
<1>25. ASSUME NEW k \in Calls, Answer(k) PROVE SessionInv'
  <2>1. TypeOK'
    BY <1>25 DEF Answer, TypeOK
  <2>2. BridgeInv'
    BY <1>25 DEF Answer, BridgeInv
  <2>3. SupervisorInv'
    BY <1>25 DEF Answer, SupervisorInv, BridgeInv
  <2>4. LoopInv'
    BY <1>25 DEF Answer, LoopInv, Starting
  <2>5. CallInv'
    BY <1>25 DEF Answer, CallInv, Starting
  <2>6. ToldInv'
    BY <1>25 DEF Answer, ToldInv
  <2> QED BY <2>1, <2>2, <2>3, <2>4, <2>5, <2>6
<1>26. ASSUME NEW k \in Calls, Raises(k) PROVE SessionInv'
  <2> DEFINE a == LossOrError
  <2>0. a \in {"failed", "lost"}
    BY DEF LossOrError
  <2>1. TypeOK'
    <3> HIDE DEF a
    <3>1. call' = [call EXCEPT ![k].phase = a]
      BY <1>26 DEF Raises, a
    <3>2. call' \in [Calls -> [phase : {"idle", "pending", "answered", "failed",
                                      "lost", "dead"}, conn : Nat, epoch : Nat]]
      BY <2>0, <3>1 DEF TypeOK
    <3> QED BY <1>26, <3>2 DEF Raises, TypeOK
  <2>2. BridgeInv'
    BY <1>26 DEF Raises, BridgeInv
  <2>3. SupervisorInv'
    BY <1>26 DEF Raises, SupervisorInv, Starting
  <2>4. LoopInv'
    BY <1>26 DEF Raises, LoopInv, Starting
  <2>5. CallInv'
    BY <1>26 DEF Raises, CallInv, Starting
  <2>6. ToldInv'
    BY <1>26 DEF Raises, ToldInv
  <2> QED BY <2>1, <2>2, <2>3, <2>4, <2>5, <2>6
<1>27. CASE UNCHANGED vars
  BY <1>27 DEF vars, TypeOK, BridgeInv, SupervisorInv, LoopInv, CallInv,
     ToldInv, Starting
<1> QED BY <1>1, <1>2, <1>3, <1>4, <1>5, <1>6, <1>7, <1>8, <1>9, <1>10, <1>11,
       <1>12, <1>13, <1>14, <1>15, <1>16, <1>17, <1>18, <1>19, <1>20, <1>21,
       <1>22, <1>23, <1>24, <1>25, <1>26, <1>27 DEF Next

(* The invariant of the browser session. *)
THEOREM SessionInvariant == Spec => []SessionInv
  BY SessionInit, SessionStep, PTL DEF Spec

(* The variables of BrowserSession keep their types. *)
THEOREM SessionTypeCorrect == Spec => []TypeOK
<1>1. SessionInv => TypeOK
  BY DEF SessionInv
<1> QED BY <1>1, SessionInvariant, PTL

(* Whenever is_connected says so, requests go to the tab that is connected.    *)
THEOREM RequestsGoToTheTab == Spec => []ClientIsCurrent
<1>1. SessionInv => ClientIsCurrent
  BY DEF SessionInv, BridgeInv, SupervisorInv, ClientIsCurrent, IsConnected
<1> QED BY <1>1, SessionInvariant, PTL

(* No reconciliation loop outlives the client it was started for and works     *)
(* along with the loop of another.                                             *)
THEOREM LoopsDoNotOverlap == Spec => []OneLoop
<1>1. SessionInv => OneLoop
  BY DEF SessionInv, SupervisorInv, LoopInv, OneLoop
<1> QED BY <1>1, SessionInvariant, PTL

(* A request whose tab went away, under the identity it was asked under, is    *)
(* not reported as an ordinary error.                                          *)
THEOREM LossesAreTyped == Spec => LossIsTyped
<1> DEFINE A == \A k \in Calls :
                  call[k].phase = "pending" /\ call'[k].phase = "failed"
                  => call[k].conn = active \/ call[k].epoch # epoch
<1>1. SessionInv /\ [Next]_vars => [A]_vars
  <2> SUFFICES ASSUME SessionInv, Next, NEW k \in Calls,
                      call[k].phase = "pending", call'[k].phase = "failed"
               PROVE  call[k].conn = active \/ call[k].epoch # epoch
    OBVIOUS
  <2> USE DEF SessionInv, TypeOK, CallInv
  <2>1. CASE \E j \in Calls : Raises(j)
    <3> PICK j \in Calls : Raises(j)
      BY <2>1
    <3>1. j = k
      BY DEF Raises
    <3>2. LossOrError = "failed"
      BY <3>1 DEF Raises
    <3>3. ~cancelled
      BY <3>2 DEF LossOrError, IsConnected, SupervisorInv
    <3> QED BY <3>3
  <2>2. CASE \E j \in Calls : Ask(j) \/ Answer(j)
    BY <2>2 DEF Ask, Answer
  <2>3. CASE HandlerEnds \/ BrokerRestarts
    BY <2>3 DEF HandlerEnds, BrokerRestarts
  <2>4. CASE Connect \/ SocketDrops \/ StreamsClose \/ Announce \/ PageAnswers
    BY <2>4 DEF Connect, SocketDrops, StreamsClose, Announce, PageAnswers
  <2>5. CASE PageFails \/ PageGone \/ Aborts \/ Ready \/ NotReady \/ Lost
    BY <2>5 DEF PageFails, PageGone, StartFails, Aborts, Ready, NotReady, Lost
  <2>6. CASE Left \/ Drained \/ Reported \/ (\E l \in loops : LoopEnds(l))
    BY <2>6 DEF Left, Drained, Reported, LoopEnds
  <2>7. CASE ResetBegins \/ ResetCancels \/ ResetCloses \/ ServerCloses
    BY <2>7 DEF ResetBegins, ResetCancels, ResetCloses, ServerCloses
  <2>8. CASE ResetStarts \/ Persist
    BY <2>8 DEF ResetStarts, Persist
  <2> QED BY <2>1, <2>2, <2>3, <2>4, <2>5, <2>6, <2>7, <2>8 DEF Next
<1>2. [][SessionInv /\ [Next]_vars => [A]_vars]_vars
  BY <1>1, PTL
<1> QED BY <1>1, SessionInvariant, PTL DEF Spec, LossIsTyped

------------------------------------------------------------------------------
(* The session implements RuntimeContract. *)

Runtime == IF IsConnected THEN client ELSE 0

LEMMA ContractInit == Init => Contract!Init
  BY DEF Init, Fresh, NoCall, IsConnected, Heard, Contract!Init

(* The steps that change nothing the contract speaks of. *)
LEMMA Unseen ==
  ASSUME UNCHANGED call, Runtime' = Runtime, Heard' = Heard
  PROVE  UNCHANGED Contract!vars
  BY DEF Contract!vars, Runtime

LEMMA ContractStep == SessionInv /\ [Next]_vars => [Contract!Next]_(Contract!vars)
<1> SUFFICES ASSUME SessionInv, [Next]_vars
             PROVE  Contract!Next \/ UNCHANGED Contract!vars
  OBVIOUS
<1> USE DEF SessionInv, bridge, page, supervisor, runtime, listener
<1>0. Runtime # 0 => /\ Runtime = client /\ client = conn /\ conn = active
                     /\ pc = "watching" /\ active # 0 /\ seen = gen
  BY DEF Runtime, IsConnected, SupervisorInv, BridgeInv
<1>1. CASE Connect
  <2>1. Runtime' = 0 /\ Runtime = 0
    BY <1>1 DEF Connect, Accepts, Runtime, IsConnected, SupervisorInv, BridgeInv,
       TypeOK
  <2> QED BY <1>1, <2>1, Unseen DEF Connect, Heard
<1>2. CASE HandlerEnds
  <2> DEFINE U == IF Reading /\ conn = active THEN Pending(active) ELSE {}
  <2>1. /\ Runtime' = 0 /\ Heard' = Heard
        /\ call' = [k \in Calls |-> IF k \in U
                      THEN [call[k] EXCEPT !.phase = "lost"] ELSE call[k]]
    BY <1>2 DEF HandlerEnds, Runtime, IsConnected, Heard
  <2>2. CASE Runtime = 0
    <3>1. U = {}
      BY <1>2, <2>2 DEF HandlerEnds, Reading, Pending, CallInv, SupervisorInv,
         BridgeInv, Starting, Runtime, IsConnected
    <3>2. call' = call
      BY <2>1, <3>1 DEF TypeOK
    <3> QED BY <2>1, <2>2, <3>2, Unseen
  <2>3. CASE Runtime # 0
    <3> DEFINE phase == [k \in Calls |-> call[k].phase]
    <3>1. U \subseteq Calls /\ \A k \in U : phase[k] = "pending"
                                        /\ [j \in Calls |-> call[j].conn][k] = Runtime
      BY <1>0, <2>3 DEF Reading, Pending
    <3>2. [k \in Calls |-> call'[k].phase]
          = [k \in Calls |-> IF k \in U THEN "lost" ELSE phase[k]]
      BY <2>1 DEF TypeOK
    <3>3. [k \in Calls |-> call'[k].conn] = [k \in Calls |-> call[k].conn]
      BY <2>1 DEF TypeOK
    <3> HIDE DEF U
    <3>4. Contract!Go
      BY <2>1, <2>3, <3>1, <3>2, <3>3, Zenon DEF Contract!Go, Runtime
    <3> QED BY <3>4 DEF Contract!Next
  <2> QED BY <2>2, <2>3
<1>3. CASE Ready
  <2>1. Runtime = 0 /\ Runtime' = conn /\ conn # 0 /\ UNCHANGED call
    BY <1>3 DEF Ready, Move, StillActive, Runtime, IsConnected, SupervisorInv,
       BridgeInv, Starting
  <2>2. Heard = 0 /\ Heard' = conn
    BY <1>3 DEF Ready, Move, Heard, ToldInv
  <2>3. \A k \in Calls : call[k].conn # conn
    BY <1>3 DEF Ready, Move, Starting, CallInv
  <2>4. Contract!Come
    BY <2>1, <2>2, <2>3 DEF Contract!Come, Runtime, TypeOK
  <2> QED BY <2>4 DEF Contract!Next
<1>4. CASE Drained
  <2>1. Runtime' = Runtime /\ Heard' = 0 /\ UNCHANGED call
    BY <1>4 DEF Drained, Runtime, IsConnected, Heard
  <2>2. CASE Heard = 0
    BY <2>1, <2>2, Unseen
  <2>3. CASE Heard # 0
    BY <2>1, <2>3 DEF Contract!Announce, Contract!Next, Runtime
  <2> QED BY <2>2, <2>3
<1>5. CASE ResetBegins
  <2>1. Heard' = 0 /\ UNCHANGED call
    BY <1>5 DEF ResetBegins, Heard
  <2>2. Runtime' = Runtime
    BY <1>0, <1>5 DEF ResetBegins, Running, CancelSupervisor, Clear, EndLoop,
       Runtime, IsConnected, LoopInv, SupervisorInv
  <2>3. CASE Heard = 0
    BY <2>1, <2>2, <2>3, Unseen
  <2>4. CASE Heard # 0
    BY <2>1, <2>2, <2>4 DEF Contract!Announce, Contract!Next, Runtime
  <2> QED BY <2>3, <2>4
<1>6. CASE ResetCancels
  <2>1. Heard' = Heard /\ UNCHANGED call
    BY <1>6 DEF ResetCancels, Heard
  <2>2. Runtime' = 0
    BY <1>6 DEF ResetCancels, CancelSupervisor, Clear, Runtime, IsConnected,
       SupervisorInv
  <2>3. CASE Runtime = 0
    BY <2>1, <2>2, <2>3, Unseen
  <2>4. CASE Runtime # 0
    <3> DEFINE phase == [k \in Calls |-> call[k].phase]
    <3> DEFINE U == {}
    <3>1. U \in SUBSET Calls /\ \A k \in U : FALSE
      OBVIOUS
    <3>2. [k \in Calls |-> call'[k].phase]
          = [k \in Calls |-> IF k \in U THEN "lost" ELSE phase[k]]
      BY <2>1
    <3>3. [k \in Calls |-> call'[k].conn] = [k \in Calls |-> call[k].conn]
      BY <2>1
    <3> HIDE DEF U
    <3>4. Contract!Go
      BY <2>1, <2>2, <2>4, <3>1, <3>2, <3>3, Zenon DEF Contract!Go, Runtime
    <3> QED BY <3>4 DEF Contract!Next
  <2> QED BY <2>3, <2>4
<1>7. CASE BrokerRestarts
  <2>1. Runtime' = 0 /\ Heard' = 0
    BY <1>7 DEF BrokerRestarts, Fresh, Runtime, IsConnected, Heard
  <2>2. /\ [k \in Calls |-> call'[k].conn] = [k \in Calls |-> call[k].conn]
        /\ [k \in Calls |-> call'[k].phase]
           = [k \in Calls |->
                IF [j \in Calls |-> call[j].phase][k] = "pending" THEN "dead"
                ELSE [j \in Calls |-> call[j].phase][k]]
    BY <1>7 DEF BrokerRestarts, TypeOK
  <2> QED BY <2>1, <2>2 DEF Contract!Restart, Contract!Next, Runtime
<1>8. ASSUME NEW k \in Calls, Ask(k) PROVE Contract!Next
  <2>1. /\ Runtime = client /\ Runtime' = Runtime /\ Heard' = Heard /\ Runtime # 0
        /\ call[k].phase = "idle"
    BY <1>8 DEF Ask, Runtime, IsConnected, Heard
  <2>2. /\ [j \in Calls |-> call'[j].phase]
           = [[j \in Calls |-> call[j].phase] EXCEPT ![k] = "pending"]
        /\ [j \in Calls |-> call'[j].conn]
           = [[j \in Calls |-> call[j].conn] EXCEPT ![k] = client]
    BY <1>8 DEF Ask, TypeOK
  <2>3. Contract!Take(k)
    BY <2>1, <2>2 DEF Contract!Take, Contract!Requesting, Runtime
  <2> QED BY <2>3 DEF Contract!Next
<1>9. ASSUME NEW k \in Calls, Answer(k) PROVE Contract!Next
  <2>1. /\ Runtime = call[k].conn /\ Runtime' = Runtime /\ Heard' = Heard
        /\ call[k].phase = "pending"
    BY <1>9 DEF Answer, Reading, Runtime, IsConnected, Heard, CallInv, BridgeInv,
       SupervisorInv, Starting
  <2>2. /\ [j \in Calls |-> call'[j].phase]
           = [[j \in Calls |-> call[j].phase] EXCEPT ![k] = "answered"]
        /\ [j \in Calls |-> call'[j].conn] = [j \in Calls |-> call[j].conn]
    BY <1>9 DEF Answer, TypeOK
  <2>3. Contract!Answer(k)
    BY <2>1, <2>2 DEF Contract!Answer, Contract!Requesting, Runtime
  <2> QED BY <2>3 DEF Contract!Next
<1>10. ASSUME NEW k \in Calls, Raises(k) PROVE Contract!Next
  <2> DEFINE e == LossOrError
  <2>1. /\ Runtime' = Runtime /\ Heard' = Heard
        /\ call[k].phase = "pending" /\ call[k].conn # 0
        /\ call' = [call EXCEPT ![k].phase = e]
    BY <1>10 DEF Raises, Runtime, IsConnected, Heard, CallInv
  <2>2. e = "failed" \/ (e = "lost" /\ Runtime = 0)
    BY DEF LossOrError, Runtime
  <2> HIDE DEF e
  <2>3. /\ [j \in Calls |-> call'[j].phase]
           = [[j \in Calls |-> call[j].phase] EXCEPT ![k] = e]
        /\ [j \in Calls |-> call'[j].conn] = [j \in Calls |-> call[j].conn]
    BY <2>1 DEF TypeOK
  <2>4. Contract!Raise(k)
    BY <2>1, <2>2, <2>3 DEF Contract!Raise, Contract!Requesting, Runtime
  <2> QED BY <2>4 DEF Contract!Next
<1>11. CASE Announce
  <2>1. Heard = 0 /\ Heard' = 0
    BY <1>11 DEF Announce, Move, Heard, ToldInv
  <2> QED BY <1>11, <2>1, Unseen DEF Announce, Runtime, IsConnected
<1>12. CASE Lost
  <2>1. Runtime = 0 /\ Runtime' = 0
    BY <1>0, <1>12 DEF Lost, Clear, Runtime, IsConnected
  <2> QED BY <1>12, <2>1, Unseen DEF Lost, Heard
<1>13. CASE ResetCloses
  <2>1. Runtime = 0 /\ Runtime' = 0
    BY <1>0, <1>13 DEF ResetCloses, Clear, Runtime, IsConnected
  <2> QED BY <1>13, <2>1, Unseen DEF ResetCloses, Heard
<1>14. CASE ResetStarts
  <2>1. Runtime = 0 /\ Runtime' = 0
    BY <1>14 DEF ResetStarts, Runtime, IsConnected
  <2> QED BY <1>14, <2>1, Unseen DEF ResetStarts, Heard
<1>15. CASE SocketDrops \/ StreamsClose \/ PageAnswers \/ PageFails \/ PageGone
  BY <1>15, Unseen DEF SocketDrops, StreamsClose, PageAnswers, PageFails,
     PageGone, StartFails, Runtime, IsConnected, Heard
<1>16. CASE Aborts \/ NotReady \/ Left \/ Reported \/ ServerCloses \/ Persist
  BY <1>16, Unseen DEF Aborts, NotReady, Left, Reported, ServerCloses, Persist,
     Runtime, IsConnected, Heard
<1>17. CASE \E l \in loops : LoopEnds(l)
  BY <1>17, Unseen DEF LoopEnds, Runtime, IsConnected, Heard
<1>18. CASE UNCHANGED vars
  BY <1>18, Unseen DEF vars, Runtime, IsConnected, Heard
<1> QED BY <1>1, <1>2, <1>3, <1>4, <1>5, <1>6, <1>7, <1>8, <1>9, <1>10, <1>11,
       <1>12, <1>13, <1>14, <1>15, <1>16, <1>17, <1>18 DEF Next

(* The session implements RuntimeContract: each runtime is new to those who    *)
(* use it, comes after the loss of the last was announced, answers only what   *)
(* it took, and is gone for good when a request is called lost.                *)
THEOREM SessionKeepsContract == Spec => KeepsRuntimeContract
<1> QED BY ContractInit, ContractStep, SessionInvariant, PTL
        DEF Spec, KeepsRuntimeContract, Contract!Spec
==============================================================================
