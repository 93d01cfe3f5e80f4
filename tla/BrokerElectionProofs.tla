------------------------- MODULE BrokerElectionProofs -------------------------
(* Theorems about BrokerElection for any number of proxies and daemons.        *)
EXTENDS BrokerElectionInv, FiniteSetTheorems, TLAPS

(* What a step may do to the daemons and to the discovery file. *)

Same == UNCHANGED <<published, lifetimeLock, daemon, own, parent>>

Dies(d) ==
    /\ daemon[d] \notin {"unborn", "dead"}
    /\ daemon' = [daemon EXCEPT ![d] = "dead"]
    /\ lifetimeLock' = Released(lifetimeLock, d)
    /\ UNCHANGED <<published, own, parent>>

Born(d) ==
    /\ daemon[d] = "unborn"
    /\ daemon' = [daemon EXCEPT ![d] = "waiting"]
    /\ UNCHANGED <<published, lifetimeLock, own>>
    /\ \E c \in Calls : parent' = [parent EXCEPT ![d] = c]

Moves(d) ==
    /\ daemon[d] \in {"starting", "serving", "ready"}
    /\ \E s \in {"serving", "failing", "stopping"} : daemon' = [daemon EXCEPT ![d] = s]
    /\ UNCHANGED <<published, lifetimeLock, own, parent>>

DaemonKinds ==
    \/ Same
    \/ \E d \in Daemons : \/ Dies(d) \/ Born(d) \/ Moves(d)
                          \/ AcquireLifetimeLock(d) \/ PublishStarting(d)
                          \/ PublishReady(d) \/ Exit(d)

LEMMA TypeInit == Init => TypeOK
  BY FaultsBounded DEF Init, TypeOK, States, NoState

LEMMA TerminatedType ==
  ASSUME TypeOK, NEW d \in Daemons, Terminated(d)
  PROVE  /\ daemon' \in [Daemons -> {"unborn", "waiting", "locked", "starting",
                         "serving", "ready", "stopping", "failing", "dead"}]
         /\ lifetimeLock' \in Daemons \cup {NoOne}
         /\ term' \in [Daemons -> BOOLEAN]
  BY DEF TypeOK, Terminated, Released

LEMMA EndType ==
  ASSUME TypeOK, NEW c \in Calls, NEW how \in {"broker", "error"}, NEW kept,
         End(c, how, kept), probe' = probe, snapshot' \in [Calls -> States]
  PROVE  TypeOK'
  <1>1. CASE stage[c] = "launched" /\ ~kept /\ Alive(child[c])
    <2>1. child[c] \in Daemons  BY <1>1 DEF Alive
    <2>2. QED  BY <1>1, <2>1, TerminatedType DEF End, TypeOK
  <1>2. CASE ~(stage[c] = "launched" /\ ~kept /\ Alive(child[c]))
    BY <1>2 DEF End, TypeOK, Released
  <1>3. QED  BY <1>1, <1>2

LEMMA TypeStep == TypeOK /\ [Next]_vars => TypeOK'
  <1> SUFFICES ASSUME TypeOK, [Next]_vars PROVE TypeOK'  OBVIOUS
  <1> USE DEF files, launcher, processes
  <1>1. ASSUME NEW c \in Calls, Call(c) \/ Read(c) \/ Answers(c) \/ Silent(c)
                                 \/ ReRead(c) \/ TryLock(c) \/ Poll(c)
        PROVE  TypeOK'
    <2>1. CASE Call(c)  BY <2>1 DEF Call, TypeOK
    <2>2. CASE Read(c)  BY <2>2 DEF Read, TypeOK
    <2>3. CASE Answers(c)  BY <2>3 DEF Answers, TypeOK
    <2>4. CASE TryLock(c)  BY <2>4 DEF TryLock, TypeOK
    <2>5. CASE Silent(c) \/ ReRead(c) \/ Poll(c)
      BY <2>5 DEF Silent, ReRead, Poll, TypeOK
    <2>6. QED  BY <1>1, <2>1, <2>2, <2>3, <2>4, <2>5
  <1>2. ASSUME NEW c \in Calls, ReadMismatch(c) \/ ChildExited(c) \/ TimesOut(c)
                                 \/ Cancelled(c)
        PROVE  TypeOK'
    <2>1. End(c, "error", FALSE) /\ probe' = probe /\ snapshot' = snapshot
      BY <1>2 DEF ReadMismatch, ChildExited, TimesOut, Cancelled
    <2>2. QED  BY <2>1, EndType DEF TypeOK
  <1>3. ASSUME NEW c \in Calls, Return(c) PROVE TypeOK'
    <2>1. snapshot' \in [Calls -> States] /\ probe' = probe
      BY <1>3 DEF Return, TypeOK
    <2>2. CASE published.protocol = Protocol(c)
      BY <1>3, <2>1, <2>2, EndType DEF Return
    <2>3. CASE published.protocol # Protocol(c)
      BY <1>3, <2>1, <2>3, EndType DEF Return
    <2>4. QED  BY <2>2, <2>3
  <1>4. ASSUME NEW c \in Calls, Spawn(c) \/ Reaped(c) \/ ProxyDies(c)
                                 \/ DeadlinePasses(c)
        PROVE  TypeOK'
    <2>1. CASE Spawn(c)  BY <2>1 DEF Spawn, TypeOK
    <2>2. CASE Reaped(c)  BY <2>2 DEF Reaped, Released, TypeOK
    <2>3. CASE ProxyDies(c)  BY <2>3 DEF ProxyDies, Released, TypeOK
    <2>4. CASE DeadlinePasses(c)  BY <2>4 DEF DeadlinePasses, TypeOK
    <2>5. QED  BY <1>4, <2>1, <2>2, <2>3, <2>4
  <1>5. ASSUME NEW c \in Calls, KillChild(c) PROVE TypeOK'
    BY <1>5 DEF KillChild, Alive, Released, TypeOK
  <1>6. ASSUME NEW d \in Daemons, PublishStarting(d) PROVE TypeOK'
    <2>1. /\ NextGeneration(published) \in Nat
          /\ published.token \in Daemons \cup {NoOne}
      BY DEF TypeOK, States, NextGeneration
    <2>2. published' \in States /\ own' = [own EXCEPT ![d] = published']
      BY <1>6, <2>1 DEF PublishStarting, States, Protocol
    <2>3. QED  BY <1>6, <2>2 DEF PublishStarting, TypeOK
  <1>7. ASSUME NEW d \in Daemons, AcquireLifetimeLock(d) \/ GivesUpLock(d)
                                   \/ Listen(d) \/ ServerFails(d) \/ ServerStops(d)
        PROVE  TypeOK'
    BY <1>7 DEF AcquireLifetimeLock, GivesUpLock, Listen, ServerFails, ServerStops,
                TypeOK
  <1>8. ASSUME NEW d \in Daemons, PublishReady(d) PROVE TypeOK'
    <2>1. published' \in States /\ own' = [own EXCEPT ![d] = published']
      BY <1>8 DEF PublishReady, TypeOK, States
    <2>2. QED  BY <1>8, <2>1 DEF PublishReady, TypeOK
  <1>9. ASSUME NEW d \in Daemons, Exit(d) \/ DaemonKilled(d) PROVE TypeOK'
    <2>1. CASE Exit(d)
      <3>1. published' \in States
        <4>1. published \in States /\ own[d] \in States  BY DEF TypeOK
        <4>2. ASSUME NEW s \in {"stopped", "failed"}
              PROVE  [own[d] EXCEPT !.status = s] \in States
          BY <4>1 DEF States
        <4>3. CASE published.owner = d
          <5>1. \E s \in {"stopped", "failed"} :
                  published' = [own[d] EXCEPT !.status = s]
            BY <2>1, <4>3 DEF Exit
          <5>2. QED  BY <4>2, <5>1
        <4>4. CASE published.owner # d
          BY <2>1, <4>1, <4>4 DEF Exit
        <4>5. QED  BY <4>3, <4>4
      <3>2. QED  BY <2>1, <3>1 DEF Exit, Released, TypeOK
    <2>2. CASE DaemonKilled(d)
      BY <2>2 DEF DaemonKilled, Released, TypeOK
    <2>3. QED  BY <1>9, <2>1, <2>2
  <1>10. CASE StopBroker
    <2>1. published.owner \in Daemons  BY <1>10 DEF StopBroker, Alive
    <2>2. QED  BY <1>10, <2>1, TerminatedType DEF StopBroker, TypeOK
  <1>11. CASE UNCHANGED vars
    BY <1>11 DEF vars, TypeOK
  <1>12. QED
    BY <1>1, <1>2, <1>3, <1>4, <1>5, <1>6, <1>7, <1>8, <1>9, <1>10, <1>11
       DEF Next, LauncherStep, DaemonStep

(* The discovery file and the broker processes are well typed throughout, for  *)
(* any number of proxies, daemons and faults.                                  *)
THEOREM ElectionTypeCorrect == Spec => []TypeOK
  BY TypeInit, TypeStep, PTL DEF Spec

------------------------------------------------------------------------------
LEMMA TerminatedDies ==
  ASSUME TypeOK, NEW d, Alive(d), Terminated(d), UNCHANGED <<published, own, parent>>
  PROVE  Same \/ \E e \in Daemons : Dies(e)
  BY DEF Terminated, Dies, Same, Alive

LEMMA EndDies ==
  ASSUME TypeOK, NEW c \in Calls, NEW how, NEW kept, End(c, how, kept)
  PROVE  Same \/ \E e \in Daemons : Dies(e)
  <1>1. CASE stage[c] = "launched" /\ ~kept /\ Alive(child[c])
    BY <1>1, TerminatedDies DEF End
  <1>2. CASE ~(stage[c] = "launched" /\ ~kept /\ Alive(child[c]))
    BY <1>2 DEF End, Same
  <1>3. QED  BY <1>1, <1>2

LEMMA Kinds ==
  ASSUME TypeOK, LockIsHeld, [Next]_vars
  PROVE  DaemonKinds
  <1> USE DEF files, launcher, processes
  <1>1. ASSUME NEW c \in Calls, Call(c) \/ Read(c) \/ Answers(c) \/ Silent(c)
                                 \/ ReRead(c) \/ TryLock(c) \/ Poll(c)
                                 \/ Reaped(c) \/ ProxyDies(c) \/ DeadlinePasses(c)
        PROVE  Same
    BY <1>1 DEF Call, Read, Answers, Silent, ReRead, TryLock, Poll, Reaped,
                ProxyDies, DeadlinePasses, Same
  <1>2. ASSUME NEW c \in Calls, ReadMismatch(c) \/ ChildExited(c) \/ TimesOut(c)
                                 \/ Cancelled(c) \/ Return(c)
        PROVE  DaemonKinds
    BY <1>2, EndDies DEF ReadMismatch, ChildExited, TimesOut, Cancelled, Return,
                         DaemonKinds
  <1>3. ASSUME NEW c \in Calls, Spawn(c) PROVE DaemonKinds
    BY <1>3 DEF Spawn, Born, DaemonKinds
  <1>4. ASSUME NEW c \in Calls, KillChild(c) PROVE DaemonKinds
    BY <1>4 DEF KillChild, Alive, Dies, DaemonKinds
  <1>5. ASSUME NEW d \in Daemons, DaemonStep(d) \/ DaemonKilled(d)
        PROVE  DaemonKinds
    <2>1. CASE GivesUpLock(d)
      <3>1. lifetimeLock # d
        BY <2>1 DEF GivesUpLock, LockIsHeld, Holding
      <3>2. QED  BY <2>1, <3>1 DEF GivesUpLock, Dies, Released, DaemonKinds
    <2>2. CASE Listen(d) \/ ServerFails(d) \/ ServerStops(d)
      BY <2>2 DEF Listen, ServerFails, ServerStops, Moves, DaemonKinds
    <2>3. CASE DaemonKilled(d)
      BY <2>3 DEF DaemonKilled, Alive, Dies, DaemonKinds
    <2>4. QED  BY <1>5, <2>1, <2>2, <2>3 DEF DaemonStep, DaemonKinds
  <1>6. CASE StopBroker
    BY <1>6, TerminatedDies DEF StopBroker, DaemonKinds
  <1>7. CASE UNCHANGED vars
    BY <1>7 DEF vars, Same, DaemonKinds
  <1>8. QED
    BY <1>1, <1>2, <1>3, <1>4, <1>5, <1>6, <1>7
       DEF Next, LauncherStep, DaemonKinds

------------------------------------------------------------------------------
(* The lifetime lock and the discovery file. *)

LEMMA LockStep ==
  ASSUME TypeOK, LockIsHeld, DaemonKinds
  PROVE  LockIsHeld'
  <1> USE DEF LockIsHeld, Holding, TypeOK
  <1>1. CASE Same
    BY <1>1 DEF Same
  <1>2. ASSUME NEW d \in Daemons, Dies(d) PROVE LockIsHeld'
    BY <1>2, NoOneIsNoProcess DEF Dies, Released
  <1>3. ASSUME NEW d \in Daemons, Born(d) \/ Moves(d) PROVE LockIsHeld'
    BY <1>3 DEF Born, Moves
  <1>4. ASSUME NEW d \in Daemons, AcquireLifetimeLock(d) PROVE LockIsHeld'
    BY <1>4, NoOneIsNoProcess DEF AcquireLifetimeLock
  <1>5. ASSUME NEW d \in Daemons, PublishStarting(d) \/ PublishReady(d)
        PROVE  LockIsHeld'
    BY <1>5 DEF PublishStarting, PublishReady
  <1>6. ASSUME NEW d \in Daemons, Exit(d) PROVE LockIsHeld'
    BY <1>6, NoOneIsNoProcess DEF Exit, Released
  <1>7. QED  BY <1>1, <1>2, <1>3, <1>4, <1>5, <1>6 DEF DaemonKinds

(* The daemon that publishes is the only one past the lock. *)
LEMMA OnlyOneHolds ==
  ASSUME LockIsHeld, NEW d \in Daemons, NEW e \in Daemons,
         daemon[d] \in Holding, daemon[e] \in Holding
  PROVE  d = e
  BY DEF LockIsHeld

LEMMA OwnerStep ==
  ASSUME TypeOK, LockIsHeld, OwnerSpeaks, DaemonKinds
  PROVE  OwnerSpeaks'
  <1> USE DEF OwnerSpeaks, Publishing, Holding
  <1>1. CASE Same
    BY <1>1 DEF Same
  <1>2. ASSUME NEW d \in Daemons, Dies(d) PROVE OwnerSpeaks'
    BY <1>2 DEF Dies, TypeOK
  <1>3. ASSUME NEW d \in Daemons, Born(d) PROVE OwnerSpeaks'
    BY <1>3, NoOneIsNoProcess DEF Born, TypeOK, NoState
  <1>4. ASSUME NEW d \in Daemons, Moves(d) PROVE OwnerSpeaks'
    BY <1>4 DEF Moves, TypeOK
  <1>5. ASSUME NEW d \in Daemons, AcquireLifetimeLock(d) PROVE OwnerSpeaks'
    BY <1>5 DEF AcquireLifetimeLock, TypeOK
  <1>6. ASSUME NEW d \in Daemons, PublishStarting(d) PROVE OwnerSpeaks'
    <2>1. /\ own' = [own EXCEPT ![d] = published']
          /\ daemon' = [daemon EXCEPT ![d] = "starting"]
          /\ published'.owner = d
          /\ published'.generation = published.generation + 1
          /\ published'.protocol = Protocol(parent[d])
          /\ daemon[d] = "locked"
          /\ parent' = parent
      BY <1>6 DEF PublishStarting, NextGeneration
    <2>2. \A e \in Daemons : own[e].generation \in Nat
      BY DEF TypeOK, States
    <2>3. published.generation \in Nat
      BY DEF TypeOK, States
    <2>4. \A e \in Daemons \ {d} : daemon[e] \notin Publishing
      BY <2>1 DEF LockIsHeld
    <2>5. QED  BY <2>1, <2>2, <2>3, <2>4 DEF TypeOK
  <1>7. ASSUME NEW d \in Daemons, PublishReady(d) PROVE OwnerSpeaks'
    <2>1. /\ own' = [own EXCEPT ![d] = published']
          /\ daemon' = [daemon EXCEPT ![d] = "ready"]
          /\ daemon[d] = "serving"
          /\ parent' = parent
          /\ published'.owner = d
          /\ published'.generation = published.generation
          /\ published'.protocol = published.protocol
      BY <1>7 DEF PublishReady, TypeOK, States
    <2>2. published.owner = d /\ published.protocol = Protocol(parent[d])
      BY <2>1
    <2>3. published.generation \in Nat
      BY DEF TypeOK, States
    <2>4. \A e \in Daemons \ {d} : daemon[e] \notin Publishing
      BY <2>1 DEF LockIsHeld
    <2>5. QED  BY <2>1, <2>2, <2>3, <2>4 DEF TypeOK
  <1>8. ASSUME NEW d \in Daemons, Exit(d) PROVE OwnerSpeaks'
    <2>1. /\ daemon' = [daemon EXCEPT ![d] = "dead"]
          /\ daemon[d] \in Publishing
          /\ UNCHANGED <<own, parent>>
          /\ published'.owner = published.owner
          /\ published'.generation = published.generation
          /\ published'.protocol = published.protocol
      BY <1>8 DEF Exit, TypeOK, States, processes
    <2>2. \A e \in Daemons \ {d} : daemon[e] \notin Publishing
      BY <2>1 DEF LockIsHeld
    <2>3. QED  BY <2>1, <2>2 DEF TypeOK
  <1>9. QED  BY <1>1, <1>2, <1>3, <1>4, <1>5, <1>6, <1>7, <1>8 DEF DaemonKinds

------------------------------------------------------------------------------
(* The calls. *)

QuietCall(c) ==
    /\ snapshot'[c] = snapshot[c] /\ answerer'[c] = answerer[c]
    /\ \/ stage'[c] = stage[c] /\ probe'[c] = probe[c] /\ result'[c] = result[c]
       \/ probe'[c] \in {"unread", "unhealthy"} /\ result'[c] = result[c]
       \/ stage'[c] = "done" /\ result'[c] = result[c]
       \/ stage'[c] \in {"reaping", "done"} /\ result'[c] \in {"error", "died"}
    /\ stage'[c] \in {"idle", "first", "contending", "locked", "launched"} =>
          stage[c] \in {"idle", "first", "contending", "locked", "launched"}
    /\ stage'[c] = "idle" => stage[c] = "idle" /\ probe'[c] = probe[c]

LEMMA CallKinds ==
  ASSUME TypeOK, ProbeIsOld, [Next]_vars, NEW c \in Calls
  PROVE  QuietCall(c) \/ Read(c) \/ Answers(c) \/ Return(c)
  <1> USE DEF QuietCall, TypeOK, files, launcher, processes
  <1>1. ASSUME NEW e \in Calls, Call(e) PROVE QuietCall(c)
    BY <1>1 DEF Call, ProbeIsOld
  <1>2. ASSUME NEW e \in Calls,
               ReadMismatch(e) \/ ChildExited(e) \/ TimesOut(e) \/ Cancelled(e)
        PROVE  QuietCall(c)
    <2>1. End(e, "error", FALSE) /\ probe' = probe /\ snapshot' = snapshot
      BY <1>2 DEF ReadMismatch, ChildExited, TimesOut, Cancelled
    <2>2. QED  BY <2>1 DEF End
  <1>3. ASSUME NEW e \in Calls, Return(e), e # c PROVE QuietCall(c)
    BY <1>3 DEF Return, End
  <1>4. ASSUME NEW e \in Calls, (Read(e) \/ Answers(e)) /\ e # c PROVE QuietCall(c)
    BY <1>4 DEF Read, Answers
  <1>5. ASSUME NEW e \in Calls, Silent(e) \/ ReRead(e) \/ Poll(e) PROVE QuietCall(c)
    BY <1>5 DEF Silent, ReRead, Poll, Looking
  <1>6. ASSUME NEW e \in Calls, TryLock(e) \/ Spawn(e) PROVE QuietCall(c)
    <2>1. CASE TryLock(e)  BY <2>1 DEF TryLock
    <2>2. CASE Spawn(e)  BY <2>2 DEF Spawn
    <2>3. QED  BY <1>6, <2>1, <2>2
  <1>7. ASSUME NEW e \in Calls,
               Reaped(e) \/ KillChild(e) \/ ProxyDies(e) \/ DeadlinePasses(e)
        PROVE  QuietCall(c)
    <2>1. CASE Reaped(e)  BY <2>1 DEF Reaped
    <2>2. CASE ProxyDies(e)  BY <2>2 DEF ProxyDies
    <2>3. CASE KillChild(e) \/ DeadlinePasses(e)
      BY <2>3 DEF KillChild, DeadlinePasses
    <2>4. QED  BY <1>7, <2>1, <2>2, <2>3
  <1>8. ASSUME NEW d \in Daemons, DaemonStep(d) \/ DaemonKilled(d)
        PROVE  QuietCall(c)
    BY <1>8 DEF DaemonStep, DaemonKilled, AcquireLifetimeLock, GivesUpLock,
       PublishStarting, Listen, PublishReady, ServerFails, ServerStops, Exit
  <1>9. ASSUME StopBroker \/ UNCHANGED vars PROVE QuietCall(c)
    BY <1>9 DEF StopBroker, vars
  <1>10. QED
    BY <1>1, <1>2, <1>3, <1>4, <1>5, <1>6, <1>7, <1>8, <1>9
       DEF Next, LauncherStep

(* What a daemon published of itself lasts, and generations grow. *)
LEMMA Lasts ==
  ASSUME TypeOK, LockIsHeld, OwnerSpeaks, DaemonKinds
  PROVE  /\ published.generation \in Nat /\ published'.generation \in Nat
         /\ published.generation <= published'.generation
         /\ \A d \in Daemons : daemon[d] \notin {"unborn", "waiting", "locked"} =>
               /\ daemon'[d] \notin {"unborn", "waiting", "locked"}
               /\ own'[d].owner = own[d].owner
               /\ own'[d].generation = own[d].generation
               /\ parent'[d] = parent[d]
  <1> USE DEF TypeOK, States
  <1>1. CASE Same
    BY <1>1 DEF Same
  <1>2. ASSUME NEW d \in Daemons,
               Dies(d) \/ Born(d) \/ Moves(d) \/ AcquireLifetimeLock(d)
        PROVE  /\ UNCHANGED <<published, own>>
               /\ \A e \in Daemons : daemon[e] \notin {"unborn", "waiting", "locked"} =>
                     /\ daemon'[e] \notin {"unborn", "waiting", "locked"}
                     /\ parent'[e] = parent[e]
    BY <1>2 DEF Dies, Born, Moves, AcquireLifetimeLock
  <1>3. ASSUME NEW d \in Daemons, PublishStarting(d)
        PROVE  /\ published'.generation = published.generation + 1
               /\ \A e \in Daemons : daemon[e] \notin {"unborn", "waiting", "locked"} =>
                     /\ daemon'[e] \notin {"unborn", "waiting", "locked"}
                     /\ own'[e] = own[e]
                     /\ parent'[e] = parent[e]
    BY <1>3 DEF PublishStarting, NextGeneration
  <1>4. ASSUME NEW d \in Daemons, PublishReady(d) \/ Exit(d)
        PROVE  /\ published'.generation = published.generation
               /\ parent' = parent
               /\ \A e \in Daemons : daemon[e] \notin {"unborn", "waiting", "locked"} =>
                     /\ daemon'[e] \notin {"unborn", "waiting", "locked"}
                     /\ own'[e].owner = own[e].owner
                     /\ own'[e].generation = own[e].generation
    BY <1>4 DEF PublishReady, Exit, OwnerSpeaks, Publishing, Holding, processes
  <1>5. QED  BY <1>1, <1>2, <1>3, <1>4 DEF DaemonKinds

LEMMA ProbeStep ==
  ASSUME OwnerInv, [Next]_vars
  PROVE  ProbeIsOld' /\ ReturnedWasServing'
  <1> USE DEF OwnerInv
  <1>1. DaemonKinds  BY Kinds
  <1>2. \A d \in Daemons : own[d].generation \in Nat
    BY DEF TypeOK, States
  <1>3. \A c \in Calls : snapshot[c].generation \in Nat
    BY DEF TypeOK, States
  <1> SUFFICES ASSUME NEW c \in Calls
               PROVE  /\ Looking(c)' \/ stage'[c] = "idle" => result'[c] = "none"
                      /\ stage'[c] = "idle" => probe'[c] = "unread"
                      /\ Looking(c)' /\ probe'[c] = "probing" =>
                            snapshot'[c].generation <= published'.generation
                      /\ Looking(c)' /\ probe'[c] = "answered" =>
                            /\ answerer'[c] \in Daemons
                            /\ daemon'[answerer'[c]] \notin {"unborn", "waiting", "locked"}
                            /\ own'[answerer'[c]].owner = answerer'[c]
                            /\ snapshot'[c].generation <= own'[answerer'[c]].generation
                      /\ result'[c] = "broker" =>
                            /\ answerer'[c] \in Daemons
                            /\ daemon'[answerer'[c]] \notin {"unborn", "waiting", "locked"}
                            /\ answerer'[c] = snapshot'[c].owner
                            /\ Protocol(parent'[answerer'[c]]) = Protocol(c)
    BY DEF ProbeIsOld, ReturnedWasServing
  <1>4. CASE QuietCall(c)
    BY <1>1, <1>2, <1>3, <1>4, Lasts
       DEF QuietCall, ProbeIsOld, ReturnedWasServing, Looking
  <1>5. CASE Read(c)
    BY <1>1, <1>3, <1>5, Lasts DEF Read, ProbeIsOld, ReturnedWasServing, Looking, TypeOK,
       files, processes
  <1>6. CASE Answers(c)
    <2>1. PICK d \in Daemons : /\ daemon[d] \in {"serving", "ready"}
                               /\ answerer' = [answerer EXCEPT ![c] = d]
      BY <1>6 DEF Answers, Listening
    <2>2. published = own[d] /\ own[d].owner = d
      BY <2>1 DEF OwnerSpeaks, Publishing, Holding
    <2>3. snapshot[c].generation <= own[d].generation
      BY <1>6, <2>2 DEF Answers, ProbeIsOld
    <2>4. answerer'[c] = d /\ probe'[c] = "answered"
      BY <1>6, <2>1 DEF Answers, TypeOK
    <2>5. UNCHANGED <<stage, snapshot, result, daemon, own, parent, published>>
      BY <1>6 DEF Answers, files, processes
    <2>6. Looking(c) /\ result[c] = "none"
      BY <1>6 DEF Answers, ProbeIsOld
    <2>7. QED
      BY <2>1, <2>2, <2>3, <2>4, <2>5, <2>6 DEF Looking
  <1>7. CASE Return(c)
    <2>1. /\ answerer[c] \in Daemons
          /\ daemon[answerer[c]] \notin {"unborn", "waiting", "locked"}
          /\ own[answerer[c]].owner = answerer[c]
          /\ snapshot[c].generation <= own[answerer[c]].generation
      BY <1>7 DEF Return, ProbeIsOld
    <2>2. snapshot[c].generation = published.generation
      BY <1>7 DEF Return, Confirmed, SameIdentity
    <2>3. own[answerer[c]].generation = published.generation
      <3>1. own[answerer[c]].generation <= published.generation
        BY <2>1 DEF OwnerSpeaks
      <3>2. published.generation \in Nat
        BY DEF TypeOK, States
      <3>3. QED  BY <1>2, <2>1, <2>2, <3>1, <3>2
    <2>4. /\ published.owner = answerer[c]
          /\ published.protocol = Protocol(parent[answerer[c]])
      BY <2>1, <2>3 DEF OwnerSpeaks
    <2>5. /\ answerer' = answerer /\ snapshot'[c] = published
          /\ stage'[c] \in {"reaping", "done"}
          /\ result'[c] = "broker" => published.protocol = Protocol(c)
      BY <1>7 DEF Return, End, TypeOK
    <2>6. /\ daemon'[answerer[c]] \notin {"unborn", "waiting", "locked"}
          /\ parent'[answerer[c]] = parent[answerer[c]]
      BY <1>1, <2>1, Lasts
    <2>7. QED
      BY <2>1, <2>4, <2>5, <2>6 DEF Looking
  <1>8. QED  BY <1>4, <1>5, <1>6, <1>7, CallKinds

------------------------------------------------------------------------------
LEMMA OwnerInit == Init => OwnerInv
  BY TypeInit, NoOneIsNoProcess
     DEF Init, OwnerInv, LockIsHeld, OwnerSpeaks, ProbeIsOld, ReturnedWasServing,
         Holding, Publishing, Looking, NoState

LEMMA OwnerInvStep == OwnerInv /\ [Next]_vars => OwnerInv'
  <1> SUFFICES ASSUME OwnerInv, [Next]_vars PROVE OwnerInv'  OBVIOUS
  <1>1. DaemonKinds  BY Kinds DEF OwnerInv
  <1>2. QED
    BY <1>1, TypeStep, LockStep, OwnerStep, ProbeStep DEF OwnerInv

------------------------------------------------------------------------------
(* The launches. *)

(* What the processes do meanwhile: no daemon is spawned or begins to wait. *)
NoneIsBorn ==
    /\ parent' = parent
    /\ \A d \in Daemons :
         /\ daemon'[d] = "unborn" <=> daemon[d] = "unborn"
         /\ daemon'[d] = "waiting" => daemon[d] = "waiting"
         /\ published'.owner = d => daemon'[d] \notin Young

LEMMA GoesOn ==
  ASSUME OwnerInv, LaunchInv, DaemonKinds,
         \A d \in Daemons : daemon[d] = "unborn" => daemon'[d] = "unborn"
  PROVE  NoneIsBorn
<1> USE DEF OwnerInv, LaunchInv, TypeOK, Young
<1>1. CASE Same
  BY <1>1 DEF Same, NoneIsBorn
<1>2. ASSUME NEW d \in Daemons, Dies(d) \/ Moves(d) \/ AcquireLifetimeLock(d)
      PROVE  NoneIsBorn
  <2>1. UNCHANGED <<published, parent>>
    BY <1>2 DEF Dies, Moves, AcquireLifetimeLock, launcher, files, processes
  <2>2. CASE Dies(d)
    BY <2>1, <2>2 DEF Dies, NoneIsBorn
  <2>3. CASE Moves(d)
    BY <2>1, <2>3 DEF Moves, NoneIsBorn
  <2>4. CASE AcquireLifetimeLock(d)
    BY <2>1, <2>4 DEF AcquireLifetimeLock, NoneIsBorn
  <2> QED BY <1>2, <2>2, <2>3, <2>4
<1>3. ASSUME NEW d \in Daemons, PublishStarting(d) PROVE NoneIsBorn
  <2>1. published'.owner = d /\ parent' = parent
        /\ daemon' = [daemon EXCEPT ![d] = "starting"] /\ daemon[d] = "locked"
    BY <1>3 DEF PublishStarting
  <2> QED BY <2>1 DEF NoneIsBorn
<1>4. ASSUME NEW d \in Daemons, PublishReady(d) \/ Exit(d) PROVE NoneIsBorn
  <2>1. /\ published'.owner = published.owner /\ parent' = parent
        /\ daemon[d] \in {"serving", "stopping", "failing"}
        /\ \E s \in {"ready", "dead"} : daemon' = [daemon EXCEPT ![d] = s]
    BY <1>4 DEF PublishReady, Exit, OwnerSpeaks, Publishing, Holding, States, processes
  <2> QED BY <2>1 DEF NoneIsBorn
<1>5. ASSUME NEW d \in Daemons, Born(d) PROVE NoneIsBorn
  BY <1>5 DEF Born
<1> QED BY <1>1, <1>2, <1>3, <1>4, <1>5 DEF DaemonKinds

(* A step of the daemons, or of a call that stays where it is. *)
LEMMA LaunchesGoOn ==
  ASSUME LaunchInv, NoneIsBorn, UNCHANGED <<stage, child, result, launchLock>>
  PROVE  LaunchInv'
  BY DEF LaunchInv, NoneIsBorn

(* A call that ends or whose child is reaped lets go of the launch lock. *)
LEMMA CallIsDone ==
  ASSUME OwnerInv, LaunchInv, NoneIsBorn, NEW c \in Calls, child' = child,
         stage' = [stage EXCEPT ![c] = "done"], launchLock' = Released(launchLock, c),
         \A e \in Calls \ {c} : result'[e] = result[e],
         \A d \in Daemons : daemon[d] = "waiting" /\ parent[d] = c =>
           result'[c] = "died"
  PROVE  LaunchInv'
<1>1. /\ stage'[c] = "done"
      /\ \A e \in Calls \ {c} : stage'[e] = stage[e] /\ result'[e] = result[e]
  BY DEF OwnerInv, TypeOK
<1>2. \A e \in Calls :
        launchLock' = e <=> stage'[e] \in {"locked", "launched", "reaping"}
  BY <1>1, NoOneIsNoProcess DEF LaunchInv, Released
<1>3. \A d \in Daemons : parent[d] = parent'[d] /\ child' = child
  BY DEF NoneIsBorn
<1>4. ASSUME NEW d \in Daemons, daemon'[d] = "waiting", result'[parent[d]] # "died"
      PROVE  stage'[parent[d]] \in {"launched", "reaping"} /\ child[parent[d]] = d
  <2>1. daemon[d] = "waiting" /\ parent[d] \in Calls \ {c}
    BY <1>4 DEF NoneIsBorn, LaunchInv
  <2> QED BY <1>1, <1>4, <2>1 DEF LaunchInv
<1> QED BY <1>1, <1>2, <1>3, <1>4 DEF LaunchInv, NoneIsBorn

(* A daemon that waits is watched by the call that spawned it. *)
LEMMA WaitingIsWatched ==
  ASSUME LaunchInv, NEW c \in Calls, stage[c] # "done", NEW d \in Daemons,
         daemon[d] = "waiting", parent[d] = c
  PROVE  /\ stage[c] \in {"launched", "reaping"} /\ child[c] = d
         /\ Alive(child[c]) /\ published.owner # child[c]
  BY DEF LaunchInv, Alive, Young

LEMMA EndLaunch ==
  ASSUME OwnerInv, LaunchInv, NoneIsBorn, NEW c \in Calls, Looking(c),
         NEW how \in {"broker", "error"}, NEW kept \in BOOLEAN, End(c, how, kept),
         kept => published.owner = child[c]
  PROVE  LaunchInv'
<1>1. /\ result' = [result EXCEPT ![c] = how] /\ result'[c] = how
      /\ child' = child /\ \A e \in Calls \ {c} : result'[e] = result[e]
  BY DEF End, OwnerInv, TypeOK
<1>2. CASE stage[c] = "launched" /\ ~kept /\ Alive(child[c])
  <2>1. stage' = [stage EXCEPT ![c] = "reaping"] /\ launchLock' = launchLock
    BY <1>2 DEF End
  <2>2. /\ stage'[c] = "reaping"
        /\ \A e \in Calls \ {c} : stage'[e] = stage[e]
    BY <2>1 DEF OwnerInv, TypeOK
  <2>3. \A d \in Daemons : daemon'[d] = "waiting" /\ parent[d] = c => child[c] = d
    BY <1>2, WaitingIsWatched DEF NoneIsBorn
  <2>4. ASSUME NEW d \in Daemons, daemon'[d] = "waiting", result'[parent[d]] # "died"
        PROVE  stage'[parent[d]] \in {"launched", "reaping"} /\ child[parent[d]] = d
    <3>1. daemon[d] = "waiting" /\ parent[d] \in Calls
      BY <2>4 DEF NoneIsBorn, LaunchInv
    <3>2. CASE parent[d] = c
      BY <2>2, <2>3, <2>4, <3>2
    <3>3. CASE parent[d] # c
      BY <1>1, <2>2, <2>4, <3>1, <3>3 DEF LaunchInv
    <3> QED BY <3>2, <3>3
  <2>5. \A e \in Calls :
          /\ launchLock' = e <=> stage'[e] \in {"locked", "launched", "reaping"}
          /\ stage'[e] \in {"launched", "reaping"} =>
                child'[e] \in Daemons /\ daemon'[child'[e]] # "unborn"
          /\ result'[e] = "died" => stage'[e] = "done"
    BY <1>1, <1>2, <2>1, <2>2 DEF LaunchInv, NoneIsBorn
  <2> QED BY <1>1, <2>4, <2>5 DEF LaunchInv, NoneIsBorn
<1>3. CASE ~(stage[c] = "launched" /\ ~kept /\ Alive(child[c]))
  <2>1. /\ stage' = [stage EXCEPT ![c] = "done"]
        /\ launchLock' = Released(launchLock, c)
    BY <1>3 DEF End
  <2>2. \A d \in Daemons : ~(daemon[d] = "waiting" /\ parent[d] = c)
    BY <1>3, WaitingIsWatched DEF Looking
  <2> QED BY <1>1, <2>1, <2>2, CallIsDone
<1> QED BY <1>2, <1>3

(* A process that is signalled was born. *)
LEMMA EndKeepsUnborn ==
  ASSUME OwnerInv, NEW c \in Calls, NEW how, NEW kept, End(c, how, kept),
         NEW d \in Daemons, daemon[d] = "unborn"
  PROVE  daemon'[d] = "unborn"
  BY DEF End, Terminated, Alive, OwnerInv, TypeOK

LEMMA LaunchInit == Init => LaunchInv
  BY NoOneIsNoProcess DEF Init, LaunchInv, Young, NoState

LEMMA LaunchStep == ElectionInv /\ [Next]_vars => LaunchInv'
<1> SUFFICES ASSUME OwnerInv, LaunchInv, [Next]_vars PROVE LaunchInv'
  BY DEF ElectionInv
<1> DEFINE Unborn == \A d \in Daemons : daemon[d] = "unborn" => daemon'[d] = "unborn"
<1> USE DEF files, launcher, processes
<1>1. DaemonKinds
  BY Kinds DEF OwnerInv
<1>2. Unborn => NoneIsBorn
  BY <1>1, GoesOn
<1>3. ASSUME NEW c \in Calls, Call(c) \/ Read(c) \/ Answers(c) \/ Silent(c)
                               \/ ReRead(c) \/ Poll(c) \/ DeadlinePasses(c)
      PROVE  LaunchInv'
  <2>1. CASE Call(c)
    <3>1. /\ stage[c] = "idle" /\ stage' = [stage EXCEPT ![c] = "first"]
          /\ UNCHANGED <<child, result, launchLock, daemon, parent, published>>
      BY <2>1 DEF Call
    <3> QED BY <3>1 DEF LaunchInv, OwnerInv, TypeOK, ProbeIsOld
  <2>2. CASE ~Call(c)
    <3>1. UNCHANGED <<stage, child, result, launchLock, daemon>>
      BY <1>3, <2>2 DEF Read, Answers, Silent, ReRead, Poll, DeadlinePasses
    <3> QED BY <3>1, <1>2, LaunchesGoOn
  <2> QED BY <2>1, <2>2
<1>4. ASSUME NEW c \in Calls, TryLock(c) PROVE LaunchInv'
  <2>1. stage[c] \in {"first", "contending"}
        /\ UNCHANGED <<child, result, daemon, parent, published>>
    BY <1>4 DEF TryLock
  <2>2. CASE launchLock = NoOne
    <3>1. launchLock' = c /\ stage' = [stage EXCEPT ![c] = "locked"]
      BY <1>4, <2>2 DEF TryLock
    <3> QED BY <2>1, <2>2, <3>1, NoOneIsNoProcess DEF LaunchInv, OwnerInv, TypeOK
  <2>3. CASE launchLock # NoOne
    <3>1. launchLock' = launchLock /\ stage' = [stage EXCEPT ![c] = "contending"]
      BY <1>4, <2>3 DEF TryLock
    <3> QED BY <2>1, <2>3, <3>1 DEF LaunchInv, OwnerInv, TypeOK
  <2> QED BY <2>2, <2>3
<1>5. ASSUME NEW c \in Calls,
             ReadMismatch(c) \/ ChildExited(c) \/ TimesOut(c) \/ Cancelled(c)
      PROVE  LaunchInv'
  <2>1. End(c, "error", FALSE) /\ Looking(c)
    BY <1>5 DEF ReadMismatch, ChildExited, TimesOut, Cancelled, Looking
  <2>2. NoneIsBorn
    BY <1>2, <2>1, EndKeepsUnborn
  <2> QED BY <2>1, <2>2, EndLaunch
<1>6. ASSUME NEW c \in Calls, Return(c) PROVE LaunchInv'
  <2> DEFINE kept == published.protocol = Protocol(c) /\ published.owner = child[c]
             how == IF published.protocol = Protocol(c) THEN "broker" ELSE "error"
  <2>1. End(c, how, kept) /\ Looking(c) /\ how \in {"broker", "error"}
        /\ kept \in BOOLEAN /\ (kept => published.owner = child[c])
    BY <1>6 DEF Return
  <2> HIDE DEF how, kept
  <2>2. NoneIsBorn
    BY <1>2, <2>1, EndKeepsUnborn
  <2> QED BY <2>1, <2>2, EndLaunch
<1>7. ASSUME NEW c \in Calls, Spawn(c) PROVE LaunchInv'
  <2>1. PICK d \in Daemons : /\ daemon[d] = "unborn"
                             /\ daemon' = [daemon EXCEPT ![d] = "waiting"]
                             /\ parent' = [parent EXCEPT ![d] = c]
                             /\ child' = [child EXCEPT ![c] = d]
    BY <1>7 DEF Spawn
  <2>2. /\ stage[c] = "locked" /\ stage' = [stage EXCEPT ![c] = "launched"]
        /\ UNCHANGED <<launchLock, result, published>>
    BY <1>7 DEF Spawn
  <2>3. \A e \in Daemons : ~(daemon[e] = "waiting" /\ parent[e] = c)
    BY <2>2 DEF LaunchInv
  <2>4. \A e \in Calls :
          /\ launchLock' = e <=> stage'[e] \in {"locked", "launched", "reaping"}
          /\ result'[e] = "died" => stage'[e] = "done"
    BY <2>2 DEF LaunchInv, OwnerInv, TypeOK
  <2>5. ASSUME NEW e \in Calls, stage'[e] \in {"launched", "reaping"}
        PROVE  child'[e] \in Daemons /\ daemon'[child'[e]] # "unborn"
    BY <2>1, <2>2, <2>5 DEF LaunchInv, OwnerInv, TypeOK
  <2>6. ASSUME NEW e \in Daemons
        PROVE  /\ daemon'[e] # "unborn" => parent'[e] \in Calls
               /\ daemon'[e] = "waiting" /\ result'[parent'[e]] # "died" =>
                     /\ stage'[parent'[e]] \in {"launched", "reaping"}
                     /\ child'[parent'[e]] = e
               /\ published'.owner = e => daemon'[e] \notin Young
    <3>1. CASE e = d
      BY <2>1, <2>2, <3>1 DEF LaunchInv, OwnerInv, TypeOK, Young
    <3>2. CASE e # d
      <4>1. daemon'[e] = daemon[e] /\ parent'[e] = parent[e]
        BY <2>1, <3>2 DEF OwnerInv, TypeOK
      <4>2. \A f \in Calls \ {c} : stage'[f] = stage[f] /\ child'[f] = child[f]
        BY <2>1, <2>2 DEF OwnerInv, TypeOK
      <4> QED BY <2>2, <2>3, <4>1, <4>2 DEF LaunchInv
    <3> QED BY <3>1, <3>2
  <2> QED BY <2>4, <2>5, <2>6 DEF LaunchInv
<1>8. ASSUME NEW c \in Calls, Reaped(c) PROVE LaunchInv'
  <2>1. /\ stage[c] = "reaping" /\ ~Alive(child[c])
        /\ stage' = [stage EXCEPT ![c] = "done"]
        /\ launchLock' = Released(launchLock, c)
        /\ UNCHANGED <<child, result, daemon>>
    BY <1>8 DEF Reaped
  <2>2. \A d \in Daemons : ~(daemon[d] = "waiting" /\ parent[d] = c)
    BY <2>1, WaitingIsWatched
  <2> QED BY <1>2, <2>1, <2>2, CallIsDone
<1>9. ASSUME NEW c \in Calls, ProxyDies(c) PROVE LaunchInv'
  <2>1. /\ stage' = [stage EXCEPT ![c] = "done"]
        /\ launchLock' = Released(launchLock, c)
        /\ UNCHANGED <<child, daemon>>
        /\ result'[c] = "died" /\ \A e \in Calls \ {c} : result'[e] = result[e]
    BY <1>9 DEF ProxyDies, OwnerInv, TypeOK
  <2> QED BY <1>2, <2>1, CallIsDone
<1>10. ASSUME NEW c \in Calls, KillChild(c) PROVE LaunchInv'
  <2>1. Unborn
    BY <1>10 DEF KillChild, Alive, OwnerInv, TypeOK
  <2> QED BY <1>2, <1>10, <2>1, LaunchesGoOn DEF KillChild
<1>11. ASSUME NEW d \in Daemons, DaemonStep(d) \/ DaemonKilled(d) PROVE LaunchInv'
  <2>1. /\ UNCHANGED <<stage, child, result, launchLock>>
        /\ daemon[d] # "unborn"
        /\ \A e \in Daemons \ {d} : daemon'[e] = daemon[e]
    BY <1>11 DEF DaemonStep, AcquireLifetimeLock, GivesUpLock, PublishStarting,
       Listen, PublishReady, ServerFails, ServerStops, Exit, DaemonKilled, Alive,
       OwnerInv, TypeOK
  <2> QED BY <1>2, <2>1, LaunchesGoOn
<1>12. CASE StopBroker
  <2>1. UNCHANGED <<stage, child, result, launchLock>>
    BY <1>12 DEF StopBroker
  <2>2. Unborn
    BY <1>12 DEF StopBroker, Terminated, Alive, OwnerInv, TypeOK
  <2> QED BY <1>2, <2>1, <2>2, LaunchesGoOn
<1>13. CASE UNCHANGED vars
  BY <1>13, <1>2, LaunchesGoOn DEF vars
<1> QED BY <1>3, <1>4, <1>5, <1>6, <1>7, <1>8, <1>9, <1>10, <1>11, <1>12, <1>13
       DEF Next, LauncherStep

LEMMA ElectionInit == Init => ElectionInv
  BY OwnerInit, LaunchInit DEF ElectionInv

LEMMA ElectionStep == ElectionInv /\ [Next]_vars => ElectionInv'
  BY OwnerInvStep, LaunchStep DEF ElectionInv

(* The invariant holds throughout: lock, discovery file and daemons agree, and *)
(* no probe has a snapshot newer than whoever answered it.                     *)
THEOREM ElectionInvariant == Spec => []ElectionInv
  BY ElectionInit, ElectionStep, PTL DEF Spec

(* Whoever serves the port is named by the discovery file and holds the        *)
(* lifetime lock, for any number of proxies, daemons, kills and stop requests. *)
THEOREM EndpointIsPublished == Spec => []ServingIsPublished
  <1>1. ElectionInv => ServingIsPublished
    BY DEF ElectionInv, OwnerInv, OwnerSpeaks, LockIsHeld, ServingIsPublished, Listening,
           Publishing, Holding
  <1>2. QED  BY <1>1, ElectionInvariant, PTL

(* A returned broker is the process that answered the probe of that call.      *)
THEOREM ReturnedAnswered == Spec => []ReturnedWasServing
  <1>1. ElectionInv => ReturnedWasServing  BY DEF ElectionInv, OwnerInv
  <1>2. QED  BY <1>1, ElectionInvariant, PTL

(* The discovery file never goes back to an earlier owner or generation.       *)
THEOREM GenerationsNeverGoBack == Spec => GenerationsGrow
  <1> DEFINE Grows == \/ published'.generation = published.generation
                         /\ published'.owner = published.owner
                      \/ published'.generation = published.generation + 1
                         /\ published'.status = "starting"
  <1>1. ElectionInv /\ [Next]_vars => [Grows]_published
    <2> SUFFICES ASSUME ElectionInv, [Next]_vars, published' # published PROVE Grows
      OBVIOUS
    <2>1. DaemonKinds  BY Kinds DEF ElectionInv, OwnerInv
    <2>2. PICK d \in Daemons : PublishStarting(d) \/ PublishReady(d) \/ Exit(d)
      BY <2>1 DEF DaemonKinds, Same, Dies, Born, Moves, AcquireLifetimeLock
    <2>3. CASE PublishStarting(d)
      BY <2>3 DEF PublishStarting, NextGeneration
    <2>4. CASE PublishReady(d) \/ Exit(d)
      BY <2>4 DEF PublishReady, Exit, ElectionInv, OwnerInv, OwnerSpeaks, Publishing, Holding,
                  TypeOK, States
    <2>5. QED  BY <2>2, <2>3, <2>4
  <1>2. QED  BY <1>1, ElectionInvariant, PTL DEF Spec, GenerationsGrow

(* Failed, overtaken and cancelled launches leave no stray process: unless its *)
(* proxy died, a daemon that is not the owner is the one child of the call     *)
(* that holds the launch lock.                                                 *)
THEOREM ElectionReapsChildren == Spec => []ChildrenAreReaped
<1>1. ElectionInv => ChildrenAreReaped
  <2> SUFFICES ASSUME ElectionInv PROVE ChildrenAreReaped
    OBVIOUS
  <2> DEFINE stray == {d \in Daemons : /\ Alive(d) /\ lifetimeLock # d
                                       /\ result[parent[d]] # "died"}
  <2>1. ASSUME NEW d \in stray
        PROVE  /\ stage[parent[d]] \in {"launched", "reaping"}
               /\ child[parent[d]] = d /\ launchLock = parent[d]
    <3>1. daemon[d] = "waiting"
      BY DEF Alive, ElectionInv, OwnerInv, LockIsHeld, Holding, TypeOK
    <3> QED BY <3>1 DEF ElectionInv, LaunchInv
  <2>2. stray \subseteq {child[launchLock]}
    BY <2>1
  <2>3. Cardinality(stray) <= 1
    <3>1. IsFiniteSet({child[launchLock]}) /\ Cardinality({child[launchLock]}) = 1
      BY FS_Singleton
    <3> HIDE DEF stray
    <3>2. Cardinality(stray) <= Cardinality({child[launchLock]})
      BY <2>2, <3>1, FS_Subset
    <3> QED BY <3>1, <3>2
  <2> QED BY <2>1, <2>3 DEF ChildrenAreReaped
<1> QED BY <1>1, ElectionInvariant, PTL

------------------------------------------------------------------------------
(* The refinement of BrokerOwnership. *)

(* Who publishes is the owner that the discovery file names. *)
LEMMA PublisherOwns ==
  ASSUME OwnerInv, NEW d \in Daemons, daemon[d] \in Publishing
  PROVE  published.owner = d
  BY DEF OwnerInv, OwnerSpeaks

(* A step that leaves the owner alone is a stutter of BrokerOwnership. *)
LEMMA OwnerIsLeft ==
  ASSUME published'.owner = published.owner,
         published'.generation = published.generation,
         published.owner \in Daemons => daemon'[published.owner] = daemon[published.owner]
  PROVE  UNCHANGED <<published.generation, OwnerHealth>>
  BY DEF OwnerHealth, Alive, Listening

LEMMA OwnershipInit == Init => Ownership!Init
  BY NoOneIsNoProcess DEF Init, NoState, Ownership!Init, OwnerHealth, Alive

LEMMA OwnershipStep ==
  ASSUME ElectionInv, [Next]_vars
  PROVE  [Ownership!Next]_<<published.generation, OwnerHealth>>
<1> DEFINE Stays == UNCHANGED <<published.generation, OwnerHealth>>
           o == published.owner
<1> USE DEF ElectionInv, OwnerInv
<1>1. DaemonKinds
  BY Kinds
<1>2. CASE Same
  BY <1>2, OwnerIsLeft DEF Same
<1>3. ASSUME NEW d \in Daemons, Dies(d) PROVE Stays \/ Ownership!Die
  <2>1. CASE o = d
    <3>1. OwnerHealth # "dead"
      BY <1>3, <2>1 DEF Dies, OwnerHealth, Alive
    <3>2. OwnerHealth' = "dead" /\ published' = published
      BY <1>3, <2>1 DEF Dies, OwnerHealth, Alive, TypeOK
    <3> QED BY <3>1, <3>2 DEF Ownership!Die
  <2>2. CASE o # d
    BY <1>3, <2>2, OwnerIsLeft DEF Dies, TypeOK
  <2> QED BY <2>1, <2>2
<1>4. ASSUME NEW d \in Daemons, Born(d) \/ AcquireLifetimeLock(d) PROVE Stays
  <2>1. o # d
    BY <1>4 DEF Born, AcquireLifetimeLock, LaunchInv, Young
  <2>2. published' = published /\ \A e \in Daemons \ {d} : daemon'[e] = daemon[e]
    BY <1>4 DEF Born, AcquireLifetimeLock, TypeOK
  <2> QED BY <2>1, <2>2, OwnerIsLeft
<1>5. ASSUME NEW d \in Daemons, Moves(d)
      PROVE  Stays \/ Ownership!Serve \/ Ownership!Hang
  <2>1. o = d /\ daemon[d] \in {"starting", "serving", "ready"}
    BY <1>5, PublisherOwns DEF Moves, Publishing, Holding
  <2>2. /\ published' = published
        /\ daemon'[d] \in {"serving", "failing", "stopping"}
    BY <1>5 DEF Moves, TypeOK
  <2>3. OwnerHealth = IF daemon[d] = "starting" THEN "starting" ELSE "serving"
    BY <2>1 DEF OwnerHealth, Alive, Listening
  <2>4. OwnerHealth' = IF daemon'[d] = "serving" THEN "serving" ELSE "hung"
    BY <2>1, <2>2 DEF OwnerHealth, Alive, Listening
  <2> QED BY <2>2, <2>3, <2>4 DEF Ownership!Serve, Ownership!Hang
<1>6. ASSUME NEW d \in Daemons, PublishStarting(d) PROVE Ownership!Replace
  <2>1. daemon[d] = "locked"
    BY <1>6 DEF PublishStarting
  <2>2. OwnerHealth = "dead"
    <3>1. CASE o \in Daemons
      <4>1. daemon[o] \notin Holding
        BY <2>1, <3>1, OnlyOneHolds DEF LaunchInv, Young, Holding
      <4>2. daemon[o] \in {"unborn", "dead"}
        BY <3>1, <4>1 DEF TypeOK, Holding, LaunchInv, Young
      <4> QED BY <4>2 DEF OwnerHealth, Alive
    <3>2. CASE o \notin Daemons
      BY <3>2 DEF OwnerHealth, Alive
    <3> QED BY <3>1, <3>2
  <2>3. /\ published'.owner = d
        /\ published'.generation = published.generation + 1
        /\ daemon'[d] = "starting"
    BY <1>6 DEF PublishStarting, NextGeneration, TypeOK
  <2>4. OwnerHealth' = "starting"
    BY <2>3 DEF OwnerHealth, Alive
  <2> QED BY <2>2, <2>3, <2>4 DEF Ownership!Replace
<1>7. ASSUME NEW d \in Daemons, PublishReady(d) PROVE Stays
  <2>1. daemon[d] = "serving" /\ o = d
    BY <1>7, PublisherOwns DEF PublishReady, Publishing, Holding
  <2>2. /\ published'.owner = d /\ published'.generation = published.generation
        /\ daemon'[d] = "ready"
    BY <1>7, <2>1 DEF PublishReady, OwnerSpeaks, Publishing, Holding, TypeOK, States
  <2> QED BY <2>1, <2>2 DEF OwnerHealth, Alive, Listening
<1>8. ASSUME NEW d \in Daemons, Exit(d) PROVE Ownership!Die
  <2>1. daemon[d] \in {"stopping", "failing"} /\ o = d
    BY <1>8, PublisherOwns DEF Exit, Publishing, Holding
  <2>2. /\ published'.owner = d /\ published'.generation = published.generation
        /\ daemon'[d] = "dead"
    BY <1>8, <2>1 DEF Exit, OwnerSpeaks, Publishing, Holding, TypeOK, States
  <2> QED BY <2>1, <2>2 DEF OwnerHealth, Alive, Listening, Ownership!Die
<1> QED BY <1>1, <1>2, <1>3, <1>4, <1>5, <1>6, <1>7, <1>8
       DEF DaemonKinds, Ownership!Next

(* The election implements BrokerOwnership: whatever is killed, stopped or     *)
(* overtaken, brokers own the endpoint one after the other, each with the next *)
(* generation and none before the end of its predecessor.                      *)
THEOREM ElectionKeepsOwnership == Spec => KeepsOwnership
<1>1. ElectionInv /\ [Next]_vars => [Ownership!Next]_<<published.generation, OwnerHealth>>
  BY OwnershipStep
<1> QED BY <1>1, OwnershipInit, ElectionInvariant, PTL
       DEF Spec, KeepsOwnership, Ownership!Spec
==============================================================================
