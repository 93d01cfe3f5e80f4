-------------------------- MODULE JobContractProofs --------------------------
(* JobTracking implements JobContract as long as no manifest is malformed.     *)
EXTENDS JobTrackingProofs

USE DEF Handlers, TerminalStates, States, Trackings, Sources, OutcomeKinds, disk

LEMMA ContractInit == Init => ContractInv
  BY SafetyInit DEF Init, ContractInv, DiskIsNotContradicted, VerdictIsClosed,
     VerdictStates, Snapshot

(* The journal after a step of a live broker: untouched, failed or written. *)
LEMMA JournalOf ==
  ASSUME BrokerStep \/ BrokerDies
  PROVE  \/ UNCHANGED disk
         \/ behind' = TRUE /\ journal' = journal
         \/ behind' = FALSE /\ \A j \in Jobs : journal'[j].state = state'[j]
  <1>1. CASE UNCHANGED disk  BY <1>1
  <1>2. CASE Persist  BY <1>2, Written
  <1>3. QED  BY <1>1, <1>2 DEF BrokerStep, BrokerDies

(* A live broker changes the state of a job in these ways only. *)
LEMMA StateStep ==
  ASSUME ContractInv, BrokerStep, NEW j \in Jobs
  PROVE  /\ state[j] \in VerdictStates => state'[j] \in {state[j], "gone"}
         /\ state[j] = "gone" => state'[j] = "gone"
         /\ state[j] = "absent" => state'[j] \in {"absent", "running"}
         /\ state[j] # "absent" => state'[j] # "absent"
  <1>1. /\ JobStep(j)
        /\ state[j] \in VerdictStates => tracking[j] = "complete"
    BY DEF BrokerStep, ContractInv, VerdictIsClosed
  <1>2. QED
    BY <1>1 DEF JobStep, Untouched, Moved, Judged, Started, VerdictStates

LEMMA ContractStep ==
  ASSUME "malformed" \notin Outcomes, ContractInv, [Next]_vars
  PROVE  ContractInv'
  <1> USE DEF ContractInv, VerdictStates
  <1>1. SafetyInv'  BY SafetyStep
  <1>2. CASE BrokerStep
    <2>1. DiskIsNotContradicted'
      <3> SUFFICES ASSUME NEW j \in Jobs
                   PROVE  journal'[j].state \in VerdictStates =>
                            state'[j] \in {journal'[j].state, "gone"}
        BY DEF DiskIsNotContradicted
      <3>1. CASE journal'[j].state = state'[j]  BY <3>1
      <3>2. CASE journal' = journal
        BY <1>2, <3>2, StateStep DEF DiskIsNotContradicted, BrokerStep
      <3>3. QED  BY <1>2, <3>1, <3>2, JournalOf
    <2>2. VerdictIsClosed'
      <3> SUFFICES ASSUME NEW j \in Jobs
                   PROVE  /\ state'[j] \in VerdictStates => tracking'[j] = "complete"
                          /\ state'[j] = "gone" => tracking'[j] = "none"
        BY DEF VerdictIsClosed
      <3>1. kernel[j] # "malformed"
        BY DEF SafetyInv, MarkersAreTrue
      <3>2. JobStep(j)  BY <1>2 DEF BrokerStep
      <3>3. QED
        BY <3>1, <3>2 DEF JobStep, Untouched, Moved, Judged, Started,
                          VerdictIsClosed
    <2>3. QED  BY <1>1, <2>1, <2>2
  <1>3. CASE IdleStep \/ KernelStep \/ \E j \in Jobs : Send(j)
    <2>1. UNCHANGED <<state, tracking, disk, broker>>
      BY <1>3 DEF IdleStep, KernelStep, KernelDies, KernelStarts, KernelFinishes,
                  RequestLost, Send, job, control
    <2>2. QED  BY <1>1, <2>1 DEF DiskIsNotContradicted, VerdictIsClosed, BrokerUp
  <1>4. CASE BrokerDies
    BY <1>1, <1>4 DEF BrokerDies, ProcessEnds, job, DiskIsNotContradicted,
                      VerdictIsClosed, BrokerUp
  <1>5. CASE Restart
    <2>1. ASSUME NEW j \in Jobs
          PROVE  /\ journal'[j] = journal[j]
                 /\ state'[j] = IF journal[j].state = "absent" /\ state[j] # "absent"
                                THEN "gone" ELSE RestoredState(journal[j])
                 /\ tracking'[j] = RestoredTracking(journal[j])
                 /\ Proven(journal[j], j)
                 /\ journal[j].state \in States
      BY <1>5 DEF Restart, SafetyInv, AllProven, TypeOK, Records
    <2>2. DiskIsNotContradicted'
      BY <2>1 DEF DiskIsNotContradicted, RestoredState, Proven
    <2>3. VerdictIsClosed'
      BY <2>1 DEF VerdictIsClosed, RestoredState, RestoredTracking, Recoverable
    <2>4. QED  BY <1>1, <2>2, <2>3
  <1>6. QED  BY <1>2, <1>3, <1>4, <1>5, StepKinds

------------------------------------------------------------------------------
(* Every step maps to a step of the contract or to a stutter. *)

recordBar   == [j \in Jobs |-> RecordOf(journal[j])]
outcomeBar  == [j \in Jobs |-> OutcomeOf(kernel[j])]

LEMMA RecordType ==
  ASSUME NEW r \in Records
  PROVE  RecordOf(r) \in {"finished", "error", "abandoned", "none", "open", "forgotten"}
  BY DEF RecordOf, Records

LEMMA AllowedSuccessors ==
  ASSUME NEW j \in Jobs, NEW v,
         \/ v = recordBar[j]
         \/ recordBar[j] \in {"none", "open"} /\ v \in {"open", "forgotten"}
         \/ /\ recordBar[j] = "open" \/ (recordBar[j] = "none" /\ behind)
            /\ \/ v = "abandoned"
               \/ v = "finished" /\ outcomeBar[j] = "finished"
               \/ v = "error" /\ outcomeBar[j] = "failed"
         \/ recordBar[j] \in Contract!Verdicts /\ v = "forgotten"
  PROVE  v \in Contract!Successors(j)
  <1> DEFINE b == recordBar[j]
  <1>1. /\ [i \in Jobs |-> RecordOf(journal[i])][j] = b
        /\ [i \in Jobs |-> OutcomeOf(kernel[i])][j] = outcomeBar[j]
    BY DEF recordBar, outcomeBar
  <1> HIDE DEF b
  <1>2. CASE b = "none"
    BY <1>1, <1>2 DEF Contract!Successors, Contract!Allowed, Contract!Verdicts, b
  <1>3. CASE b = "open"
    BY <1>1, <1>3 DEF Contract!Successors, Contract!Allowed, Contract!Verdicts, b
  <1>4. CASE b \in Contract!Verdicts
    BY <1>1, <1>4 DEF Contract!Successors, Contract!Verdicts, b
  <1>5. CASE b \notin {"none", "open"} \cup Contract!Verdicts
    BY <1>1, <1>5 DEF Contract!Successors, Contract!Verdicts, b
  <1>6. QED  BY <1>2, <1>3, <1>4, <1>5

(* A write of a live or dying broker that succeeds is a WriteRecord.           *)
LEMMA WriteStep ==
  ASSUME SafetyInv, SafetyInv', DiskIsNotContradicted, BrokerUp,
         UNCHANGED <<kernel, sends>>, behind' = FALSE,
         \A j \in Jobs : journal'[j].state = state'[j],
         \A j \in Jobs :
           /\ state[j] \in VerdictStates => state'[j] \in {state[j], "gone"}
           /\ state[j] = "gone" => state'[j] = "gone"
           /\ state[j] = "absent" => state'[j] \in {"absent", "running"}
           /\ state[j] # "absent" => state'[j] # "absent"
  PROVE  Contract!WriteRecord
  <1>1. recordBar' \in [Jobs -> Contract!Verdicts \cup {"none", "open", "forgotten"}]
    BY RecordType DEF recordBar, SafetyInv, TypeOK, Contract!Verdicts
  <1>2. ASSUME NEW j \in Jobs PROVE recordBar'[j] \in Contract!Successors(j)
    <2>1. /\ recordBar[j] = RecordOf(journal[j])
          /\ recordBar'[j] = RecordOf(journal'[j])
          /\ outcomeBar[j] = OutcomeOf(kernel[j])
          /\ journal[j].state \in States
          /\ journal'[j].state \in States
      BY DEF recordBar, outcomeBar, SafetyInv, TypeOK, Records
    <2>2. /\ recordBar'[j] = "finished" => outcomeBar[j] = "finished"
          /\ recordBar'[j] = "error" => outcomeBar[j] = "failed"
      BY <2>1 DEF RecordOf, SafetyInv, AllProven, Proven, OutcomeOf
    <2>3. ASSUME recordBar[j] = "open" \/ (recordBar[j] = "none" /\ behind),
                 recordBar'[j] \in {"open", "forgotten", "abandoned", "finished", "error"}
          PROVE  recordBar'[j] \in Contract!Successors(j)
      BY <2>2, <2>3, AllowedSuccessors
    <2>4. ASSUME recordBar[j] = "none",
                 recordBar'[j] \in {"none", "open", "forgotten"}
          PROVE  recordBar'[j] \in Contract!Successors(j)
      BY <2>4, AllowedSuccessors
    <2> USE <2>1 DEF RecordOf, Contract!Verdicts
    <2>5. CASE journal[j].state = "absent" /\ ~behind
      <3>1. journal'[j].state \in {"absent", "running", "gone"}
        BY <2>5 DEF SafetyInv, SameJobs
      <3>2. recordBar[j] = "none" /\ recordBar'[j] \in {"none", "open", "forgotten"}
        BY <2>5, <3>1
      <3>3. QED  BY <2>4, <3>2
    <2>6. CASE journal[j].state = "absent" /\ behind
      <3>1. recordBar[j] = "none"
        BY <2>6
      <3>2. CASE recordBar'[j] = "none"
        BY <2>4, <3>1, <3>2
      <3>3. CASE recordBar'[j] # "none"
        <4>1. recordBar'[j] \in {"open", "forgotten", "abandoned", "finished", "error"}
          BY <3>3
        <4>2. QED  BY <2>6, <2>3, <3>1, <4>1
      <3>4. QED  BY <3>2, <3>3
    <2>7. CASE journal[j].state \in {"running", "timed_out"}
      <3>1. journal'[j].state # "absent"
        BY <2>7 DEF SafetyInv, SameJobs
      <3>2. recordBar[j] = "open"
        BY <2>7
      <3>3. recordBar'[j] \in {"open", "forgotten", "abandoned", "finished", "error"}
        BY <3>1
      <3>4. QED  BY <2>3, <3>2, <3>3
    <2>8. CASE journal[j].state \in VerdictStates
      <3>1. journal'[j].state \in {journal[j].state, "gone"}
        BY <2>8 DEF DiskIsNotContradicted, VerdictStates
      <3>2. QED  BY <2>8, <3>1, AllowedSuccessors DEF VerdictStates
    <2>9. CASE journal[j].state = "gone"
      <3>1. journal'[j].state = "gone"
        BY <2>9 DEF SafetyInv, SameJobs
      <3>2. QED  BY <2>9, <3>1, AllowedSuccessors
    <2>10. QED  BY <2>5, <2>6, <2>7, <2>8, <2>9 DEF VerdictStates
  <1>3. QED
    BY <1>1, <1>2 DEF Contract!WriteRecord, recordBar, outcomeBar

(* A write that fails, and the replacement of a broker, in the contract. *)
LEMMA FailedWriteStep ==
  ASSUME UNCHANGED <<journal, kernel, sends>>, behind' = TRUE
  PROVE  Contract!WriteFails
  BY DEF Contract!WriteFails

LEMMA ReplacementStep ==
  ASSUME TypeOK, UNCHANGED <<journal, kernel, sends>>, behind' = FALSE
  PROVE  Contract!WriteRecord
  <1>1. recordBar' = recordBar
    BY DEF recordBar
  <1>2. recordBar \in [Jobs -> Contract!Verdicts \cup {"none", "open", "forgotten"}]
    BY RecordType DEF recordBar, TypeOK, Contract!Verdicts
  <1>3. \A j \in Jobs : recordBar[j] \in Contract!Successors(j)
    BY AllowedSuccessors
  <1>4. QED
    BY <1>1, <1>2, <1>3 DEF Contract!WriteRecord, recordBar

LEMMA StepRefines ==
  ASSUME "malformed" \notin Outcomes, ContractInv, [Next]_vars
  PROVE  [Contract!CNext]_(Contract!cvars)
  <1> USE DEF ContractInv, Contract!CNext, Contract!cvars
  <1>1. SafetyInv'  BY SafetyStep
  <1>2. CASE BrokerStep
    <2>1. UNCHANGED <<kernel, sends>> /\ BrokerUp
      BY <1>2 DEF BrokerStep
    <2>2. CASE UNCHANGED disk
      BY <2>1, <2>2
    <2>3. CASE behind' = TRUE /\ journal' = journal
      BY <2>1, <2>3, FailedWriteStep
    <2>4. CASE behind' = FALSE /\ \A j \in Jobs : journal'[j].state = state'[j]
      BY <1>1, <1>2, <2>1, <2>4, StateStep, WriteStep
    <2>5. QED  BY <1>2, <2>2, <2>3, <2>4, JournalOf
  <1>3. CASE BrokerDies
    <2>1. UNCHANGED <<state, kernel, sends>> /\ BrokerUp
      BY <1>3 DEF BrokerDies, ProcessEnds, job, runtime
    <2>2. CASE UNCHANGED disk
      BY <2>1, <2>2
    <2>3. CASE behind' = TRUE /\ journal' = journal
      BY <2>1, <2>3, FailedWriteStep
    <2>4. CASE behind' = FALSE /\ \A j \in Jobs : journal'[j].state = state'[j]
      BY <1>1, <2>1, <2>4, WriteStep
    <2>5. QED  BY <1>3, <2>2, <2>3, <2>4, JournalOf
  <1>4. CASE IdleStep
    <2>1. UNCHANGED <<disk, kernel, sends>>
      BY <1>4 DEF IdleStep
    <2>2. QED  BY <2>1
  <1>r. CASE Restart
    <2>1. UNCHANGED <<journal, kernel, sends>> /\ behind' = FALSE
      BY <1>r DEF Restart, runtime
    <2>2. QED  BY <2>1, ReplacementStep DEF SafetyInv
  <1>5. ASSUME NEW j \in Jobs, Send(j) PROVE Contract!CNext
    <2>1. Contract!Request(j)
      <3>1. (recordBar[j] = "open" \/ behind) /\ sends[j] = 0
        BY <1>5 DEF Send, SafetyInv, CreatedIsFresh, recordBar, RecordOf
      <3>2. outcomeBar' = outcomeBar /\ recordBar' = recordBar /\ behind' = behind
        <4>1. ASSUME NEW i \in Jobs PROVE OutcomeOf(kernel'[i]) = OutcomeOf(kernel[i])
          BY <1>5 DEF Send, SafetyInv, CreatedIsFresh, SentOnce, TypeOK, OutcomeOf
        <4>2. QED  BY <1>5, <4>1 DEF Send, outcomeBar, recordBar
      <3>3. sends' = [sends EXCEPT ![j] = 1]
        BY <1>5, <3>1 DEF Send
      <3>4. QED
        BY <3>1, <3>2, <3>3 DEF Contract!Request, recordBar, outcomeBar
    <2>2. QED  BY <2>1
  <1>6. CASE KernelStep
    <2>1. UNCHANGED <<disk, sends>>
      BY <1>6 DEF KernelStep, KernelDies, KernelStarts, KernelFinishes, RequestLost,
                  control
    <2>2. ASSUME NEW j \in Jobs
          PROVE  /\ outcomeBar'[j] \in {"none", "finished", "failed"}
                 /\ \/ outcomeBar'[j] = outcomeBar[j]
                    \/ outcomeBar[j] = "none" /\ sends[j] = 1
      <3>1. \/ kernel'[j] = kernel[j]
            \/ kernel[j] \in {"queued", "running"}
        BY <1>6 DEF KernelStep, KernelDies, KernelStarts, KernelFinishes,
                    RequestLost, SafetyInv, TypeOK
      <3>2. QED
        BY <3>1 DEF outcomeBar, OutcomeOf, SafetyInv, SentOnce
    <2>3. outcomeBar' \in [Jobs -> {"none", "finished", "failed"}]
      BY <2>2 DEF outcomeBar
    <2>4. Contract!Execute
      BY <2>1, <2>2, <2>3 DEF Contract!Execute, outcomeBar
    <2>5. QED  BY <2>4
  <1>7. QED  BY <1>2, <1>3, <1>4, <1>r, <1>5, <1>6, StepKinds

LEMMA InitRefines == Init => Contract!CInit
  BY DEF Init, Contract!CInit, RecordOf, OutcomeOf, Snapshot

(* What the journal says is never contradicted by memory, and a verdict closes *)
(* its job, in every run in which the manifests are well formed.               *)
THEOREM ContractInvariance ==
  ASSUME "malformed" \notin Outcomes
  PROVE  Spec => []ContractInv
  <1>1. ContractInv /\ [Next]_vars => ContractInv'
    BY ContractStep
  <1>2. QED
    BY <1>1, ContractInit, PTL DEF Spec

(* The registry implements its contract for every set of jobs and every number *)
(* of faults, provided the wrapper's manifests are well formed: the durable    *)
(* record is truthful, is never taken back, and code is requested once and     *)
(* only when recorded, unless the last write failed.                           *)
THEOREM ImplementsContract ==
  ASSUME "malformed" \notin Outcomes
  PROVE  Spec => KeepsContract
  <1>1. Init => ContractInv /\ Contract!CInit
    BY ContractInit, InitRefines
  <1>2. ContractInv /\ [Next]_vars => ContractInv'
    BY ContractStep
  <1>3. ContractInv /\ [Next]_vars => [Contract!CNext]_(Contract!cvars)
    BY StepRefines
  <1>4. QED
    BY <1>1, <1>2, <1>3, PTL DEF Spec, KeepsContract, Contract!ContractSpec
==============================================================================
