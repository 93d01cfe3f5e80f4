# Verification of the Colab connector

TLA+ modules for the concurrent, crash-prone core of the connector in
`src/colab_codex_adapter/`: the registry that tracks Python jobs through lost
transports and dead brokers, the notebook cells they run in, the session with the
browser tab, the files of large results, the election of the one detached broker,
and the recovery of tool calls in the stdio proxies. TLC
checks them on small instances; TLAPS proves the main results for every value of
the constants. File and line references are relative to `src/`; `jobs.py` stands
for `src/colab_codex_adapter/jobs.py`, and so on.

## 1. The system

```
agent -- stdio proxy --\                     /-- BrowserBridge -- websocket -- Colab tab -- kernel
agent -- stdio proxy ----> loopback broker --+-- ColabSessionManager
agent -- stdio proxy --/   (one process)      \-- ColabJobManager, ArtifactStore -- files
```

| Component | Source | State it keeps | Operations | Module |
|---|---|---|---|---|
| Job registry and recovery | `jobs.py` `ColabJobManager` | job records, one asyncio task and one completion event per job, the journal file, the reconciliation under way | `start_python`, `_execute`, `status`, `wait`, `on_browser_disconnect`, `reconcile_detached`, `mark_stale`, `detach_for_shutdown`, restore | `JobTracking` |
| Runtime wrapper and marker quota | `jobs.py` `_RUNTIME_WRAPPER` | marker files in the Colab VM | write the running marker, evict old pairs, run user code, write the terminal marker, print the manifest | `JobTracking` (kernel actions) |
| Connection listener, reconciliation loop | `server.py` 318-395 | the loop task | cancel the loop and detach jobs on a disconnect; poll when the runtime is ready | `JobTracking`, `BrowserSession` |
| Job cell pool, probe cell | `jobs.py` 660-1064 | `_job_cells`, the pending add, `cell_id` of jobs; the notebook, shared with the user | reuse or add a cell, recover an unanswered add, restore, forget on reset | `CellPool` (the probe cell is not) |
| Broker election and lifetime | `broker.py`, `broker_daemon.py` | two lock files, the discovery file, processes | `ensure_running`, `_healthy_state`, `_start_replacement`, `stop_broker`, `run_broker_daemon` | `BrokerElection`; seen by `ProxyRecovery` as `BrokerOwnership` |
| Proxy recovery | `server.py` 939-1084 | the owner each call uses | `owner_watched`, `get_tools`, `call_tool`, `replay_read_only` | `ProxyRecovery` |
| Browser session and bridge | `session.py`, `bridge.py` | connection generations, current transport, token, supervisor task | connect, close, supervise, reset, persist, `call_tool` | `BrowserSession`; seen by `JobTracking` as `conn` and by `CellPool` as connection numbers |
| Artifact store | `artifacts.py` | data and metadata files, quota, expiry, a lock | put, read, clean up | `ArtifactStore` |
| Tool surface, diagnostics, agent setup, private-state helpers | `tools.py`, `server.py`, `diagnostics.py`, `agent_setup.py`, `private_state.py` | none of their own | argument checks, shaping, redaction, one-shot file edits | out of scope: sequential, stateless |

How they interact. A proxy calls `ensure_running` before each use of the broker
and watches the owner while a call is under way. The broker serves all proxies
in one asyncio loop, so Python code between two `await`s is atomic and every
`await` is a place where any other handler may run. The session tells the
listener of transport changes; the listener calls into the job registry. The job
registry calls back into the session for every notebook operation. Journal,
browser state and discovery file are what survives a broker.

What is hard. (1) Many actors may conclude the same job: its own response, the status
tool, a disconnect, the reconciliation, a reset, shutdown, a restart. (2) A task that
is being cancelled leaves its journal write to the handler that cancels it. (3) A
crash is possible at every await, and what is restored is what was last journaled; a
journal write that fails is logged and swallowed (`jobs.py:475`), and its caller goes
on. (4) `start_python` decides on a cell and then awaits several browser calls before
it uses the decision. (5) Processes race for locks and a discovery file, and each may
die between two system calls. (6) A call may have run although its answer is lost. (7)
A session starts its generations again with each reset, while the supervisor, the
handler and the loops of the last one are still ending. (8) An artifact is two files,
and each of four file operations may be the last one of the process. `PROJECT.json`
lists each hazard at its line.

What makes each component correct:

* Job registry: no verdict the kernel did not give; code is requested at most
  once; a verdict is final; every waiter wakes and every job ends. Unless the last
  journal write failed: nothing was sent that a replacement broker would not know of,
  a verdict read by a client is durable, and a running job survives a crash.
* Cell pool: unfinished jobs never share a cell; a job runs its own code; the
  notebook grows by a bounded number of wrapper cells while journal writes succeed.
* Election: the endpoint is always the published one; a broker returned to a
  caller is the process that answered; generations grow; no stray daemons; every
  call ends.
* Proxy: a mutating tool runs once at most; its loss is reported; calls end.
* Session: the published client is that of the active connection; one
  reconciliation loop; no request answered by another tab; losses told as losses;
  the end of a runtime announced before the next one; a page that keeps connecting
  is served.
* Artifact store: an artifact appears and disappears at once and for good; the quota
  holds on disk at every moment; nothing is left half written; what is stored is
  removed only for its age or for the quota.

## 2. Modules

Module names with `Inv` hold inductive invariants, `Proofs` hold theorems, `MC`
are what TLC instantiates.

**JobTracking** has one action per stretch of code between two awaits. `Start(j)` is
the part of `start_python` after its last await: registration and task creation
(`Register`) and journal write in one stretch. Every journal write may fail
(`Persist`): the file stays as it was, the caller goes on, the request of the job
included, and the history variable `behind` is true until a later write succeeds,
which tells of everything at once. `Restart` forgets a job that no write has reached.
`Send`, `RunReturnsManifest`, `RunReturnsError`, `RunAmbiguous`, `RunTimesOut`,
`RunCancelled` are the ways through `_execute`, each with its `finally` block
(`TaskEnds`). `StatusLost` and `StatusMissing` are the effects of `status` after its
await, which re-checks the job. `OnBrowserDisconnect`, `MarkStale`,
`DetachForShutdown` start gathering cancelled tasks (`Gather`), and their `...Ends`
actions run when these have ended; `Deferred` is `_defer_task_persistence`.
`ReconcileBegin`, `ProbeReads`, `ReconcileApplies`, `ReconcileFails` are
`reconcile_detached` around its probe, `batch` its attempt ids, `Owned` its
`_owns_reconciliation`. `Crash`, `ShutdownEnds` and `Restart` connect a broker to its
replacement through `journal`. The kernel (one cell at a time), its markers, their
eviction, its death and lost requests are external actions.

**JobContract** says what the registry promises in four variables: a durable
record, a count of requests, an outcome, and whether the record lags because the
last write failed. Only then may a job be requested that is not on record.
**JobTrackingContract** maps JobTracking to it: the record is what the journal says,
never what memory says, and it lags when the journal is `behind`.

**CellPool** follows `start_python` call by call through `start.pc`. The notebook
(`where`, `src`) is external and the user edits it. A failed call may have been
carried out (`landed`). `Crash` is death and restart at once, for nothing of
the pool happens in between.

**BrokerElection** has one action per system call of a launcher
(`stage`, `probe`) and of a daemon (`daemon`). Every process may be killed
between any two. `End` is the way out of `_start_replacement` through its
`finally` block. `answerer` is a history variable: who really answered a probe.

**BrokerOwnership** is what the election amounts to for whoever uses the endpoint: an
owner (its generation) and the health of its process. A new owner is the next
generation and comes only after the end of the last. BrokerElection is mapped to it
with `owner <- published.generation` and the health of the process that the
discovery file names (`OwnerHealth`), and implements it.

**ProxyRecovery** has the brokers of BrokerOwnership (`Brokers!Replace`, `Brokers!Serve`,
`Brokers!Hang`, `Brokers!Die`), so what is proved of the calls rests on what is proved
of the election. A request goes to whoever answers at the endpoint, and runs there
even if nobody waits for it.

**BrowserSession** numbers connections by `made`, because the bridge's own
generations (`gen`) start again with each bridge. `Connect`, `SocketDrops`,
`StreamsClose`, `HandlerEnds` are the bridge's handler, which closes the client's
streams before it sets `closed`. The supervisor's `pc` names the await it is
suspended in: `Announce`, `PageAnswers`, `Ready`, `NotReady`, the failures, and
`Lost`, `Left`, `Drained`, `Reported` on its way out through the nested `finally`
clauses. `EndLoop` is what the listener does to the reconciliation task with each
transition, and `LoopEnds` a cancelled loop that has ended. A reset holds the session's
lock from `ResetBegins` to `ResetStarts`: announce, cancel the supervisor, close the
bridge, start one with a new identity. `Persist` writes the browser state file later, and
`BrokerRestarts` is a crash with the restart from that file. `Ask`, `Answer` and
`Raises` are requests to the page through `require_client`.

**RuntimeContract** is what the job registry and the tools presume of the session, in
four variables: the runtime that is up, the one whose readiness was announced, and
the fate and the taker of each request. BrowserSession is mapped to it with
`runtime <- IF IsConnected THEN client ELSE 0`. It is the contract under which
JobTracking treats `conn` and `CellPool` its connection numbers.

**ArtifactStore** has one action per file operation: a write to a temporary file, a
rename, an unlink, an open. A put, a read and a cleanup are a `call` of a thread at a
`step`. The lock of the class is `holder`, a set, so that the model does not presume
what the lock is for. `Locks`, `UnlinkMeta`, `Expire`, `Sweep`, `Evict` and
their ends are `_cleanup_locked`; `WriteTemp`, `ReplaceData`, `ReplaceMeta`,
`WriteFails`, `Undo` the two `_write_atomic` of `put_bytes`; `Look` and `Open` a read,
whose second half has given up the lock. `Crash` ends the process; the constructor of
the next one cleans up first.

**ArtifactMap** is a map that is written and read atomically: an ID is added once,
forgotten for good, and a read says what was so at one moment of the read.

### What is abstracted

* Output excerpts, truncation, artifact references, timestamps and messages.
* `Outcomes` stands for how user code ends: `finished`, `error`, or `malformed`
  (a manifest that says finished and whose sizes are no numbers).
* The probe of a reconciliation reads all markers of its batch in one step. The
  code reads pages of markers in one cell execution, during which no other cell
  runs.
* Pruning may drop any completed jobs where the code drops the oldest.
* JobTracking reduces loop and runtime generations of the listener to one loop,
  which is cancelled on a disconnect; BrowserSession has them all.
* `BrowserSession`: the client is the list of its tools as well (`_remote_tools`); a
  second tab that is turned away changes nothing; the bridge's fallback to a free
  port is a new identity like any other; a broker that is shut down is one that dies.
  Neither the URL, nor opening the browser, nor the probe in the kernel is there.
* `ArtifactStore`: contents, encoding and offsets; a file has a size. Setting the mode
  of a file does not fail. One broker has one store, and stores of several ports have
  directories of their own. In today's broker a single thread calls the store; the
  model lets several, because the class brings a lock for them. `cleanup` is called
  by the constructor only.
* `CellPool`: every journal write succeeds. The journal parts of `PoolInv`
  and `WrappersAreBounded` hold on this condition: after a failed write a crash may
  lose a pending add or a cell of the pool, which nobody finds again.
* `CellPool` has no cell indexes, and assumes that the page answers the calls of
  one connection in order (a search made after a lost add sees the added
  cell), and that a reset leads to a new notebook.
* `BrokerElection` has one endpoint (the code's default port), and no reuse of PIDs.
* `ProxyRecovery` reduces `ensure_running` to naming the owner that serves, or
  failing.

## 3. What is checked

`CHECK_DEADLOCK FALSE` appears where these systems do stop in the bounded models:
all jobs or calls are concluded, all faults are used up. Progress is checked as
liveness instead. `ArtifactStore_files` checks deadlock, for readers always go on.
The counters of faults, restarts, resets and owners and the clock are the only bounds
on behaviour, and each is a named constant.

| Run | Instance | Properties | Shows |
|---|---|---|---|
| `JobTracking_single` | 1 job, 3 outcomes, 2 drops, 2 crashes or shutdowns, 1 reset, three of these in all, writes that may fail (474k states) | `TypeOK RegistryInv VerdictIsDurable NoLostWakeup RecoveringIsOwned RunningSurvivesCrash VerdictIsFinal EventuallyConcluded WaitersWake` | verdicts are kept, and on disk when they can be read unless the last write failed; no waiter and no `recovering` job is orphaned; every job is concluded and every waiter wakes |
| `JobTracking_contract` | 2 jobs, 1 slot, 1 drop or crash, writes that may fail, symmetric (933k) | `ContractInv VerdictIsProven NeverReplayed WriteAhead KeepsContract` | no invented verdict, no replay, nothing sent unrecorded unless the last write failed, with a serial kernel, pruning and marker eviction; JobTracking implements JobContract |
| `CellPool_starts` | 4 jobs, pool of 2, 2 failures, 2 crashes, 1 reset, 1 edit (1.5M) | `WrappersAreBounded PoolInv CellsAreExclusive CellHoldsItsJob` | failed, cancelled and crashed starts leak no cell; no shared cell, no foreign code |
| `BrowserSession_tabs` | 1 request, 3 faults, 2 resets, tabs without bound (1.13M) | `ClientIsCurrent OneLoop SessionInv LossIsTyped KeepsRuntimeContract EventuallyReady` | requests go to the connected tab, one loop works for it, losses are typed, BrowserSession implements RuntimeContract, the runtime becomes ready again and again |
| `ArtifactStore_files` | 2 threads, 3 artifacts of 1 or 2 bytes, quota 3, 2 faults, 2 times, symmetric (458k) | `QuotaHolds NothingIsLeft StoreInv StoredIsKept KeepsArtifacts` | the quota holds between any two file operations, crashes leave nothing, readers see an atomic map |
| `BrokerElection_safety` | 2 calls, 2 daemons, 2 faults, symmetric (1.95M) | `ServingIsPublished ReturnedWasServing ChildrenAreReaped GenerationsGrow KeepsOwnership` | endpoint and discovery file agree; no stale owner is returned; no stray daemon; the discovery file never goes back; BrokerElection implements BrokerOwnership |
| `BrokerElection_upgrade` | an old and a new proxy, 2 daemons, 1 fault (1.74M) | `ElectionInv CallsEnd` | the invariant of the proofs holds across protocol versions; every `ensure_running` ends |
| `ProxyRecovery_calls` | a mutating and a read-only call, 3 owners (492k) | `RunsAtMostOnce LossIsReported ProxyInv CallsEnd` | one execution at most; losses reported; one retry and no more |

`TypeOK` is a conjunct of each of the inductive invariants (`SafetyInv`, `PoolInv`,
`SessionInv`, `StoreInv`, `ElectionInv`, `ProxyInv`) and is checked with them.

Four more runs show a disagreement with the documentation or a docstring, section 4.

Why the bounds are enough. The interesting events of JobTracking are a handler that
meets another in mid-await: two drops or two crashes let each of the handlers meet a
later instance of itself or the other, the third fault (`MaxFaults`) comes on top, and
two jobs let one job's handler and the serial kernel interfere with another. Reset,
disconnect and shutdown each treat all jobs alike, so a third job adds nothing new.
Failed writes have no bound: any write may fail, whatever failed before. CellPool
needs four starts to fill a pool of two, lose a cell to a failed start and ask again.
BrokerElection needs two launchers and a killed owner for every race on the locks and
the discovery file; two daemons are the owner and its replacement. ProxyRecovery makes
at most two attempts, so three owners give each attempt one of its own and a
successor. In BrowserSession two resets let a reset meet what the last one left behind
(a supervisor, a loop, an unwritten identity), and three faults let a tab drop, fall
silent and drop again, or the broker die in between; `made` has no bound of its own,
for a tab connects again only after a fault or a reset. ArtifactStore needs a quota
that two artifacts exceed and a third that makes room, a length above the limit of one
artifact, a thread that opens while the other evicts, and a failed write after a
crash. What small bounds cannot show is what the theorems are for.

### Fairness

* JobTracking: weak fairness of the broker's own continuations, for asyncio runs every
  ready callback and each remote call has a timeout (`BrokerFairness`); that time
  passes, that a dead broker is replaced by the next proxy request and that a tab
  reconnects (`EnvironmentFairness`); and that user code ends or its kernel is
  interrupted (`KernelFairness`). User actions (start, status, reset), faults, the
  success of a write and `ProbeReads` have none: a reconciliation may fail for ever
  until the deadline applies.
* BrokerElection: fairness of a launcher's own steps and of the passing of its
  deadline. None of the daemons: a hung one is killed with SIGKILL. A call spawns
  at most one daemon, and the instances have a daemon for every call.
* BrowserSession: fairness of every stretch of the supervisor, of the bridge's handler,
  of the cancelled loops and of a reset, which the event loop runs when their await
  is over; closes and timeouts end. Of the page: one that has the current URL keeps
  connecting, and answers `initialize` and `tools/list`. A page that falls silent or
  drops is a fault, and faults, resets, requests and `Persist` have no fairness.
* ArtifactStore: none; it states safety only.
* ProxyRecovery: fairness of the proxy's steps, each of which has a timeout. None
  of the brokers.

## 4. Disagreements found

Each is the counterexample of a run of its own; `PROJECT.json` "findings" has the
quotations.

* `JobTracking_restore`: a broker that dies while it reconciles a timed out job
  leaves a `timed_out`/`recovering` record. `_restore_record` (`jobs.py:564`)
  resumes a timed out job only from `detached`, so its marker is never read again.
* `JobTracking_deadline`: the recovery deadline is tested only after a readiness
  probe ran in the kernel, and Colab's serial kernel is busy with the very job
  that should be given up (`server.py:330`).
* `CellPool_reset`: a `start_python` that is answered between `mark_stale` and
  `session.reset` brings a cell of the old notebook back into the pool (`server.py:492`).
* `BrokerElection_stop`: a launcher whose deadline passes, or whose tool call is
  cancelled, terminates its child although it has just become the published
  owner that others use (`broker.py:429`).

Met but without a run of its own:

* A journal write that fails is logged and swallowed (`jobs.py:475`). `start_python`
  goes on, `run_code_cell` is sent, and when the broker dies before a later
  write succeeds its replacement does not know the job, where `README.md:230`
  says that a replacement broker restores unfinished entries. JobTracking does what
  the code does (`Persist`, `behind`, `Restart`), hence the condition `~behind` of
  `WriteAhead`, `VerdictIsDurable` and `RunningSurvivesCrash`, and the exception
  in `VerdictIsFinal`.
* `_finish_from_manifest` (`jobs.py:1162`) sets state and proof before it converts
  the sizes; a manifest whose size is no number is a success, where `README.md:215`
  says that malformed output is never converted to one. JobTracking does what the
  code does (outcome `malformed`), hence the hypothesis of `ImplementsContract`.
* `colab_reset_connection` writes the new token and port only after `session.reset`
  has waited for a tab (`session.py:313`, `server.py:497`). A broker that dies in
  between comes back with the identity from before the reset, and the tab that was
  connected cannot come back, where `README.md:154` says that refreshing a tab
  reuses the token and the URL. `Persist` and `BrokerRestarts` are that window.
* The bridge closes the client's streams before it sets `closed` (`bridge.py:179`):
  a request may be told a plain error while `is_connected` is still true, and
  `TransportDisconnected` only an instant later. `LossIsTyped` therefore excepts the
  connection that is still the active one.
* After a reset a request of the old tab that fails is checked against the new
  bridge (`session.py:693`): a loss may be told as an error, or under the new
  `connection_id`. `LossIsTyped` excepts requests of an earlier identity.
* When the answer to a mutating call is lost while its broker stays healthy,
  `call_tool` re-raises the plain error (`server.py:1066`), where `README.md:279`
  announces an explicit outcome-unknown error for ambiguous outcomes of a broker
  that was lost.

## 5. What is proved

For every value of the constants, under the named assumptions of the modules
(finite sets, natural bounds, distinct ids), with no bound on faults, jobs or owners.
The theorems of JobTracking hold with journal writes that may fail; those of CellPool
are about journal writes that succeed.

| Theorem | States | By |
|---|---|---|
| `JobTrackingProofs!TypeCorrect` | `[]TypeOK` | `TypeOK` is inductive |
| `VerdictsAreProven`, `CodeIsNeverReplayed`, `ExecutionIsJournaled` | `[]VerdictIsProven`, `[]NeverReplayed`, `[]WriteAhead` | `SafetyInv` |
| `JobContractProofs!ContractInvariance`, `ImplementsContract` | `[]ContractInv`, `KeepsContract`, both if `"malformed" \notin Outcomes` | `ContractInv`, `StepRefines` |
| `JobRegistryProofs!RegistryInvariance`, `VerdictsAreDurable`, `VerdictsAreFinal`, `RecoveringJobsAreHeld`, `RunningJobsSurvive`, `WaitersAreRemembered` | `[]RegistryInv`, `[]VerdictIsDurable`, `VerdictIsFinal`, `[]RecoveringIsOwned`, `[]RunningSurvivesCrash`, `[]NoLostWakeup` | `RegistryInv` |
| `CellPoolProofs!PoolInvariance`, `PoolTypeCorrect`, `OpenJobsShareNoCell`, `JobsRunTheirOwnCode`, `WrappersStayBounded` | `[]PoolInv`, `[]TypeOK`, `[]CellsAreExclusive`, `[]CellHoldsItsJob`, `[]WrappersAreBounded` | `PoolInv` |
| `BrowserSessionProofs!SessionInvariant`, `SessionTypeCorrect`, `RequestsGoToTheTab`, `LoopsDoNotOverlap`, `LossesAreTyped` | `[]SessionInv`, `[]TypeOK`, `[]ClientIsCurrent`, `[]OneLoop`, `LossIsTyped` | `SessionInv` |
| `BrowserSessionProofs!SessionKeepsContract` | `KeepsRuntimeContract` | `SessionInv`, a step of the contract or a stutter for every action |
| `ArtifactStoreProofs!StoreInvariant`, `StoreTypeCorrect`, `StoreIsClean`, `StoreHoldsQuota`, `StoreKeepsStored` | `[]StoreInv`, `[]TypeOK`, `[]NothingIsLeft`, `[]QuotaHolds`, `StoredIsKept` | `StoreInv` |
| `ArtifactStoreProofs!StoreKeepsArtifacts` | `KeepsArtifacts` | `StoreInv`, a step of the map or a stutter for every action |
| `BrokerElectionProofs!ElectionInvariant`, `ElectionTypeCorrect`, `EndpointIsPublished`, `ReturnedAnswered`, `GenerationsNeverGoBack`, `ElectionReapsChildren` | `[]ElectionInv`, `[]TypeOK`, `[]ServingIsPublished`, `[]ReturnedWasServing`, `GenerationsGrow`, `[]ChildrenAreReaped` | `ElectionInv` |
| `BrokerElectionProofs!ElectionKeepsOwnership` | `KeepsOwnership` | `ElectionInv`, a step of BrokerOwnership or a stutter for every action |
| `ProxyRecoveryProofs!CallsAreRecoveredOnce`, `ProxyTypeCorrect`, `MutatingRunsOnce`, `LossesAreReported` | `[]ProxyInv`, `[]TypeOK`, `[]RunsAtMostOnce`, `LossIsReported` | `ProxyInv` |
| `ProxyRecoveryProofs!BrokersAreOwners` | `Spec => Brokers!Spec` | the calls change nothing of the brokers |

Why each invariant is needed:

* `SafetyInv` (JobTracking). That code is requested once needs `CreatedIsFresh`: a
  task that has not run yet belongs to a job nothing has touched since it was
  journaled or its write failed. While the journal is not behind, every registered job
  is in it (`SameJobs`), which is `WriteAhead`. That a verdict is the kernel's needs
  it of the journal too (`AllProven`), for a restart makes the journal the memory, and
  of the markers a probe has returned and not yet applied (`MarkersAreTrue`).
* `ContractInv` adds that memory never contradicts a verdict on disk
  (`DiskIsNotContradicted`), failed writes or not, so that no later write takes one
  back, and that a verdict closes the job (`VerdictIsClosed`). The last is false when
  a manifest is malformed, see section 4, hence the hypothesis of
  `ImplementsContract`.
* `RegistryInv`. A cancelled task leaves its journal write to the handler that gathers
  it. No verdict is lost by that, because only tasks that can no longer give one are
  gathered (`AwaitedHaveStopped`). `CompleteIsOnDisk` is what lets a restart keep the
  verdicts: unless the journal is behind, a completed job is terminal on disk too, in
  a form `_restore_record` does not resume. A verdict that is on its way from a probe
  meets only jobs the reconciliation still owns (`RecoveringIsHeld`). A malformed
  manifest breaks none of this, so no hypothesis on `Outcomes` is needed.
* `PoolInv`. A cell is chosen several awaits before it is used, so `ChosenIsFree`
  keeps the choice apart from the cells of open jobs meanwhile;
  `JournalIsExclusive` says the same of the jobs a crash would bring back, and
  `CellsWereAdded` that a new cell is none of these. That wrappers stay bounded is
  `WrapperInv`: a cell with the connector's source is in the pool or is the pending add
  of the journal, for which there is room (`WrappersAreKnown`); no two cells hold the
  source of one job, so the pending add is one cell at most and a search finds it
  (`SourcesAreUnique`); and what a suspended start decided still fits when it is
  answered (`StartIsInPool`). A reset disowns the cells of its notebook, so the first
  and the last of these three are claimed until there is one.
* `SessionInv`. The comparison `rgen = gen` in `is_connected` is sound only because
  a client is published in one state of the supervisor and cleared on every way out
  of it (`SupervisorInv`), and `seen = gen` means the active connection
  (`BridgeInv`): after a reset both are gone before the new bridge counts from 1.
  That a loss is typed needs `CallInv` (a pending request belongs to the watched
  connection or to a session that is being reset), and that an announcement is not
  overtaken needs `ToldInv`.
* `StoreInv`. A reader without the lock is told the truth because of two orders:
  the data is in place before its metadata is written (`PutInv`), and goes first when
  an artifact is removed (`OpenInv`). That crashes leave nothing is `CleanInv`, what the
  cleanup has dealt with at each of its steps, for each cleanup goes first through the files
  with metadata and then through the rest. The quota holds between any two
  operations by `QuotaInv`: a put makes room before its first rename and has the lock
  until its last, so the files on disk and the data still to come fit together.
* `ElectionInv`. `LockIsHeld` and `OwnerSpeaks` tie the lock, the discovery file and
  what a daemon says of itself together; `ProbeIsOld` remembers, through any number
  of replacements, that the snapshot of a call is no newer than its answerer:
  generations then make the comparison in `_healthy_state` sufficient. That launches
  leave no stray daemon is `LaunchInv`: the launch lock is held from the spawn to the
  reaping, and a daemon that waits for the lifetime lock is the child of a call that
  still holds it, unless that proxy died. `KeepsOwnership` needs it too: a daemon that
  has not published yet is not the one the discovery file names.
* `ProxyInv`. `UsedNoLater`: the owner a call remembers is no later than the one
  that has its request, so "same owner as now" implies that the request's
  broker is still there.

Only model-checked: liveness (fairness and ENABLED are out of the prover's
reach): `EventuallyConcluded`, `WaitersWake`, `EventuallyReady`, and `CallsEnd` of
launchers and of proxies. Every safety invariant, action property and refinement
that a passing run checks is also proved.

Two properties count: the bytes on disk and the wrapper cells. Both counts are
cardinalities (`Bytes` is that of the set of pairs of an artifact and a position in
it), for which the library has theorems.

## 6. Not modelled, and why

The plan put first what loses users' work: the registry, then the cells its code runs
in, the election, the recovery of calls; then the session and the store. These are
done, each with its properties, an abstract specification where others rely on
it, and theorems. What is left:

* The probe cell (`jobs.py:864`, `jobs.py:1540`): one more pooled cell, used by the one
  reconciliation at a time; found, reused and restored like the cells of CellPool.
* `wait()` as a process of its own: it reads the event of a job and returns what
  `status` would, with a timeout; JobTracking has its event and its wake-up.
* The polling of the connection and the stdio server around `session.reset`
  (`wait_seconds`, opening the browser), and a handler that is blocked on its own
  stream (`bridge.py:156`): they delay what the model does at any time.
* The tool surface, diagnostics, agent setup and private-state helpers: argument checks,
  shaping, redaction, reports and edits of a file, sequential and without state of
  their own. Nothing can interleave with them that the other modules do not have.
* Unreadable or deleted state files (damage from outside; all writes are renames) and
  reuse of PIDs between the check of an identity and its signal (`broker.py:506`).
