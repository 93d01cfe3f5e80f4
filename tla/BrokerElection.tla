---------------------------- MODULE BrokerElection ----------------------------
(* How the proxies of several agents agree on one detached broker              *)
(* (colab_codex_adapter/broker.py, BrokerLauncher) and how the broker process  *)
(* owns its lifetime (broker_daemon.py, run_broker_daemon).  All of them are   *)
(* processes that share two lock files and one discovery file; any of them may *)
(* be killed between two system calls.                                         *)
EXTENDS Naturals, FiniteSets

CONSTANTS Calls,      \* calls of ensure_running, by any proxies
          Daemons,    \* broker processes that may be spawned
          Upgraded,   \* the calls made by proxies of the new protocol version
          NoOne,      \* no process
          MaxFaults   \* bound: processes killed, stop requests

ASSUME UpgradedAreCalls == Upgraded \subseteq Calls
ASSUME NoOneIsNoProcess == NoOne \notin Calls \cup Daemons
ASSUME FaultsBounded == MaxFaults \in Nat

VARIABLES
    published,     \* the discovery file; owner = NoOne while there is none
    launchLock,    \* who holds broker-launch.lock
    lifetimeLock,  \* who holds broker.lock
    stage,         \* how far a call of ensure_running is
    probe,         \* how far its _healthy_state is
    snapshot,      \* the discovery state its probe uses, in the end its result
    answerer,      \* who answered the probe (not known to the code)
    child,         \* the daemon it spawned
    expired,       \* its startup deadline has passed
    result,        \* how the call ended
    daemon,        \* how far a broker process is
    own,           \* the state it published of itself
    parent,        \* the call that spawned it
    term,          \* SIGTERM received, stop_event set
    faults         \* bounded counter

files     == <<published, launchLock, lifetimeLock>>
launcher  == <<stage, probe, snapshot, answerer, child, expired, result>>
processes == <<daemon, own, parent, term>>
vars == <<published, launchLock, lifetimeLock, stage, probe, snapshot, answerer,
          child, expired, result, daemon, own, parent, term, faults>>

Protocol(c) == IF c \in Upgraded THEN "new" ELSE "old"

States == [owner : Daemons \cup {NoOne}, generation : Nat,
           status : {"starting", "ready", "stopped", "failed"},
           token : Daemons \cup {NoOne}, protocol : {"old", "new"}]

NoState == [owner |-> NoOne, generation |-> 0, status |-> "stopped",
            token |-> NoOne, protocol |-> "old"]

Alive(d) == d \in Daemons /\ daemon[d] \notin {"unborn", "dead"}

(* The server of d has the port and answers whoever knows its token. *)
Listening(d) == daemon[d] \in {"serving", "ready"}

------------------------------------------------------------------------------
Init ==
    /\ published = NoState
    /\ launchLock = NoOne /\ lifetimeLock = NoOne
    /\ stage = [c \in Calls |-> "idle"]
    /\ probe = [c \in Calls |-> "unread"]
    /\ snapshot = [c \in Calls |-> NoState]
    /\ answerer = [c \in Calls |-> NoOne]
    /\ child = [c \in Calls |-> NoOne]
    /\ expired = [c \in Calls |-> FALSE]
    /\ result = [c \in Calls |-> "none"]
    /\ daemon = [d \in Daemons |-> "unborn"]
    /\ own = [d \in Daemons |-> NoState]
    /\ parent = [d \in Daemons |-> NoOne]
    /\ term = [d \in Daemons |-> FALSE]
    /\ faults = 0

(* Mutant of Released: whoever ends removes the lock file. *)
Unlinked(lock, p) == NoOne

(* The kernel releases the locks of a process that ends. *)
Released(lock, p) == IF lock = p THEN NoOne ELSE lock

(* SIGTERM: it kills a daemon that has not installed its handlers yet. *)
Terminated(d) ==
    IF daemon[d] \in {"waiting", "locked"}
    THEN /\ daemon' = [daemon EXCEPT ![d] = "dead"]
         /\ lifetimeLock' = Released(lifetimeLock, d)
         /\ UNCHANGED term
    ELSE /\ term' = [term EXCEPT ![d] = TRUE]
         /\ UNCHANGED <<daemon, lifetimeLock>>

------------------------------------------------------------------------------
(* ensure_running *)

Call(c) ==
    /\ stage[c] = "idle"
    /\ stage' = [stage EXCEPT ![c] = "first"]
    /\ UNCHANGED <<files, probe, snapshot, answerer, child, expired, result,
                   processes, faults>>

Looking(c) == stage[c] \in {"first", "contending", "locked", "launched"}

(* Mutant of End: the child is left to itself. *)
EndAtOnce(c, how, keptChild) ==
    /\ result' = [result EXCEPT ![c] = how]
    /\ stage' = [stage EXCEPT ![c] = "done"]
    /\ launchLock' = Released(launchLock, c)
    /\ UNCHANGED <<published, answerer, child, expired, daemon, lifetimeLock, own,
                   parent, term, faults>>

(* A call returns or raises.  A child that is not the owner it returns is      *)
(* terminated and reaped first, under the launch lock: _start_replacement's    *)
(* finally, _terminate_and_reap.                                               *)
End(c, how, keptChild) ==
    /\ result' = [result EXCEPT ![c] = how]
    /\ IF stage[c] = "launched" /\ ~keptChild /\ Alive(child[c])
       THEN /\ stage' = [stage EXCEPT ![c] = "reaping"]
            /\ Terminated(child[c])
            /\ UNCHANGED launchLock
       ELSE /\ stage' = [stage EXCEPT ![c] = "done"]
            /\ launchLock' = Released(launchLock, c)
            /\ UNCHANGED <<daemon, lifetimeLock, term>>
    /\ UNCHANGED <<published, answerer, child, expired, own, parent, faults>>

(* _healthy_state, first half: read the discovery file and refuse a live owner *)
(* of another protocol.                                                        *)
Mismatch(c) == /\ published.protocol # Protocol(c)
               /\ published.status \notin {"failed", "stopped"}
               /\ Alive(published.owner)

Read(c) ==
    /\ Looking(c)
    /\ probe[c] = "unread"
    /\ stage[c] = "launched" => ~expired[c]
    /\ ~Mismatch(c)
    /\ snapshot' = [snapshot EXCEPT ![c] = published]
    /\ probe' = [probe EXCEPT ![c] =
                   IF published.owner = NoOne
                      \/ published.status \in {"failed", "stopped"}
                   THEN "unhealthy" ELSE "probing"]
    /\ UNCHANGED <<files, stage, answerer, child, expired, result, processes, faults>>

ReadMismatch(c) ==
    /\ Looking(c)
    /\ probe[c] = "unread"
    /\ stage[c] = "launched" => ~expired[c]
    /\ Mismatch(c)
    /\ End(c, "error", FALSE)
    /\ UNCHANGED <<probe, snapshot>>

(* The endpoint is always the same, and a replacement reuses the token.        *)
Answers(c) ==
    /\ Looking(c)
    /\ probe[c] = "probing"
    /\ \E d \in Daemons : /\ Listening(d)
                          /\ own[d].token = snapshot[c].token
                          /\ answerer' = [answerer EXCEPT ![c] = d]
    /\ probe' = [probe EXCEPT ![c] = "answered"]
    /\ UNCHANGED <<files, stage, snapshot, child, expired, result, processes, faults>>

(* Nobody listens, the token is refused, or the answer takes too long. *)
Silent(c) ==
    /\ Looking(c)
    /\ probe[c] = "probing"
    /\ probe' = [probe EXCEPT ![c] = "unhealthy"]
    /\ UNCHANGED <<files, stage, snapshot, answerer, child, expired, result,
                   processes, faults>>

(* Mutant of SameIdentity: the token alone is compared. *)
SameToken(a, b) == a.token = b.token

(* _same_identity *)
SameIdentity(a, b) == /\ a.owner = b.owner /\ a.generation = b.generation
                      /\ a.protocol = b.protocol /\ a.token = b.token

(* _healthy_state, second half: read again, and return only the owner asked.   *)
Confirmed(c) == published.status = "ready" /\ SameIdentity(snapshot[c], published)

ReRead(c) ==
    /\ Looking(c)
    /\ probe[c] = "answered"
    /\ ~Confirmed(c)
    /\ probe' = [probe EXCEPT ![c] = "unhealthy"]
    /\ UNCHANGED <<files, stage, snapshot, answerer, child, expired, result,
                   processes, faults>>

Return(c) ==
    /\ Looking(c)
    /\ probe[c] = "answered"
    /\ Confirmed(c)
    /\ snapshot' = [snapshot EXCEPT ![c] = published]
    /\ End(c, IF published.protocol = Protocol(c) THEN "broker" ELSE "error",
           published.protocol = Protocol(c) /\ published.owner = child[c])
    /\ UNCHANGED probe

(* The loop of ensure_running: contend for the launch lock until the deadline. *)
TryLock(c) ==
    /\ stage[c] = "first" \/ stage[c] = "contending"
    /\ probe[c] = "unhealthy"
    /\ ~expired[c]
    /\ IF launchLock = NoOne
       THEN /\ launchLock' = c
            /\ stage' = [stage EXCEPT ![c] = "locked"]
       ELSE /\ stage' = [stage EXCEPT ![c] = "contending"]
            /\ UNCHANGED launchLock
    /\ probe' = [probe EXCEPT ![c] = "unread"]
    /\ UNCHANGED <<published, lifetimeLock, snapshot, answerer, child, expired,
                   result, processes, faults>>

(* _start_replacement *)
Spawn(c) ==
    /\ stage[c] = "locked"
    /\ probe[c] = "unhealthy"
    /\ \E d \in Daemons :
         /\ daemon[d] = "unborn"
         /\ daemon' = [daemon EXCEPT ![d] = "waiting"]
         /\ parent' = [parent EXCEPT ![d] = c]
         /\ child' = [child EXCEPT ![c] = d]
    /\ stage' = [stage EXCEPT ![c] = "launched"]
    /\ probe' = [probe EXCEPT ![c] = "unread"]
    /\ UNCHANGED <<files, snapshot, answerer, expired, result, own, term, faults>>

Poll(c) ==
    /\ stage[c] = "launched"
    /\ probe[c] = "unhealthy"
    /\ Alive(child[c])
    /\ probe' = [probe EXCEPT ![c] = "unread"]
    /\ UNCHANGED <<files, stage, snapshot, answerer, child, expired, result,
                   processes, faults>>

ChildExited(c) ==
    /\ stage[c] = "launched"
    /\ probe[c] = "unhealthy"
    /\ ~Alive(child[c])
    /\ End(c, "error", FALSE)
    /\ UNCHANGED <<probe, snapshot>>

TimesOut(c) ==
    /\ expired[c]
    /\ \/ stage[c] = "contending" /\ probe[c] = "unhealthy"
       \/ stage[c] = "launched" /\ probe[c] = "unread"
    /\ End(c, "error", FALSE)
    /\ UNCHANGED <<probe, snapshot>>

(* The tool call that needed a broker is cancelled. *)
Cancelled(c) ==
    /\ Looking(c)
    /\ End(c, "error", FALSE)
    /\ UNCHANGED <<probe, snapshot>>

Reaped(c) ==
    /\ stage[c] = "reaping"
    /\ ~Alive(child[c])
    /\ stage' = [stage EXCEPT ![c] = "done"]
    /\ launchLock' = Released(launchLock, c)
    /\ UNCHANGED <<published, lifetimeLock, probe, snapshot, answerer, child,
                   expired, result, processes, faults>>

(* Mutant of KillChild: SIGTERM once more. *)
TermAgain(c) ==
    /\ stage[c] = "reaping"
    /\ Alive(child[c])
    /\ Terminated(child[c])
    /\ UNCHANGED <<published, launchLock, launcher, own, parent, faults>>

(* The child did not stop in time: SIGKILL. *)
KillChild(c) ==
    /\ stage[c] = "reaping"
    /\ Alive(child[c])
    /\ daemon' = [daemon EXCEPT ![child[c]] = "dead"]
    /\ lifetimeLock' = Released(lifetimeLock, child[c])
    /\ UNCHANGED <<published, launchLock, launcher, own, parent, term, faults>>

(* The agent ends and its proxy with it; a detached child stays. *)
ProxyDies(c) ==
    /\ Looking(c) \/ stage[c] = "reaping"
    /\ faults < MaxFaults
    /\ faults' = faults + 1
    /\ stage' = [stage EXCEPT ![c] = "done"]
    /\ result' = [result EXCEPT ![c] = "died"]
    /\ launchLock' = Released(launchLock, c)
    /\ UNCHANGED <<published, lifetimeLock, probe, snapshot, answerer, child,
                   expired, processes>>

DeadlinePasses(c) ==
    /\ stage[c] \in {"contending", "locked", "launched"}
    /\ ~expired[c]
    /\ expired' = [expired EXCEPT ![c] = TRUE]
    /\ UNCHANGED <<files, stage, probe, snapshot, answerer, child, result,
                   processes, faults>>

------------------------------------------------------------------------------
(* run_broker_daemon *)

(* Mutant of AcquireLifetimeLock: the lock is taken as a shared one. *)
AcquireShared(d) ==
    /\ daemon[d] = "waiting"
    /\ lifetimeLock' = d
    /\ daemon' = [daemon EXCEPT ![d] = "locked"]
    /\ UNCHANGED <<published, launchLock, launcher, own, parent, term, faults>>

AcquireLifetimeLock(d) ==
    /\ daemon[d] = "waiting"
    /\ lifetimeLock = NoOne
    /\ lifetimeLock' = d
    /\ daemon' = [daemon EXCEPT ![d] = "locked"]
    /\ UNCHANGED <<published, launchLock, launcher, own, parent, term, faults>>

GivesUpLock(d) ==
    /\ daemon[d] = "waiting"
    /\ lifetimeLock # NoOne
    /\ daemon' = [daemon EXCEPT ![d] = "dead"]
    /\ UNCHANGED <<files, launcher, own, parent, term, faults>>

(* Mutant of NextGeneration: a stopped predecessor does not count. *)
NextAfterStop(previous) ==
    IF previous.status = "stopped" THEN 1 ELSE previous.generation + 1

(* _next_generation; NoState has generation 0. *)
NextGeneration(previous) == previous.generation + 1

(* The previous state is read and the new one written under the lifetime lock, *)
(* which every writer of the discovery file holds.                             *)
PublishStarting(d) ==
    LET mine == Protocol(parent[d])
        state == [owner      |-> d,
                  generation |-> NextGeneration(published),
                  status     |-> "starting",
                  token      |-> IF published.owner # NoOne
                                    /\ published.protocol = mine
                                 THEN published.token ELSE d,
                  protocol   |-> mine]
    IN  /\ daemon[d] = "locked"
        /\ daemon' = [daemon EXCEPT ![d] = "starting"]
        /\ own' = [own EXCEPT ![d] = state]
        /\ published' = state
        /\ UNCHANGED <<launchLock, lifetimeLock, launcher, parent, term, faults>>

Listen(d) ==
    /\ daemon[d] = "starting"
    /\ daemon' = [daemon EXCEPT ![d] = "serving"]
    /\ UNCHANGED <<files, launcher, own, parent, term, faults>>

PublishReady(d) ==
    /\ daemon[d] = "serving"
    /\ daemon' = [daemon EXCEPT ![d] = "ready"]
    /\ own' = [own EXCEPT ![d].status = "ready"]
    /\ published' = [own[d] EXCEPT !.status = "ready"]
    /\ UNCHANGED <<launchLock, lifetimeLock, launcher, parent, term, faults>>

(* The server fails, or is not healthy before the daemon's deadline. *)
ServerFails(d) ==
    /\ daemon[d] \in {"starting", "serving", "ready"}
    /\ daemon' = [daemon EXCEPT ![d] = "failing"]
    /\ UNCHANGED <<files, launcher, own, parent, term, faults>>

(* The stop event is looked at once the startup is over. *)
ServerStops(d) ==
    /\ daemon[d] = "ready"
    /\ term[d]
    /\ daemon' = [daemon EXCEPT ![d] = "stopping"]
    /\ UNCHANGED <<files, launcher, own, parent, term, faults>>

(* The finally block: the last word on the discovery file, then the lock.      *)
Exit(d) ==
    /\ daemon[d] \in {"stopping", "failing"}
    /\ daemon' = [daemon EXCEPT ![d] = "dead"]
    /\ published' =
         IF published.owner = d
         THEN [own[d] EXCEPT !.status = IF daemon[d] = "stopping"
                                        THEN "stopped" ELSE "failed"]
         ELSE published
    /\ lifetimeLock' = Released(lifetimeLock, d)
    /\ UNCHANGED <<launchLock, launcher, own, parent, term, faults>>

DaemonKilled(d) ==
    /\ Alive(d)
    /\ faults < MaxFaults
    /\ faults' = faults + 1
    /\ daemon' = [daemon EXCEPT ![d] = "dead"]
    /\ lifetimeLock' = Released(lifetimeLock, d)
    /\ UNCHANGED <<published, launchLock, launcher, own, parent, term>>

(* stop_broker: SIGTERM to the discovered owner, if it is alive. *)
StopBroker ==
    /\ Alive(published.owner)
    /\ faults < MaxFaults
    /\ faults' = faults + 1
    /\ Terminated(published.owner)
    /\ UNCHANGED <<published, launchLock, launcher, own, parent>>

------------------------------------------------------------------------------
LauncherStep(c) == \/ Read(c) \/ ReadMismatch(c) \/ Silent(c) \/ ReRead(c)
                   \/ Return(c) \/ TryLock(c) \/ Spawn(c) \/ Poll(c)
                   \/ ChildExited(c) \/ TimesOut(c) \/ Reaped(c) \/ KillChild(c)

DaemonStep(d) == \/ AcquireLifetimeLock(d) \/ GivesUpLock(d)
                 \/ PublishStarting(d) \/ Listen(d) \/ PublishReady(d)
                 \/ ServerFails(d) \/ ServerStops(d) \/ Exit(d)

Next ==
    \/ \E c \in Calls : \/ Call(c) \/ LauncherStep(c) \/ Answers(c)
                        \/ Cancelled(c) \/ ProxyDies(c) \/ DeadlinePasses(c)
    \/ \E d \in Daemons : DaemonStep(d) \/ DaemonKilled(d)
    \/ StopBroker

Spec == Init /\ [][Next]_vars

(* asyncio goes on after every await, each of which has a timeout, and time    *)
(* passes.  Nothing is assumed of the daemons: SIGKILL needs no cooperation.   *)
FairSpec ==
    /\ Spec
    /\ \A c \in Calls : WF_vars(LauncherStep(c)) /\ WF_vars(DeadlinePasses(c))

------------------------------------------------------------------------------
(* Type invariant. *)
TypeOK ==
    /\ published \in States
    /\ launchLock \in Calls \cup {NoOne}
    /\ lifetimeLock \in Daemons \cup {NoOne}
    /\ stage \in [Calls -> {"idle", "first", "contending", "locked", "launched",
                            "reaping", "done"}]
    /\ probe \in [Calls -> {"unread", "probing", "answered", "unhealthy"}]
    /\ snapshot \in [Calls -> States]
    /\ answerer \in [Calls -> Daemons \cup {NoOne}]
    /\ child \in [Calls -> Daemons \cup {NoOne}]
    /\ expired \in [Calls -> BOOLEAN]
    /\ result \in [Calls -> {"none", "broker", "error", "died"}]
    /\ daemon \in [Daemons -> {"unborn", "waiting", "locked", "starting", "serving",
                               "ready", "stopping", "failing", "dead"}]
    /\ own \in [Daemons -> States]
    /\ parent \in [Daemons -> Calls \cup {NoOne}]
    /\ term \in [Daemons -> BOOLEAN]
    /\ faults \in Nat

(* Whoever serves the port is the one the discovery file names, and holds the  *)
(* lifetime lock: a late last word of a former owner, a killed one or a second *)
(* candidate never separates the endpoint from its discovery state.            *)
ServingIsPublished ==
    \A d \in Daemons : Listening(d) =>
       /\ lifetimeLock = d
       /\ published = own[d]

(* A broker a call returns is the very process that answered its probe, in the *)
(* caller's protocol: although a replacement answers to the old token, nobody  *)
(* is left with the identity of an owner that was dead when it was asked.      *)
ReturnedWasServing ==
    \A c \in Calls : result[c] = "broker" =>
       /\ answerer[c] = snapshot[c].owner
       /\ Protocol(parent[answerer[c]]) = Protocol(c)

(* Unless its proxy died, a daemon that is not the owner is watched by the one *)
(* call that will reap it: failed, overtaken and cancelled launches leave no   *)
(* stray process that could take over later.                                   *)
ChildrenAreReaped ==
    LET stray == {d \in Daemons : /\ Alive(d) /\ lifetimeLock # d
                                  /\ result[parent[d]] # "died"}
    IN  /\ Cardinality(stray) <= 1
        /\ \A d \in stray : /\ stage[parent[d]] \in {"launched", "reaping"}
                            /\ child[parent[d]] = d
                            /\ launchLock = parent[d]

(* The discovery file never goes back: a new owner has the next generation and *)
(* the last word of a former owner changes nothing.                            *)
GenerationsGrow ==
    [][\/ published'.generation = published.generation
          /\ published'.owner = published.owner
       \/ published'.generation = published.generation + 1
          /\ published'.status = "starting"]_published

(* Every call of ensure_running ends, whatever the daemons do or fail to do.   *)
CallsEnd == []<>(\A c \in Calls : stage[c] \in {"idle", "done"})

(* "Stop a child that did not become the published broker owner": a launcher   *)
(* signals no child that is the published, ready owner.                        *)
OnlyUnpublishedAreStopped ==
    [][\A c \in Calls : stage[c] = "launched" /\ stage'[c] = "reaping"
          => ~(published.owner = child[c] /\ published.status = "ready")]_vars
==============================================================================
