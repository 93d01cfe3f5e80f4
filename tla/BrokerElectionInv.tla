-------------------------- MODULE BrokerElectionInv --------------------------
(* The inductive invariant behind the theorems of BrokerElectionProofs.        *)
EXTENDS BrokerElection

Holding    == {"locked", "starting", "serving", "ready", "stopping", "failing"}
Publishing == Holding \ {"locked"}

(* The lifetime lock is held by exactly the daemon past its acquisition. *)
LockIsHeld ==
    \A d \in Daemons : daemon[d] \in Holding <=> lifetimeLock = d

(* From its first write to its exit the discovery file is the daemon's own,    *)
(* and what it published of itself is never newer than the discovery file.     *)
OwnerSpeaks ==
    \A d \in Daemons :
       /\ daemon[d] \in Publishing => published = own[d] /\ own[d].owner = d
       /\ daemon[d] \in {"unborn", "waiting", "locked"} => own[d] = NoState
       /\ own[d].owner = d =>
             /\ own[d].protocol = Protocol(parent[d])
             /\ own[d].generation <= published.generation
             /\ own[d].generation = published.generation =>
                   published.owner = d /\ published.protocol = own[d].protocol

(* What is known of the probe of a call, long after it was answered. *)
ProbeIsOld ==
    \A c \in Calls :
       /\ Looking(c) \/ stage[c] = "idle" => result[c] = "none"
       /\ stage[c] = "idle" => probe[c] = "unread"
       /\ Looking(c) /\ probe[c] = "probing" =>
             snapshot[c].generation <= published.generation
       /\ Looking(c) /\ probe[c] = "answered" =>
             /\ answerer[c] \in Daemons
             /\ daemon[answerer[c]] \notin {"unborn", "waiting", "locked"}
             /\ own[answerer[c]].owner = answerer[c]
             /\ snapshot[c].generation <= own[answerer[c]].generation
       /\ result[c] = "broker" =>
             /\ answerer[c] \in Daemons
             /\ daemon[answerer[c]] \notin {"unborn", "waiting", "locked"}

Young == {"unborn", "waiting", "locked"}

(* The launch lock is held from the launch to the reaping.  A child that waits *)
(* for the lifetime lock is the one its launcher will reap, unless that proxy  *)
(* died; it is not yet the owner that the discovery file names.                *)
LaunchInv ==
    /\ \A c \in Calls :
          /\ launchLock = c <=> stage[c] \in {"locked", "launched", "reaping"}
          /\ stage[c] \in {"launched", "reaping"} =>
                child[c] \in Daemons /\ daemon[child[c]] # "unborn"
          /\ result[c] = "died" => stage[c] = "done"
    /\ \A d \in Daemons :
          /\ daemon[d] # "unborn" => parent[d] \in Calls
          /\ daemon[d] = "waiting" /\ result[parent[d]] # "died" =>
                stage[parent[d]] \in {"launched", "reaping"} /\ child[parent[d]] = d
          /\ published.owner = d => daemon[d] \notin Young

OwnerInv == /\ TypeOK /\ LockIsHeld /\ OwnerSpeaks
            /\ ProbeIsOld /\ ReturnedWasServing

ElectionInv == OwnerInv /\ LaunchInv

------------------------------------------------------------------------------
(* The owner that the discovery file names, as its users know it. *)
OwnerHealth ==
    LET o == published.owner
    IN  IF ~Alive(o) THEN "dead"
        ELSE IF daemon[o] = "starting" THEN "starting"
        ELSE IF Listening(o) THEN "serving" ELSE "hung"

Ownership == INSTANCE BrokerOwnership WITH owner <- published.generation,
                                           health <- OwnerHealth

(* The processes, locks and files of the election amount to one owner after    *)
(* the other, each the next generation and only once its predecessor is dead.  *)
KeepsOwnership == Ownership!Spec
==============================================================================
