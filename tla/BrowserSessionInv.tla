--------------------------- MODULE BrowserSessionInv ---------------------------
(* What must hold of BrowserSession. *)
EXTENDS BrowserSession

TypeOK ==
    /\ epoch \in Nat /\ issued \in Nat /\ saved \in Nat
    /\ gen \in Nat /\ made \in Nat
    /\ active \in {0, made}
    /\ socket \in {"up", "down", "closing"}
    /\ pc \in {"none", "waiting", "initializing", "listing", "listed", "watching",
               "aborting", "leaving", "draining", "reporting"}
    /\ conn \in Nat /\ seen \in Nat
    /\ cancelled \in BOOLEAN
    /\ client \in Nat /\ rgen \in Nat
    /\ reset \in {"idle", "announcing", "cancelling", "closing", "stopping"}
    /\ told \in [kind : {"none", "browser_connected", "runtime_ready",
                         "browser_disconnected", "reset"}, conn : Nat]
    /\ task \in Nat
    /\ loops \subseteq [conn : Nat, gen : Nat]
    /\ call \in [Calls -> [phase : {"idle", "pending", "answered", "failed",
                                    "lost", "dead"}, conn : Nat, epoch : Nat]]
    /\ faults \in Nat

(* Requests go to the tab that is connected: whenever is_connected says so,    *)
(* the published client is that of the active connection, though generations   *)
(* start again with each reset and the old client is cleared late.             *)
ClientIsCurrent == IsConnected => client = active /\ client = conn

(* While a client is published there is one reconciliation loop at most, the   *)
(* one started for it: no loop of an earlier bridge, which may expect the same *)
(* generation, works along with it.                                            *)
OneLoop == client # 0 => \A l \in loops : l.conn = client /\ loops = {l}

(* A request that fails without being called lost was taken by the tab that is *)
(* active, or before the identity changed: no other request of a tab that went *)
(* away is reported as an ordinary error (class TransportDisconnected).        *)
LossIsTyped ==
    [][\A k \in Calls :
         call[k].phase = "pending" /\ call'[k].phase = "failed"
         => call[k].conn = active \/ call[k].epoch # epoch]_vars

Starting == pc \in {"initializing", "listing", "listed"}

(* What the generations of the bridge tell the supervisor. *)
BridgeInv ==
    /\ active = 0 => socket = "down"
    /\ active # 0 => gen > 0
    /\ epoch <= issued /\ saved <= issued
    /\ conn <= made /\ seen <= gen
    /\ active # 0 => (active = conn <=> seen = gen)

(* A client is published while the supervisor watches its connection, and a    *)
(* cancelled supervisor publishes none.                                        *)
SupervisorInv ==
    /\ pc = "watching" => client = conn /\ rgen = seen
    /\ pc # "watching" => client = 0 /\ rgen = 0
    /\ pc = "watching" \/ Starting => conn # 0 /\ seen # 0
    /\ reset \in {"closing", "stopping"} => pc = "none"
    /\ cancelled <=> reset \in {"cancelling", "closing", "stopping"}
    /\ cancelled => pc \in {"leaving", "draining", "reporting", "none"}
    /\ pc = "none" => cancelled

(* There is one loop at most, and none when the next client may be published.  *)
LoopInv ==
    /\ \A l \in loops : l.conn = task /\ loops = {l}
    /\ pc = "watching" => loops = {[conn |-> conn, gen |-> seen]}
    /\ Starting \/ pc \in {"waiting", "aborting"} \/ cancelled => loops = {}
    /\ reset = "announcing" => loops # {}

(* A connection the supervisor has not served yet took no request, and the     *)
(* requests of a client are settled before the next one comes.                 *)
CallInv ==
    \A k \in Calls :
      /\ call[k].conn <= made /\ call[k].epoch <= issued
      /\ call[k].phase = "pending" => call[k].conn # 0
      /\ active # 0 /\ gen > seen => call[k].conn # active
      /\ Starting => call[k].conn # conn
      /\ call[k].phase = "pending" /\ call[k].epoch = epoch =>
           \/ cancelled
           \/ pc = "watching" /\ call[k].conn = conn /\ active = conn

(* The listeners were told of the end of a client before another can come.     *)
ToldInv ==
    told.kind = "runtime_ready" =>
      /\ ~cancelled /\ reset # "announcing"
      /\ pc \in {"watching", "leaving", "draining"}

SessionInv ==
    TypeOK /\ BridgeInv /\ SupervisorInv /\ LoopInv /\ CallInv /\ ToldInv

(* Once the faults are over, a page that keeps connecting is served: no        *)
(* connection that came and went while the supervisor was busy, was cancelled  *)
(* or was reset leaves it waiting.                                             *)
EventuallyReady == []<>IsConnected

(* The session as its listener and its callers see it. *)
Heard == IF told.kind = "runtime_ready" THEN told.conn ELSE 0

Contract == INSTANCE RuntimeContract WITH
    Requests <- Calls,
    runtime <- IF IsConnected THEN client ELSE 0,
    heard <- Heard,
    fate <- [k \in Calls |-> call[k].phase],
    taker <- [k \in Calls |-> call[k].conn]

KeepsRuntimeContract == Contract!Spec
==============================================================================
