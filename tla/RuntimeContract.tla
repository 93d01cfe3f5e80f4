---------------------------- MODULE RuntimeContract ----------------------------
(* What the browser session promises to the job manager and the tools: at most *)
(* one runtime, each new to them; the next one comes only after the loss of    *)
(* the last was announced; a request is answered only by the runtime that took *)
(* it, and is called lost only when that runtime is gone for good.             *)
EXTENDS Naturals

CONSTANT Requests

VARIABLES
    runtime,  \* the runtime that is up, 0 when none is
    heard,    \* the runtime whose readiness was announced, and not its end
    fate,     \* what became of a request
    taker     \* the runtime that took it

vars == <<runtime, heard, fate, taker>>

Init ==
    /\ runtime = 0 /\ heard = 0
    /\ fate = [k \in Requests |-> "idle"]
    /\ taker = [k \in Requests |-> 0]

Requesting == UNCHANGED <<runtime, heard>>

(* A runtime that never took a request. *)
Come ==
    /\ runtime = 0 /\ heard = 0
    /\ runtime' \in Nat \ {0}
    /\ \A k \in Requests : taker[k] # runtime'
    /\ heard' = runtime'
    /\ UNCHANGED <<fate, taker>>

(* Requests that wait for the runtime may be told when it goes. *)
Go ==
    /\ runtime # 0
    /\ runtime' = 0
    /\ \E told \in SUBSET Requests :
         /\ \A k \in told : fate[k] = "pending" /\ taker[k] = runtime
         /\ fate' = [k \in Requests |-> IF k \in told THEN "lost" ELSE fate[k]]
    /\ UNCHANGED <<heard, taker>>

Announce ==
    /\ heard # 0
    /\ heard' = 0
    /\ UNCHANGED <<runtime, fate, taker>>

(* The broker ends with everything that waits for it. *)
Restart ==
    /\ runtime' = 0 /\ heard' = 0
    /\ fate' = [k \in Requests |-> IF fate[k] = "pending" THEN "dead" ELSE fate[k]]
    /\ UNCHANGED taker

Take(k) ==
    /\ fate[k] = "idle" /\ runtime # 0
    /\ fate' = [fate EXCEPT ![k] = "pending"]
    /\ taker' = [taker EXCEPT ![k] = runtime]
    /\ Requesting

Answer(k) ==
    /\ fate[k] = "pending" /\ runtime = taker[k]
    /\ fate' = [fate EXCEPT ![k] = "answered"]
    /\ UNCHANGED taker
    /\ Requesting

Raise(k) ==
    /\ fate[k] = "pending"
    /\ \/ fate' = [fate EXCEPT ![k] = "failed"]
       \/ runtime # taker[k] /\ fate' = [fate EXCEPT ![k] = "lost"]
    /\ UNCHANGED taker
    /\ Requesting

Next ==
    \/ Come \/ Go \/ Announce \/ Restart
    \/ \E k \in Requests : Take(k) \/ Answer(k) \/ Raise(k)

Spec == Init /\ [][Next]_vars
==============================================================================
