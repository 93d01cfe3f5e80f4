---------------------------- MODULE BrowserSession ----------------------------
(* The browser connection of a broker: the bridge that accepts one tab at a    *)
(* time (colab_codex_adapter/bridge.py), the supervisor that makes an MCP      *)
(* client of each connection, the reset that replaces the bridge (session.py), *)
(* the reconciliation loops a listener starts for each client and the identity *)
(* kept for a restart (server.py).  A BrowserConnection is a number of its     *)
(* own, because the bridge's generations start again with each bridge.         *)
EXTENDS Integers

CONSTANTS Calls,      \* requests to the page
          MaxFaults,  \* bound: dropped sockets, silent pages and crashes
          MaxResets   \* bound: colab_reset_connection calls

ASSUME FaultsBounded == MaxFaults \in Nat
ASSUME ResetsBounded == MaxResets \in Nat

VARIABLES
    epoch,   \* identity of the bridge: its token and connection_id
    issued,  \* greatest identity given out
    saved,   \* the identity in the browser state file
    gen,     \* the bridge's _generation
    made,    \* connections so far; the latest is number made
    active,  \* active_connection, 0 when there is none
    socket,  \* of the active connection: up, down, its streams closed
    pc,      \* how far the supervisor is
    conn,    \* the connection it serves
    seen,    \* its local variable generation
    cancelled,  \* CancelledError was raised in it
    client,  \* connection of the published client, 0 when there is none
    rgen,    \* _runtime_generation
    reset,   \* how far a reset is, which holds the session's lock
    told,    \* the transition last emitted, and its connection
    task,    \* reconciliation_task of the listener, by its connection
    loops,   \* the reconciliation loops that have not ended
    call,    \* what became of each request
    faults   \* faults so far

bridge == <<epoch, issued, gen, made>>
page == <<active, socket>>
supervisor == <<pc, conn, seen, cancelled>>
runtime == <<client, rgen>>
listener == <<told, task, loops>>
vars == <<bridge, saved, page, supervisor, runtime, reset, listener, call,
          faults>>

NoCall == [phase |-> "idle", conn |-> 0, epoch |-> 0]

(* Mutant of IsConnected: generations are not compared. *)
AnyGeneration == active # 0 /\ client # 0

IsConnected == active # 0 /\ client # 0 /\ rgen = gen

(* What every start of a broker begins with. *)
Fresh ==
    [gen |-> 0, active |-> 0, socket |-> "down", pc |-> "waiting", conn |-> 0,
     seen |-> 0, cancelled |-> FALSE, client |-> 0, rgen |-> 0,
     reset |-> "idle", told |-> [kind |-> "none", conn |-> 0], task |-> 0, loops |-> {}]

(* _start_recovered_session: a new identity is in the file before it is used. *)
Init ==
    /\ epoch = 1 /\ issued = 1 /\ saved = 1 /\ made = 0 /\ faults = 0
    /\ gen = Fresh.gen /\ active = Fresh.active /\ socket = Fresh.socket
    /\ pc = Fresh.pc /\ conn = Fresh.conn /\ seen = Fresh.seen
    /\ cancelled = Fresh.cancelled /\ client = Fresh.client /\ rgen = Fresh.rgen
    /\ reset = Fresh.reset /\ told = Fresh.told
    /\ task = Fresh.task /\ loops = Fresh.loops
    /\ call = [k \in Calls |-> NoCall]

Fault == faults < MaxFaults /\ faults' = faults + 1

(* The socket of the connection, if that is still the active one, is closed. *)
CloseSocket(c) ==
    socket' = IF active = c /\ socket = "up" THEN "down" ELSE socket

------------------------------------------------------------------------------
(* The bridge *)

(* connection_lock is held from here to HandlerEnds; a closed server accepts   *)
(* nobody.                                                                     *)
Accepts == active = 0 /\ reset # "stopping"

(* _connection_handler for a page that has the bridge's token. *)
Connect ==
    /\ Accepts
    /\ made' = made + 1
    /\ gen' = gen + 1
    /\ active' = made' /\ socket' = "up"
    /\ UNCHANGED <<epoch, issued, saved, supervisor, runtime, reset, listener,
                   call, faults>>

SocketDrops ==
    /\ active # 0 /\ socket = "up"
    /\ Fault
    /\ socket' = "down"
    /\ UNCHANGED <<bridge, saved, active, supervisor, runtime, reset,
                   listener, call>>

(* finish() closes the streams of the client before it sets closed. *)
StreamsClose ==
    /\ active # 0 /\ socket = "down"
    /\ socket' = "closing"
    /\ UNCHANGED <<bridge, saved, active, supervisor, runtime, reset,
                   listener, call, faults>>

(* The client reads: its context has been entered and not been left. *)
Reading == pc \in {"initializing", "listing", "listed", "watching"}

Pending(c) == {k \in Calls : call[k].phase = "pending" /\ call[k].conn = c}

(* closed.set() and _set_active(None).  A client that reads has told its       *)
(* pending requests that the connection is closed, and is_connected is false.  *)
HandlerEnds ==
    /\ active # 0 /\ socket = "closing"
    /\ active' = 0 /\ socket' = "down"
    /\ call' = [k \in Calls |->
                 IF Reading /\ conn = active /\ k \in Pending(active)
                 THEN [call[k] EXCEPT !.phase = "lost"] ELSE call[k]]
    /\ UNCHANGED <<bridge, saved, supervisor, runtime, reset, listener,
                   faults>>

------------------------------------------------------------------------------
(* _supervise_connections *)

Move(from, to) == pc = from /\ pc' = to

(* Mutant of Newer: a generation that came and went is waited for. *)
NewerByOne == gen = seen + 1

Newer == gen > seen

(* wait_for_connection; the listeners have nothing to do for browser_connected. *)
Announce ==
    /\ Move("waiting", "initializing")
    /\ active # 0 /\ Newer
    /\ conn' = active /\ seen' = gen
    /\ told' = [kind |-> "browser_connected", conn |-> active]
    /\ UNCHANGED <<bridge, saved, page, cancelled, runtime, reset, task,
                   loops, call, faults>>

(* The page answers initialize, then tools/list. *)
PageAnswers ==
    /\ Move("initializing", "listing") \/ Move("listing", "listed")
    /\ active = conn /\ socket = "up"
    /\ UNCHANGED <<bridge, saved, page, conn, seen, cancelled, runtime, reset,
                   listener, call, faults>>

(* A request of the start fails; the client is told of a closed connection.    *)
StartFails ==
    /\ pc \in {"initializing", "listing"}
    /\ pc' = "aborting"
    /\ UNCHANGED <<bridge, saved, page, conn, seen, cancelled, runtime, reset,
                   listener, call>>

(* The page does not answer in time, or answers with an error. *)
PageFails ==
    /\ active = conn /\ socket = "up"
    /\ Fault
    /\ StartFails

PageGone ==
    /\ active # conn \/ socket = "closing"
    /\ StartFails
    /\ UNCHANGED faults

Clear == client' = 0 /\ rgen' = 0

(* connection.request_close, then the finally clause. *)
Aborts ==
    /\ Move("aborting", "leaving")
    /\ CloseSocket(conn)
    /\ UNCHANGED <<bridge, saved, active, conn, seen, cancelled, runtime,
                   reset, listener, call, faults>>

(* Mutant of StillActive: the connection is not looked at after the listing. *)
AnyActive == TRUE

StillActive == active = conn

(* runtime_ready: the listener starts a loop that expects this generation, and *)
(* finds no earlier one to end (OneLoop).                                      *)
Ready ==
    /\ Move("listed", "watching")
    /\ StillActive
    /\ client' = conn /\ rgen' = seen
    /\ told' = [kind |-> "runtime_ready", conn |-> conn]
    /\ task' = conn
    /\ loops' = loops \cup {[conn |-> conn, gen |-> seen]}
    /\ UNCHANGED <<bridge, saved, page, conn, seen, cancelled, reset, call,
                   faults>>

NotReady ==
    /\ Move("listed", "leaving")
    /\ ~StillActive
    /\ UNCHANGED <<bridge, saved, page, conn, seen, cancelled, runtime, reset,
                   listener, call, faults>>

(* connection.closed.wait() returns. *)
Lost ==
    /\ Move("watching", "leaving")
    /\ active # conn
    /\ Clear
    /\ UNCHANGED <<bridge, saved, page, conn, seen, cancelled, reset,
                   listener, call, faults>>

(* The client's context is left and the connection closed if it is not. *)
Left ==
    /\ Move("leaving", "draining")
    /\ CloseSocket(conn)
    /\ UNCHANGED <<bridge, saved, active, conn, seen, cancelled, runtime,
                   reset, listener, call, faults>>

(* After two seconds the handler is no longer waited for. *)
Drained ==
    /\ Move("draining", "reporting")
    /\ told' = [kind |-> "browser_disconnected", conn |-> conn]
    /\ UNCHANGED <<bridge, saved, page, conn, seen, cancelled, runtime, reset,
                   task, loops, call, faults>>

Running(c) == \E l \in loops : l.conn = c

LoopIsOver == ~Running(task)

(* The listener has ended the loop and detached the jobs. *)
Reported ==
    /\ pc = "reporting"
    /\ LoopIsOver
    /\ task' = 0
    /\ pc' = IF cancelled THEN "none" ELSE "waiting"
    /\ UNCHANGED <<bridge, saved, page, conn, seen, cancelled, runtime, reset,
                   told, loops, call, faults>>

------------------------------------------------------------------------------
(* The reconciliation loops (_wire_job_transitions) *)

(* reconcile returns once the runtime is of another generation, which it is    *)
(* before browser_disconnected cancels it; a loop may take its time.  The loop *)
(* that a reset has cancelled ends in ResetCancels.                            *)
LoopEnds(l) ==
    /\ l \in loops
    /\ rgen # l.gen
    /\ reset # "announcing"
    /\ loops' = loops \ {l}
    /\ UNCHANGED <<bridge, saved, page, supervisor, runtime, reset, told,
                   task, call, faults>>

------------------------------------------------------------------------------
(* reset, under the session's lock *)

(* Mutant of EndLoop: the listener leaves the loop of a reset session alone. *)
LeaveLoop == UNCHANGED <<task, loops>>

(* The listener has cancelled the loop, and goes on when it ends. *)
EndLoop ==
    /\ task' = 0
    /\ loops' = {l \in loops : l.conn # task}

(* supervisor.cancel(): its finally clause begins, or is cut short. *)
CancelSupervisor ==
    /\ reset' = "cancelling"
    /\ cancelled' = TRUE
    /\ IF pc \in {"initializing", "listing", "listed", "watching", "aborting"}
       THEN pc' = "leaving" /\ Clear
       ELSE pc' = "none" /\ UNCHANGED runtime

(* With no loop to end, the transition is emitted and the supervisor cancelled *)
(* without a pause.                                                            *)
ResetBegins ==
    /\ reset = "idle"
    /\ issued <= MaxResets
    /\ told' = [kind |-> "reset", conn |-> conn]
    /\ IF Running(task)
       THEN /\ reset' = "announcing"
            /\ UNCHANGED <<pc, cancelled, runtime, task, loops>>
       ELSE CancelSupervisor /\ EndLoop
    /\ UNCHANGED <<bridge, saved, page, conn, seen, call, faults>>

ResetCancels ==
    /\ reset = "announcing"
    /\ EndLoop
    /\ CancelSupervisor
    /\ UNCHANGED <<bridge, saved, page, conn, seen, told, call, faults>>

(* _close_locked goes on with the supervisor's end, the bridge's __aexit__     *)
(* closes the socket.                                                          *)
ResetCloses ==
    /\ reset = "cancelling" /\ pc = "none"
    /\ Clear
    /\ CloseSocket(active)
    /\ reset' = "closing"
    /\ UNCHANGED <<bridge, saved, active, supervisor, listener, call, faults>>

(* Server.close(): a page that came since is closed too. *)
ServerCloses ==
    /\ reset = "closing"
    /\ CloseSocket(active)
    /\ reset' = "stopping"
    /\ UNCHANGED <<bridge, saved, active, supervisor, runtime, listener, call,
                   faults>>

NewIdentity == issued' = issued + 1 /\ epoch' = issued'

(* Server.wait_closed() waits for the handler; then _start_locked. *)
ResetStarts ==
    /\ reset = "stopping" /\ active = 0
    /\ NewIdentity
    /\ gen' = 0
    /\ pc' = "waiting" /\ conn' = 0 /\ seen' = 0 /\ cancelled' = FALSE
    /\ reset' = "idle"
    /\ UNCHANGED <<made, saved, page, runtime, listener, call, faults>>

(* colab_reset_connection and colab_connect, once they have waited. *)
Persist ==
    /\ saved # epoch
    /\ saved' = epoch
    /\ UNCHANGED <<bridge, page, supervisor, runtime, reset, listener, call,
                   faults>>

(* The broker dies and its replacement starts from the file. *)
BrokerRestarts ==
    /\ Fault
    /\ epoch' = saved /\ gen' = Fresh.gen
    /\ active' = Fresh.active /\ socket' = Fresh.socket
    /\ pc' = Fresh.pc /\ conn' = Fresh.conn /\ seen' = Fresh.seen
    /\ cancelled' = Fresh.cancelled /\ reset' = Fresh.reset
    /\ client' = Fresh.client /\ rgen' = Fresh.rgen /\ told' = Fresh.told
    /\ task' = Fresh.task /\ loops' = Fresh.loops
    /\ call' = [k \in Calls |-> IF call[k].phase = "pending"
                                THEN [call[k] EXCEPT !.phase = "dead"]
                                ELSE call[k]]
    /\ UNCHANGED <<issued, saved, made>>

------------------------------------------------------------------------------
(* list_tools and call_tool *)

Ask(k) ==
    /\ call[k].phase = "idle"
    /\ IsConnected
    /\ call' = [call EXCEPT ![k] =
                 [phase |-> "pending", conn |-> client, epoch |-> epoch]]
    /\ UNCHANGED <<bridge, saved, page, supervisor, runtime, reset, listener,
                   faults>>

Answer(k) ==
    /\ call[k].phase = "pending"
    /\ Reading /\ conn = call[k].conn
    /\ active = conn /\ socket = "up"
    /\ call' = [call EXCEPT ![k].phase = "answered"]
    /\ UNCHANGED <<bridge, saved, page, supervisor, runtime, reset, listener,
                   faults>>

(* Mutant of LossOrError: no request is told that its transport is gone. *)
AlwaysError == "failed"

LossOrError == IF IsConnected THEN "failed" ELSE "lost"

(* A timeout, an error of the page, or the closed stream of the client, which  *)
(* may be told before closed is set.                                           *)
Raises(k) ==
    /\ call[k].phase = "pending"
    /\ call' = [call EXCEPT ![k].phase = LossOrError]
    /\ UNCHANGED <<bridge, saved, page, supervisor, runtime, reset, listener,
                   faults>>

------------------------------------------------------------------------------
Next ==
    \/ Connect \/ SocketDrops \/ StreamsClose \/ HandlerEnds
    \/ Announce \/ PageAnswers \/ PageFails \/ PageGone \/ Aborts
    \/ Ready \/ NotReady \/ Lost \/ Left \/ Drained \/ Reported
    \/ \E l \in loops : LoopEnds(l)
    \/ ResetBegins \/ ResetCancels \/ ResetCloses \/ ServerCloses \/ ResetStarts
    \/ Persist \/ BrokerRestarts
    \/ \E k \in Calls : Ask(k) \/ Answer(k) \/ Raises(k)

Spec == Init /\ [][Next]_vars

(* The event loop runs every coroutine that can go on, timeouts and socket     *)
(* closes end, and a page with the current URL keeps connecting and answers.   *)
Fairness ==
    /\ WF_vars(Connect) /\ WF_vars(PageAnswers)
    /\ WF_vars(StreamsClose) /\ WF_vars(HandlerEnds)
    /\ WF_vars(Announce) /\ WF_vars(PageGone) /\ WF_vars(Aborts)
    /\ WF_vars(Ready) /\ WF_vars(NotReady) /\ WF_vars(Lost) /\ WF_vars(Left)
    /\ WF_vars(Drained) /\ WF_vars(Reported)
    /\ WF_vars(\E l \in loops : LoopEnds(l))
    /\ WF_vars(ResetCancels) /\ WF_vars(ResetCloses) /\ WF_vars(ServerCloses)
    /\ WF_vars(ResetStarts)

FairSpec == Spec /\ Fairness
==============================================================================
