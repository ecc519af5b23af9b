---------------------------- MODULE CommandPlane ----------------------------
(***************************************************************************)
(* The command server and one command client (one node) working together:  *)
(* the table of tasks (db.rs), the registry of sessions (app_state.rs),    *)
(* the server side of each connection (session.rs), the HTTP and console   *)
(* handlers that notify it, and the client (ws.rs, executor.rs, main.rs).  *)
(*                                                                         *)
(* A connection lives in a slot.  The client is attached to one connection *)
(* at a time, but reconnects without waiting for the server to notice that *)
(* the previous connection is gone, so sessions of the same node overlap.  *)
(* A handler of session.rs that calls the database twice takes two steps:  *)
(* the second one is the try_dispatch_next_task that it ends with.         *)
(* Of the table "nodes" (see TaskStore) only one thing matters here: the   *)
(* node has advertised its commands, so tasks can be created for it.       *)
(* Frames that change no state (pings, SubAck, SessionInfo, errors, empty  *)
(* TaskPullResponses) are left out.                                        *)
(***************************************************************************)
EXTENDS TaskTable

CONSTANTS ThisNode,     \* the node whose client is modelled
          Slot,         \* connections that may exist at the same time
          NoSlot,
          NoTask,
          MaxTasks,     \* bound: tasks created
          MaxCancels,   \* bound: tasks canceled
          MaxFaults,    \* bound: connections cut and server crashes
          MaxTimeouts,  \* bound: in-flight timeouts that expire
          MaxTroubles   \* bound: faults, timeouts and cancels together

ASSUME PlaneAssumption ==
    /\ ThisNode \in Node
    /\ NoSlot \notin Slot
    /\ {MaxTasks, MaxCancels, MaxFaults, MaxTimeouts, MaxTroubles} \subseteq Nat
    /\ NoTask \notin [id : Nat \ {0}, ignored : BOOLEAN]
    /\ NoTask \notin [id : Nat \ {0}, canceled : BOOLEAN]

VARIABLES
    tasks,      \* the table "tasks"; survives a crash of the server
    advertised, \* the table "nodes" lists the node's commands; survives too
    notices,    \* notify_node and notify_task_cancel calls that handlers still owe
    registry,   \* AppState.sessions: the session whose sender is registered
    ses,        \* the state of each handle_node_socket
    sig,        \* the unbounded channel of SessionSignals of each session
    up, down,   \* frames on the way to the server, to the client
    conn,       \* "none", "up", or "cut" (dead, though an end may not know yet)
    cslot,      \* the connection run_ws_session is on
    running,    \* the client's running_task
    orphans,    \* processes started by the client that it lost track of
    starts,     \* history: how often the client started each task
    faults, timeouts    \* what is left of MaxFaults and MaxTimeouts

serverVars == <<advertised, notices, registry>>
clientVars == <<cslot, running, orphans, starts>>
budget     == <<faults, timeouts>>
vars == <<tasks, serverVars, ses, sig, up, down, conn, clientVars, budget>>

-----------------------------------------------------------------------------
(* Frames and signals. *)

Id == 1..MaxTasks

UpFrame == [kind : {"subscribe", "hello", "catalog", "pull"}] \cup [kind : {"ack"}, id : Id]
              \cup [kind : {"result"}, id : Id, outcome : {"success", "failure"}]
DownFrame == [kind : {"close"}] \cup [kind : {"assign", "cancel"}, id : Id]
Signal == [kind : {"dispatch", "cancel"}, id : Id]

Subscribe       == [kind |-> "subscribe"]
Hello           == [kind |-> "hello"]
CommandCatalog  == [kind |-> "catalog"]
Pull            == [kind |-> "pull"]
Ack(id)         == [kind |-> "ack", id |-> id]
Result(id, out) == [kind |-> "result", id |-> id, outcome |-> out]
Assign(id)      == [kind |-> "assign", id |-> id]
CancelFrame(id) == [kind |-> "cancel", id |-> id]
CloseFrame      == [kind |-> "close"]

Closed  == [pc |-> "free", subscribed |-> FALSE, registered |-> FALSE, inflight |-> NoTask]
Opened  == [Closed EXCEPT !.pc = "open"]

\* cancel_requested is set together with ignore_result wherever it is set.
InFlight == [id : Id, ignored : BOOLEAN]
Session  == [pc : {"free", "open", "dispatch", "closing"}, subscribed : BOOLEAN,
             registered : BOOLEAN, inflight : InFlight \cup {NoTask}]
Process  == [id : Id, canceled : BOOLEAN]

TypeOK ==
    /\ tasks \in Table /\ Len(tasks) <= MaxTasks
    /\ advertised \in BOOLEAN
    /\ notices \subseteq Signal
    /\ registry \in Slot \cup {NoSlot}
    /\ ses \in [Slot -> Session]
    /\ sig \in [Slot -> Seq(Signal)]
    /\ up \in [Slot -> Seq(UpFrame)]
    /\ down \in [Slot -> Seq(DownFrame)]
    /\ conn \in [Slot -> {"none", "up", "cut"}]
    /\ cslot \in Slot \cup {NoSlot}
    /\ running \in Process \cup {NoTask} /\ (cslot = NoSlot => running = NoTask)
    /\ orphans \in Nat
    /\ starts \in [Id -> Nat]
    /\ faults \in 0..MaxFaults
    /\ timeouts \in 0..MaxTimeouts

Init ==
    /\ tasks = <<>> /\ advertised = FALSE /\ notices = {} /\ registry = NoSlot
    /\ ses = [s \in Slot |-> Closed]
    /\ sig = [s \in Slot |-> <<>>]
    /\ up = [s \in Slot |-> <<>>]
    /\ down = [s \in Slot |-> <<>>]
    /\ conn = [s \in Slot |-> "none"]
    /\ cslot = NoSlot /\ running = NoTask /\ orphans = 0
    /\ starts = [id \in Id |-> 0]
    /\ faults = MaxFaults /\ timeouts = MaxTimeouts

Canceled == {id \in DOMAIN tasks : tasks[id].canceled}

TroubleLeft ==
    (MaxFaults - faults) + (MaxTimeouts - timeouts) + Cardinality(Canceled) < MaxTroubles

Attached(s) == cslot = s
Live(s) == ses[s].pc \in {"open", "dispatch"}

\* A frame sent on a dead connection, or to a session that has stopped reading
\* its socket, goes nowhere; a send that reports it ends in Leave or ClientError.
SendDown(s, frames) == down' = [down EXCEPT ![s] = IF conn[s] = "up" THEN @ \o frames ELSE @]
SendUp(frames) ==
    up' = [up EXCEPT ![cslot] = IF conn[cslot] = "up" /\ Live(cslot) THEN @ \o frames ELSE @]

-----------------------------------------------------------------------------
(* HTTP and console handlers: the database call, and then the notification. *)

\* Mutant of CreateTask: notify_node is not called.
CreateTaskSilently ==
    /\ advertised /\ Len(tasks) < MaxTasks
    /\ tasks' = Insert(tasks, ThisNode)
    /\ UNCHANGED <<serverVars, ses, sig, up, down, conn, clientVars, budget>>

CreateTask ==
    /\ advertised /\ Len(tasks) < MaxTasks
    /\ tasks' = Insert(tasks, ThisNode)
    /\ notices' = notices \cup {[kind |-> "dispatch", id |-> Len(tasks) + 1]}
    /\ UNCHANGED <<advertised, registry, ses, sig, up, down, conn, clientVars, budget>>

CancelTask(id) ==
    /\ tasks[id].status \in Cancelable
    /\ Cardinality(Canceled) < MaxCancels /\ TroubleLeft
    /\ tasks' = Cancel(tasks, id)
    /\ notices' = notices \cup {[kind |-> "cancel", id |-> id]}
    /\ UNCHANGED <<advertised, registry, ses, sig, up, down, conn, clientVars, budget>>

\* With no session registered the signal is dropped.
Notify(note) ==
    /\ notices' = notices \ {note}
    /\ sig' = IF registry = NoSlot THEN sig ELSE [sig EXCEPT ![registry] = Append(@, note)]
    /\ UNCHANGED <<tasks, advertised, registry, ses, up, down, conn, clientVars, budget>>

-----------------------------------------------------------------------------
(* The session of the server on connection s. *)

\* claim_task, the assignment sent and in_flight_task set, or nothing queued.
ClaimFor(s) ==
    IF QueuedFor(tasks, ThisNode) = {}
    THEN /\ ses' = [ses EXCEPT ![s].pc = "open"]
         /\ UNCHANGED <<tasks, down>>
    ELSE LET id == NextTask(tasks, ThisNode) IN
         /\ tasks' = Claim(tasks, ThisNode)
         /\ SendDown(s, <<Assign(id)>>)
         /\ ses' = [ses EXCEPT ![s].pc = "open",
                               ![s].inflight = [id |-> id, ignored |-> FALSE]]

TryDispatch(s) ==
    IF ses[s].registered /\ ses[s].inflight = NoTask /\ ses[s].subscribed
    THEN ClaimFor(s)
    ELSE /\ ses' = [ses EXCEPT ![s].pc = "open"]
         /\ UNCHANGED <<tasks, down>>

Dispatch(s) ==
    /\ ses[s].pc = "dispatch"
    /\ TryDispatch(s)
    /\ UNCHANGED <<serverVars, sig, up, conn, clientVars, budget>>

Receives(s, kind) ==
    /\ ses[s].pc = "open"
    /\ up[s] # <<>>
    /\ Head(up[s]).kind = kind
    /\ up' = [up EXCEPT ![s] = Tail(@)]
    /\ UNCHANGED <<notices, registry, sig, conn, clientVars, budget>>

\* The client subscribes before it says hello: try_dispatch_next_task, which
\* this handler calls too, finds a session that is not registered.
ReceiveSubscribe(s) ==
    /\ Receives(s, "subscribe")
    /\ ses' = [ses EXCEPT ![s].subscribed = TRUE]
    /\ UNCHANGED <<tasks, advertised, down>>

\* Mutant of ReceiveHello: tasks of a former session are not requeued.
ReceiveHelloNoRequeue(s) ==
    /\ Receives(s, "hello")
    /\ ses' = [ses EXCEPT ![s].pc = "dispatch", ![s].registered = TRUE]
    /\ UNCHANGED <<tasks, advertised, down>>

ReceiveHello(s) ==
    /\ Receives(s, "hello")
    /\ tasks' = RequeueIncomplete(tasks, ThisNode)
    /\ ses' = [ses EXCEPT ![s].pc = "dispatch", ![s].registered = TRUE]
    /\ UNCHANGED <<advertised, down>>

\* update_node_commands: the row exists, hello came first.
ReceiveCatalog(s) ==
    /\ Receives(s, "catalog")
    /\ advertised' = TRUE
    /\ UNCHANGED <<tasks, ses, down>>

\* Mutant of ReceivePull: in_flight_task.is_some() is not checked.
ReceivePullUnchecked(s) ==
    /\ Receives(s, "pull")
    /\ IF ses[s].registered THEN ClaimFor(s) ELSE UNCHANGED <<tasks, ses, down>>
    /\ UNCHANGED advertised

\* respond_to_task_pull does not look at the subscriptions.
ReceivePull(s) ==
    /\ Receives(s, "pull")
    /\ IF ses[s].registered /\ ses[s].inflight = NoTask
       THEN ClaimFor(s)
       ELSE UNCHANGED <<tasks, ses, down>>
    /\ UNCHANGED advertised

Expected(s, id) == ses[s].inflight # NoTask /\ ses[s].inflight.id = id

ReceiveAck(s) ==
    /\ Receives(s, "ack")
    /\ LET id == Head(up[s]).id IN
       tasks' = IF Expected(s, id) /\ ~ses[s].inflight.ignored
                THEN Acknowledge(tasks, id, ThisNode) ELSE tasks
    /\ UNCHANGED <<advertised, ses, down>>

\* Mutant of ReceiveResult: an ignored result does not free in_flight_task.
ReceiveResultKeepsIgnored(s) ==
    /\ Receives(s, "result")
    /\ LET id == Head(up[s]).id IN
       IF Expected(s, id) /\ ~ses[s].inflight.ignored
       THEN /\ tasks' = SubmitResult(tasks, id, ThisNode, Head(up[s]).outcome)
            /\ ses' = [ses EXCEPT ![s].pc = "dispatch", ![s].inflight = NoTask]
       ELSE UNCHANGED <<tasks, ses>>
    /\ UNCHANGED <<advertised, down>>

ReceiveResult(s) ==
    /\ Receives(s, "result")
    /\ LET id == Head(up[s]).id IN
       IF Expected(s, id)
       THEN /\ tasks' = IF ses[s].inflight.ignored THEN tasks
                        ELSE SubmitResult(tasks, id, ThisNode, Head(up[s]).outcome)
            /\ ses' = [ses EXCEPT ![s].pc = "dispatch", ![s].inflight = NoTask]
       ELSE UNCHANGED <<tasks, ses>>
    /\ UNCHANGED <<advertised, down>>

\* Mutant of HandleSignal: the result will be ignored, but no TaskCancel is sent.
HandleSignalNoFrame(s) ==
    /\ ses[s].pc = "open"
    /\ sig[s] # <<>>
    /\ sig' = [sig EXCEPT ![s] = Tail(@)]
    /\ IF Head(sig[s]).kind = "cancel" /\ Expected(s, Head(sig[s]).id)
       THEN /\ ses' = [ses EXCEPT ![s].inflight.ignored = TRUE]
            /\ UNCHANGED <<tasks, down>>
       ELSE TryDispatch(s)
    /\ UNCHANGED <<serverVars, up, conn, clientVars, budget>>

\* signal_rx.recv(): TryDispatch, or CancelTask with its own task in flight or not.
HandleSignal(s) ==
    /\ ses[s].pc = "open"
    /\ sig[s] # <<>>
    /\ sig' = [sig EXCEPT ![s] = Tail(@)]
    /\ IF Head(sig[s]).kind = "cancel" /\ Expected(s, Head(sig[s]).id)
       THEN /\ SendDown(s, IF ses[s].inflight.ignored THEN <<>>
                           ELSE <<CancelFrame(Head(sig[s]).id)>>)
            /\ ses' = [ses EXCEPT ![s].inflight.ignored = TRUE]
            /\ UNCHANGED tasks
       ELSE TryDispatch(s)
    /\ UNCHANGED <<serverVars, up, conn, clientVars, budget>>

\* Mutant of InFlightTimeout: ignore_result stays false.
InFlightTimeoutHeeded(s) ==
    /\ timeouts > 0 /\ TroubleLeft
    /\ ses[s].pc = "open"
    /\ ses[s].inflight # NoTask
    /\ ~ses[s].inflight.ignored
    /\ tasks' = Retry(tasks, ses[s].inflight.id, ThisNode)
    /\ SendDown(s, <<CancelFrame(ses[s].inflight.id)>>)
    /\ timeouts' = timeouts - 1
    /\ UNCHANGED <<serverVars, ses, sig, up, conn, clientVars, faults>>

\* handle_in_flight_timeout on a heartbeat, once timeout_secs have passed.
InFlightTimeout(s) ==
    /\ timeouts > 0 /\ TroubleLeft
    /\ ses[s].pc = "open"
    /\ ses[s].inflight # NoTask
    /\ ~ses[s].inflight.ignored
    /\ tasks' = Retry(tasks, ses[s].inflight.id, ThisNode)
    /\ SendDown(s, <<CancelFrame(ses[s].inflight.id)>>)
    /\ ses' = [ses EXCEPT ![s].inflight.ignored = TRUE]
    /\ timeouts' = timeouts - 1
    /\ UNCHANGED <<serverVars, sig, up, conn, clientVars, faults>>

\* The loop breaks: the socket is dead, or the channel is empty and its sender
\* was dropped from the registry.  remove_session(node_id) removes whichever
\* session is registered for the node.
Leave(s) ==
    /\ ses[s].pc = "open"
    /\ conn[s] = "cut" \/ (registry # s /\ sig[s] = <<>>)
    /\ ses' = [ses EXCEPT ![s].pc = "closing"]
    /\ registry' = NoSlot
    /\ up' = [up EXCEPT ![s] = <<>>]
    /\ sig' = [sig EXCEPT ![s] = <<>>]
    /\ UNCHANGED <<tasks, advertised, notices, down, conn, clientVars, budget>>

Close(s) ==
    /\ ses[s].pc = "closing"
    /\ tasks' = RequeueIncomplete(tasks, ThisNode)
    /\ ses' = [ses EXCEPT ![s] = Closed]
    /\ SendDown(s, <<CloseFrame>>)
    /\ conn' = [conn EXCEPT ![s] = IF Attached(s) THEN @ ELSE "none"]
    /\ UNCHANGED <<serverVars, sig, up, clientVars, budget>>

-----------------------------------------------------------------------------
(* The client. *)

\* Bootstrap, upgrade, Connect and ConnAck; insert_session replaces the sender
\* of an older session of the node.
Connect(s) ==
    /\ cslot = NoSlot
    /\ ses[s].pc = "free" /\ conn[s] = "none"
    /\ cslot' = s
    /\ conn' = [conn EXCEPT ![s] = "up"]
    /\ ses' = [ses EXCEPT ![s] = Opened]
    /\ registry' = s
    /\ up' = [up EXCEPT ![s] = <<Subscribe, Hello, CommandCatalog, Pull>>]
    /\ UNCHANGED <<tasks, advertised, notices, sig, down, running, orphans, starts, budget>>

ClientReceives(kind) ==
    /\ cslot # NoSlot
    /\ down[cslot] # <<>>
    /\ Head(down[cslot]).kind = kind

Consume == down' = [down EXCEPT ![cslot] = Tail(@)]

\* start_task_assignment: dropped without an ack while another task runs.
ReceiveAssign ==
    /\ ClientReceives("assign")
    /\ Consume
    /\ LET id == Head(down[cslot]).id IN
       IF running # NoTask
       THEN UNCHANGED <<up, running, starts>>
       ELSE \/ /\ SendUp(<<Ack(id)>>)
               /\ running' = [id |-> id, canceled |-> FALSE]
               /\ starts' = [starts EXCEPT ![id] = @ + 1]
            \/ \* StartTaskOutcome::Completed: no process, no pull after the result
               /\ SendUp(<<Ack(id), Result(id, "failure")>>)
               /\ UNCHANGED <<running, starts>>
    /\ UNCHANGED <<tasks, serverVars, ses, sig, conn, cslot, orphans, budget>>

ReceiveCancel ==
    /\ ClientReceives("cancel")
    /\ Consume
    /\ running' = IF running # NoTask /\ running.id = Head(down[cslot]).id
                  THEN [running EXCEPT !.canceled = TRUE] ELSE running
    /\ UNCHANGED <<tasks, serverVars, ses, sig, up, conn, cslot, orphans, starts, budget>>

\* Mutant of Detach: running_task outlives the connection.
DetachKeepsTask ==
    /\ conn' = [conn EXCEPT ![cslot] = IF ses[cslot].pc = "free" THEN "none" ELSE "cut"]
    /\ down' = [down EXCEPT ![cslot] = <<>>]
    /\ cslot' = NoSlot
    /\ UNCHANGED <<tasks, serverVars, ses, sig, up, running, starts, budget>>

\* run_ws_session returns: the RunningCommand is dropped with the connection.
Detach ==
    /\ conn' = [conn EXCEPT ![cslot] = IF ses[cslot].pc = "free" THEN "none" ELSE "cut"]
    /\ down' = [down EXCEPT ![cslot] = <<>>]
    /\ cslot' = NoSlot
    /\ running' = NoTask
    /\ UNCHANGED <<tasks, serverVars, ses, sig, up, starts, budget>>

\* The close frame arrives: the child is killed first.
ReceiveClose ==
    /\ ClientReceives("close")
    /\ Detach
    /\ UNCHANGED orphans

\* A read or write fails: the child is dropped alive, and keeps running unless
\* it had been killed.
ClientError ==
    /\ cslot # NoSlot
    /\ conn[cslot] = "cut"
    /\ Detach
    /\ orphans' = IF running # NoTask /\ ~running.canceled THEN orphans + 1 ELSE orphans

\* The progress tick finds that the child has exited.
FinishTask(outcome) ==
    /\ running # NoTask
    /\ LET reported == IF running.canceled THEN "failure" ELSE outcome IN
       SendUp(<<Result(running.id, reported), Pull>>)
    /\ running' = NoTask
    /\ UNCHANGED <<tasks, serverVars, ses, sig, down, conn, cslot, orphans, starts, budget>>

OrphanExit ==
    /\ orphans > 0
    /\ orphans' = orphans - 1
    /\ UNCHANGED <<tasks, serverVars, ses, sig, up, down, conn, cslot, running, starts, budget>>

-----------------------------------------------------------------------------
(* Faults. *)

\* The network drops the connection; frames already received are still read.
Cut(s) ==
    /\ faults > 0 /\ TroubleLeft
    /\ conn[s] = "up"
    /\ conn' = [conn EXCEPT ![s] = "cut"]
    /\ faults' = faults - 1
    /\ UNCHANGED <<tasks, serverVars, ses, sig, up, down, clientVars, timeouts>>

\* The server process dies and is started again: the tables survive.
ServerCrash ==
    /\ faults > 0 /\ TroubleLeft
    /\ notices' = {} /\ registry' = NoSlot
    /\ ses' = [s \in Slot |-> Closed]
    /\ sig' = [s \in Slot |-> <<>>]
    /\ up' = [s \in Slot |-> <<>>]
    /\ conn' = [s \in Slot |-> IF Attached(s) THEN "cut" ELSE "none"]
    /\ faults' = faults - 1
    /\ UNCHANGED <<tasks, advertised, down, clientVars, timeouts>>

-----------------------------------------------------------------------------
SessionStep(s) ==
    \/ ReceiveSubscribe(s) \/ ReceiveHello(s) \/ ReceiveCatalog(s) \/ ReceivePull(s)
    \/ ReceiveAck(s) \/ ReceiveResult(s)
    \/ HandleSignal(s) \/ Dispatch(s)

ClientStep == ReceiveAssign \/ ReceiveCancel \/ ReceiveClose

Next ==
    \/ CreateTask
    \/ \E id \in DOMAIN tasks : CancelTask(id)
    \/ \E note \in notices : Notify(note)
    \/ \E s \in Slot : \/ SessionStep(s) \/ InFlightTimeout(s)
                       \/ Leave(s) \/ Close(s) \/ Connect(s) \/ Cut(s)
    \/ ClientStep \/ ClientError \/ OrphanExit
    \/ \E outcome \in {"success", "failure"} : FinishTask(outcome)
    \/ ServerCrash

Spec == Init /\ [][Next]_vars

\* The server's tasks keep running, messages that were sent arrive unless the
\* connection dies, and a dead connection is noticed (both ends send pings).
\* select! takes its branches in any order: fairness is of the session, not of
\* each branch.
ServerFairness ==
    /\ \A s \in Slot : /\ WF_vars(SessionStep(s))
                       /\ WF_vars(Leave(s))
                       /\ WF_vars(Close(s))
    /\ \A note \in Signal : WF_vars(note \in notices /\ Notify(note))

ClientFairness ==
    /\ WF_vars(\E s \in Slot : Connect(s))
    /\ WF_vars(ClientStep)
    /\ WF_vars(ClientError)

\* A child that was killed exits.
KilledExits == WF_vars(running # NoTask /\ running.canceled /\ FinishTask("failure"))

\* A command ends by itself, unless its task was canceled: that one may go on
\* for ever if it is not killed.
CommandsEnd ==
    WF_vars(/\ running # NoTask /\ tasks[running.id].status # "canceled"
            /\ \E outcome \in {"success", "failure"} : FinishTask(outcome))

FairSpec == Spec /\ ServerFairness /\ ClientFairness /\ KilledExits /\ CommandsEnd

-----------------------------------------------------------------------------
(* Safety. *)

\* The tasks that connection s carries, each at its place: assigned, then running,
\* then reported.
Carried(s) ==
    {[at |-> "down", nr |-> i, id |-> down[s][i].id] :
        i \in {i \in DOMAIN down[s] : down[s][i].kind = "assign"}}
    \cup {[at |-> "client", nr |-> 1, id |-> task.id] : task \in {running} \ {NoTask}}
    \cup {[at |-> "up", nr |-> i, id |-> up[s][i].id] :
            i \in {i \in DOMAIN up[s] : up[s][i].kind = "result"}}

\* While a connection works, in_flight_task is exactly what is on it: one
\* assignment, process or result when it is set, and none when it is not.  So a
\* client never drops an assignment because it is busy (ws.rs), an in-flight
\* task is never waited for in vain, and neither pull and push (session.rs) nor
\* an ignored result ever put a second task on the connection.
OneTaskPerConnection ==
    \A s \in Slot :
        Attached(s) /\ conn[s] = "up" /\ Live(s) =>
            IF ses[s].inflight = NoTask THEN Carried(s) = {}
            ELSE \E task \in Carried(s) :
                    task.id = ses[s].inflight.id /\ Carried(s) = {task}

\* No row is left in dispatched or running with nobody responsible for it: some
\* session still has the task in flight (and will get its result, time out or
\* requeue it when it closes), or no session has said hello since the server
\* started, and the first hello requeues it.
NothingStuck ==
    \A id \in DOMAIN tasks : tasks[id].status \in InProgress =>
        \/ \E s \in Slot : ses[s].pc # "free" /\ Expected(s, id)
        \/ \A s \in Slot : ~ses[s].registered

\* No lost wakeup: when the node's only session is idle while a task waits for
\* it, a signal or a pull that will make it claim is already on its way
\* (create_task notifies after its insert, requeue and retry notify nobody).
NoLostWakeup ==
    \A s \in Slot :
        /\ registry = s
        /\ ses[s].pc = "open" /\ ses[s].registered /\ ses[s].inflight = NoTask
        /\ \A other \in Slot \ {s} : ses[other].pc = "free"
        /\ QueuedFor(tasks, ThisNode) # {}
        => notices # {} \/ sig[s] # <<>> \/ Pull \in {up[s][i] : i \in DOMAIN up[s]}

\* retry_count bounds executions: whatever is lost, requeued or timed out, the
\* client has started a task at most once for each time it was handed out.
StartsCounted ==
    \A id \in DOMAIN tasks :
        starts[id] <= tasks[id].retry_count + (IF tasks[id].dispatched THEN 1 ELSE 0)

\* A canceled task does not go on running unnoticed: until its process has been
\* told, the cancel is owed by a handler, queued for the session or on the wire.
CancelOnItsWay ==
    LET Told(id) == [kind |-> "cancel", id |-> id] IN
    /\ running # NoTask
    /\ ~running.canceled
    /\ tasks[running.id].status = "canceled"
    /\ conn[cslot] = "up" /\ Live(cslot) /\ registry = cslot
    => \/ Told(running.id) \in notices
       \/ \E i \in DOMAIN sig[cslot] : sig[cslot][i] = Told(running.id)
       \/ \E i \in DOMAIN down[cslot] : down[cslot][i] = Told(running.id)

\* When sessions do not overlap (one slot), the server's two views of a task
\* agree: what a session has in flight and has not given up is in progress in
\* the table, or was canceled and the session is about to hear of it.
InFlightInProgress ==
    \A s \in Slot :
        Live(s) /\ ses[s].inflight # NoTask /\ ~ses[s].inflight.ignored =>
            LET id == ses[s].inflight.id
                told == [kind |-> "cancel", id |-> id]
            IN  \/ tasks[id].status \in InProgress
                \/ /\ tasks[id].status = "canceled"
                   /\ told \in notices \/ \E i \in DOMAIN sig[s] : sig[s][i] = told

Lifecycle == INSTANCE TaskLifecycle WITH owner <- OwnersOf(tasks), phase <- PhasesOf(tasks)

\* Sessions, signals, pulls, timeouts and crashes move the tasks only as
\* TaskLifecycle allows: a canceled or finished task never comes back, a result
\* counts only for a task that is handed out, tasks go out oldest first.
ImplementsLifecycle == Lifecycle!Spec

-----------------------------------------------------------------------------
(* Liveness, with finitely many faults and timeouts. *)

\* Every task ends: no crash, cut, takeover or timeout leaves it in queued,
\* dispatched or running for ever (capability-baseline.md, 4.6).
EveryTaskEnds ==
    \A id \in Id : (id \in DOMAIN tasks) ~> (id \in DOMAIN tasks /\ tasks[id].status \in Terminal)

\* The client's task that is canceled is stopped, even if its command never ends
\* by itself, and is not started again: killed, or lost with its connection (then
\* its process may live on as an orphan, see OneProcessPerClient).
CancelStopsProcess ==
    \A id \in Id :
        (id \in DOMAIN tasks /\ tasks[id].status = "canceled")
            ~> [](running = NoTask \/ running.id # id)

-----------------------------------------------------------------------------
(* What the documents say, and overlapping sessions or lost processes break. *)

\* capability-baseline.md 5.7: a client executes one task at a time.
OneProcessPerClient == running # NoTask => orphans = 0

\* long-connection-spec.md 7.2: the client publishes the TaskResult of the task
\* it was assigned, and the server updates the task's status and result.  Here
\* only for the session that is registered and that the client is connected to.
ResultClosesTask ==
    [][\A s \in Slot :
          /\ ReceiveResult(s) /\ Expected(s, Head(up[s]).id) /\ ~ses[s].inflight.ignored
          /\ registry = s /\ Attached(s) /\ conn[s] = "up"
          => tasks'[Head(up[s]).id].status \in Terminal]_vars
=============================================================================
