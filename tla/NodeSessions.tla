---------------------------- MODULE NodeSessions ----------------------------
(***************************************************************************)
(* The life of the connections of nodes as the console can see it: the     *)
(* handshake of handle_node_socket (session.rs), the check of tokens       *)
(* (auth.rs), the registry of sessions (app_state.rs), the table "nodes"   *)
(* and the table "session_events" (db.rs).  What a session does with tasks *)
(* between its hello and its end is the subject of CommandPlane; here the  *)
(* tasks only move, and are requeued by a hello and by an end.             *)
(*                                                                         *)
(* A connection is one upgrade of GET /ws/nodes/:node_id.  Whoever makes   *)
(* it puts any node's id into the path, the Connect frame and the hello.   *)
(* Every statement of the database is a step, so is every access to the    *)
(* registry: sessions of the same node interleave between them.            *)
(***************************************************************************)
EXTENDS ConsoleReads

CONSTANTS Conn,         \* bound: connections ever made
          Path,         \* bound: the nodes in whose name they are made
          NoConn,       \* a node without an entry in the registry
          OwnToken,     \* the nodes of RU_SERVER_NODE_TOKENS_JSON
          HasShared,    \* whether RU_SERVER_SHARED_TOKEN is set
          SharedToken,  \* its value
          NoToken,      \* a token that is nobody's
          Busy,         \* nodes with a task in hand when the behaviour starts
          MaxEvents     \* bound: a hello is said while the log is shorter than this

ASSUME SessionsAssumption ==
    /\ Path \subseteq Node /\ Path # {} /\ OwnToken \subseteq Node
    /\ HasShared \in BOOLEAN /\ (HasShared \/ OwnToken # {})
    /\ NoConn \notin Conn
    /\ SharedToken \notin Node /\ NoToken \notin Node \cup {SharedToken}
    /\ Busy \subseteq Node /\ IsFiniteSet(Busy)
    /\ MaxEvents \in Nat

VARIABLES
    conn,       \* handle_node_socket of each connection: its step and its node
    registry,   \* AppState.sessions
    rows,       \* the table "nodes": for each row the token its writer had shown
    events,     \* the table "session_events"
    tasks       \* the table "tasks"

sessionVars == <<conn, registry, rows, events, tasks>>

\* The token of the node, or else the shared one.
Expected(n) == IF n \in OwnToken THEN n ELSE SharedToken

\* verify_node_token: without a shared token, a node that has none of its own is refused
\* whatever it shows.
Verified(n, token) == (n \in OwnToken \/ HasShared) /\ token = Expected(n)

Token == Node \cup {SharedToken, NoToken}

NoRow == [known |-> FALSE, by |-> NoToken]

\* The steps of handle_node_socket, and of handle_publish for a hello.
Step == {"none", "connecting", "verified", "inserted", "open", "requeued", "written",
         "registered", "removed", "closed", "ended"}

SessionsTypeOK ==
    /\ conn \in [Conn -> [pc : Step, node : Node, hello : Node, token : Token]]
    /\ registry \in [Node -> Conn \cup {NoConn}]
    /\ rows \in [Node -> [known : BOOLEAN, by : Token]]
    /\ events \in Seq(Event)
    /\ tasks \in Seq(Task)

SessionsInit ==
    /\ LET n == CHOOSE n \in Path : TRUE
       IN  conn = [c \in Conn |-> [pc |-> "none", node |-> n, hello |-> n, token |-> NoToken]]
    /\ registry = [n \in Node |-> NoConn]
    /\ rows = [n \in Node |-> NoRow]
    /\ events = <<>>
    /\ tasks = [id \in 1..Cardinality(Busy) |-> ClaimedRow(NewRow(SetToSeq(Busy)[id]))]

\* record_session_event
Recorded(n, kind) == Append(events, [node |-> n, kind |-> kind])

At(c, step) == conn[c].pc = step
Goes(c, step) == conn' = [conn EXCEPT ![c].pc = step]

\* Waiting in tokio::select!, before its first hello or after it.
InLoop(c) == conn[c].pc \in {"open", "registered"}

-----------------------------------------------------------------------------
(* The handshake. *)

\* node_ws
Upgrade(c) ==
    /\ At(c, "none")
    /\ \E n \in Path : conn' = [conn EXCEPT ![c].pc = "connecting",
                                         ![c].node = n, ![c].hello = n]
    /\ UNCHANGED <<registry, rows, events, tasks>>

\* receive_connect fails: ten seconds pass, the socket ends, another frame comes.
NoConnect(c) ==
    /\ At(c, "connecting")
    /\ Goes(c, "ended")
    /\ events' = Recorded(conn[c].node, "connect_rejected")
    /\ UNCHANGED <<registry, rows, tasks>>

\* The Connect frame: client_id is compared with the path, then the token is checked.
ReceiveConnect(c, id, token) ==
    /\ At(c, "connecting")
    /\ LET n == conn[c].node
       IN  IF id = n /\ Verified(n, token)
           THEN /\ conn' = [conn EXCEPT ![c].pc = "verified", ![c].token = token]
                /\ UNCHANGED events
           ELSE /\ Goes(c, "ended")
                /\ events' = Recorded(n, IF id # n THEN "connect_rejected" ELSE "auth_failed")
    /\ UNCHANGED <<registry, rows, tasks>>

\* The ConnAck cannot be sent: nothing is recorded.
ConnackFails(c) ==
    /\ At(c, "verified")
    /\ Goes(c, "ended")
    /\ UNCHANGED <<registry, rows, events, tasks>>

\* insert_session, once the ConnAck has been sent
InsertSession(c) ==
    /\ At(c, "verified")
    /\ registry' = [registry EXCEPT ![conn[c].node] = c]
    /\ Goes(c, "inserted")
    /\ UNCHANGED <<rows, events, tasks>>

RecordOpened(c) ==
    /\ At(c, "inserted")
    /\ events' = Recorded(conn[c].node, "session_opened")
    /\ Goes(c, "open")
    /\ UNCHANGED <<registry, rows, tasks>>

-----------------------------------------------------------------------------
(* The hello: requeue_incomplete_tasks, register_node, the event. *)

\* Mutant of HelloAccepted: the hello may name any node.
HelloAny(c, id) == TRUE

\* A hello for another node is answered with an error.
HelloAccepted(c, id) == id = conn[c].node

\* A client may say hello again.
Hello(c, id) ==
    /\ InLoop(c) /\ HelloAccepted(c, id)
    /\ Len(events) < MaxEvents
    /\ tasks' = RequeueIncomplete(tasks, conn[c].node)
    /\ conn' = [conn EXCEPT ![c].pc = "requeued", ![c].hello = id]
    /\ UNCHANGED <<registry, rows, events>>

\* register_node writes the row of the node that the hello names.
RegisterNode(c) ==
    /\ At(c, "requeued")
    /\ rows' = [rows EXCEPT ![conn[c].hello] = [known |-> TRUE, by |-> conn[c].token]]
    /\ Goes(c, "written")
    /\ UNCHANGED <<registry, events, tasks>>

\* update_node_commands: a catalog, before a hello or after it, writes the row of the
\* node in the path; without a row it is answered with an error.
ReceiveCatalog(c) ==
    /\ InLoop(c)
    /\ rows[conn[c].node].known
    /\ rows' = [rows EXCEPT ![conn[c].node].by = conn[c].token]
    /\ UNCHANGED <<conn, registry, events, tasks>>

RecordRegistered(c) ==
    /\ At(c, "written")
    /\ events' = Recorded(conn[c].node, "node_registered")
    /\ Goes(c, "registered")
    /\ UNCHANGED <<registry, rows, tasks>>

-----------------------------------------------------------------------------
(* The end. *)

\* signal_rx.recv() gives None: the sender was replaced in the registry or removed.
Orphaned(c) == InLoop(c) /\ registry[conn[c].node] # c

\* Mutant of Removed: the entry is left behind.
RemovedNothing(n) == registry

\* remove_session: whichever session the entry belongs to.
Removed(n) == [registry EXCEPT ![n] = NoConn]

\* The loop breaks: the socket has failed, the session is orphaned, or register_node
\* has failed in the middle of a hello.
RemoveSession(c) ==
    /\ InLoop(c) \/ At(c, "requeued")
    /\ registry' = Removed(conn[c].node)
    /\ Goes(c, "removed")
    /\ UNCHANGED <<rows, events, tasks>>

RecordClosed(c) ==
    /\ At(c, "removed")
    /\ events' = Recorded(conn[c].node, "session_closed")
    /\ Goes(c, "closed")
    /\ UNCHANGED <<registry, rows, tasks>>

\* requeue_incomplete_tasks at the end of handle_node_socket
Requeue(c) ==
    /\ At(c, "closed")
    /\ tasks' = RequeueIncomplete(tasks, conn[c].node)
    /\ Goes(c, "ended")
    /\ UNCHANGED <<registry, rows, events>>

-----------------------------------------------------------------------------
\* Mutant of Continue: a session does not notice that its sender is gone, and waits for
\* its socket alone.
ContinueDeaf(c) ==
    \/ InsertSession(c) \/ RecordOpened(c) \/ RegisterNode(c) \/ RecordRegistered(c)
    \/ RecordClosed(c) \/ Requeue(c)

\* What a session does without anything more from the peer.
Continue(c) ==
    \/ InsertSession(c) \/ RecordOpened(c) \/ RegisterNode(c) \/ RecordRegistered(c)
    \/ RecordClosed(c) \/ Requeue(c)
    \/ Orphaned(c) /\ RemoveSession(c)

\* What a peer that holds its node's token does, and what breaks its session.
PeerStep(c) ==
    \/ Upgrade(c) \/ RemoveSession(c) \/ ReceiveCatalog(c)
    \/ ReceiveConnect(c, conn[c].node, Expected(conn[c].node))
    \/ \E id \in Node : Hello(c, id)

\* What any other peer does.
Misbehave(c) ==
    \/ NoConnect(c) \/ ConnackFails(c)
    \/ \E id \in Node, token \in Token :
          /\ <<id, token>> # <<conn[c].node, Expected(conn[c].node)>>
          /\ ReceiveConnect(c, id, token)

SessionsNext == \E c \in Conn : Continue(c) \/ PeerStep(c) \/ Misbehave(c)

\* A session's task is scheduled as long as it need not wait for its peer.
SessionsSpec ==
    /\ SessionsInit /\ [][SessionsNext]_sessionVars
    /\ \A c \in Conn : WF_sessionVars(Continue(c))

-----------------------------------------------------------------------------
(* Properties. *)

\* Whatever order connections end and begin in, the registry holds no session that
\* has left its loop: no node is shown online, and no notice sent, for a session
\* that is gone, although remove_session takes the entry of any session of the node.
NoGhostSession ==
    \A n \in Node : registry[n] # NoConn =>
        /\ conn[registry[n]].node = n
        /\ conn[registry[n]].pc \in {"inserted", "open", "requeued", "written", "registered"}

\* The row of a node was written by somebody who had shown this node's token,
\* although a connection names the node three times: path, Connect and hello.
RowsWrittenByOwner == \A n \in Node : rows[n].known => rows[n].by = Expected(n)

\* A session that another one of its node has replaced or removed does not stay in
\* its loop, where no dispatch and no cancellation reaches it: it ends, and with it
\* what it held is queued again.
OrphanEnds == \A c \in Conn : Orphaned(c) ~> At(c, "ended")
=============================================================================
