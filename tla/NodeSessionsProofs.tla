-------------------------- MODULE NodeSessionsProofs --------------------------
(***************************************************************************)
(* Theorems about NodeSessions, for any number of connections and nodes:   *)
(* no session stays in the registry after its end, and every row of        *)
(* "nodes" was written with its node's token.                              *)
(***************************************************************************)
EXTENDS NodeSessions, TLAPS

\* The steps between insert_session and remove_session.
Live == {"inserted", "open", "requeued", "written", "registered"}

\* The steps after the token was accepted.
Admitted == Live \cup {"verified", "removed", "closed"}

ConnTypes ==
    /\ conn \in [Conn -> [pc : Step, node : Node, hello : Node, token : Token]]
    /\ registry \in [Node -> Conn \cup {NoConn}]
    /\ rows \in [Node -> [known : BOOLEAN, by : Token]]

\* What a connection has shown: the token of its path, and no other node in its hello.
Shown ==
    \A c \in Conn :
        /\ conn[c].hello = conn[c].node
        /\ conn[c].pc \in Admitted => conn[c].token = Expected(conn[c].node)

IInv == ConnTypes /\ Shown /\ NoGhostSession /\ RowsWrittenByOwner

\* The fields of a connection that EXCEPT has changed.
LEMMA StepOfOne ==
    ASSUME ConnTypes, NEW c \in Conn, NEW step \in Step, Goes(c, step)
    PROVE  /\ conn' \in [Conn -> [pc : Step, node : Node, hello : Node, token : Token]]
           /\ conn'[c].pc = step
           /\ \A d \in Conn \ {c} : conn'[d] = conn[d]
           /\ \A d \in Conn : /\ conn'[d].node = conn[d].node
                              /\ conn'[d].hello = conn[d].hello
                              /\ conn'[d].token = conn[d].token
<1>1. conn' = [conn EXCEPT ![c].pc = step]
  BY DEF Goes
<1>2. conn[c] \in [pc : Step, node : Node, hello : Node, token : Token]
  BY DEF ConnTypes
<1>3. conn'[c] = [conn[c] EXCEPT !.pc = step]
  BY <1>1 DEF ConnTypes
<1>4. \A d \in Conn \ {c} : conn'[d] = conn[d]
  BY <1>1 DEF ConnTypes
<1>5. conn' \in [Conn -> [pc : Step, node : Node, hello : Node, token : Token]]
  BY <1>1, <1>2 DEF ConnTypes
<1> QED
  BY <1>2, <1>3, <1>4, <1>5

\* Every token that is expected is a token.
LEMMA ExpectedToken == \A n \in Node : Expected(n) \in Token
  BY DEF Expected, Token

\* A fresh server has no sessions and no rows.
LEMMA InitIInv == SessionsInit => IInv
<1> SUFFICES ASSUME SessionsInit PROVE IInv
  OBVIOUS
<1>1. PICK n \in Node : conn = [c \in Conn |-> [pc |-> "none", node |-> n, hello |-> n,
                                                token |-> NoToken]]
  BY SessionsAssumption DEF SessionsInit
<1>2. ConnTypes
  <2>1. NoToken \in Token /\ "none" \in Step
    BY DEF Token, Step
  <2>2. conn \in [Conn -> [pc : Step, node : Node, hello : Node, token : Token]]
    BY <1>1, <2>1
  <2>3. rows \in [Node -> [known : BOOLEAN, by : Token]]
    BY <2>1 DEF SessionsInit, NoRow
  <2>4. registry \in [Node -> Conn \cup {NoConn}]
    BY DEF SessionsInit
  <2> QED
    BY <2>2, <2>3, <2>4 DEF ConnTypes
<1>3. Shown
  BY <1>1 DEF Shown, Admitted, Live
<1>4. NoGhostSession /\ RowsWrittenByOwner
  BY DEF SessionsInit, NoGhostSession, RowsWrittenByOwner, NoRow
<1> QED
  BY <1>2, <1>3, <1>4 DEF IInv

\* A step that only moves one connection on keeps IInv if it admits no connection
\* that was not admitted, and ends none that is in the registry.
LEMMA MoveKeepsIInv ==
    ASSUME IInv, NEW c \in Conn, NEW step \in Step, Goes(c, step),
           UNCHANGED <<registry, rows>>,
           step \in Admitted => conn[c].pc \in Admitted,
           conn[c].pc \in Live => step \in Live
    PROVE  IInv'
<1>1. /\ ConnTypes'
      /\ conn'[c].pc = step
      /\ \A d \in Conn \ {c} : conn'[d] = conn[d]
      /\ \A d \in Conn : /\ conn'[d].node = conn[d].node
                         /\ conn'[d].hello = conn[d].hello
                         /\ conn'[d].token = conn[d].token
  BY StepOfOne DEF IInv, ConnTypes
<1>2. Shown'
  BY <1>1 DEF IInv, Shown
<1>3. NoGhostSession'
  BY <1>1 DEF IInv, NoGhostSession, ConnTypes, Live
<1>4. RowsWrittenByOwner'
  BY DEF IInv, RowsWrittenByOwner
<1> QED
  BY <1>1, <1>2, <1>3, <1>4 DEF IInv

LEMMA UpgradeKeepsIInv == \A c \in Conn : IInv /\ Upgrade(c) => IInv'
<1> SUFFICES ASSUME NEW c \in Conn, IInv, Upgrade(c) PROVE IInv'
  OBVIOUS
<1>1. PICK n \in Node : conn' = [conn EXCEPT ![c].pc = "connecting",
                                             ![c].node = n, ![c].hello = n]
  BY SessionsAssumption DEF Upgrade
<1>2. conn[c] \in [pc : Step, node : Node, hello : Node, token : Token] /\ conn[c].pc = "none"
  BY DEF IInv, ConnTypes, Upgrade, At
<1>3. conn'[c].pc = "connecting" /\ conn'[c].hello = conn'[c].node
  <2>1. conn'[c] = [conn[c] EXCEPT !.pc = "connecting", !.node = n, !.hello = n]
    BY <1>1 DEF IInv, ConnTypes
  <2> QED
    BY <1>2, <2>1
<1>4. \A d \in Conn \ {c} : conn'[d] = conn[d]
  BY <1>1 DEF IInv, ConnTypes
<1>5. ConnTypes'
  BY <1>1, <1>2 DEF IInv, ConnTypes, Upgrade, Step
<1>6. Shown'
  BY <1>2, <1>3, <1>4 DEF IInv, Shown, Admitted, Live
<1>7. NoGhostSession' /\ RowsWrittenByOwner'
  BY <1>2, <1>4 DEF IInv, NoGhostSession, RowsWrittenByOwner, ConnTypes, Upgrade
<1> QED
  BY <1>5, <1>6, <1>7 DEF IInv

LEMMA ReceiveConnectKeepsIInv ==
    \A c \in Conn, id \in Node, token \in Token : IInv /\ ReceiveConnect(c, id, token) => IInv'
<1> SUFFICES ASSUME NEW c \in Conn, NEW id \in Node, NEW token \in Token,
                    IInv, ReceiveConnect(c, id, token)
             PROVE  IInv'
  OBVIOUS
<1>1. CASE Goes(c, "ended")
  BY <1>1, MoveKeepsIInv DEF ReceiveConnect, At, Step, Admitted, Live
<1>2. CASE conn' = [conn EXCEPT ![c].pc = "verified", ![c].token = token]
  <2>1. token = Expected(conn[c].node) \/ Goes(c, "ended")
    BY DEF ReceiveConnect, Verified
  <2>2. CASE token = Expected(conn[c].node)
    <3>1. /\ conn[c] \in [pc : Step, node : Node, hello : Node, token : Token]
          /\ conn[c].pc = "connecting"
      BY DEF IInv, ConnTypes, ReceiveConnect, At
    <3>2. /\ conn'[c].node = conn[c].node /\ conn'[c].hello = conn[c].hello
          /\ conn'[c].token = token
      <4>1. conn'[c] = [conn[c] EXCEPT !.pc = "verified", !.token = token]
        BY <1>2 DEF IInv, ConnTypes
      <4> QED
        BY <3>1, <4>1
    <3>3. \A d \in Conn \ {c} : conn'[d] = conn[d]
      BY <1>2 DEF IInv, ConnTypes
    <3>4. ConnTypes'
      BY <1>2, <3>1 DEF IInv, ConnTypes, ReceiveConnect, Step
    <3>5. Shown'
      BY <2>2, <3>1, <3>2, <3>3 DEF IInv, Shown
    <3>6. NoGhostSession' /\ RowsWrittenByOwner'
      BY <3>1, <3>3 DEF IInv, NoGhostSession, RowsWrittenByOwner, ConnTypes, ReceiveConnect
    <3> QED
      BY <3>4, <3>5, <3>6 DEF IInv
  <2> QED
    BY <1>1, <2>1, <2>2
<1> QED
  BY <1>1, <1>2 DEF ReceiveConnect

LEMMA InsertKeepsIInv == \A c \in Conn : IInv /\ InsertSession(c) => IInv'
<1> SUFFICES ASSUME NEW c \in Conn, IInv, InsertSession(c) PROVE IInv'
  OBVIOUS
<1>1. /\ conn' \in [Conn -> [pc : Step, node : Node, hello : Node, token : Token]]
      /\ conn'[c].pc = "inserted"
      /\ \A d \in Conn \ {c} : conn'[d] = conn[d]
      /\ \A d \in Conn : /\ conn'[d].node = conn[d].node
                         /\ conn'[d].hello = conn[d].hello
                         /\ conn'[d].token = conn[d].token
  BY StepOfOne DEF IInv, InsertSession, Step
<1>2. conn[c].node \in Node /\ conn[c].pc = "verified"
  BY DEF IInv, ConnTypes, InsertSession, At
<1>3. ConnTypes'
  BY <1>1, <1>2 DEF IInv, ConnTypes, InsertSession
<1>4. Shown'
  BY <1>1, <1>2 DEF IInv, Shown, Admitted
<1>5. NoGhostSession'
  BY <1>1, <1>2 DEF IInv, NoGhostSession, ConnTypes, InsertSession
<1>6. RowsWrittenByOwner'
  BY DEF IInv, RowsWrittenByOwner, InsertSession
<1> QED
  BY <1>3, <1>4, <1>5, <1>6 DEF IInv

LEMMA HelloKeepsIInv == \A c \in Conn, id \in Node : IInv /\ Hello(c, id) => IInv'
<1> SUFFICES ASSUME NEW c \in Conn, NEW id \in Node, IInv, Hello(c, id) PROVE IInv'
  OBVIOUS
<1>1. /\ conn[c] \in [pc : Step, node : Node, hello : Node, token : Token]
      /\ conn[c].pc \in {"open", "registered"} /\ conn[c].node = id /\ conn[c].hello = id
  BY DEF IInv, ConnTypes, Shown, Hello, HelloAccepted, InLoop
<1>2. /\ conn'[c].pc = "requeued" /\ conn'[c].hello = id
      /\ conn'[c].node = conn[c].node /\ conn'[c].token = conn[c].token
  <2>1. conn'[c] = [conn[c] EXCEPT !.pc = "requeued", !.hello = id]
    BY DEF IInv, ConnTypes, Hello
  <2> QED
    BY <1>1, <2>1
<1>3. \A d \in Conn \ {c} : conn'[d] = conn[d]
  BY DEF IInv, ConnTypes, Hello
<1>4. ConnTypes'
  BY <1>1 DEF IInv, ConnTypes, Hello, Step
<1>5. Shown'
  BY <1>1, <1>2, <1>3 DEF IInv, Shown, Admitted, Live
<1>6. NoGhostSession' /\ RowsWrittenByOwner'
  BY <1>1, <1>2, <1>3 DEF IInv, NoGhostSession, RowsWrittenByOwner, ConnTypes, Hello
<1> QED
  BY <1>4, <1>5, <1>6 DEF IInv

\* The row that is written is the row of the node whose token was shown.
LEMMA RegisterKeepsIInv == \A c \in Conn : IInv /\ RegisterNode(c) => IInv'
<1> SUFFICES ASSUME NEW c \in Conn, IInv, RegisterNode(c) PROVE IInv'
  OBVIOUS
<1>1. /\ conn' \in [Conn -> [pc : Step, node : Node, hello : Node, token : Token]]
      /\ conn'[c].pc = "written"
      /\ \A d \in Conn \ {c} : conn'[d] = conn[d]
      /\ \A d \in Conn : /\ conn'[d].node = conn[d].node
                         /\ conn'[d].hello = conn[d].hello
                         /\ conn'[d].token = conn[d].token
  BY StepOfOne DEF IInv, RegisterNode, Step
<1>2. /\ conn[c].pc = "requeued" /\ conn[c].hello \in Node /\ conn[c].token \in Token
      /\ conn[c].token = Expected(conn[c].hello)
  BY DEF IInv, ConnTypes, Shown, RegisterNode, At, Admitted, Live
<1>3. rows' = [rows EXCEPT ![conn[c].hello] = [known |-> TRUE, by |-> conn[c].token]]
  BY DEF RegisterNode
<1>4. ConnTypes'
  BY <1>1, <1>2, <1>3 DEF IInv, ConnTypes, RegisterNode
<1>5. Shown'
  BY <1>1, <1>2 DEF IInv, Shown, Admitted, Live
<1>6. NoGhostSession'
  BY SMTT(30), <1>1, <1>2 DEF IInv, NoGhostSession, ConnTypes, RegisterNode
<1>7. RowsWrittenByOwner'
  BY <1>2, <1>3 DEF IInv, RowsWrittenByOwner, ConnTypes
<1> QED
  BY <1>4, <1>5, <1>6, <1>7 DEF IInv

\* A catalog is written to the row of the path, whose token was shown.
LEMMA CatalogKeepsIInv == \A c \in Conn : IInv /\ ReceiveCatalog(c) => IInv'
<1> SUFFICES ASSUME NEW c \in Conn, IInv, ReceiveCatalog(c) PROVE IInv'
  OBVIOUS
<1>1. /\ conn[c].node \in Node /\ conn[c].token \in Token
      /\ conn[c].token = Expected(conn[c].node)
  BY DEF IInv, ConnTypes, Shown, ReceiveCatalog, InLoop, Admitted, Live
<1>2. rows' = [rows EXCEPT ![conn[c].node].by = conn[c].token] /\ UNCHANGED <<conn, registry>>
  BY DEF ReceiveCatalog
<1>3. ConnTypes'
  BY <1>1, <1>2 DEF IInv, ConnTypes
<1>4. Shown' /\ NoGhostSession'
  BY <1>2 DEF IInv, Shown, NoGhostSession
<1>5. RowsWrittenByOwner'
  BY <1>1, <1>2 DEF IInv, RowsWrittenByOwner, ConnTypes
<1> QED
  BY <1>3, <1>4, <1>5 DEF IInv

\* remove_session takes the entry of the node, so no entry of an ended session stays.
LEMMA RemoveKeepsIInv == \A c \in Conn : IInv /\ RemoveSession(c) => IInv'
<1> SUFFICES ASSUME NEW c \in Conn, IInv, RemoveSession(c) PROVE IInv'
  OBVIOUS
<1>1. /\ conn' \in [Conn -> [pc : Step, node : Node, hello : Node, token : Token]]
      /\ conn'[c].pc = "removed"
      /\ \A d \in Conn \ {c} : conn'[d] = conn[d]
      /\ \A d \in Conn : /\ conn'[d].node = conn[d].node
                         /\ conn'[d].hello = conn[d].hello
                         /\ conn'[d].token = conn[d].token
  BY StepOfOne DEF IInv, RemoveSession, Step
<1>2. conn[c].pc \in {"open", "requeued", "registered"} /\ conn[c].node \in Node
  BY DEF IInv, ConnTypes, RemoveSession, InLoop, At
<1>3. registry' = [registry EXCEPT ![conn[c].node] = NoConn]
  BY DEF RemoveSession, Removed
<1>4. ConnTypes'
  BY <1>1, <1>2, <1>3 DEF IInv, ConnTypes, RemoveSession
<1>5. Shown'
  BY <1>1, <1>2 DEF IInv, Shown, Admitted, Live
<1>6. NoGhostSession'
  <2> SUFFICES ASSUME NEW n \in Node, registry'[n] # NoConn
               PROVE  /\ conn'[registry'[n]].node = n
                      /\ conn'[registry'[n]].pc \in Live
    BY DEF NoGhostSession, Live
  <2>1. n # conn[c].node /\ registry'[n] = registry[n]
    BY <1>2, <1>3 DEF IInv, ConnTypes
  <2>2. registry[n] \in Conn /\ conn[registry[n]].node = n /\ conn[registry[n]].pc \in Live
    BY <2>1 DEF IInv, ConnTypes, NoGhostSession, Live
  <2>3. registry[n] # c
    BY <2>1, <2>2
  <2> QED
    BY <1>1, <2>1, <2>2, <2>3
<1>7. RowsWrittenByOwner'
  BY DEF IInv, RowsWrittenByOwner, RemoveSession
<1> QED
  BY <1>4, <1>5, <1>6, <1>7 DEF IInv

\* Every step keeps IInv.
LEMMA NextKeepsIInv == IInv /\ [SessionsNext]_sessionVars => IInv'
<1> SUFFICES ASSUME IInv, [SessionsNext]_sessionVars PROVE IInv'
  OBVIOUS
<1> USE DEF At, Step, Admitted, Live
<1>1. CASE UNCHANGED sessionVars
  BY <1>1 DEF sessionVars, IInv, ConnTypes, Shown, NoGhostSession, RowsWrittenByOwner
<1>2. ASSUME NEW c \in Conn, Continue(c) PROVE IInv'
  <2>1. CASE InsertSession(c)
    BY <2>1, InsertKeepsIInv
  <2>2. CASE RecordOpened(c)
    BY <2>2, MoveKeepsIInv DEF RecordOpened
  <2>3. CASE RegisterNode(c)
    BY <2>3, RegisterKeepsIInv
  <2>4. CASE RecordRegistered(c)
    BY <2>4, MoveKeepsIInv DEF RecordRegistered
  <2>5. CASE RecordClosed(c)
    BY <2>5, MoveKeepsIInv DEF RecordClosed
  <2>6. CASE Requeue(c)
    BY <2>6, MoveKeepsIInv DEF Requeue
  <2>7. CASE Orphaned(c) /\ RemoveSession(c)
    BY <2>7, RemoveKeepsIInv
  <2> QED
    BY <1>2, <2>1, <2>2, <2>3, <2>4, <2>5, <2>6, <2>7 DEF Continue
<1>3. ASSUME NEW c \in Conn, PeerStep(c) PROVE IInv'
  <2>1. CASE Upgrade(c)
    BY <2>1, UpgradeKeepsIInv
  <2>2. CASE RemoveSession(c)
    BY <2>2, RemoveKeepsIInv
  <2>3. CASE ReceiveConnect(c, conn[c].node, Expected(conn[c].node))
    <3>1. conn[c].node \in Node /\ Expected(conn[c].node) \in Token
      BY ExpectedToken DEF IInv, ConnTypes
    <3> QED
      BY <2>3, <3>1, ReceiveConnectKeepsIInv
  <2>4. CASE \E id \in Node : Hello(c, id)
    BY <2>4, HelloKeepsIInv
  <2>5. CASE ReceiveCatalog(c)
    BY <2>5, CatalogKeepsIInv
  <2> QED
    BY <1>3, <2>1, <2>2, <2>3, <2>4, <2>5 DEF PeerStep
<1>4. ASSUME NEW c \in Conn, Misbehave(c) PROVE IInv'
  <2>1. CASE NoConnect(c)
    BY <2>1, MoveKeepsIInv DEF NoConnect
  <2>2. CASE ConnackFails(c)
    BY <2>2, MoveKeepsIInv DEF ConnackFails
  <2>3. CASE \E id \in Node, token \in Token : ReceiveConnect(c, id, token)
    BY <2>3, ReceiveConnectKeepsIInv
  <2> QED
    BY <1>4, <2>1, <2>2, <2>3 DEF Misbehave
<1> QED
  BY <1>1, <1>2, <1>3, <1>4 DEF SessionsNext

THEOREM Invariance == SessionsSpec => []IInv
<1> QED
  BY InitIInv, NextKeepsIInv, PTL DEF SessionsSpec

\* The registry never names a session that has left its loop, nor one of another node,
\* although remove_session takes the entry of whichever session the node has.
THEOREM NoGhosts == SessionsSpec => []NoGhostSession
<1>1. IInv => NoGhostSession
  BY DEF IInv
<1> QED
  BY <1>1, Invariance, PTL

\* Whoever connects, under whatever names: the row of a node is written only by a
\* connection that has shown the token of that node.
THEOREM OwnersWriteRows == SessionsSpec => []RowsWrittenByOwner
<1>1. IInv => RowsWrittenByOwner
  BY DEF IInv
<1> QED
  BY <1>1, Invariance, PTL
=============================================================================
