---------------------------- MODULE CommandPlaneProofs ----------------------------
(* The safety of CommandPlane, for every set of slots and every bound: one inductive  *)
(* invariant, what the runs check of it, and the refinement of TaskLifecycle.         *)
(*                                                                                    *)
(* The first part says of each action what it does to the session that takes it and   *)
(* to its two queues, and that it leaves the other slots alone (...Goes); the proofs  *)
(* after it cite these facts instead of expanding the actions. Then come the types,   *)
(* and one part of the invariant at a time: its definition, the lemma that every step *)
(* keeps it, given the parts that it rests on, and that it holds at the start.        *)
EXTENDS CommandPlane, DataProofs, FiniteSetTheorems
-----------------------------------------------------------------------------
(* What the pieces of an action do, slot by slot. *)

Others(f, g, s) == \A o \in Slot \ {s} : g[o] = f[o]

\* Session s, and no other, goes to these values.
SessionGoes(s, pc, subscribed, registered, inflight) ==
    /\ ses' \in [Slot -> Session]
    /\ ses'[s].pc = pc /\ ses'[s].subscribed = subscribed
    /\ ses'[s].registered = registered /\ ses'[s].inflight = inflight
    /\ Others(ses, ses', s)

\* The fields of a session.
LEMMA SessionFields ==
    ASSUME NEW old \in Session
    PROVE  /\ old.pc \in {"free", "open", "dispatch", "closing"}
           /\ old.subscribed \in BOOLEAN /\ old.registered \in BOOLEAN
           /\ old.inflight \in InFlight \cup {NoTask}
BY DEF Session

\* The session is replaced by a new one.
LEMMA RowGoes ==
    ASSUME NEW s \in Slot, ses \in [Slot -> Session], NEW new \in Session,
           ses' = [ses EXCEPT ![s] = new]
    PROVE  SessionGoes(s, new.pc, new.subscribed, new.registered, new.inflight)
BY DEF SessionGoes, Others

\* Only the place of the session in its code changes.
LEMMA PcGoes ==
    ASSUME NEW s \in Slot, ses \in [Slot -> Session],
           NEW pc \in {"free", "open", "dispatch", "closing"}, ses' = [ses EXCEPT ![s].pc = pc]
    PROVE  SessionGoes(s, pc, ses[s].subscribed, ses[s].registered, ses[s].inflight)
<1> DEFINE new == [ses[s] EXCEPT !.pc = pc]
<1>1. /\ new \in Session /\ new.pc = pc /\ new.subscribed = ses[s].subscribed
      /\ new.registered = ses[s].registered /\ new.inflight = ses[s].inflight
  BY DEF Session
<1>2. ses' = [ses EXCEPT ![s] = new]
  OBVIOUS
<1> HIDE DEF new
<1> QED BY <1>1, <1>2, RowGoes

\* The session has claimed task id: it waits for its result in its loop.
LEMMA ClaimGoes ==
    ASSUME NEW s \in Slot, ses \in [Slot -> Session],
           NEW pc \in {"free", "open", "dispatch", "closing"},
           NEW task \in InFlight \cup {NoTask},
           ses' = [ses EXCEPT ![s].pc = pc, ![s].inflight = task]
    PROVE  SessionGoes(s, pc, ses[s].subscribed, ses[s].registered, task)
<1> DEFINE new == [ses[s] EXCEPT !.pc = pc, !.inflight = task]
<1>1. /\ new \in Session /\ new.pc = pc /\ new.subscribed = ses[s].subscribed
      /\ new.registered = ses[s].registered /\ new.inflight = task
  BY DEF Session
<1>2. ses' = [ses EXCEPT ![s] = new]
  OBVIOUS
<1> HIDE DEF new
<1> QED BY <1>1, <1>2, RowGoes

\* The session has told the client to cancel, and ignores the result.
LEMMA IgnoreGoes ==
    ASSUME NEW s \in Slot, ses \in [Slot -> Session], ses[s].inflight \in InFlight,
           ses' = [ses EXCEPT ![s].inflight.ignored = TRUE]
    PROVE  /\ SessionGoes(s, ses[s].pc, ses[s].subscribed, ses[s].registered, ses'[s].inflight)
           /\ ses'[s].inflight \in InFlight
           /\ ses'[s].inflight.id = ses[s].inflight.id /\ ses'[s].inflight.ignored
<1> DEFINE task == [ses[s].inflight EXCEPT !.ignored = TRUE]
           new == [ses[s] EXCEPT !.inflight = task]
<1>1. task \in InFlight /\ task.id = ses[s].inflight.id /\ task.ignored
  BY DEF InFlight
<1>2. ses' = [ses EXCEPT ![s] = new]
  OBVIOUS
<1> HIDE DEF task
<1>3. /\ new \in Session /\ new.pc = ses[s].pc /\ new.subscribed = ses[s].subscribed
      /\ new.registered = ses[s].registered /\ new.inflight = task
  BY <1>1 DEF Session
<1> HIDE DEF new
<1>4. SessionGoes(s, new.pc, new.subscribed, new.registered, new.inflight)
  BY <1>2, <1>3, RowGoes
<1> QED BY <1>1, <1>3, <1>4 DEF SessionGoes

\* The session is subscribed and registered on its connection.
LEMMA SubscribeGoes ==
    ASSUME NEW s \in Slot, ses \in [Slot -> Session],
           ses' = [ses EXCEPT ![s].subscribed = TRUE]
    PROVE  SessionGoes(s, ses[s].pc, TRUE, ses[s].registered, ses[s].inflight)
<1> DEFINE new == [ses[s] EXCEPT !.subscribed = TRUE]
<1>1. /\ new \in Session /\ new.pc = ses[s].pc /\ new.subscribed = TRUE
      /\ new.registered = ses[s].registered /\ new.inflight = ses[s].inflight
  BY DEF Session
<1>2. ses' = [ses EXCEPT ![s] = new]
  OBVIOUS
<1> HIDE DEF new
<1> QED BY <1>1, <1>2, RowGoes

\* The session has said hello.
LEMMA HelloGoes ==
    ASSUME NEW s \in Slot, ses \in [Slot -> Session],
           ses' = [ses EXCEPT ![s].pc = "dispatch", ![s].registered = TRUE]
    PROVE  SessionGoes(s, "dispatch", ses[s].subscribed, TRUE, ses[s].inflight)
<1> DEFINE new == [ses[s] EXCEPT !.pc = "dispatch", !.registered = TRUE]
<1>1. /\ new \in Session /\ new.pc = "dispatch" /\ new.subscribed = ses[s].subscribed
      /\ new.registered = TRUE /\ new.inflight = ses[s].inflight
  BY DEF Session
<1>2. ses' = [ses EXCEPT ![s] = new]
  OBVIOUS
<1> HIDE DEF new
<1>3. SessionGoes(s, new.pc, new.subscribed, new.registered, new.inflight)
  BY <1>1, <1>2, RowGoes
<1> QED BY <1>1, <1>3 DEF SessionGoes

\* What a queue of each slot becomes when one slot's is replaced.
LEMMA QueueGoes ==
    ASSUME NEW X, NEW f \in [Slot -> Seq(X)], NEW s \in Slot, NEW q \in Seq(X),
           NEW g, g = [f EXCEPT ![s] = q]
    PROVE  g \in [Slot -> Seq(X)] /\ g[s] = q /\ Others(f, g, s)
BY DEF Others

\* The frames that a client sends, and what they carry.
LEMMA UpFrameKinds ==
    ASSUME NEW frame \in UpFrame
    PROVE  /\ frame.kind \in {"subscribe", "hello", "catalog", "pull", "ack", "result"}
           /\ frame.kind = "subscribe" <=> frame = Subscribe
           /\ frame.kind = "hello" <=> frame = Hello
           /\ frame.kind = "pull" <=> frame = Pull
           /\ frame.kind \in {"ack", "result"} => frame.id \in Id
           /\ frame.kind = "result" => frame.outcome \in {"success", "failure"}
BY DEF UpFrame, Subscribe, Hello, Pull

\* The frames that the server sends, and what they carry.
LEMMA DownFrameKinds ==
    ASSUME NEW frame \in DownFrame
    PROVE  /\ frame.kind \in {"close", "assign", "cancel"}
           /\ frame.kind \in {"assign", "cancel"} => frame.id \in Id
           /\ frame.kind = "assign" => frame = Assign(frame.id)
           /\ frame.kind = "cancel" => frame = CancelFrame(frame.id)
BY DEF DownFrame, Assign, CancelFrame

\* A frame of a queue has the type of its direction.
LEMMA FrameTypes ==
    /\ {Subscribe, Hello, CommandCatalog, Pull} \subseteq UpFrame
    /\ CloseFrame \in DownFrame
    /\ \A id \in Id : /\ Ack(id) \in UpFrame
                      /\ \A out \in {"success", "failure"} : Result(id, out) \in UpFrame
                      /\ Assign(id) \in DownFrame /\ CancelFrame(id) \in DownFrame
BY DEF UpFrame, DownFrame, Subscribe, Hello, CommandCatalog, Pull, CloseFrame, Ack, Result,
       Assign, CancelFrame

-----------------------------------------------------------------------------
(* What each action does. *)

\* The values that the lemmas below need of a state.
LEMMA Values ==
    ASSUME TypeOK, NEW s \in Slot
    PROVE  /\ ses[s] \in Session /\ ses[s].pc \in {"free", "open", "dispatch", "closing"}
           /\ ses[s].subscribed \in BOOLEAN /\ ses[s].registered \in BOOLEAN
           /\ ses[s].inflight \in InFlight \cup {NoTask}
           /\ sig[s] \in Seq(Signal) /\ up[s] \in Seq(UpFrame) /\ down[s] \in Seq(DownFrame)
           /\ conn[s] \in {"none", "up", "cut"}
BY SessionFields DEF TypeOK

\* What a claim puts in flight is a task, and not its absence.
LEMMA InFlightTask ==
    ASSUME NEW task \in InFlight
    PROVE  task # NoTask /\ task.id \in Id /\ task.ignored \in BOOLEAN
<1>1. task \in [id : Nat \ {0}, ignored : BOOLEAN] /\ task.id \in Id /\ task.ignored \in BOOLEAN
  BY PlaneAssumption DEF InFlight, Id
<1> QED BY <1>1, PlaneAssumption

\* A process of the client has a task.
LEMMA ProcessTask ==
    ASSUME NEW process \in Process
    PROVE  process # NoTask /\ process.id \in Id /\ process.canceled \in BOOLEAN
<1>1. process \in [id : Nat \ {0}, canceled : BOOLEAN] /\ process.id \in Id
      /\ process.canceled \in BOOLEAN
  BY PlaneAssumption DEF Process, Id
<1> QED BY <1>1, PlaneAssumption

\* The tasks of the table have their ids in Id.
LEMMA TaskIds == TypeOK => DOMAIN tasks \subseteq Id
BY SMTT(30), PlaneAssumption DEF TypeOK, Table, Id

\* The bounds of the model are natural numbers.
LEMMA Bounds == MaxTasks \in Nat /\ MaxFaults \in Nat /\ MaxTimeouts \in Nat
BY PlaneAssumption

\* The server sends a frame: it is the last one of the connection, if that is up.
LEMMA SendDownGoes ==
    ASSUME TypeOK, NEW s \in Slot, NEW frames \in Seq(DownFrame), SendDown(s, frames)
    PROVE  /\ down' \in [Slot -> Seq(DownFrame)]
           /\ down'[s] = IF conn[s] = "up" THEN down[s] \o frames ELSE down[s]
           /\ Others(down, down', s)
<1> DEFINE q == IF conn[s] = "up" THEN down[s] \o frames ELSE down[s]
<1>1. q \in Seq(DownFrame) /\ down \in [Slot -> Seq(DownFrame)]
  BY DEF TypeOK
<1>2. down' = [down EXCEPT ![s] = q]
  BY DEF SendDown
<1> HIDE DEF q
<1>3. down' \in [Slot -> Seq(DownFrame)] /\ down'[s] = q /\ Others(down, down', s)
  BY <1>1, <1>2, QueueGoes
<1> QED BY <1>3 DEF q

\* The client sends frames: they are the last ones of the connection, if that is up.
LEMMA SendUpGoes ==
    ASSUME TypeOK, cslot \in Slot, NEW frames \in Seq(UpFrame), SendUp(frames)
    PROVE  /\ up' \in [Slot -> Seq(UpFrame)]
           /\ up'[cslot] = IF conn[cslot] = "up" /\ Live(cslot) THEN up[cslot] \o frames
                           ELSE up[cslot]
           /\ Others(up, up', cslot)
<1> DEFINE q == IF conn[cslot] = "up" /\ Live(cslot) THEN up[cslot] \o frames ELSE up[cslot]
<1>1. q \in Seq(UpFrame) /\ up \in [Slot -> Seq(UpFrame)]
  BY DEF TypeOK
<1>2. up' = [up EXCEPT ![cslot] = q]
  BY DEF SendUp
<1> HIDE DEF q
<1>3. up' \in [Slot -> Seq(UpFrame)] /\ up'[cslot] = q /\ Others(up, up', cslot)
  BY <1>1, <1>2, QueueGoes
<1> QED BY <1>3 DEF q

\* The head of a queue is its first element, and the tail the others.
LEMMA HeadTail ==
    ASSUME NEW X, NEW q \in Seq(X), q # <<>>
    PROVE  /\ Head(q) = q[1] /\ q[1] \in X /\ 1 \in DOMAIN q /\ Len(q) \in Nat \ {0}
           /\ Tail(q) \in Seq(X) /\ Len(Tail(q)) = Len(q) - 1
           /\ \A i \in DOMAIN Tail(q) : i + 1 \in DOMAIN q /\ Tail(q)[i] = q[i + 1]
           /\ \A i \in DOMAIN q \ {1} : i - 1 \in DOMAIN Tail(q) /\ Tail(q)[i - 1] = q[i]
OBVIOUS

\* A frame more at the end of a queue.
LEMMA OneMoreFrame ==
    ASSUME NEW X, NEW q \in Seq(X), NEW x \in X
    PROVE  /\ q \o <<x>> \in Seq(X) /\ Len(q \o <<x>>) = Len(q) + 1
           /\ DOMAIN (q \o <<x>>) = DOMAIN q \cup {Len(q) + 1} /\ Len(q) + 1 \notin DOMAIN q
           /\ (q \o <<x>>)[Len(q) + 1] = x
           /\ \A i \in DOMAIN q : (q \o <<x>>)[i] = q[i] /\ i < Len(q) + 1
OBVIOUS

\* Two frames more.
LEMMA TwoMoreFrames ==
    ASSUME NEW X, NEW q \in Seq(X), NEW x \in X, NEW y \in X
    PROVE  /\ q \o <<x, y>> \in Seq(X)
           /\ DOMAIN (q \o <<x, y>>) = DOMAIN q \cup {Len(q) + 1, Len(q) + 2}
           /\ (q \o <<x, y>>)[Len(q) + 1] = x /\ (q \o <<x, y>>)[Len(q) + 2] = y
           /\ Len(q) + 1 \notin DOMAIN q /\ Len(q) + 2 \notin DOMAIN q
           /\ \A i \in DOMAIN q : (q \o <<x, y>>)[i] = q[i]
OBVIOUS

\* The server takes the first frame of a connection.
LEMMA ReceivesGoes ==
    ASSUME TypeOK, NEW s \in Slot, NEW kind, Receives(s, kind)
    PROVE  /\ ses[s].pc = "open"
           /\ up[s] # <<>> /\ Head(up[s]) = up[s][1] /\ up[s][1] \in UpFrame
           /\ up[s][1].kind = kind /\ 1 \in DOMAIN up[s]
           /\ up' \in [Slot -> Seq(UpFrame)] /\ up'[s] = Tail(up[s]) /\ Others(up, up', s)
           /\ UNCHANGED <<notices, registry, sig, conn, cslot, running, orphans, starts,
                          faults, timeouts>>
<1>1. up[s] \in Seq(UpFrame) /\ up[s] # <<>> /\ up \in [Slot -> Seq(UpFrame)]
  BY DEF Receives, TypeOK
<1>2. Head(up[s]) = up[s][1] /\ up[s][1] \in UpFrame /\ Tail(up[s]) \in Seq(UpFrame)
      /\ 1 \in DOMAIN up[s]
  BY <1>1, HeadTail
<1>3. up' = [up EXCEPT ![s] = Tail(up[s])]
  BY DEF Receives
<1>4. up' \in [Slot -> Seq(UpFrame)] /\ up'[s] = Tail(up[s]) /\ Others(up, up', s)
  BY <1>1, <1>2, <1>3, QueueGoes
<1> QED BY <1>1, <1>2, <1>4 DEF Receives, clientVars, budget

\* Session s goes back to its loop, and nothing was handed out.
Waits(s) ==
    /\ SessionGoes(s, "open", ses[s].subscribed, ses[s].registered, ses[s].inflight)
    /\ UNCHANGED <<tasks, down>>

\* Session s claims task id and sends its assignment.
HandsOut(s, id) ==
    /\ ses[s].registered /\ ses[s].inflight = NoTask
    /\ id = NextTask(tasks, ThisNode) /\ QueuedFor(tasks, ThisNode) # {}
    /\ id \in DOMAIN tasks /\ id \in Id /\ id \in QueuedFor(tasks, ThisNode)
    /\ tasks' = [tasks EXCEPT ![id] = ClaimedRow(tasks[id])]
    /\ SessionGoes(s, "open", ses[s].subscribed, ses[s].registered,
                   [id |-> id, ignored |-> FALSE])
    /\ down' \in [Slot -> Seq(DownFrame)] /\ Others(down, down', s)
    /\ down'[s] = IF conn[s] = "up" THEN down[s] \o <<Assign(id)>> ELSE down[s]

\* claim_task and the assignment that follows, or neither.
LEMMA ClaimForGoes ==
    ASSUME TypeOK, NEW s \in Slot, ses[s].registered, ses[s].inflight = NoTask, ClaimFor(s)
    PROVE  \/ QueuedFor(tasks, ThisNode) = {} /\ Waits(s)
           \/ HandsOut(s, NextTask(tasks, ThisNode))
<1>0. ses \in [Slot -> Session] /\ tasks \in Table
  BY DEF TypeOK
<1>1. CASE QueuedFor(tasks, ThisNode) = {}
  <2>1. ses' = [ses EXCEPT ![s].pc = "open"] /\ UNCHANGED <<tasks, down>>
    BY <1>1 DEF ClaimFor
  <2> QED BY <1>0, <1>1, <2>1, PcGoes DEF Waits
<1>2. CASE QueuedFor(tasks, ThisNode) # {}
  <2> DEFINE id == NextTask(tasks, ThisNode)
  <2>1. /\ tasks' = Claim(tasks, ThisNode)
        /\ SendDown(s, <<Assign(id)>>)
        /\ ses' = [ses EXCEPT ![s].pc = "open", ![s].inflight = [id |-> id, ignored |-> FALSE]]
    BY <1>2 DEF ClaimFor
  <2>2. id \in QueuedFor(tasks, ThisNode) /\ id \in DOMAIN tasks
    BY <1>0, <1>2, NextTaskIsOldest DEF QueuedFor
  <2>3. id \in Id
    BY <2>2, TaskIds
  <2>4. tasks' = [tasks EXCEPT ![id] = ClaimedRow(tasks[id])]
    BY <2>1 DEF Claim
  <2> HIDE DEF id
  <2>5. [id |-> id, ignored |-> FALSE] \in InFlight
    BY <2>3 DEF InFlight
  <2>6. SessionGoes(s, "open", ses[s].subscribed, ses[s].registered,
                    [id |-> id, ignored |-> FALSE])
    BY <1>0, <2>1, <2>5, ClaimGoes
  <2>7. <<Assign(id)>> \in Seq(DownFrame)
    BY <2>3, FrameTypes
  <2>8. /\ down' \in [Slot -> Seq(DownFrame)] /\ Others(down, down', s)
        /\ down'[s] = IF conn[s] = "up" THEN down[s] \o <<Assign(id)>> ELSE down[s]
    BY <2>1, <2>7, SendDownGoes
  <2>9. HandsOut(s, id)
    BY <1>2, <2>2, <2>3, <2>4, <2>6, <2>8 DEF HandsOut, id
  <2> QED BY <2>9 DEF id
<1> QED BY <1>1, <1>2

\* try_dispatch claims and sends, or goes back to the loop.
LEMMA TryDispatchGoes ==
    ASSUME TypeOK, NEW s \in Slot, TryDispatch(s)
    PROVE  \/ /\ \/ QueuedFor(tasks, ThisNode) = {} \/ ses[s].inflight # NoTask
                 \/ ~ses[s].registered \/ ~ses[s].subscribed
              /\ Waits(s)
           \/ \E id \in Id : HandsOut(s, id)
<1>1. CASE ses[s].registered /\ ses[s].inflight = NoTask /\ ses[s].subscribed
  BY <1>1, ClaimForGoes DEF TryDispatch, HandsOut
<1>2. CASE ~(ses[s].registered /\ ses[s].inflight = NoTask /\ ses[s].subscribed)
  <2>1. ses' = [ses EXCEPT ![s].pc = "open"] /\ UNCHANGED <<tasks, down>>
    BY <1>2 DEF TryDispatch
  <2> QED BY <1>2, <2>1, PcGoes DEF Waits, TypeOK
<1> QED BY <1>1, <1>2

\* Reading a subscription.
LEMMA ReceiveSubscribeGoes ==
    ASSUME TypeOK, NEW s \in Slot, ReceiveSubscribe(s)
    PROVE  /\ SessionGoes(s, "open", TRUE, ses[s].registered, ses[s].inflight)
           /\ UNCHANGED <<tasks, advertised, down>>
<1>1. ses[s].pc = "open"
  BY ReceivesGoes DEF ReceiveSubscribe
<1>2. SessionGoes(s, ses[s].pc, TRUE, ses[s].registered, ses[s].inflight)
  BY SubscribeGoes DEF ReceiveSubscribe, TypeOK
<1> QED BY <1>1, <1>2 DEF ReceiveSubscribe, SessionGoes

\* Reading a hello: the node's tasks are queued again.
LEMMA ReceiveHelloGoes ==
    ASSUME TypeOK, NEW s \in Slot, ReceiveHello(s)
    PROVE  /\ SessionGoes(s, "dispatch", ses[s].subscribed, TRUE, ses[s].inflight)
           /\ tasks' = RequeueIncomplete(tasks, ThisNode)
           /\ UNCHANGED <<advertised, down>>
BY HelloGoes DEF ReceiveHello, TypeOK

\* Reading a pull: dispatch unless a task is in flight.
LEMMA ReceivePullGoes ==
    ASSUME TypeOK, NEW s \in Slot, ReceivePull(s)
    PROVE  /\ UNCHANGED advertised
           /\ \/ /\ \/ QueuedFor(tasks, ThisNode) = {} \/ ses[s].inflight # NoTask
                    \/ ~ses[s].registered
                 /\ Waits(s)
              \/ \E id \in Id : HandsOut(s, id)
<1>1. CASE ses[s].registered /\ ses[s].inflight = NoTask
  BY <1>1, ClaimForGoes DEF ReceivePull, HandsOut
<1>2. CASE ~(ses[s].registered /\ ses[s].inflight = NoTask)
  <2>1. UNCHANGED <<tasks, ses, down>> /\ ses[s].pc = "open"
    BY <1>2, ReceivesGoes DEF ReceivePull
  <2>2. Waits(s)
    BY <2>1 DEF Waits, SessionGoes, Others, TypeOK
  <2> QED BY <1>2, <2>2 DEF ReceivePull
<1> QED BY <1>1, <1>2

\* Reading a result: recorded, ignored or not expected.
LEMMA ReceiveResultGoes ==
    ASSUME TypeOK, NEW s \in Slot, ReceiveResult(s)
    PROVE  /\ UNCHANGED <<advertised, down>>
           /\ up[s][1].id \in Id /\ up[s][1].outcome \in {"success", "failure"}
           /\ \/ /\ Expected(s, up[s][1].id)
                 /\ tasks' = IF ses[s].inflight.ignored THEN tasks
                             ELSE SubmitResult(tasks, up[s][1].id, ThisNode, up[s][1].outcome)
                 /\ SessionGoes(s, "dispatch", ses[s].subscribed, ses[s].registered, NoTask)
              \/ ~Expected(s, up[s][1].id) /\ UNCHANGED <<tasks, ses>>
<1>1. /\ Head(up[s]) = up[s][1] /\ up[s][1] \in UpFrame /\ up[s][1].kind = "result"
      /\ ses \in [Slot -> Session]
  BY ReceivesGoes DEF ReceiveResult, TypeOK
<1>2. up[s][1].id \in Id /\ up[s][1].outcome \in {"success", "failure"}
  BY <1>1, UpFrameKinds
<1>3. CASE Expected(s, up[s][1].id)
  <2>1. /\ tasks' = IF ses[s].inflight.ignored THEN tasks
                    ELSE SubmitResult(tasks, up[s][1].id, ThisNode, up[s][1].outcome)
        /\ ses' = [ses EXCEPT ![s].pc = "dispatch", ![s].inflight = NoTask]
    BY <1>1, <1>3 DEF ReceiveResult
  <2>2. SessionGoes(s, "dispatch", ses[s].subscribed, ses[s].registered, NoTask)
    BY <1>1, <2>1, ClaimGoes
  <2> QED BY <1>2, <1>3, <2>1, <2>2 DEF ReceiveResult
<1>4. CASE ~Expected(s, up[s][1].id)
  BY <1>1, <1>2, <1>4 DEF ReceiveResult
<1> QED BY <1>3, <1>4

\* Session s will ignore the result of its task from now on.
Ignores(s) ==
    /\ ses[s].inflight \in InFlight /\ ses[s].pc = "open"
    /\ SessionGoes(s, "open", ses[s].subscribed, ses[s].registered, ses'[s].inflight)
    /\ ses'[s].inflight \in InFlight
    /\ ses'[s].inflight.id = ses[s].inflight.id /\ ses'[s].inflight.ignored

\* What a session does on a cancel of its task.
LEMMA IgnoresGoes ==
    ASSUME TypeOK, NEW s \in Slot, ses[s].pc = "open", ses[s].inflight # NoTask,
           ses' = [ses EXCEPT ![s].inflight.ignored = TRUE]
    PROVE  Ignores(s)
<1>1. ses[s].inflight \in InFlight /\ ses \in [Slot -> Session]
  BY Values DEF TypeOK
<1>2. /\ SessionGoes(s, ses[s].pc, ses[s].subscribed, ses[s].registered, ses'[s].inflight)
      /\ ses'[s].inflight \in InFlight
      /\ ses'[s].inflight.id = ses[s].inflight.id /\ ses'[s].inflight.ignored
  BY <1>1, IgnoreGoes
<1> QED BY <1>1, <1>2 DEF Ignores, SessionGoes

Told(id) == [kind |-> "cancel", id |-> id]

\* A signal asks for a dispatch or tells of a cancel.
LEMMA SignalKinds ==
    ASSUME NEW note \in Signal
    PROVE  /\ note.id \in Id /\ note.kind \in {"dispatch", "cancel"}
           /\ note.kind = "cancel" => note = Told(note.id)
BY DEF Signal, Told

\* Handling one signal.
LEMMA HandleSignalGoes ==
    ASSUME TypeOK, NEW s \in Slot, HandleSignal(s)
    PROVE  /\ UNCHANGED <<advertised, notices, registry, up, conn, cslot, running, orphans,
                          starts, faults, timeouts>>
           /\ ses[s].pc = "open" /\ sig[s] # <<>> /\ sig[s][1] \in Signal
           /\ sig' \in [Slot -> Seq(Signal)] /\ sig'[s] = Tail(sig[s]) /\ Others(sig, sig', s)
           /\ \/ /\ Ignores(s) /\ UNCHANGED tasks
                 /\ sig[s][1] = Told(ses[s].inflight.id)
                 /\ down' \in [Slot -> Seq(DownFrame)] /\ Others(down, down', s)
                 /\ down'[s] = IF conn[s] = "up" /\ ~ses[s].inflight.ignored
                               THEN down[s] \o <<CancelFrame(ses[s].inflight.id)>> ELSE down[s]
              \/ /\ ses[s].inflight = NoTask \/ sig[s][1] # Told(ses[s].inflight.id)
                 /\ TryDispatch(s)
<1>1. sig[s] \in Seq(Signal) /\ sig[s] # <<>> /\ sig \in [Slot -> Seq(Signal)]
      /\ ses[s].pc = "open"
  BY DEF HandleSignal, TypeOK
<1>2. Head(sig[s]) = sig[s][1] /\ sig[s][1] \in Signal /\ Tail(sig[s]) \in Seq(Signal)
  BY <1>1, HeadTail
<1>3. sig' = [sig EXCEPT ![s] = Tail(sig[s])]
  BY DEF HandleSignal
<1>4. sig' \in [Slot -> Seq(Signal)] /\ sig'[s] = Tail(sig[s]) /\ Others(sig, sig', s)
  BY <1>1, <1>2, <1>3, QueueGoes
<1>5. UNCHANGED <<advertised, notices, registry, up, conn, cslot, running, orphans, starts,
                  faults, timeouts>>
  BY DEF HandleSignal, serverVars, clientVars, budget
<1>6. CASE sig[s][1].kind = "cancel" /\ Expected(s, sig[s][1].id)
  <2>1. sig[s][1] = Told(ses[s].inflight.id) /\ ses[s].inflight # NoTask
    BY <1>2, <1>6, SignalKinds DEF Expected
  <2>2. /\ SendDown(s, IF ses[s].inflight.ignored THEN <<>> ELSE <<CancelFrame(sig[s][1].id)>>)
        /\ ses' = [ses EXCEPT ![s].inflight.ignored = TRUE]
        /\ UNCHANGED tasks
    BY <1>2, <1>6 DEF HandleSignal
  <2>3. Ignores(s)
    BY <1>1, <2>1, <2>2, IgnoresGoes
  <2>4. sig[s][1].id = ses[s].inflight.id /\ ses[s].inflight.id \in Id
        /\ CancelFrame(ses[s].inflight.id) \in DownFrame
    BY <1>2, <1>6, SignalKinds, FrameTypes DEF Expected
  <2>5. CASE ses[s].inflight.ignored
    <3>1. SendDown(s, <<>>)
      BY <2>2, <2>5
    <3>2. /\ down' \in [Slot -> Seq(DownFrame)] /\ Others(down, down', s)
          /\ down'[s] = IF conn[s] = "up" THEN down[s] \o <<>> ELSE down[s]
      <4>1. <<>> \in Seq(DownFrame)
        OBVIOUS
      <4> QED BY <3>1, <4>1, SendDownGoes
    <3>3. down[s] \in Seq(DownFrame)
      BY DEF TypeOK
    <3>4. down'[s] = down[s]
      BY <3>2, <3>3
    <3> QED BY <1>1, <1>2, <1>4, <1>5, <2>1, <2>2, <2>3, <2>5, <3>2, <3>4
  <2>6. CASE ~ses[s].inflight.ignored
    <3>1. SendDown(s, <<CancelFrame(ses[s].inflight.id)>>)
      BY <2>2, <2>4, <2>6
    <3>2. /\ down' \in [Slot -> Seq(DownFrame)] /\ Others(down, down', s)
          /\ down'[s] = IF conn[s] = "up" THEN down[s] \o <<CancelFrame(ses[s].inflight.id)>>
                        ELSE down[s]
      <4>1. <<CancelFrame(ses[s].inflight.id)>> \in Seq(DownFrame)
        BY <2>4
      <4> QED BY <3>1, <4>1, SendDownGoes
    <3> QED BY <1>1, <1>2, <1>4, <1>5, <2>1, <2>2, <2>3, <2>6, <3>2
  <2> QED BY <2>5, <2>6
<1>7. CASE ~(sig[s][1].kind = "cancel" /\ Expected(s, sig[s][1].id))
  <2>1. TryDispatch(s)
    BY <1>2, <1>7 DEF HandleSignal
  <2>2. ses[s].inflight = NoTask \/ sig[s][1] # Told(ses[s].inflight.id)
    BY <1>7 DEF Expected, Told
  <2> QED BY <1>1, <1>2, <1>4, <1>5, <2>1, <2>2
<1> QED BY <1>6, <1>7

\* The timer of the task in flight fires.
LEMMA InFlightTimeoutGoes ==
    ASSUME TypeOK, NEW s \in Slot, InFlightTimeout(s)
    PROVE  /\ UNCHANGED <<advertised, notices, registry, sig, up, conn, cslot, running,
                          orphans, starts, faults>>
           /\ timeouts' \in 0..MaxTimeouts
           /\ Ignores(s) /\ ses[s].inflight.id \in Id /\ ~ses[s].inflight.ignored
           /\ tasks' = Retry(tasks, ses[s].inflight.id, ThisNode)
           /\ down' \in [Slot -> Seq(DownFrame)] /\ Others(down, down', s)
           /\ down'[s] = IF conn[s] = "up" THEN down[s] \o <<CancelFrame(ses[s].inflight.id)>>
                         ELSE down[s]
<1>1. /\ ses[s].pc = "open" /\ ses[s].inflight # NoTask /\ ~ses[s].inflight.ignored
      /\ ses' = [ses EXCEPT ![s].inflight.ignored = TRUE]
      /\ SendDown(s, <<CancelFrame(ses[s].inflight.id)>>)
      /\ timeouts' = timeouts - 1 /\ timeouts > 0
  BY DEF InFlightTimeout
<1>2. ses[s].inflight.id \in Id /\ Ignores(s)
  BY <1>1, Values, InFlightTask, IgnoresGoes
<1>3. /\ down' \in [Slot -> Seq(DownFrame)] /\ Others(down, down', s)
      /\ down'[s] = IF conn[s] = "up" THEN down[s] \o <<CancelFrame(ses[s].inflight.id)>>
                    ELSE down[s]
  <2>1. <<CancelFrame(ses[s].inflight.id)>> \in Seq(DownFrame)
    BY <1>2, FrameTypes
  <2> QED BY <1>1, <2>1, SendDownGoes
<1>4. timeouts' \in 0..MaxTimeouts
  <2>1. timeouts \in 0..MaxTimeouts
    BY DEF TypeOK
  <2>2. timeouts' = timeouts - 1 /\ timeouts > 0
    BY <1>1
  <2> QED BY ONLY <2>1, <2>2, Bounds
<1> QED BY <1>1, <1>2, <1>3, <1>4 DEF InFlightTimeout, serverVars, clientVars

\* A session leaves its loop.
LEMMA LeaveGoes ==
    ASSUME TypeOK, NEW s \in Slot, Leave(s)
    PROVE  /\ UNCHANGED <<tasks, advertised, notices, down, conn, cslot, running, orphans,
                          starts, faults, timeouts>>
           /\ ses[s].pc = "open" /\ registry' = NoSlot
           /\ SessionGoes(s, "closing", ses[s].subscribed, ses[s].registered, ses[s].inflight)
           /\ up' \in [Slot -> Seq(UpFrame)] /\ up'[s] = <<>> /\ Others(up, up', s)
           /\ sig' \in [Slot -> Seq(Signal)] /\ sig'[s] = <<>> /\ Others(sig, sig', s)
<1>1. SessionGoes(s, "closing", ses[s].subscribed, ses[s].registered, ses[s].inflight)
  BY PcGoes DEF Leave, TypeOK
<1>2. up' \in [Slot -> Seq(UpFrame)] /\ up'[s] = <<>> /\ Others(up, up', s)
  <2>1. up \in [Slot -> Seq(UpFrame)] /\ <<>> \in Seq(UpFrame) /\ up' = [up EXCEPT ![s] = <<>>]
    BY DEF Leave, TypeOK
  <2> QED BY <2>1, QueueGoes
<1>3. sig' \in [Slot -> Seq(Signal)] /\ sig'[s] = <<>> /\ Others(sig, sig', s)
  <2>1. sig \in [Slot -> Seq(Signal)] /\ <<>> \in Seq(Signal) /\ sig' = [sig EXCEPT ![s] = <<>>]
    BY DEF Leave, TypeOK
  <2> QED BY <2>1, QueueGoes
<1> QED BY <1>1, <1>2, <1>3 DEF Leave, clientVars, budget

\* A session closes: its tasks are queued again, and it is no longer registered.
LEMMA CloseGoes ==
    ASSUME TypeOK, NEW s \in Slot, Close(s)
    PROVE  /\ UNCHANGED <<advertised, notices, registry, sig, up, cslot, running, orphans,
                          starts, faults, timeouts>>
           /\ ses[s].pc = "closing" /\ tasks' = RequeueIncomplete(tasks, ThisNode)
           /\ SessionGoes(s, "free", FALSE, FALSE, NoTask)
           /\ down' \in [Slot -> Seq(DownFrame)] /\ Others(down, down', s)
           /\ down'[s] = IF conn[s] = "up" THEN down[s] \o <<CloseFrame>> ELSE down[s]
           /\ conn' \in [Slot -> {"none", "up", "cut"}] /\ Others(conn, conn', s)
           /\ conn'[s] = IF cslot = s THEN conn[s] ELSE "none"
<1>1. /\ ses' = [ses EXCEPT ![s] = Closed] /\ SendDown(s, <<CloseFrame>>)
      /\ conn' = [conn EXCEPT ![s] = IF cslot = s THEN @ ELSE "none"]
  BY DEF Close, Attached
<1>2. SessionGoes(s, "free", FALSE, FALSE, NoTask)
  <2>1. /\ Closed \in Session /\ Closed.pc = "free" /\ Closed.subscribed = FALSE
        /\ Closed.registered = FALSE /\ Closed.inflight = NoTask
    BY DEF Closed, Session
  <2>2. SessionGoes(s, Closed.pc, Closed.subscribed, Closed.registered, Closed.inflight)
    BY <1>1, <2>1, RowGoes DEF TypeOK
  <2> QED BY <2>1, <2>2 DEF SessionGoes
<1>3. /\ down' \in [Slot -> Seq(DownFrame)] /\ Others(down, down', s)
      /\ down'[s] = IF conn[s] = "up" THEN down[s] \o <<CloseFrame>> ELSE down[s]
  <2>1. <<CloseFrame>> \in Seq(DownFrame)
    BY FrameTypes
  <2> QED BY <1>1, <2>1, SendDownGoes
<1>4. /\ conn' \in [Slot -> {"none", "up", "cut"}] /\ Others(conn, conn', s)
      /\ conn'[s] = IF cslot = s THEN conn[s] ELSE "none"
  BY <1>1 DEF TypeOK, Others
<1> QED BY <1>2, <1>3, <1>4 DEF Close, serverVars, clientVars, budget

\* The client connects on a free slot.
LEMMA ConnectGoes ==
    ASSUME TypeOK, NEW s \in Slot, Connect(s)
    PROVE  /\ UNCHANGED <<tasks, advertised, notices, sig, down, running, orphans, starts,
                          faults, timeouts>>
           /\ cslot = NoSlot /\ cslot' = s /\ registry' = s
           /\ ses[s].pc = "free" /\ conn[s] = "none"
           /\ SessionGoes(s, "open", FALSE, FALSE, NoTask)
           /\ up' \in [Slot -> Seq(UpFrame)] /\ Others(up, up', s)
           /\ up'[s] = <<Subscribe, Hello, CommandCatalog, Pull>>
           /\ conn' \in [Slot -> {"none", "up", "cut"}] /\ Others(conn, conn', s)
           /\ conn'[s] = "up"
<1>1. SessionGoes(s, "open", FALSE, FALSE, NoTask)
  <2>1. /\ Opened \in Session /\ Opened.pc = "open" /\ Opened.subscribed = FALSE
        /\ Opened.registered = FALSE /\ Opened.inflight = NoTask
    BY DEF Opened, Closed, Session
  <2>2. SessionGoes(s, Opened.pc, Opened.subscribed, Opened.registered, Opened.inflight)
    BY <2>1, RowGoes DEF TypeOK, Connect
  <2> QED BY <2>1, <2>2 DEF SessionGoes
<1>2. /\ up' \in [Slot -> Seq(UpFrame)] /\ Others(up, up', s)
      /\ up'[s] = <<Subscribe, Hello, CommandCatalog, Pull>>
  <2>1. <<Subscribe, Hello, CommandCatalog, Pull>> \in Seq(UpFrame)
    BY FrameTypes
  <2>2. up \in [Slot -> Seq(UpFrame)]
        /\ up' = [up EXCEPT ![s] = <<Subscribe, Hello, CommandCatalog, Pull>>]
    BY DEF Connect, TypeOK
  <2> QED BY <2>1, <2>2, QueueGoes
<1>3. /\ conn' \in [Slot -> {"none", "up", "cut"}] /\ Others(conn, conn', s)
      /\ conn'[s] = "up"
  BY DEF TypeOK, Connect, Others
<1> QED BY <1>1, <1>2, <1>3 DEF Connect, budget

\* A notification becomes a signal of the registered session, or is lost.
LEMMA NotifyGoes ==
    ASSUME TypeOK, NEW note \in notices, Notify(note)
    PROVE  /\ UNCHANGED <<tasks, advertised, registry, ses, up, down, conn, cslot, running,
                          orphans, starts, faults, timeouts>>
           /\ notices' = notices \ {note} /\ note \in Signal
           /\ sig' \in [Slot -> Seq(Signal)]
           /\ registry = NoSlot => UNCHANGED sig
           /\ registry # NoSlot => /\ registry \in Slot
                                   /\ sig'[registry] = sig[registry] \o <<note>>
                                   /\ Others(sig, sig', registry)
<1>1. note \in Signal /\ sig \in [Slot -> Seq(Signal)]
  BY DEF TypeOK
<1>2. CASE registry = NoSlot
  BY <1>1, <1>2 DEF Notify, clientVars, budget
<1>3. CASE registry # NoSlot
  <2>1. registry \in Slot
    BY <1>3 DEF TypeOK
  <2>2. sig' = [sig EXCEPT ![registry] = Append(sig[registry], note)]
    BY <1>3 DEF Notify
  <2>3. Append(sig[registry], note) \in Seq(Signal)
        /\ Append(sig[registry], note) = sig[registry] \o <<note>>
    BY <1>1, <2>1
  <2>4. /\ sig' \in [Slot -> Seq(Signal)] /\ sig'[registry] = sig[registry] \o <<note>>
        /\ Others(sig, sig', registry)
    BY <1>1, <2>1, <2>2, <2>3, QueueGoes
  <2> QED BY <1>1, <1>3, <2>1, <2>4 DEF Notify, clientVars, budget
<1> QED BY <1>2, <1>3

\* The client takes the first frame of its connection.
LEMMA ClientReceivesGoes ==
    ASSUME TypeOK, NEW kind, ClientReceives(kind), Consume
    PROVE  /\ cslot \in Slot /\ down[cslot] # <<>> /\ Head(down[cslot]) = down[cslot][1]
           /\ down[cslot][1] \in DownFrame /\ down[cslot][1].kind = kind
           /\ 1 \in DOMAIN down[cslot]
           /\ down' \in [Slot -> Seq(DownFrame)] /\ down'[cslot] = Tail(down[cslot])
           /\ Others(down, down', cslot)
<1>1. cslot \in Slot /\ down[cslot] \in Seq(DownFrame) /\ down[cslot] # <<>>
      /\ down \in [Slot -> Seq(DownFrame)]
  BY DEF ClientReceives, TypeOK
<1>2. Head(down[cslot]) = down[cslot][1] /\ down[cslot][1] \in DownFrame
      /\ Tail(down[cslot]) \in Seq(DownFrame) /\ 1 \in DOMAIN down[cslot]
  BY <1>1, HeadTail
<1>3. down' = [down EXCEPT ![cslot] = Tail(down[cslot])]
  BY DEF Consume
<1>4. down' \in [Slot -> Seq(DownFrame)] /\ down'[cslot] = Tail(down[cslot])
      /\ Others(down, down', cslot)
  BY <1>1, <1>2, <1>3, QueueGoes
<1> QED BY <1>1, <1>2, <1>4 DEF ClientReceives

\* The client starts the assigned task, or drops the assignment.
LEMMA ReceiveAssignGoes ==
    ASSUME TypeOK, ReceiveAssign
    PROVE  /\ UNCHANGED <<tasks, advertised, notices, registry, ses, sig, conn, cslot, orphans,
                          faults, timeouts>>
           /\ cslot \in Slot /\ down[cslot] # <<>> /\ down[cslot][1] = Assign(down[cslot][1].id)
           /\ down[cslot][1].kind = "assign"
           /\ down[cslot][1].id \in Id /\ 1 \in DOMAIN down[cslot]
           /\ down' \in [Slot -> Seq(DownFrame)] /\ down'[cslot] = Tail(down[cslot])
           /\ Others(down, down', cslot)
           /\ up' \in [Slot -> Seq(UpFrame)]
           /\ LET id == down[cslot][1].id IN
              \/ running # NoTask /\ UNCHANGED <<up, running, starts>>
              \/ /\ running = NoTask /\ Others(up, up', cslot)
                 /\ up'[cslot] = IF conn[cslot] = "up" /\ Live(cslot)
                                 THEN up[cslot] \o <<Ack(id)>> ELSE up[cslot]
                 /\ running' \in Process /\ running'.id = id /\ ~running'.canceled
                 /\ starts' = [starts EXCEPT ![id] = @ + 1]
              \/ /\ running = NoTask /\ Others(up, up', cslot)
                 /\ up'[cslot] = IF conn[cslot] = "up" /\ Live(cslot)
                                 THEN up[cslot] \o <<Ack(id), Result(id, "failure")>>
                                 ELSE up[cslot]
                 /\ UNCHANGED <<running, starts>>
<1> DEFINE id == down[cslot][1].id
<1>1. /\ cslot \in Slot /\ down[cslot] # <<>> /\ Head(down[cslot]) = down[cslot][1]
      /\ down[cslot][1] \in DownFrame /\ down[cslot][1].kind = "assign"
      /\ 1 \in DOMAIN down[cslot]
      /\ down' \in [Slot -> Seq(DownFrame)] /\ down'[cslot] = Tail(down[cslot])
      /\ Others(down, down', cslot)
  BY ClientReceivesGoes DEF ReceiveAssign
<1>2. id \in Id /\ down[cslot][1] = Assign(id)
  BY <1>1, DownFrameKinds
<1>3. UNCHANGED <<tasks, advertised, notices, registry, ses, sig, conn, cslot, orphans,
                  faults, timeouts>>
  BY DEF ReceiveAssign, serverVars, budget
<1>4. CASE running # NoTask
  <2>1. UNCHANGED <<up, running, starts>> /\ up \in [Slot -> Seq(UpFrame)]
    BY <1>4 DEF ReceiveAssign, TypeOK
  <2> QED BY <1>1, <1>2, <1>3, <1>4, <2>1
<1>5. CASE running = NoTask
  <2>0. \/ /\ SendUp(<<Ack(id)>>)
           /\ running' = [id |-> id, canceled |-> FALSE]
           /\ starts' = [starts EXCEPT ![id] = @ + 1]
        \/ SendUp(<<Ack(id), Result(id, "failure")>>) /\ UNCHANGED <<running, starts>>
    BY <1>1, <1>5 DEF ReceiveAssign
  <2> HIDE DEF id
  <2>1. Ack(id) \in UpFrame /\ Result(id, "failure") \in UpFrame
    BY <1>2, FrameTypes
  <2>2. ASSUME SendUp(<<Ack(id)>>)
        PROVE  /\ up' \in [Slot -> Seq(UpFrame)] /\ Others(up, up', cslot)
               /\ up'[cslot] = IF conn[cslot] = "up" /\ Live(cslot)
                               THEN up[cslot] \o <<Ack(id)>> ELSE up[cslot]
    <3>1. <<Ack(id)>> \in Seq(UpFrame)
      BY <2>1
    <3> QED BY <1>1, <2>2, <3>1, SendUpGoes
  <2>3. ASSUME SendUp(<<Ack(id), Result(id, "failure")>>)
        PROVE  /\ up' \in [Slot -> Seq(UpFrame)] /\ Others(up, up', cslot)
               /\ up'[cslot] = IF conn[cslot] = "up" /\ Live(cslot)
                               THEN up[cslot] \o <<Ack(id), Result(id, "failure")>>
                               ELSE up[cslot]
    <3>1. <<Ack(id), Result(id, "failure")>> \in Seq(UpFrame)
      BY <2>1
    <3> QED BY <1>1, <2>3, <3>1, SendUpGoes
  <2>4. ASSUME running' = [id |-> id, canceled |-> FALSE]
        PROVE  running' \in Process /\ running'.id = id /\ ~running'.canceled
    BY <1>2, <2>4 DEF Process
  <2>5. \/ /\ up' \in [Slot -> Seq(UpFrame)] /\ Others(up, up', cslot)
           /\ up'[cslot] = IF conn[cslot] = "up" /\ Live(cslot)
                           THEN up[cslot] \o <<Ack(id)>> ELSE up[cslot]
           /\ running' \in Process /\ running'.id = id /\ ~running'.canceled
           /\ starts' = [starts EXCEPT ![id] = @ + 1]
        \/ /\ up' \in [Slot -> Seq(UpFrame)] /\ Others(up, up', cslot)
           /\ up'[cslot] = IF conn[cslot] = "up" /\ Live(cslot)
                           THEN up[cslot] \o <<Ack(id), Result(id, "failure")>>
                           ELSE up[cslot]
           /\ UNCHANGED <<running, starts>>
    BY <2>0, <2>2, <2>3, <2>4
  <2> USE DEF id
  <2> QED BY <1>1, <1>2, <1>3, <1>5, <2>5
<1> QED BY <1>4, <1>5

\* The client marks the process of the canceled task.
LEMMA ReceiveCancelGoes ==
    ASSUME TypeOK, ReceiveCancel
    PROVE  /\ UNCHANGED <<tasks, advertised, notices, registry, ses, sig, up, conn, cslot,
                          orphans, starts, faults, timeouts>>
           /\ cslot \in Slot /\ down[cslot] # <<>> /\ 1 \in DOMAIN down[cslot]
           /\ down[cslot][1].id \in Id /\ down[cslot][1] = CancelFrame(down[cslot][1].id)
           /\ down' \in [Slot -> Seq(DownFrame)] /\ down'[cslot] = Tail(down[cslot])
           /\ Others(down, down', cslot)
           /\ \/ /\ running # NoTask /\ running.id = down[cslot][1].id
                 /\ running' \in Process /\ running'.id = running.id /\ running'.canceled
              \/ /\ running = NoTask \/ running.id # down[cslot][1].id
                 /\ UNCHANGED running
<1>1. /\ cslot \in Slot /\ down[cslot] # <<>> /\ Head(down[cslot]) = down[cslot][1]
      /\ down[cslot][1] \in DownFrame /\ down[cslot][1].kind = "cancel"
      /\ 1 \in DOMAIN down[cslot]
      /\ down' \in [Slot -> Seq(DownFrame)] /\ down'[cslot] = Tail(down[cslot])
      /\ Others(down, down', cslot)
  BY ClientReceivesGoes DEF ReceiveCancel
<1>2. down[cslot][1].id \in Id /\ down[cslot][1] = CancelFrame(down[cslot][1].id)
  BY <1>1, DownFrameKinds
<1>3. CASE running # NoTask /\ running.id = down[cslot][1].id
  <2>1. running' = [running EXCEPT !.canceled = TRUE] /\ running \in Process
    BY <1>1, <1>3 DEF ReceiveCancel, TypeOK
  <2>2. running' \in Process /\ running'.id = running.id /\ running'.canceled
    BY <2>1 DEF Process
  <2> QED BY <1>1, <1>2, <1>3, <2>2 DEF ReceiveCancel, serverVars, budget
<1>4. CASE ~(running # NoTask /\ running.id = down[cslot][1].id)
  <2>1. UNCHANGED running
    BY <1>1, <1>4 DEF ReceiveCancel
  <2> QED BY <1>1, <1>2, <1>4, <2>1 DEF ReceiveCancel, serverVars, budget
<1> QED BY <1>3, <1>4

\* The client is on no connection any more.
LEMMA DetachGoes ==
    ASSUME TypeOK, cslot \in Slot, Detach
    PROVE  /\ UNCHANGED <<tasks, advertised, notices, registry, ses, sig, up, starts, faults,
                          timeouts>>
           /\ cslot' = NoSlot /\ running' = NoTask
           /\ down' \in [Slot -> Seq(DownFrame)] /\ down'[cslot] = <<>>
           /\ Others(down, down', cslot)
           /\ conn' \in [Slot -> {"none", "up", "cut"}] /\ Others(conn, conn', cslot)
           /\ conn'[cslot] \in {"none", "cut"}
<1>1. /\ down' \in [Slot -> Seq(DownFrame)] /\ down'[cslot] = <<>>
      /\ Others(down, down', cslot)
  <2>1. down \in [Slot -> Seq(DownFrame)] /\ <<>> \in Seq(DownFrame)
        /\ down' = [down EXCEPT ![cslot] = <<>>]
    BY DEF Detach, TypeOK
  <2> QED BY <2>1, QueueGoes
<1>2. /\ conn' \in [Slot -> {"none", "up", "cut"}] /\ Others(conn, conn', cslot)
      /\ conn'[cslot] \in {"none", "cut"}
  BY DEF Detach, TypeOK, Others
<1> QED BY <1>1, <1>2 DEF Detach, serverVars, budget

\* The client leaves its connection on a close frame or an error.
LEMMA ClientLeaves ==
    ASSUME TypeOK, ReceiveClose \/ ClientError
    PROVE  cslot \in Slot /\ Detach /\ orphans' \in Nat
BY DEF ReceiveClose, ClientError, ClientReceives, TypeOK

\* The process ends and its result is sent.
LEMMA FinishTaskGoes ==
    ASSUME TypeOK, NEW outcome \in {"success", "failure"}, FinishTask(outcome)
    PROVE  /\ UNCHANGED <<tasks, advertised, notices, registry, ses, sig, down, conn, cslot,
                          orphans, starts, faults, timeouts>>
           /\ running \in Process /\ running' = NoTask /\ cslot \in Slot
           /\ up' \in [Slot -> Seq(UpFrame)] /\ Others(up, up', cslot)
           /\ \E out \in {"success", "failure"} :
                 up'[cslot] = IF conn[cslot] = "up" /\ Live(cslot)
                              THEN up[cslot] \o <<Result(running.id, out), Pull>>
                              ELSE up[cslot]
<1>1. running \in Process /\ cslot \in Slot
  BY DEF FinishTask, TypeOK
<1> DEFINE out == IF running.canceled THEN "failure" ELSE outcome
<1>2. out \in {"success", "failure"} /\ SendUp(<<Result(running.id, out), Pull>>)
  BY DEF FinishTask
<1> HIDE DEF out
<1>3. Result(running.id, out) \in UpFrame /\ Pull \in UpFrame
  BY <1>1, <1>2, ProcessTask, FrameTypes
<1>4. <<Result(running.id, out), Pull>> \in Seq(UpFrame)
  BY <1>3
<1>5. /\ up' \in [Slot -> Seq(UpFrame)] /\ Others(up, up', cslot)
      /\ up'[cslot] = IF conn[cslot] = "up" /\ Live(cslot)
                      THEN up[cslot] \o <<Result(running.id, out), Pull>> ELSE up[cslot]
  BY <1>1, <1>2, <1>4, SendUpGoes
<1> QED BY <1>1, <1>2, <1>5 DEF FinishTask, serverVars, budget

\* The connection breaks.
LEMMA CutGoes ==
    ASSUME TypeOK, NEW s \in Slot, Cut(s)
    PROVE  /\ UNCHANGED <<tasks, advertised, notices, registry, ses, sig, up, down, cslot,
                          running, orphans, starts, timeouts>>
           /\ conn' \in [Slot -> {"none", "up", "cut"}] /\ Others(conn, conn', s)
           /\ conn'[s] = "cut" /\ conn[s] = "up" /\ faults' \in 0..MaxFaults
<1>1. /\ conn' \in [Slot -> {"none", "up", "cut"}] /\ Others(conn, conn', s)
      /\ conn'[s] = "cut" /\ conn[s] = "up"
  BY DEF Cut, TypeOK, Others
<1>2. faults' \in 0..MaxFaults
  BY Bounds DEF Cut, TypeOK
<1> QED BY <1>1, <1>2 DEF Cut, serverVars, clientVars

\* The server stops: connections, sessions and signals are gone, the table stays.
LEMMA ServerCrashGoes ==
    ASSUME TypeOK, ServerCrash
    PROVE  /\ UNCHANGED <<tasks, advertised, down, cslot, running, orphans, starts, timeouts>>
           /\ notices' = {} /\ registry' = NoSlot /\ faults' \in 0..MaxFaults
           /\ ses' \in [Slot -> Session] /\ sig' \in [Slot -> Seq(Signal)]
           /\ up' \in [Slot -> Seq(UpFrame)] /\ conn' \in [Slot -> {"none", "up", "cut"}]
           /\ \A s \in Slot : /\ ses'[s].pc = "free" /\ ~ses'[s].registered
                              /\ ~ses'[s].subscribed /\ ses'[s].inflight = NoTask
                              /\ sig'[s] = <<>> /\ up'[s] = <<>> /\ conn'[s] # "up"
<1>1. Closed \in Session
  BY DEF Closed, Session
<1>2. /\ ses' \in [Slot -> Session] /\ sig' \in [Slot -> Seq(Signal)]
      /\ up' \in [Slot -> Seq(UpFrame)] /\ conn' \in [Slot -> {"none", "up", "cut"}]
  BY <1>1 DEF ServerCrash
<1>3. \A s \in Slot : /\ ses'[s].pc = "free" /\ ~ses'[s].registered
                      /\ ~ses'[s].subscribed /\ ses'[s].inflight = NoTask
                      /\ sig'[s] = <<>> /\ up'[s] = <<>> /\ conn'[s] # "up"
  BY DEF ServerCrash, Closed
<1>4. faults' \in 0..MaxFaults
  BY Bounds DEF ServerCrash, TypeOK
<1> QED BY <1>2, <1>3, <1>4 DEF ServerCrash, clientVars

-----------------------------------------------------------------------------
(* Types. *)

\* The actions of Next, one by one.
LEMMA Steps ==
    ASSUME [Next]_vars
    PROVE  \/ CreateTask
           \/ \E id \in DOMAIN tasks : CancelTask(id)
           \/ \E note \in notices : Notify(note)
           \/ \E s \in Slot : SessionStep(s)
           \/ \E s \in Slot : InFlightTimeout(s)
           \/ \E s \in Slot : Leave(s)
           \/ \E s \in Slot : Close(s)
           \/ \E s \in Slot : Connect(s)
           \/ \E s \in Slot : Cut(s)
           \/ ReceiveAssign \/ ReceiveCancel \/ ReceiveClose \/ ClientError \/ OrphanExit
           \/ \E outcome \in {"success", "failure"} : FinishTask(outcome)
           \/ ServerCrash
           \/ UNCHANGED vars
BY DEF Next, ClientStep

\* Every step runs one statement of db.rs on the table at most.
LEMMA StepIsStatement ==
    ASSUME TypeOK, [Next]_vars
    PROVE  \/ UNCHANGED tasks
           \/ RowStep(tasks, tasks')
           \/ CreateTask
<1>0. ThisNode \in Node
  BY PlaneAssumption
<1>1. ASSUME NEW id \in DOMAIN tasks, CancelTask(id)
      PROVE  RowStep(tasks, tasks')
  BY <1>0, <1>1 DEF CancelTask, RowStep, NamedStep
<1>2. ASSUME NEW s \in Slot, ReceiveHello(s) \/ Close(s)
      PROVE  RowStep(tasks, tasks')
  BY <1>0, <1>2, ReceiveHelloGoes, CloseGoes DEF RowStep
<1>3. ASSUME NEW s \in Slot, ReceiveSubscribe(s) \/ ReceiveCatalog(s)
      PROVE  UNCHANGED tasks
  BY <1>3 DEF ReceiveSubscribe, ReceiveCatalog
<1>4. ASSUME NEW s \in Slot, Waits(s) \/ \E id \in Id : HandsOut(s, id)
      PROVE  UNCHANGED tasks \/ RowStep(tasks, tasks')
  BY <1>0, <1>4 DEF Waits, HandsOut, RowStep, Claim
<1>5. ASSUME NEW s \in Slot, ReceivePull(s) \/ Dispatch(s)
      PROVE  UNCHANGED tasks \/ RowStep(tasks, tasks')
  BY <1>4, <1>5, ReceivePullGoes, TryDispatchGoes DEF Dispatch
<1>6. ASSUME NEW s \in Slot, HandleSignal(s)
      PROVE  UNCHANGED tasks \/ RowStep(tasks, tasks')
  BY <1>4, <1>6, HandleSignalGoes, TryDispatchGoes
<1>7. ASSUME NEW s \in Slot, ReceiveAck(s)
      PROVE  UNCHANGED tasks \/ RowStep(tasks, tasks')
  <2>1. UNCHANGED tasks \/ \E id : tasks' = Acknowledge(tasks, id, ThisNode)
    BY <1>7 DEF ReceiveAck
  <2>2. ASSUME NEW id, tasks' = Acknowledge(tasks, id, ThisNode)
        PROVE  UNCHANGED tasks \/ RowStep(tasks, tasks')
    <3>1. CASE id \in DOMAIN tasks
      BY <1>0, <2>2, <3>1 DEF RowStep, NamedStep
    <3>2. CASE id \notin DOMAIN tasks
      BY <2>2, <3>2 DEF Acknowledge, InProgressOf
    <3> QED BY <3>1, <3>2
  <2> QED BY <2>1, <2>2
<1>8. ASSUME NEW s \in Slot, ReceiveResult(s)
      PROVE  UNCHANGED tasks \/ RowStep(tasks, tasks')
  <2>1. UNCHANGED tasks \/ \E outcome \in {"success", "failure"} : \E id :
                              tasks' = SubmitResult(tasks, id, ThisNode, outcome)
    <3>1. /\ up[s][1].outcome \in {"success", "failure"}
          /\ \/ tasks' = SubmitResult(tasks, up[s][1].id, ThisNode, up[s][1].outcome)
             \/ UNCHANGED tasks
      BY <1>8, ReceiveResultGoes
    <3> QED BY <3>1
  <2>2. ASSUME NEW id, NEW outcome \in {"success", "failure"},
               tasks' = SubmitResult(tasks, id, ThisNode, outcome)
        PROVE  UNCHANGED tasks \/ RowStep(tasks, tasks')
    <3>1. CASE id \in DOMAIN tasks
      BY <1>0, <2>2, <3>1 DEF RowStep, NamedStep
    <3>2. CASE id \notin DOMAIN tasks
      BY <2>2, <3>2 DEF SubmitResult, InProgressOf
    <3> QED BY <3>1, <3>2
  <2> QED BY <2>1, <2>2
<1>9. ASSUME NEW s \in Slot, InFlightTimeout(s)
      PROVE  UNCHANGED tasks \/ RowStep(tasks, tasks')
  <2> DEFINE id == ses[s].inflight.id
  <2>1. tasks' = Retry(tasks, id, ThisNode)
    BY <1>9, InFlightTimeoutGoes
  <2>2. CASE id \in DOMAIN tasks
    BY <1>0, <2>1, <2>2 DEF RowStep, NamedStep
  <2>3. CASE id \notin DOMAIN tasks
    BY <2>1, <2>3 DEF Retry, InProgressOf
  <2> QED BY <2>2, <2>3
<1>10. ASSUME NEW s \in Slot, Leave(s) \/ Connect(s) \/ Cut(s)
       PROVE  UNCHANGED tasks
  BY <1>10 DEF Leave, Connect, Cut
<1>11. ASSUME NEW note \in notices, Notify(note)
       PROVE  UNCHANGED tasks
  BY <1>11 DEF Notify
<1>12. CASE ReceiveAssign \/ ReceiveCancel \/ ReceiveClose \/ ClientError \/ OrphanExit
            \/ (\E outcome \in {"success", "failure"} : FinishTask(outcome)) \/ ServerCrash
  BY <1>12 DEF ReceiveAssign, ReceiveCancel, ReceiveClose, ClientError, Detach, OrphanExit,
               FinishTask, ServerCrash
<1>13. CASE UNCHANGED vars
  BY <1>13 DEF vars
<1> QED BY <1>1, <1>2, <1>3, <1>5, <1>6, <1>7, <1>8, <1>9, <1>10, <1>11, <1>12, <1>13
        DEF Next, SessionStep, ClientStep

\* What the statement keeps.
LEMMA StepKeepsTable ==
    ASSUME TypeOK, [Next]_vars
    PROVE  /\ tasks' \in Table /\ Len(tasks') <= MaxTasks
           /\ DOMAIN tasks \subseteq DOMAIN tasks' /\ DOMAIN tasks' \subseteq Id
           /\ ~CreateTask => DOMAIN tasks' = DOMAIN tasks
           /\ \A id \in DOMAIN tasks : tasks'[id].node = tasks[id].node
<1>0. tasks \in Table /\ Len(tasks) <= MaxTasks /\ MaxTasks \in Nat /\ ThisNode \in Node
  BY PlaneAssumption DEF TypeOK
<1>1. CASE UNCHANGED tasks
  BY <1>0, <1>1, TaskIds
<1>2. CASE RowStep(tasks, tasks')
  <2>1. /\ tasks' \in Table /\ DOMAIN tasks' = DOMAIN tasks
        /\ \A id \in DOMAIN tasks : tasks'[id].node = tasks[id].node
    BY <1>0, <1>2, StepTable DEF TableStep
  <2>2. Len(tasks') = Len(tasks)
    BY <1>0, <2>1 DEF Table
  <2> QED BY <1>0, <2>1, <2>2, TaskIds
<1>3. CASE CreateTask
  <2>1. tasks' = Append(tasks, NewRow(ThisNode)) /\ Len(tasks) < MaxTasks
    BY <1>3 DEF CreateTask, Insert
  <2>2. /\ tasks' \in Table /\ DOMAIN tasks' = DOMAIN tasks \cup {Len(tasks) + 1}
        /\ \A id \in DOMAIN tasks : tasks'[id] = tasks[id]
    BY <1>0, <2>1, OneMore, NewRowFacts
  <2>3. Len(tasks') = Len(tasks) + 1 /\ Len(tasks) \in Nat
    BY <1>0, <2>1 DEF Table
  <2>4. Len(tasks) + 1 \in Id
    BY <1>0, <2>1, <2>3 DEF Id
  <2> QED BY <1>0, <1>3, <2>1, <2>2, <2>3, <2>4, TaskIds
<1> QED BY <1>1, <1>2, <1>3, StepIsStatement

\* TypeOK without the table.
PlaneTypes ==
    /\ advertised \in BOOLEAN
    /\ notices \subseteq Signal
    /\ registry \in Slot \cup {NoSlot}
    /\ ses \in [Slot -> Session]
    /\ sig \in [Slot -> Seq(Signal)]
    /\ up \in [Slot -> Seq(UpFrame)]
    /\ down \in [Slot -> Seq(DownFrame)]
    /\ conn \in [Slot -> {"none", "up", "cut"}]
    /\ cslot \in Slot \cup {NoSlot}
    /\ running \in Process \cup {NoTask} /\ (cslot = NoSlot => running = NoTask)
    /\ orphans \in Nat
    /\ starts \in [Id -> Nat]
    /\ faults \in 0..MaxFaults
    /\ timeouts \in 0..MaxTimeouts

\* Every step leaves every variable in its type.
LEMMA TypesKept ==
    ASSUME TypeOK, [Next]_vars
    PROVE  TypeOK'
<1>0. PlaneTypes /\ DOMAIN tasks \subseteq Id
  BY TaskIds DEF PlaneTypes, TypeOK
<1> SUFFICES PlaneTypes'
  BY StepKeepsTable DEF PlaneTypes, TypeOK
<1>1. CASE CreateTask
  <2>1. [kind |-> "dispatch", id |-> Len(tasks) + 1] \in Signal
    <3>1. Len(tasks) \in Nat /\ Len(tasks) < MaxTasks /\ MaxTasks \in Nat
      BY <1>1, PlaneAssumption DEF CreateTask, TypeOK, Table
    <3>2. Len(tasks) + 1 \in Id
      BY <3>1 DEF Id
    <3> QED BY <3>2 DEF Signal
  <2> QED BY <1>0, <1>1, <2>1 DEF PlaneTypes, CreateTask, clientVars, budget
<1>2. ASSUME NEW id \in DOMAIN tasks, CancelTask(id)
      PROVE  PlaneTypes'
  <2>1. [kind |-> "cancel", id |-> id] \in Signal
    BY <1>0, <1>2 DEF Signal
  <2> QED BY <1>0, <1>2, <2>1 DEF PlaneTypes, CancelTask, clientVars, budget
<1>3. ASSUME NEW note \in notices, Notify(note)
      PROVE  PlaneTypes'
  <2>1. sig' \in [Slot -> Seq(Signal)] /\ notices' = notices \ {note}
    BY <1>3, NotifyGoes
  <2> QED BY <1>0, <1>3, <2>1, NotifyGoes DEF PlaneTypes
<1>4. ASSUME NEW s \in Slot, NEW kind, Receives(s, kind),
             ses' \in [Slot -> Session], down' \in [Slot -> Seq(DownFrame)],
             advertised' \in BOOLEAN
      PROVE  PlaneTypes'
  <2>1. /\ up' \in [Slot -> Seq(UpFrame)]
        /\ UNCHANGED <<notices, registry, sig, conn, cslot, running, orphans, starts, faults,
                       timeouts>>
    BY <1>4, ReceivesGoes
  <2> QED BY <1>0, <1>4, <2>1 DEF PlaneTypes
<1>5. ASSUME NEW s \in Slot, Waits(s) \/ \E id \in Id : HandsOut(s, id)
      PROVE  ses' \in [Slot -> Session] /\ down' \in [Slot -> Seq(DownFrame)]
  BY <1>0, <1>5 DEF Waits, HandsOut, SessionGoes, PlaneTypes
<1>6. ASSUME NEW s \in Slot, SessionStep(s)
      PROVE  PlaneTypes'
  <2>1. CASE ReceiveSubscribe(s)
    BY <1>0, <1>4, <2>1, ReceiveSubscribeGoes DEF ReceiveSubscribe, SessionGoes, PlaneTypes
  <2>2. CASE ReceiveHello(s)
    BY <1>0, <1>4, <2>2, ReceiveHelloGoes DEF ReceiveHello, SessionGoes, PlaneTypes
  <2>3. CASE ReceiveCatalog(s)
    BY <1>0, <1>4, <2>3 DEF ReceiveCatalog, PlaneTypes
  <2>4. CASE ReceivePull(s)
    BY <1>0, <1>4, <1>5, <2>4, ReceivePullGoes DEF ReceivePull, PlaneTypes
  <2>5. CASE ReceiveAck(s)
    BY <1>0, <1>4, <2>5 DEF ReceiveAck, PlaneTypes
  <2>6. CASE ReceiveResult(s)
    BY <1>0, <1>4, <2>6, ReceiveResultGoes DEF ReceiveResult, SessionGoes, PlaneTypes
  <2>7. CASE HandleSignal(s)
    <3>1. ses' \in [Slot -> Session] /\ down' \in [Slot -> Seq(DownFrame)]
      BY <1>5, <2>7, HandleSignalGoes, TryDispatchGoes DEF Ignores, SessionGoes
    <3> QED BY <1>0, <2>7, <3>1, HandleSignalGoes DEF PlaneTypes
  <2>8. CASE Dispatch(s)
    <3>1. ses' \in [Slot -> Session] /\ down' \in [Slot -> Seq(DownFrame)]
      BY <1>5, <2>8, TryDispatchGoes DEF Dispatch
    <3> QED BY <1>0, <2>8, <3>1 DEF Dispatch, PlaneTypes, serverVars, clientVars, budget
  <2> QED BY <1>6, <2>1, <2>2, <2>3, <2>4, <2>5, <2>6, <2>7, <2>8 DEF SessionStep
<1>7. ASSUME NEW s \in Slot, InFlightTimeout(s)
      PROVE  PlaneTypes'
  BY ZenonT(60), <1>0, <1>7, InFlightTimeoutGoes DEF Ignores, SessionGoes, PlaneTypes
<1>8. ASSUME NEW s \in Slot, Leave(s)
      PROVE  PlaneTypes'
  BY <1>0, <1>8, LeaveGoes DEF SessionGoes, PlaneTypes
<1>9. ASSUME NEW s \in Slot, Close(s)
      PROVE  PlaneTypes'
  BY <1>0, <1>9, CloseGoes DEF SessionGoes, PlaneTypes
<1>10. ASSUME NEW s \in Slot, Connect(s)
       PROVE  PlaneTypes'
  BY <1>0, <1>10, ConnectGoes DEF SessionGoes, PlaneTypes
<1>11. ASSUME NEW s \in Slot, Cut(s)
       PROVE  PlaneTypes'
  BY <1>0, <1>11, CutGoes DEF PlaneTypes
<1>12. CASE ReceiveAssign
  <2>1. running' \in Process \cup {NoTask} /\ starts' \in [Id -> Nat]
    <3> DEFINE id == down[cslot][1].id
    <3>1. /\ id \in Id
          /\ \/ UNCHANGED <<running, starts>>
             \/ running' \in Process /\ starts' = [starts EXCEPT ![id] = @ + 1]
      BY <1>12, ReceiveAssignGoes
    <3> HIDE DEF id
    <3>2. starts \in [Id -> Nat] /\ running \in Process \cup {NoTask}
      BY <1>0 DEF PlaneTypes
    <3>3. [starts EXCEPT ![id] = @ + 1] \in [Id -> Nat]
      BY <3>1, <3>2
    <3> QED BY <3>1, <3>2, <3>3
  <2>2. cslot' # NoSlot
    BY <1>12, ReceiveAssignGoes, PlaneAssumption
  <2> QED BY <1>0, <1>12, <2>1, <2>2, ReceiveAssignGoes DEF PlaneTypes
<1>13. CASE ReceiveCancel
  BY <1>0, <1>13, ReceiveCancelGoes, PlaneAssumption DEF PlaneTypes
<1>14. CASE ReceiveClose \/ ClientError
  BY <1>0, <1>14, ClientLeaves, DetachGoes DEF PlaneTypes
<1>15. CASE OrphanExit
  BY <1>0, <1>15 DEF OrphanExit, PlaneTypes, serverVars, budget
<1>16. ASSUME NEW outcome \in {"success", "failure"}, FinishTask(outcome)
       PROVE  PlaneTypes'
  BY <1>0, <1>16, FinishTaskGoes DEF PlaneTypes
<1>17. CASE ServerCrash
  BY <1>0, <1>17, ServerCrashGoes DEF PlaneTypes
<1>18. CASE UNCHANGED vars
  BY <1>0, <1>18 DEF vars, serverVars, clientVars, budget, PlaneTypes
<1> QED
  BY <1>1, <1>2, <1>3, <1>6, <1>7, <1>8, <1>9, <1>10, <1>11, <1>12, <1>13, <1>14, <1>15, <1>16,
     <1>17, <1>18 DEF Next, ClientStep

\* Nothing has happened yet.
LEMMA TypesInit == Init => TypeOK
<1>1. ASSUME Init PROVE PlaneTypes
  <2>1. Closed \in Session
    BY DEF Closed, Session
  <2>2. /\ sig \in [Slot -> Seq(Signal)] /\ up \in [Slot -> Seq(UpFrame)]
        /\ down \in [Slot -> Seq(DownFrame)]
    BY <1>1 DEF Init
  <2>3. faults \in 0..MaxFaults /\ timeouts \in 0..MaxTimeouts
    BY <1>1, Bounds DEF Init
  <2> QED BY <1>1, <2>1, <2>2, <2>3 DEF Init, PlaneTypes
<1>2. Init => tasks \in Table /\ Len(tasks) <= MaxTasks
  BY Bounds DEF Init, Table
<1> QED BY <1>1, <1>2 DEF PlaneTypes, TypeOK

\* A step of one session leaves the other sessions, the client and the
\* connections alone.
LEMMA SessionLocal ==
    ASSUME TypeOK, NEW s \in Slot, SessionStep(s) \/ InFlightTimeout(s)
    PROVE  /\ Others(ses, ses', s) /\ Others(up, up', s) /\ Others(down, down', s)
           /\ UNCHANGED <<notices, registry, conn, cslot, running, orphans, starts>>
           /\ ses[s].pc \in {"open", "dispatch"} /\ ses'[s].pc \in {"open", "dispatch"}
<1> DEFINE Here == /\ Others(ses, ses', s) /\ Others(down, down', s)
                   /\ ses'[s].pc \in {"open", "dispatch"}
           There == /\ Others(up, up', s) /\ ses[s].pc \in {"open", "dispatch"}
                    /\ UNCHANGED <<notices, registry, conn, cslot, running, orphans, starts>>
<1>1. ASSUME Waits(s) \/ \E id \in Id : HandsOut(s, id)
      PROVE  Here
  BY <1>1 DEF Waits, HandsOut, SessionGoes, Others
<1>2. ASSUME NEW kind, Receives(s, kind)
      PROVE  There
  BY <1>2, ReceivesGoes
<1>3. CASE ReceiveSubscribe(s)
  BY <1>2, <1>3, ReceiveSubscribeGoes DEF ReceiveSubscribe, SessionGoes, Others
<1>4. CASE ReceiveHello(s)
  BY <1>2, <1>4, ReceiveHelloGoes DEF ReceiveHello, SessionGoes, Others
<1>5. CASE ReceivePull(s)
  BY <1>1, <1>2, <1>5, ReceivePullGoes DEF ReceivePull
<1>6. CASE ReceiveCatalog(s) \/ ReceiveAck(s)
  <2>1. UNCHANGED <<ses, down>> /\ ses[s].pc = "open" /\ There
    BY <1>2, <1>6, ReceivesGoes DEF ReceiveCatalog, ReceiveAck
  <2> QED BY <2>1 DEF Others
<1>7. CASE ReceiveResult(s)
  <2>1. There /\ ses[s].pc = "open"
    BY <1>2, <1>7, ReceivesGoes DEF ReceiveResult
  <2>2. Here
    BY <1>7, <2>1, ReceiveResultGoes DEF SessionGoes, Others
  <2> QED BY <2>1, <2>2
<1>8. CASE HandleSignal(s)
  <2>1. There
    BY <1>8, HandleSignalGoes DEF Others
  <2>2. Here
    BY <1>1, <1>8, HandleSignalGoes, TryDispatchGoes DEF Ignores, SessionGoes
  <2> QED BY <2>1, <2>2
<1>9. CASE Dispatch(s)
  <2>1. There /\ TryDispatch(s)
    BY <1>9 DEF Dispatch, Others, serverVars, clientVars
  <2> QED BY <1>1, <2>1, TryDispatchGoes
<1>10. CASE InFlightTimeout(s)
  BY <1>10, InFlightTimeoutGoes DEF Ignores, SessionGoes, Others
<1> QED BY <1>3, <1>4, <1>5, <1>6, <1>7, <1>8, <1>9, <1>10 DEF SessionStep

-----------------------------------------------------------------------------
(* Connections and sessions. *)

\* The client reads one connection, a session that has left reads none, and the
\* registry names a session that is still in its loop.
Wired ==
    /\ \A s \in Slot : cslot # s => down[s] = <<>> /\ conn[s] # "up"
    /\ \A s \in Slot : ~Live(s) => up[s] = <<>> /\ sig[s] = <<>>
    /\ registry # NoSlot => Live(registry)

\* A session that is in its loop before and after a step keeps what Wired says
\* of it, whatever it reads and sends.
LEMMA WiredInLoop ==
    ASSUME TypeOK, Wired, NEW s \in Slot, Live(s), Live(s)', Others(ses, ses', s),
           Others(up, up', s), Others(sig, sig', s), Others(down, down', s),
           conn[s] # "up" => down'[s] = down[s],
           UNCHANGED <<registry, conn, cslot>>
    PROVE  Wired'
<1>1. \A o \in Slot : cslot' # o => down'[o] = <<>> /\ conn'[o] # "up"
  BY DEF Wired, Others
<1>2. \A o \in Slot : ~Live(o)' => up'[o] = <<>> /\ sig'[o] = <<>>
  BY DEF Wired, Others, Live
<1>3. registry' # NoSlot => Live(registry)'
  BY DEF Wired, Others, Live, TypeOK
<1> QED BY <1>1, <1>2, <1>3 DEF Wired

\* Every step keeps it: the sessions are wired.
LEMMA WiredKept ==
    ASSUME TypeOK, Wired, [Next]_vars
    PROVE  Wired'
<1>1. ASSUME UNCHANGED <<registry, ses, sig, up, down, conn, cslot>>
      PROVE  Wired'
  BY <1>1 DEF Wired, Live
<1>2. ASSUME NEW note \in notices, Notify(note)
      PROVE  Wired'
  BY <1>2, NotifyGoes DEF Wired, Live, Others
<1>3. ASSUME NEW s \in Slot, ses[s].pc = "open", ses'[s].pc \in {"open", "dispatch"},
             Others(ses, ses', s), Others(up, up', s), Others(sig, sig', s),
             Others(down, down', s), conn[s] # "up" => down'[s] = down[s],
             UNCHANGED <<registry, conn, cslot>>
      PROVE  Wired'
  BY <1>3, WiredInLoop DEF Live
<1>4. ASSUME NEW s \in Slot, Waits(s) \/ \E id \in Id : HandsOut(s, id)
      PROVE  /\ ses'[s].pc = "open" /\ Others(ses, ses', s)
             /\ Others(down, down', s) /\ (conn[s] # "up" => down'[s] = down[s])
  BY <1>4 DEF Waits, HandsOut, SessionGoes, Others
<1>5. ASSUME NEW s \in Slot, NEW kind, Receives(s, kind), ses'[s].pc \in {"open", "dispatch"},
             Others(ses, ses', s), Others(down, down', s), conn[s] # "up" => down'[s] = down[s]
      PROVE  Wired'
  <2>1. /\ ses[s].pc = "open" /\ Others(up, up', s) /\ Others(sig, sig', s)
        /\ UNCHANGED <<registry, conn, cslot>>
    BY <1>5, ReceivesGoes DEF Others
  <2> QED BY <1>3, <1>5, <2>1
<1>6. ASSUME NEW s \in Slot, SessionStep(s)
      PROVE  Wired'
  <2>1. CASE ReceiveSubscribe(s)
    <3>1. ses'[s].pc = "open" /\ Others(ses, ses', s) /\ UNCHANGED down
      BY <2>1, ReceiveSubscribeGoes DEF SessionGoes
    <3> QED BY <1>5, <2>1, <3>1 DEF ReceiveSubscribe, Others
  <2>2. CASE ReceiveHello(s)
    <3>1. ses'[s].pc = "dispatch" /\ Others(ses, ses', s) /\ UNCHANGED down
      BY <2>2, ReceiveHelloGoes DEF SessionGoes
    <3> QED BY <1>5, <2>2, <3>1 DEF ReceiveHello, Others
  <2>3. CASE ReceiveCatalog(s)
    <3>1. ses[s].pc = "open" /\ UNCHANGED <<ses, down>>
      BY <2>3, ReceivesGoes DEF ReceiveCatalog
    <3> QED BY <1>5, <2>3, <3>1 DEF ReceiveCatalog, Others
  <2>4. CASE ReceivePull(s)
    BY <1>4, <1>5, <2>4, ReceivePullGoes DEF ReceivePull
  <2>5. CASE ReceiveAck(s)
    <3>1. ses[s].pc = "open" /\ UNCHANGED <<ses, down>>
      BY <2>5, ReceivesGoes DEF ReceiveAck
    <3> QED BY <1>5, <2>5, <3>1 DEF ReceiveAck, Others
  <2>6. CASE ReceiveResult(s)
    <3>1. ses[s].pc = "open" /\ Receives(s, "result")
      BY <2>6, ReceivesGoes DEF ReceiveResult
    <3>2. ses'[s].pc \in {"open", "dispatch"} /\ Others(ses, ses', s) /\ UNCHANGED down
      BY <2>6, <3>1, ReceiveResultGoes DEF SessionGoes, Others
    <3> QED BY <1>5, <3>1, <3>2 DEF Others
  <2>7. CASE HandleSignal(s)
    <3>1. /\ ses[s].pc = "open" /\ Others(sig, sig', s) /\ Others(up, up', s)
          /\ UNCHANGED <<registry, conn, cslot>>
      BY <2>7, HandleSignalGoes DEF Others
    <3>2. /\ ses'[s].pc = "open" /\ Others(ses, ses', s)
          /\ Others(down, down', s) /\ (conn[s] # "up" => down'[s] = down[s])
      <4>1. CASE TryDispatch(s)
        BY <1>4, <4>1, TryDispatchGoes
      <4>2. CASE ~TryDispatch(s)
        BY <2>7, <4>2, HandleSignalGoes DEF Ignores, SessionGoes
      <4> QED BY <4>1, <4>2
    <3> QED BY <1>3, <3>1, <3>2
  <2>8. CASE Dispatch(s)
    <3>1. /\ Live(s) /\ Others(sig, sig', s) /\ Others(up, up', s)
          /\ UNCHANGED <<registry, conn, cslot>>
      BY <2>8 DEF Dispatch, Others, serverVars, clientVars, Live
    <3>2. /\ ses'[s].pc = "open" /\ Others(ses, ses', s)
          /\ Others(down, down', s) /\ (conn[s] # "up" => down'[s] = down[s])
      BY <1>4, <2>8, TryDispatchGoes DEF Dispatch
    <3> QED BY <3>1, <3>2, WiredInLoop DEF Live
  <2> QED BY <1>6, <2>1, <2>2, <2>3, <2>4, <2>5, <2>6, <2>7, <2>8 DEF SessionStep
<1>7. ASSUME NEW s \in Slot, InFlightTimeout(s)
      PROVE  Wired'
  <2>1. /\ ses[s].pc = "open" /\ ses'[s].pc = "open" /\ Others(ses, ses', s)
        /\ Others(down, down', s) /\ (conn[s] # "up" => down'[s] = down[s])
        /\ Others(sig, sig', s) /\ Others(up, up', s) /\ UNCHANGED <<registry, conn, cslot>>
    BY <1>7, InFlightTimeoutGoes DEF Ignores, SessionGoes, Others
  <2> QED BY <1>3, <2>1
<1>8. ASSUME NEW s \in Slot, Leave(s)
      PROVE  Wired'
  <2>1. \A o \in Slot : o # s => up'[o] = up[o] /\ sig'[o] = sig[o] /\ ses'[o] = ses[o]
    BY <1>8, LeaveGoes DEF SessionGoes, Others
  <2>2. /\ UNCHANGED <<down, conn, cslot>> /\ up'[s] = <<>> /\ sig'[s] = <<>>
        /\ registry' = NoSlot
    BY <1>8, LeaveGoes
  <2> QED BY <2>1, <2>2 DEF Wired, Live
<1>9. ASSUME NEW s \in Slot, Close(s)
      PROVE  Wired'
  <2>1. \A o \in Slot : o # s => conn'[o] = conn[o] /\ down'[o] = down[o] /\ ses'[o] = ses[o]
    BY ZenonT(60), <1>9, CloseGoes DEF SessionGoes, Others
  <2>2. /\ UNCHANGED <<up, sig, cslot, registry>> /\ ~Live(s)
        /\ conn[s] # "up" => down'[s] = down[s]
        /\ conn'[s] = IF cslot = s THEN conn[s] ELSE "none"
    BY <1>9, CloseGoes DEF Live
  <2>3. registry \in Slot \cup {NoSlot} /\ registry # s
    BY <2>2, PlaneAssumption DEF TypeOK, Wired
  <2> QED BY <2>1, <2>2, <2>3 DEF Wired, Live
<1>10. ASSUME NEW s \in Slot, Connect(s)
       PROVE  Wired'
  <2>1. NoSlot \notin Slot
    BY PlaneAssumption
  <2>2. \A o \in Slot : o # s => conn'[o] = conn[o] /\ up'[o] = up[o] /\ ses'[o] = ses[o]
    BY <1>10, ConnectGoes DEF SessionGoes, Others
  <2>3. /\ UNCHANGED <<sig, down>> /\ cslot = NoSlot /\ cslot' = s /\ registry' = s
        /\ ses'[s].pc = "open"
    BY <1>10, ConnectGoes DEF SessionGoes
  <2> QED BY <2>1, <2>2, <2>3 DEF Wired, Live
<1>11. ASSUME NEW s \in Slot, Cut(s)
       PROVE  Wired'
  BY <1>11, CutGoes DEF Wired, Others, Live
<1>12. ASSUME cslot \in Slot, Others(down, down', cslot), Others(up, up', cslot),
              ~Live(cslot) => up'[cslot] = up[cslot],
              UNCHANGED <<registry, ses, sig, conn, cslot>>
       PROVE  Wired'
  BY <1>12 DEF Wired, Others, Live
<1>13. CASE ReceiveAssign
  <2>1. /\ cslot \in Slot /\ Others(down, down', cslot)
        /\ UNCHANGED <<registry, ses, sig, conn, cslot>>
    BY <1>13, ReceiveAssignGoes
  <2>2. Others(up, up', cslot) /\ (~Live(cslot) => up'[cslot] = up[cslot])
    BY <1>13, ReceiveAssignGoes DEF Others
  <2> QED BY <1>12, <2>1, <2>2
<1>14. CASE ReceiveCancel
  BY <1>12, <1>14, ReceiveCancelGoes DEF Others
<1>15. CASE ReceiveClose \/ ClientError
  <2>1. NoSlot \notin Slot
    BY PlaneAssumption
  <2>2. cslot \in Slot /\ Detach
    BY <1>15, ClientLeaves
  <2> QED BY <2>1, <2>2, DetachGoes DEF Wired, Others, Live
<1>16. ASSUME NEW outcome \in {"success", "failure"}, FinishTask(outcome)
       PROVE  Wired'
  <2>1. /\ cslot \in Slot /\ Others(down, down', cslot)
        /\ UNCHANGED <<registry, ses, sig, conn, cslot>>
    BY <1>16, FinishTaskGoes DEF Others
  <2>2. Others(up, up', cslot) /\ (~Live(cslot) => up'[cslot] = up[cslot])
    BY <1>16, FinishTaskGoes DEF Others
  <2> QED BY <1>12, <2>1, <2>2
<1>17. CASE ServerCrash
  <2>1. /\ registry' = NoSlot /\ UNCHANGED <<down, cslot>>
        /\ \A s \in Slot : sig'[s] = <<>> /\ up'[s] = <<>> /\ conn'[s] # "up"
    BY <1>17, ServerCrashGoes
  <2> QED BY <2>1 DEF Wired
<1>18. CASE CreateTask \/ (\E id \in DOMAIN tasks : CancelTask(id)) \/ OrphanExit
            \/ UNCHANGED vars
  <2>1. UNCHANGED <<registry, ses, sig, up, down, conn, cslot>>
    BY <1>18 DEF CreateTask, CancelTask, OrphanExit, vars, serverVars, clientVars, budget
  <2> QED BY <1>1, <2>1
<1> HIDE DEF Wired
<1> QED BY <1>2, <1>6, <1>7, <1>8, <1>9, <1>10, <1>11, <1>13, <1>14, <1>15, <1>16, <1>17, <1>18,
           Steps

\* At the start, the sessions are wired.
LEMMA WiredInit == Init => Wired
BY DEF Init, Wired

\* What the client sends comes after what it sent before: no greeting.
LEMMA ClientSends ==
    ASSUME TypeOK, ReceiveAssign \/ \E outcome \in {"success", "failure"} : FinishTask(outcome)
    PROVE  /\ cslot \in Slot /\ Others(up, up', cslot) /\ UNCHANGED ses
           /\ up' \in [Slot -> Seq(UpFrame)]
           /\ \A i \in DOMAIN up[cslot] : i \in DOMAIN up'[cslot] /\ up'[cslot][i] = up[cslot][i]
           /\ \A i \in DOMAIN up'[cslot] :
                 i \in DOMAIN up[cslot] \/ up'[cslot][i].kind \in {"ack", "result", "pull"}
<1>1. cslot \in Slot /\ Others(up, up', cslot) /\ UNCHANGED ses /\ up' \in [Slot -> Seq(UpFrame)]
  BY ReceiveAssignGoes, FinishTaskGoes DEF Others
<1>2. up[cslot] \in Seq(UpFrame)
  BY <1>1 DEF TypeOK
<1> DEFINE Sent(x) == x.kind \in {"ack", "result", "pull"}
<1>3. \/ up'[cslot] = up[cslot]
      \/ \E x \in UpFrame : Sent(x) /\ up'[cslot] = up[cslot] \o <<x>>
      \/ \E x, y \in UpFrame : Sent(x) /\ Sent(y) /\ up'[cslot] = up[cslot] \o <<x, y>>
  <2>1. CASE ReceiveAssign
    <3> DEFINE id == down[cslot][1].id
    <3>1. /\ id \in Id
          /\ \/ up'[cslot] = up[cslot]
             \/ up'[cslot] = up[cslot] \o <<Ack(id)>>
             \/ up'[cslot] = up[cslot] \o <<Ack(id), Result(id, "failure")>>
      BY <2>1, ReceiveAssignGoes
    <3> HIDE DEF id
    <3>2. /\ Ack(id) \in UpFrame /\ Result(id, "failure") \in UpFrame
          /\ Sent(Ack(id)) /\ Sent(Result(id, "failure"))
      BY <3>1, FrameTypes DEF Ack, Result
    <3> HIDE DEF Sent
    <3> QED BY <3>1, <3>2
  <2>2. ASSUME NEW outcome \in {"success", "failure"}, FinishTask(outcome)
        PROVE  \/ up'[cslot] = up[cslot]
               \/ \E x, y \in UpFrame : Sent(x) /\ Sent(y) /\ up'[cslot] = up[cslot] \o <<x, y>>
    <3>1. PICK out \in {"success", "failure"} :
             \/ up'[cslot] = up[cslot]
             \/ up'[cslot] = up[cslot] \o <<Result(running.id, out), Pull>>
      BY <2>2, FinishTaskGoes
    <3>2. running.id \in Id
      BY <2>2, FinishTaskGoes, ProcessTask
    <3>3. /\ Result(running.id, out) \in UpFrame /\ Pull \in UpFrame
          /\ Sent(Result(running.id, out)) /\ Sent(Pull)
      BY <3>2, FrameTypes DEF Pull, Result
    <3> HIDE DEF Sent
    <3> QED BY <3>1, <3>3
  <2> QED BY <2>1, <2>2
<1>4. /\ \A i \in DOMAIN up[cslot] : i \in DOMAIN up'[cslot] /\ up'[cslot][i] = up[cslot][i]
      /\ \A i \in DOMAIN up'[cslot] : i \in DOMAIN up[cslot] \/ Sent(up'[cslot][i])
  <2>1. ASSUME NEW x \in UpFrame, Sent(x), up'[cslot] = up[cslot] \o <<x>>
        PROVE  <1>4!:
    <3> HIDE DEF Sent
    <3> QED BY <1>2, <2>1, OneMoreFrame
  <2>2. ASSUME NEW x \in UpFrame, NEW y \in UpFrame, Sent(x), Sent(y),
               up'[cslot] = up[cslot] \o <<x, y>>
        PROVE  <1>4!:
    <3> HIDE DEF Sent
    <3> QED BY <1>2, <2>2, TwoMoreFrames
  <2> QED BY <1>3, <2>1, <2>2
<1> QED BY <1>1, <1>4

\* A session claims only after hello, and says hello once, after it subscribed.
GreetedAt(s) ==
    /\ ses[s].pc = "free" => ~ses[s].registered
    /\ ses[s].registered => ses[s].subscribed
    /\ ~ses[s].registered => ses[s].inflight = NoTask
    /\ \A i \in DOMAIN up[s] : up[s][i].kind = "hello" =>
          /\ ~ses[s].registered
          /\ ses[s].subscribed \/ (i = 2 /\ up[s][1].kind = "subscribe")
          /\ \A j \in DOMAIN up[s] : up[s][j].kind = "hello" => j = i

Greeted == \A s \in Slot : GreetedAt(s)

\* A session that does not move stays greeted.
LEMMA GreetedElsewhere ==
    ASSUME Greeted, NEW s \in Slot, Others(ses, ses', s), Others(up, up', s), GreetedAt(s)'
    PROVE  Greeted'
BY DEF Greeted, GreetedAt, Others

\* Reading any frame but the subscription and the hello.
LEMMA GreetedReads ==
    ASSUME TypeOK, Greeted, NEW s \in Slot, NEW kind \in {"catalog", "pull", "ack", "result"},
           Receives(s, kind), Others(ses, ses', s), ses'[s].pc # "free",
           ses'[s].registered = ses[s].registered, ses'[s].subscribed = ses[s].subscribed,
           ses[s].registered \/ ses'[s].inflight = ses[s].inflight
    PROVE  Greeted'
<1>1. /\ Others(up, up', s) /\ up'[s] = Tail(up[s]) /\ up[s] # <<>> /\ up[s][1].kind = kind
      /\ up[s] \in Seq(UpFrame)
  BY ReceivesGoes DEF TypeOK
<1>2. \A i \in DOMAIN up'[s] : i + 1 \in DOMAIN up[s] /\ up'[s][i] = up[s][i + 1] /\ i \in Nat
  BY <1>1, HeadTail
<1>3. GreetedAt(s)
  BY DEF Greeted
<1>4. ASSUME NEW i \in DOMAIN up'[s], up'[s][i].kind = "hello"
      PROVE  /\ ~ses[s].registered /\ ses[s].subscribed
             /\ \A j \in DOMAIN up'[s] : up'[s][j].kind = "hello" => j = i
  BY <1>1, <1>2, <1>3, <1>4 DEF GreetedAt
<1>5. GreetedAt(s)'
  BY <1>3, <1>4 DEF GreetedAt
<1> QED BY <1>1, <1>5, GreetedElsewhere

\* A step that changes only what the session has in flight, or its place in the
\* loop.
LEMMA GreetedStays ==
    ASSUME Greeted, NEW s \in Slot, Others(ses, ses', s), ses'[s].pc # "free", UNCHANGED up,
           ses'[s].registered = ses[s].registered, ses'[s].subscribed = ses[s].subscribed,
           ses[s].registered \/ ses'[s].inflight = ses[s].inflight
    PROVE  Greeted'
<1>1. GreetedAt(s)'
  BY DEF Greeted, GreetedAt
<1> QED BY <1>1, GreetedElsewhere DEF Others

\* Every step keeps it: every session is greeted.
LEMMA GreetedKept ==
    ASSUME TypeOK, Wired, Greeted, [Next]_vars
    PROVE  Greeted'
<1>1. ASSUME UNCHANGED <<ses, up>>
      PROVE  Greeted'
  BY <1>1 DEF Greeted, GreetedAt
<1>2. ASSUME NEW s \in Slot, Waits(s) \/ \E id \in Id : HandsOut(s, id)
      PROVE  /\ Others(ses, ses', s) /\ ses'[s].pc = "open"
             /\ ses'[s].registered = ses[s].registered /\ ses'[s].subscribed = ses[s].subscribed
             /\ ses[s].registered \/ ses'[s].inflight = ses[s].inflight
  BY <1>2 DEF Waits, HandsOut, SessionGoes
<1>3. ASSUME NEW s \in Slot, SessionStep(s)
      PROVE  Greeted'
  <2>1. CASE ReceiveSubscribe(s)
    <3>1. SessionGoes(s, "open", TRUE, ses[s].registered, ses[s].inflight)
      BY <2>1, ReceiveSubscribeGoes
    <3>2. /\ up'[s] = Tail(up[s]) /\ Others(up, up', s) /\ up[s] \in Seq(UpFrame)
          /\ up[s] # <<>>
      BY <2>1, ReceivesGoes DEF ReceiveSubscribe, TypeOK
    <3>3. \A i \in DOMAIN up'[s] : /\ i + 1 \in DOMAIN up[s] /\ up'[s][i] = up[s][i + 1]
                                   /\ i \in Nat
      BY <3>2, HeadTail
    <3>4. GreetedAt(s)'
      BY <3>1, <3>3 DEF Greeted, GreetedAt, SessionGoes
    <3> QED BY <3>1, <3>2, <3>4, GreetedElsewhere DEF SessionGoes
  <2>2. CASE ReceiveHello(s)
    <3>1. SessionGoes(s, "dispatch", ses[s].subscribed, TRUE, ses[s].inflight)
      BY <2>2, ReceiveHelloGoes
    <3>2. /\ up'[s] = Tail(up[s]) /\ Others(up, up', s) /\ up[s] \in Seq(UpFrame)
          /\ up[s] # <<>> /\ up[s][1].kind = "hello" /\ 1 \in DOMAIN up[s]
      BY <2>2, ReceivesGoes DEF ReceiveHello, TypeOK
    <3>3. \A i \in DOMAIN up'[s] : /\ i + 1 \in DOMAIN up[s] /\ up'[s][i] = up[s][i + 1]
                                   /\ i \in Nat /\ i + 1 # 1
      BY <3>2, HeadTail
    <3>4. ses[s].subscribed /\ \A i \in DOMAIN up[s] : up[s][i].kind = "hello" => i = 1
      BY <3>2 DEF Greeted, GreetedAt
    <3>5. GreetedAt(s)'
      BY <3>1, <3>3, <3>4 DEF GreetedAt, SessionGoes
    <3> QED BY <3>1, <3>2, <3>5, GreetedElsewhere DEF SessionGoes
  <2>3. CASE ReceiveCatalog(s)
    <3>1. Receives(s, "catalog") /\ UNCHANGED ses /\ ses[s].pc = "open"
      BY <2>3, ReceivesGoes DEF ReceiveCatalog
    <3> QED BY <3>1, GreetedReads DEF Others
  <2>4. CASE ReceivePull(s)
    <3>1. Receives(s, "pull") /\ (Waits(s) \/ \E id \in Id : HandsOut(s, id))
      BY <2>4, ReceivePullGoes DEF ReceivePull
    <3> QED BY <1>2, <3>1, GreetedReads
  <2>5. CASE ReceiveAck(s)
    <3>1. Receives(s, "ack") /\ UNCHANGED ses /\ ses[s].pc = "open"
      BY <2>5, ReceivesGoes DEF ReceiveAck
    <3> QED BY <3>1, GreetedReads DEF Others
  <2>6. CASE ReceiveResult(s)
    <3>1. Receives(s, "result") /\ ses[s].pc = "open"
      BY <2>6, ReceivesGoes DEF ReceiveResult
    <3>2. /\ Others(ses, ses', s) /\ ses'[s].pc # "free"
          /\ ses'[s].registered = ses[s].registered /\ ses'[s].subscribed = ses[s].subscribed
          /\ ses[s].registered \/ ses'[s].inflight = ses[s].inflight
      <4>1. ~ses[s].registered => ses[s].inflight = NoTask
        BY DEF Greeted, GreetedAt
      <4> QED BY <2>6, <3>1, <4>1, ReceiveResultGoes DEF SessionGoes, Others, Expected
    <3> QED BY <3>1, <3>2, GreetedReads
  <2>7. CASE HandleSignal(s)
    <3>1. CASE TryDispatch(s)
      BY <1>2, <2>7, <3>1, TryDispatchGoes, HandleSignalGoes, GreetedStays
    <3>2. CASE ~TryDispatch(s)
      <4>1. Ignores(s) /\ UNCHANGED up
        BY <2>7, <3>2, HandleSignalGoes
      <4>2. ses[s].registered
        BY <4>1, InFlightTask DEF Ignores, Greeted, GreetedAt
      <4> QED BY <4>1, <4>2, GreetedStays DEF Ignores, SessionGoes
    <3> QED BY <3>1, <3>2
  <2>8. CASE Dispatch(s)
    <3>1. UNCHANGED up
      BY <2>8 DEF Dispatch
    <3> QED BY <1>2, <2>8, <3>1, TryDispatchGoes, GreetedStays DEF Dispatch
  <2> QED BY <1>3, <2>1, <2>2, <2>3, <2>4, <2>5, <2>6, <2>7, <2>8 DEF SessionStep
<1>4. ASSUME NEW s \in Slot, InFlightTimeout(s)
      PROVE  Greeted'
  <2>1. Ignores(s) /\ UNCHANGED up
    BY <1>4, InFlightTimeoutGoes
  <2>2. ses[s].registered
    BY <2>1, InFlightTask DEF Ignores, Greeted, GreetedAt
  <2> QED BY <2>1, <2>2, GreetedStays DEF Ignores, SessionGoes
<1>5. ASSUME NEW s \in Slot, Leave(s)
      PROVE  Greeted'
  <2>1. /\ SessionGoes(s, "closing", ses[s].subscribed, ses[s].registered, ses[s].inflight)
        /\ up'[s] = <<>> /\ Others(up, up', s)
    BY <1>5, LeaveGoes
  <2>2. GreetedAt(s)'
    BY <2>1 DEF Greeted, GreetedAt, SessionGoes
  <2> QED BY <2>1, <2>2, GreetedElsewhere DEF SessionGoes
<1>6. ASSUME NEW s \in Slot, Close(s)
      PROVE  Greeted'
  <2>1. SessionGoes(s, "free", FALSE, FALSE, NoTask) /\ UNCHANGED up /\ up[s] = <<>>
    BY <1>6, CloseGoes DEF Wired, Live
  <2>2. GreetedAt(s)'
    BY <2>1 DEF GreetedAt, SessionGoes
  <2> QED BY <2>1, <2>2, GreetedElsewhere DEF SessionGoes, Others
<1>7. ASSUME NEW s \in Slot, Connect(s)
      PROVE  Greeted'
  <2>1. /\ SessionGoes(s, "open", FALSE, FALSE, NoTask) /\ Others(up, up', s)
        /\ up'[s] = <<Subscribe, Hello, CommandCatalog, Pull>>
    BY <1>7, ConnectGoes
  <2>2. GreetedAt(s)'
    BY <2>1 DEF GreetedAt, SessionGoes, Subscribe, Hello, CommandCatalog, Pull
  <2> QED BY <2>1, <2>2, GreetedElsewhere DEF SessionGoes
<1>8. ASSUME ReceiveAssign \/ \E outcome \in {"success", "failure"} : FinishTask(outcome)
      PROVE  Greeted'
  <2>0. PICK s \in Slot : s = cslot
    BY <1>8, ClientSends
  <2>1. /\ Others(up, up', s) /\ UNCHANGED ses /\ up[s] \in Seq(UpFrame)
        /\ \A i \in DOMAIN up[s] : i \in DOMAIN up'[s] /\ up'[s][i] = up[s][i]
        /\ \A i \in DOMAIN up'[s] :
              i \in DOMAIN up[s] \/ up'[s][i].kind \in {"ack", "result", "pull"}
    BY <1>8, <2>0, ClientSends DEF TypeOK
  <2>2. 2 \in DOMAIN up[s] => 1 \in DOMAIN up[s]
    BY <2>1
  <2>3. GreetedAt(s)'
    BY <2>1, <2>2 DEF Greeted, GreetedAt
  <2> QED BY <2>1, <2>3, GreetedElsewhere DEF Others
<1>9. CASE ServerCrash
  BY <1>9, ServerCrashGoes DEF Greeted, GreetedAt
<1>10. CASE \/ CreateTask \/ (\E id \in DOMAIN tasks : CancelTask(id)) \/ OrphanExit
            \/ (\E note \in notices : Notify(note)) \/ (\E s \in Slot : Cut(s))
            \/ ReceiveCancel \/ ReceiveClose \/ ClientError \/ UNCHANGED vars
  <2>1. UNCHANGED <<ses, up>>
    BY <1>10 DEF CreateTask, CancelTask, OrphanExit, Notify, Cut, ReceiveCancel, ReceiveClose,
                 ClientError, Detach, vars
  <2> QED BY <1>1, <2>1
<1> QED BY <1>3, <1>4, <1>5, <1>6, <1>7, <1>8, <1>9, <1>10, Steps

\* At the start, every session is greeted.
LEMMA GreetedInit == Init => Greeted
BY DEF Init, Greeted, GreetedAt, Closed

-----------------------------------------------------------------------------
(* The table and what is said of it. *)

\* The rows are consistent, and all of this node.
Rows == Consistent(tasks) /\ \A id \in DOMAIN tasks : tasks[id].node = ThisNode

\* Every step keeps the rows consistent.
LEMMA RowsKept ==
    ASSUME TypeOK, Rows, [Next]_vars
    PROVE  Rows'
<1>0. tasks \in Table /\ ThisNode \in Node
  BY PlaneAssumption DEF TypeOK
<1>1. CASE UNCHANGED tasks
  BY <1>1 DEF Rows, Consistent
<1>2. CASE RowStep(tasks, tasks')
  <2>1. /\ Consistent(tasks') /\ DOMAIN tasks' = DOMAIN tasks
        /\ \A id \in DOMAIN tasks : tasks'[id].node = tasks[id].node
    BY <1>0, <1>2, StepConsistent, StepTable DEF TableStep, Rows
  <2> QED BY <2>1 DEF Rows, Consistent
<1>3. CASE CreateTask
  <2>1. tasks' = Append(tasks, NewRow(ThisNode)) /\ NewRow(ThisNode) \in Task
        /\ NewRow(ThisNode).node = ThisNode /\ RowConsistent(NewRow(ThisNode))
    BY <1>0, <1>3, NewRowFacts DEF CreateTask, Insert
  <2>2. /\ DOMAIN tasks' = DOMAIN tasks \cup {Len(tasks) + 1}
        /\ tasks'[Len(tasks) + 1] = NewRow(ThisNode)
        /\ \A j \in DOMAIN tasks : tasks'[j] = tasks[j]
    BY <1>0, <2>1, OneMore
  <2> QED BY <2>1, <2>2 DEF Rows, Consistent
<1> QED BY <1>1, <1>2, <1>3, StepIsStatement

\* A canceled task stays canceled.
IsCanceled(id) == id \in DOMAIN tasks /\ tasks[id].status = "canceled"

\* A statement leaves a canceled row canceled.
LEMMA CanceledStays ==
    ASSUME TypeOK, [Next]_vars, NEW id, IsCanceled(id)
    PROVE  IsCanceled(id)' /\ tasks'[id] = tasks[id]
<1>0. tasks \in Table /\ ThisNode \in Node /\ id \in DOMAIN tasks /\ tasks[id].status = "canceled"
  BY PlaneAssumption DEF TypeOK, IsCanceled
<1>1. UNCHANGED tasks \/ TableStep(tasks, tasks')
  BY <1>0, StepIsStatement DEF TableStep, CreateTask
<1>2. tasks'[id] = tasks[id]
  BY <1>0, <1>1, StepKeepsEnded DEF Terminal
<1>3. id \in DOMAIN tasks'
  BY <1>0, StepKeepsTable
<1> QED BY <1>0, <1>2, <1>3 DEF IsCanceled

\* Where the notifications and the signals of a step come from.
LEMMA SignalMoves ==
    ASSUME TypeOK, [Next]_vars
    PROVE  /\ \A note \in notices' : \/ note \in notices
                                     \/ note.kind = "dispatch"
                                     \/ IsCanceled(note.id)'
           /\ \A s \in Slot : \A i \in DOMAIN sig'[s] :
                 \/ \E j \in DOMAIN sig[s] : sig'[s][i] = sig[s][j]
                 \/ sig'[s][i] \in notices
<1> DEFINE Noted == \A note \in notices' : \/ note \in notices
                                           \/ note.kind = "dispatch"
                                           \/ IsCanceled(note.id)'
           Queued(s) == \A i \in DOMAIN sig'[s] :
                           \/ \E j \in DOMAIN sig[s] : sig'[s][i] = sig[s][j]
                           \/ sig'[s][i] \in notices
<1> SUFFICES Noted /\ \A s \in Slot : Queued(s)
  OBVIOUS
<1>1. CASE CreateTask
  BY <1>1 DEF CreateTask
<1>2. ASSUME NEW id \in DOMAIN tasks, CancelTask(id)
      PROVE  Noted /\ \A s \in Slot : Queued(s)
  <2>1. tasks[id] \in Task /\ tasks[id].status \in Cancelable
        /\ tasks' = [tasks EXCEPT ![id] = CanceledRow(tasks[id])]
    BY <1>2, RowOfTable DEF CancelTask, Cancel, TypeOK
  <2>2. IsCanceled(id)'
    BY <2>1, StatusOfRow DEF IsCanceled
  <2> QED BY <1>2, <2>2 DEF CancelTask, Told
<1>3. ASSUME NEW note \in notices, Notify(note)
      PROVE  Noted /\ \A s \in Slot : Queued(s)
  <2>1. Noted
    BY <1>3, NotifyGoes
  <2>2. ASSUME NEW s \in Slot PROVE Queued(s)
    <3>1. CASE registry = s
      <4>1. sig'[s] = sig[s] \o <<note>> /\ sig[s] \in Seq(Signal) /\ note \in Signal
        BY <1>3, <3>1, NotifyGoes, PlaneAssumption DEF TypeOK
      <4> QED BY <1>3, <4>1, OneMoreFrame
    <3>2. CASE registry # s
      <4>1. sig'[s] = sig[s]
        BY <1>3, <3>2, NotifyGoes DEF Others
      <4> QED BY <4>1
    <3> QED BY <3>1, <3>2
  <2> QED BY <2>1, <2>2
<1>4. ASSUME NEW s \in Slot, HandleSignal(s)
      PROVE  Noted /\ \A o \in Slot : Queued(o)
  <2>1. /\ UNCHANGED notices /\ Others(sig, sig', s) /\ sig'[s] = Tail(sig[s]) /\ sig[s] # <<>>
        /\ sig[s] \in Seq(Signal)
    BY <1>4, HandleSignalGoes DEF TypeOK
  <2>2. \A i \in DOMAIN sig'[s] : i + 1 \in DOMAIN sig[s] /\ sig'[s][i] = sig[s][i + 1]
    BY <2>1, HeadTail
  <2> QED BY <2>1, <2>2 DEF Others
<1>5. ASSUME NEW s \in Slot, Leave(s)
      PROVE  Noted /\ \A o \in Slot : Queued(o)
  <2>1. /\ UNCHANGED notices /\ sig'[s] = <<>>
        /\ \A o \in Slot : o # s => sig'[o] = sig[o]
    BY <1>5, LeaveGoes DEF Others
  <2> QED BY <2>1
<1>6. CASE ServerCrash
  BY <1>6, ServerCrashGoes
<1>7. CASE UNCHANGED <<notices, sig>>
  BY <1>7
<1>8. ASSUME NEW s \in Slot, NEW kind, Receives(s, kind)
      PROVE  UNCHANGED <<notices, sig>>
  BY <1>8 DEF Receives
<1>9. ASSUME NEW s \in Slot, SessionStep(s), ~HandleSignal(s)
      PROVE  UNCHANGED <<notices, sig>>
  BY <1>8, <1>9 DEF SessionStep, ReceiveSubscribe, ReceiveHello, ReceiveCatalog, ReceivePull,
                    ReceiveAck, ReceiveResult, Dispatch, serverVars
<1>10. CASE (\E s \in Slot : InFlightTimeout(s) \/ Close(s) \/ Connect(s) \/ Cut(s))
            \/ ReceiveAssign \/ ReceiveCancel \/ ReceiveClose \/ ClientError \/ OrphanExit
            \/ (\E outcome \in {"success", "failure"} : FinishTask(outcome))
            \/ UNCHANGED vars
  <2>1. UNCHANGED <<notices, sig>>
    BY <1>10 DEF InFlightTimeout, Close, Connect, Cut, ReceiveAssign, ReceiveCancel, ReceiveClose,
                 ClientError, Detach, OrphanExit, FinishTask, vars, serverVars
  <2> QED BY <1>7, <2>1
<1> HIDE DEF Noted, Queued
<1> QED BY <1>1, <1>2, <1>3, <1>4, <1>5, <1>6, <1>7, <1>9, <1>10, Steps

\* What is told of a cancel is so: the row is canceled.
ToldRightly ==
    /\ \A note \in notices : note.kind = "cancel" => IsCanceled(note.id)
    /\ \A s \in Slot : \A i \in DOMAIN sig[s] :
          sig[s][i].kind = "cancel" => IsCanceled(sig[s][i].id)

\* Every step keeps it: what is told is right.
LEMMA ToldKept ==
    ASSUME TypeOK, ToldRightly, [Next]_vars
    PROVE  ToldRightly'
<1>1. ASSUME NEW note \in notices', note.kind = "cancel"
      PROVE  IsCanceled(note.id)'
  <2>1. CASE note \in notices
    BY <1>1, <2>1, CanceledStays DEF ToldRightly
  <2> QED BY <1>1, <2>1, SignalMoves
<1>2. ASSUME NEW s \in Slot, NEW i \in DOMAIN sig'[s], NEW note, note = sig'[s][i],
             note.kind = "cancel"
      PROVE  IsCanceled(note.id)'
  <2>1. (\E j \in DOMAIN sig[s] : note = sig[s][j]) \/ note \in notices
    BY <1>2, SignalMoves
  <2>2. IsCanceled(note.id)
    BY <1>2, <2>1 DEF ToldRightly
  <2> QED BY <2>2, CanceledStays
<1> QED BY <1>1, <1>2 DEF ToldRightly

\* The empty table is consistent, and nothing is told.
LEMMA TableInit == Init => Rows /\ ToldRightly
BY DEF Init, Rows, Consistent, ToldRightly

\* A requeue leaves none of the node's tasks in dispatched or running.
LEMMA RequeueAll ==
    ASSUME TypeOK, Rows, tasks' = RequeueIncomplete(tasks, ThisNode)
    PROVE  \A id \in DOMAIN tasks' : tasks'[id].status \notin InProgress
<1>0. ThisNode \in Node /\ tasks \in Table
  BY PlaneAssumption DEF TypeOK
<1>1. /\ DOMAIN tasks' = DOMAIN tasks
      /\ \A id \in DOMAIN tasks : tasks'[id] = IF IsIncomplete(tasks[id], ThisNode)
                                               THEN RequeuedRow(tasks[id]) ELSE tasks[id]
  BY <1>0, RequeueRows
<1> SUFFICES ASSUME NEW id \in DOMAIN tasks PROVE tasks'[id].status \notin InProgress
  BY <1>1
<1>2. tasks[id] \in Task /\ RowConsistent(tasks[id]) /\ tasks[id].node = ThisNode
  BY <1>0, RowOfTable DEF Rows, Consistent
<1>3. CASE IsIncomplete(tasks[id], ThisNode)
  BY <1>1, <1>2, <1>3, StatusOfRow DEF InProgress
<1>4. CASE ~IsIncomplete(tasks[id], ThisNode)
  BY <1>1, <1>2, <1>4 DEF IsIncomplete, RowConsistent, InProgressColumns, Untouched
<1> QED BY <1>3, <1>4

\* A result or a retry ends the progress of its task, and no other.
LEMMA ProgressEnds ==
    ASSUME TypeOK, Rows, NEW id,
           \/ tasks' = Retry(tasks, id, ThisNode)
           \/ \E outcome \in {"success", "failure"} :
                 tasks' = SubmitResult(tasks, id, ThisNode, outcome)
    PROVE  /\ DOMAIN tasks' = DOMAIN tasks
           /\ \A j \in DOMAIN tasks : tasks'[j].status \in InProgress =>
                 j # id /\ tasks'[j] = tasks[j]
<1>1. CASE InProgressOf(tasks, id, ThisNode)
  <2>1. tasks[id] \in Task /\ id \in DOMAIN tasks
    BY <1>1, RowOfTable DEF TypeOK, InProgressOf
  <2>2. PICK row : tasks' = [tasks EXCEPT ![id] = row] /\ row.status \notin InProgress
    <3>1. RetriedRow(tasks[id]).status \notin InProgress
      BY <2>1, StatusOfRow DEF InProgress
    <3>2. \A outcome \in {"success", "failure"} :
             FinishedRow(tasks[id], outcome).status \notin InProgress
      BY <2>1, StatusOfRow DEF InProgress
    <3> QED BY <1>1, <3>1, <3>2 DEF Retry, SubmitResult
  <2> QED BY <2>1, <2>2
<1>2. CASE ~InProgressOf(tasks, id, ThisNode)
  <2>1. UNCHANGED tasks
    BY <1>2 DEF Retry, SubmitResult
  <2>2. id \in DOMAIN tasks => tasks[id].status \notin InProgress
    BY <1>2 DEF InProgressOf, Rows
  <2> QED BY <2>1, <2>2
<1> QED BY <1>1, <1>2

-----------------------------------------------------------------------------
(* Who answers for a row in progress. *)

\* Session s has task id in flight and will report its result.
Holds(s, id) == ses[s].inflight # NoTask /\ ses[s].inflight.id = id /\ ~ses[s].inflight.ignored

\* A row in progress is held by a session that has not closed yet and, once the
\* registered session has said hello, by one that is still in its loop.
HeldAt(id) ==
    /\ \/ \E s \in Slot : ses[s].pc # "free" /\ Holds(s, id)
       \/ \A s \in Slot : ~ses[s].registered
    /\ registry # NoSlot /\ ses[registry].registered =>
          \E s \in Slot : Live(s) /\ Holds(s, id)

Held == \A id \in DOMAIN tasks : tasks[id].status \in InProgress => HeldAt(id)

\* A session that stays in its loop and holds what it held.
LEMMA HeldStays ==
    ASSUME TypeOK, NEW id, HeldAt(id), NEW s \in Slot, Others(ses, ses', s), UNCHANGED registry,
           Live(s), Live(s)', ses'[s].registered = ses[s].registered,
           Holds(s, id) => Holds(s, id)'
    PROVE  HeldAt(id)'
<1>1. \A o \in Slot : Holds(o, id) => Holds(o, id)'
  BY DEF Holds, Others
<1>2. \A o \in Slot : /\ ses[o].pc # "free" => ses'[o].pc # "free"
                      /\ Live(o) => Live(o)'
                      /\ ses'[o].registered = ses[o].registered
  BY DEF Live, Others
<1>3. registry \in Slot \cup {NoSlot}
  BY DEF TypeOK
<1> HIDE DEF Holds, Live
<1> QED BY <1>1, <1>2, <1>3 DEF HeldAt

\* The rows that are in progress after a step of which the sessions know nothing
\* were in progress before.
LEMMA HeldUnseen ==
    ASSUME Held, UNCHANGED <<ses, registry>>,
           \A id \in DOMAIN tasks' : tasks'[id].status \in InProgress =>
              id \in DOMAIN tasks /\ tasks[id].status \in InProgress
    PROVE  Held'
BY DEF Held, HeldAt, Holds, Live

\* A claim makes the session that claims the holder.
LEMMA HeldHandsOut ==
    ASSUME TypeOK, Held, NEW s \in Slot, NEW new \in Id, Live(s), HandsOut(s, new),
           UNCHANGED registry
    PROVE  Held'
<1>1. /\ Others(ses, ses', s) /\ Live(s)' /\ ses'[s].registered = ses[s].registered
      /\ ses[s].inflight = NoTask /\ ses'[s].pc = "open"
      /\ ses'[s].inflight = [id |-> new, ignored |-> FALSE]
  BY DEF HandsOut, SessionGoes, Live
<1>2. [id |-> new, ignored |-> FALSE] \in InFlight
  BY DEF InFlight
<1>3. Holds(s, new)'
  <2>1. ses'[s].inflight # NoTask
    BY <1>1, <1>2, InFlightTask
  <2>2. ses'[s].inflight.id = new /\ ~ses'[s].inflight.ignored
    BY <1>1
  <2> QED BY <2>1, <2>2 DEF Holds
<1>4. DOMAIN tasks' = DOMAIN tasks /\ \A id \in DOMAIN tasks : id # new => tasks'[id] = tasks[id]
  BY DEF HandsOut
<1>5. HeldAt(new)'
  <2>1. ses'[s].pc # "free" /\ Holds(s, new)' /\ Live(s)'
    BY <1>1, <1>3
  <2> QED BY <2>1 DEF HeldAt
<1>6. ASSUME NEW id \in DOMAIN tasks, id # new, tasks'[id].status \in InProgress
      PROVE  HeldAt(id)'
  <2>1. HeldAt(id) /\ ~Holds(s, id)
    BY <1>1, <1>4, <1>6 DEF Held, Holds
  <2> QED BY <1>1, <2>1, HeldStays
<1> QED BY <1>4, <1>5, <1>6 DEF Held

\* A session that stays in its loop gives up at most the task whose progress ends.
LEMMA HeldGivesUp ==
    ASSUME TypeOK, Held, NEW s \in Slot, Others(ses, ses', s), UNCHANGED registry, Live(s), Live(s)',
           ses'[s].registered = ses[s].registered,
           DOMAIN tasks' = DOMAIN tasks,
           \A id \in DOMAIN tasks : tasks'[id].status \in InProgress =>
              tasks[id].status \in InProgress /\ (Holds(s, id) => Holds(s, id)')
    PROVE  Held'
<1> SUFFICES ASSUME NEW id \in DOMAIN tasks, tasks'[id].status \in InProgress PROVE HeldAt(id)'
  BY DEF Held
<1>1. HeldAt(id) /\ (Holds(s, id) => Holds(s, id)')
  BY DEF Held
<1> QED BY <1>1, HeldStays

\* Every step keeps it: every task in progress is held.
LEMMA HeldKept ==
    ASSUME TypeOK, Rows, ToldRightly, Held, [Next]_vars
    PROVE  Held'
<1>1. ASSUME NEW s \in Slot, Waits(s), Live(s), UNCHANGED registry
      PROVE  Held'
  <2>1. /\ Others(ses, ses', s) /\ Live(s)' /\ ses'[s].registered = ses[s].registered
        /\ ses'[s].inflight = ses[s].inflight /\ UNCHANGED tasks
    BY <1>1 DEF Waits, SessionGoes, Live
  <2>2. \A id : Holds(s, id) => Holds(s, id)'
    BY <2>1 DEF Holds
  <2> QED BY <1>1, <2>1, <2>2, HeldGivesUp
<1>2. ASSUME NEW s \in Slot, Waits(s) \/ (\E id \in Id : HandsOut(s, id)), Live(s),
             UNCHANGED registry
      PROVE  Held'
  BY <1>1, <1>2, HeldHandsOut
<1>3. ASSUME \E s \in Slot : ReceiveHello(s) \/ Close(s)
      PROVE  Held'
  BY <1>3, ReceiveHelloGoes, CloseGoes, RequeueAll DEF Held
<1>4. ASSUME NEW s \in Slot, Ignores(s), UNCHANGED registry, DOMAIN tasks' = DOMAIN tasks,
             \A j \in DOMAIN tasks : tasks'[j].status \in InProgress =>
                 j # ses[s].inflight.id /\ tasks'[j] = tasks[j]
      PROVE  Held'
  <2>1. /\ Others(ses, ses', s) /\ Live(s) /\ Live(s)' /\ ses'[s].registered = ses[s].registered
    BY <1>4 DEF Ignores, SessionGoes, Live
  <2>2. \A id \in DOMAIN tasks : tasks'[id].status \in InProgress => ~Holds(s, id)
    BY <1>4 DEF Holds
  <2> QED BY <1>4, <2>1, <2>2, HeldGivesUp
<1>5. ASSUME NEW s \in Slot, SessionStep(s)
      PROVE  Held'
  <2>1. CASE ReceiveSubscribe(s)
    <3>1. /\ SessionGoes(s, "open", TRUE, ses[s].registered, ses[s].inflight)
          /\ ses[s].pc = "open" /\ UNCHANGED <<tasks, registry>>
      BY <2>1, ReceiveSubscribeGoes, ReceivesGoes DEF ReceiveSubscribe
    <3>2. /\ Others(ses, ses', s) /\ Live(s) /\ Live(s)' /\ ses'[s].registered = ses[s].registered
          /\ \A id : Holds(s, id) => Holds(s, id)'
      BY <3>1 DEF SessionGoes, Live, Holds
    <3> QED BY <3>1, <3>2, HeldGivesUp
  <2>2. CASE ReceivePull(s)
    <3>1. UNCHANGED registry /\ Live(s)
      BY <2>2, ReceivesGoes DEF ReceivePull, Live
    <3> QED BY <1>2, <2>2, <3>1, ReceivePullGoes
  <2>3. CASE Dispatch(s)
    <3>1. UNCHANGED registry /\ Live(s) /\ TryDispatch(s)
      BY <2>3 DEF Dispatch, serverVars, Live
    <3> QED BY <1>2, <3>1, TryDispatchGoes
  <2>4. CASE HandleSignal(s)
    <3>1. UNCHANGED registry /\ Live(s)
      BY <2>4, HandleSignalGoes DEF Live
    <3>2. CASE TryDispatch(s)
      BY <1>2, <3>1, <3>2, TryDispatchGoes
    <3>3. CASE ~TryDispatch(s)
      <4>1. Ignores(s) /\ UNCHANGED tasks /\ sig[s][1] = Told(ses[s].inflight.id) /\ sig[s] # <<>>
        BY <2>4, <3>3, HandleSignalGoes
      <4>2. 1 \in DOMAIN sig[s]
        BY <4>1 DEF TypeOK
      <4>3. IsCanceled(ses[s].inflight.id)
        BY <4>1, <4>2 DEF ToldRightly, Told
      <4> QED BY <1>4, <3>1, <4>1, <4>3 DEF IsCanceled, InProgress
    <3> QED BY <3>2, <3>3
  <2>5. CASE ReceiveResult(s)
    <3>1. UNCHANGED registry /\ ses[s].pc = "open"
      BY <2>5, ReceivesGoes DEF ReceiveResult
    <3>2. CASE ~Expected(s, up[s][1].id)
      <4>1. UNCHANGED <<tasks, ses>>
        BY <2>5, <3>2, ReceiveResultGoes
      <4> QED BY <3>1, <4>1, HeldUnseen
    <3>3. CASE Expected(s, up[s][1].id)
      <4> DEFINE id == up[s][1].id
      <4>1. /\ SessionGoes(s, "dispatch", ses[s].subscribed, ses[s].registered, NoTask)
            /\ tasks' = IF ses[s].inflight.ignored THEN tasks
                        ELSE SubmitResult(tasks, id, ThisNode, up[s][1].outcome)
            /\ up[s][1].outcome \in {"success", "failure"}
        BY <2>5, <3>3, ReceiveResultGoes
      <4>2. /\ Others(ses, ses', s) /\ Live(s) /\ Live(s)' /\ ses'[s].registered = ses[s].registered
        BY <3>1, <4>1 DEF SessionGoes, Live
      <4>3. CASE ses[s].inflight.ignored
        <5>1. \A j : ~Holds(s, j)
          BY <4>3 DEF Holds
        <5> QED BY <3>1, <4>1, <4>2, <4>3, <5>1, HeldGivesUp
      <4>4. CASE ~ses[s].inflight.ignored
        <5>1. tasks' = SubmitResult(tasks, id, ThisNode, up[s][1].outcome)
          BY <4>1, <4>4
        <5>2. /\ DOMAIN tasks' = DOMAIN tasks
              /\ \A j \in DOMAIN tasks : tasks'[j].status \in InProgress =>
                    j # id /\ tasks'[j] = tasks[j]
          BY <4>1, <5>1, ProgressEnds
        <5>3. \A j : j # id => ~Holds(s, j)
          BY <3>3 DEF Holds, Expected
        <5> QED BY <3>1, <4>2, <5>2, <5>3, HeldGivesUp
      <4> QED BY <4>3, <4>4
    <3> QED BY <3>2, <3>3
  <2>6. CASE ReceiveAck(s)
    <3>1. UNCHANGED <<ses, registry>>
      BY <2>6, ReceivesGoes DEF ReceiveAck
    <3>2. UNCHANGED tasks \/ \E id \in DOMAIN tasks :
             tasks[id].status = "dispatched" /\ tasks' = [tasks EXCEPT ![id] = AckedRow(@)]
      BY <2>6 DEF ReceiveAck, Acknowledge, InProgressOf
    <3>3. \A id \in DOMAIN tasks' : tasks'[id].status \in InProgress =>
             id \in DOMAIN tasks /\ tasks[id].status \in InProgress
      BY <3>2 DEF InProgress
    <3> QED BY <3>1, <3>3, HeldUnseen
  <2>7. CASE ReceiveCatalog(s)
    <3>1. UNCHANGED <<tasks, ses, registry>>
      BY <2>7, ReceivesGoes DEF ReceiveCatalog
    <3> QED BY <3>1, HeldUnseen
  <2>8. CASE ReceiveHello(s)
    BY <1>3, <2>8
  <2> QED BY <1>5, <2>1, <2>2, <2>3, <2>4, <2>5, <2>6, <2>7, <2>8 DEF SessionStep
<1>6. ASSUME NEW s \in Slot, InFlightTimeout(s)
      PROVE  Held'
  <2>1. /\ Ignores(s) /\ UNCHANGED registry
        /\ tasks' = Retry(tasks, ses[s].inflight.id, ThisNode)
    BY <1>6, InFlightTimeoutGoes
  <2>2. /\ DOMAIN tasks' = DOMAIN tasks
        /\ \A j \in DOMAIN tasks : tasks'[j].status \in InProgress =>
              j # ses[s].inflight.id /\ tasks'[j] = tasks[j]
    BY <2>1, ProgressEnds
  <2> QED BY <1>4, <2>1, <2>2
<1>7. ASSUME NEW s \in Slot, Leave(s) \/ Connect(s)
      PROVE  Held'
  <2>1. /\ Others(ses, ses', s) /\ UNCHANGED tasks
        /\ \/ registry' = NoSlot /\ SessionGoes(s, "closing", ses[s].subscribed,
                                                ses[s].registered, ses[s].inflight)
           \/ registry' = s /\ SessionGoes(s, "open", FALSE, FALSE, NoTask) /\ ses[s].pc = "free"
    BY <1>7, LeaveGoes, ConnectGoes DEF SessionGoes
  <2>2. ~(registry' # NoSlot /\ ses'[registry'].registered)
    BY <2>1 DEF SessionGoes
  <2>3. \A o \in Slot : /\ ses'[o].registered => ses[o].registered
                        /\ ses[o].pc # "free" =>
                              ses'[o].pc # "free" /\ ses'[o].inflight = ses[o].inflight
    BY <2>1 DEF SessionGoes, Others
  <2>4. ASSUME NEW id, HeldAt(id) PROVE HeldAt(id)'
    BY <2>2, <2>3, <2>4 DEF HeldAt, Holds
  <2> QED BY <2>1, <2>4 DEF Held
<1>8. CASE ServerCrash
  <2>1. registry' = NoSlot /\ \A s \in Slot : ~ses'[s].registered
    BY <1>8, ServerCrashGoes
  <2> QED BY <2>1 DEF Held, HeldAt
<1>9. CASE CreateTask
  <2>1. tasks' = Append(tasks, NewRow(ThisNode)) /\ UNCHANGED <<ses, registry>>
    BY <1>9 DEF CreateTask, Insert
  <2>2. /\ NewRow(ThisNode).status \notin InProgress /\ NewRow(ThisNode) \in Task
        /\ tasks \in Table
    BY NewRowFacts, PlaneAssumption DEF InProgress, TypeOK
  <2>3. \A id \in DOMAIN tasks' : tasks'[id].status \in InProgress =>
           id \in DOMAIN tasks /\ tasks[id].status \in InProgress
    BY <2>1, <2>2, OneMore
  <2> QED BY <2>1, <2>3, HeldUnseen
<1>10. ASSUME NEW id \in DOMAIN tasks, CancelTask(id)
       PROVE  Held'
  <2>1. tasks' = [tasks EXCEPT ![id] = CanceledRow(tasks[id])] /\ UNCHANGED <<ses, registry>>
    BY <1>10 DEF CancelTask, Cancel
  <2>2. CanceledRow(tasks[id]).status \notin InProgress
    BY RowOfTable, StatusOfRow DEF InProgress, TypeOK
  <2>3. \A j \in DOMAIN tasks' : tasks'[j].status \in InProgress =>
           j \in DOMAIN tasks /\ tasks[j].status \in InProgress
    BY <2>1, <2>2
  <2> QED BY <2>1, <2>3, HeldUnseen
<1>11. CASE (\E note \in notices : Notify(note)) \/ (\E s \in Slot : Cut(s))
            \/ ReceiveAssign \/ ReceiveCancel \/ ReceiveClose \/ ClientError \/ OrphanExit
            \/ (\E outcome \in {"success", "failure"} : FinishTask(outcome))
            \/ UNCHANGED vars
  <2>1. UNCHANGED <<tasks, ses, registry>>
    BY <1>11 DEF Notify, Cut, ReceiveAssign, ReceiveCancel, ReceiveClose, ClientError, Detach,
                 OrphanExit, FinishTask, vars, serverVars
  <2> QED BY <2>1, HeldUnseen
<1> QED BY <1>3, <1>5, <1>6, <1>7, <1>8, <1>9, <1>10, <1>11, Steps

\* At the start, every task in progress is held.
LEMMA HeldInit == Init => Held
BY DEF Init, Held

-----------------------------------------------------------------------------
(* Who is woken for a queued task. *)

\* The only session in its loop is idle.
Idle(s) ==
    /\ registry = s
    /\ ses[s].pc = "open" /\ ses[s].registered /\ ses[s].inflight = NoTask
    /\ \A other \in Slot \ {s} : ~Live(other)

\* Something will make session s claim.
Coming(s) ==
    notices # {} \/ sig[s] # <<>> \/ \E i \in DOMAIN up[s] : up[s][i].kind = "pull"

\* NoLostWakeup, also while other sessions are closing.
Woken == \A s \in Slot : Idle(s) /\ QueuedFor(tasks, ThisNode) # {} => Coming(s)

\* An idle session that reads a frame which is no pull.
LEMMA WokenReads ==
    ASSUME TypeOK, Woken, NEW s \in Slot, NEW kind \in {"subscribe", "catalog", "ack", "result"},
           Receives(s, kind), Others(ses, ses', s), ses'[s].registered = ses[s].registered,
           ses'[s].inflight = ses[s].inflight, Idle(s)', UNCHANGED tasks,
           QueuedFor(tasks, ThisNode)' # {}
    PROVE  Coming(s)'
<1>1. /\ UNCHANGED <<notices, registry, sig>> /\ up'[s] = Tail(up[s]) /\ up[s] # <<>>
      /\ up[s][1].kind = kind /\ up[s] \in Seq(UpFrame) /\ ses[s].pc = "open"
  BY ReceivesGoes DEF TypeOK
<1>2. Idle(s)
  BY <1>1 DEF Idle, Live, Others
<1>3. \A i \in DOMAIN up[s] \ {1} : i - 1 \in DOMAIN up'[s] /\ up'[s][i - 1] = up[s][i]
  BY <1>1, HeadTail
<1>4. Coming(s)
  BY <1>2 DEF Woken, QueuedFor
<1> QED BY <1>1, <1>3, <1>4 DEF Coming

\* A step that an idle session does not see.
LEMMA WokenUnseen ==
    ASSUME Woken, NEW s \in Slot, Idle(s)', QueuedFor(tasks, ThisNode)' # {},
           UNCHANGED <<tasks, notices, registry, ses, sig>>,
           \A i \in DOMAIN up[s] : i \in DOMAIN up'[s] /\ up'[s][i] = up[s][i]
    PROVE  Coming(s)'
<1>1. Idle(s) /\ QueuedFor(tasks, ThisNode) # {}
  BY DEF Idle, Live, QueuedFor
<1>2. Coming(s)
  BY <1>1 DEF Woken
<1> QED BY <1>2 DEF Coming

\* Every step keeps it: idle sessions are woken.
LEMMA WokenKept ==
    ASSUME TypeOK, Wired, Greeted, Rows, Held, Woken, [Next]_vars
    PROVE  Woken'
<1> SUFFICES ASSUME NEW s \in Slot, Idle(s)', QueuedFor(tasks, ThisNode)' # {}
             PROVE  Coming(s)'
  BY DEF Woken
<1>0. /\ registry' = s /\ ses'[s].pc = "open" /\ ses'[s].registered /\ ses'[s].inflight = NoTask
      /\ \A other \in Slot \ {s} : ~Live(other)'
  BY DEF Idle
<1>1. CASE CreateTask \/ \E id \in DOMAIN tasks : CancelTask(id)
  BY <1>1 DEF CreateTask, CancelTask, Coming
<1>2. ASSUME NEW note \in notices, Notify(note)
      PROVE  Coming(s)'
  <2>1. sig'[s] = sig[s] \o <<note>> /\ sig[s] \in Seq(Signal) /\ note \in Signal
    BY <1>0, <1>2, NotifyGoes, PlaneAssumption DEF TypeOK
  <2>2. sig'[s] # <<>>
    BY <2>1
  <2> QED BY <2>2 DEF Coming
<1>3. ASSUME Waits(s)
      PROVE  /\ QueuedFor(tasks, ThisNode) # {} /\ ses[s].inflight = NoTask
             /\ ses[s].registered /\ ses[s].subscribed
  <2>1. UNCHANGED tasks /\ ses'[s].inflight = ses[s].inflight
        /\ ses'[s].registered = ses[s].registered
    BY <1>3 DEF Waits, SessionGoes
  <2> QED BY <1>0, <2>1 DEF QueuedFor, Greeted, GreetedAt
<1>4. ASSUME NEW id \in Id, HandsOut(s, id)
      PROVE  FALSE
  <2>1. ses'[s].inflight = [id |-> id, ignored |-> FALSE]
    BY <1>4 DEF HandsOut, SessionGoes
  <2>2. [id |-> id, ignored |-> FALSE] \in InFlight
    BY DEF InFlight
  <2> QED BY <1>0, <2>1, <2>2, InFlightTask
<1>5. ASSUME SessionStep(s)
      PROVE  Coming(s)'
  <2>1. CASE ReceiveSubscribe(s)
    <3>1. /\ Receives(s, "subscribe") /\ UNCHANGED tasks
          /\ SessionGoes(s, "open", TRUE, ses[s].registered, ses[s].inflight)
      BY <2>1, ReceiveSubscribeGoes DEF ReceiveSubscribe
    <3> QED BY <3>1, WokenReads DEF SessionGoes
  <2>2. CASE ReceiveHello(s)
    BY <1>0, <2>2, ReceiveHelloGoes DEF SessionGoes
  <2>3. CASE ReceiveCatalog(s)
    <3>1. Receives(s, "catalog") /\ UNCHANGED <<tasks, ses>>
      BY <2>3 DEF ReceiveCatalog
    <3> QED BY <3>1, WokenReads DEF Others
  <2>4. CASE ReceivePull(s)
    BY <1>3, <1>4, <2>4, ReceivePullGoes
  <2>5. CASE ReceiveAck(s)
    <3>1. Receives(s, "ack") /\ UNCHANGED ses
      BY <2>5 DEF ReceiveAck
    <3>2. UNCHANGED tasks
      BY <1>0, <2>5, <3>1 DEF ReceiveAck, Expected
    <3> QED BY <3>1, <3>2, WokenReads DEF Others
  <2>6. CASE ReceiveResult(s)
    <3>1. Receives(s, "result")
      BY <2>6 DEF ReceiveResult
    <3>2. UNCHANGED <<tasks, ses>>
      BY <1>0, <2>6, ReceiveResultGoes DEF SessionGoes
    <3> QED BY <3>1, <3>2, WokenReads DEF Others
  <2>7. CASE HandleSignal(s)
    <3>1. CASE TryDispatch(s)
      BY <1>3, <1>4, <3>1, TryDispatchGoes
    <3>2. CASE ~TryDispatch(s)
      <4>1. ses'[s].inflight \in InFlight
        BY <2>7, <3>2, HandleSignalGoes DEF Ignores
      <4> QED BY <1>0, <4>1, InFlightTask
    <3> QED BY <3>1, <3>2
  <2>8. CASE Dispatch(s)
    BY <1>3, <1>4, <2>8, TryDispatchGoes DEF Dispatch
  <2> QED BY <1>5, <2>1, <2>2, <2>3, <2>4, <2>5, <2>6, <2>7, <2>8 DEF SessionStep
<1>6. ASSUME NEW o \in Slot \ {s}, SessionStep(o) \/ InFlightTimeout(o)
      PROVE  FALSE
  <2>1. ses'[o].pc \in {"open", "dispatch"}
    <3>1. ASSUME Waits(o) \/ \E id \in Id : HandsOut(o, id)
          PROVE  ses'[o].pc = "open"
      BY <3>1 DEF Waits, HandsOut, SessionGoes
    <3>2. CASE ReceiveSubscribe(o) \/ ReceiveHello(o) \/ InFlightTimeout(o)
      BY <3>2, ReceiveSubscribeGoes, ReceiveHelloGoes, InFlightTimeoutGoes
         DEF SessionGoes, Ignores
    <3>3. CASE ReceivePull(o) \/ Dispatch(o)
      BY <3>1, <3>3, ReceivePullGoes, TryDispatchGoes DEF Dispatch
    <3>4. CASE HandleSignal(o)
      BY <3>1, <3>4, HandleSignalGoes, TryDispatchGoes DEF Ignores, SessionGoes
    <3>5. CASE ReceiveCatalog(o) \/ ReceiveAck(o)
      BY <3>5, ReceivesGoes DEF ReceiveCatalog, ReceiveAck
    <3>6. CASE ReceiveResult(o)
      <4>1. ses[o].pc = "open"
        BY <3>6, ReceivesGoes DEF ReceiveResult
      <4> QED BY <3>6, <4>1, ReceiveResultGoes DEF SessionGoes
    <3> QED BY <1>6, <3>2, <3>3, <3>4, <3>5, <3>6 DEF SessionStep
  <2> QED BY <1>0, <2>1 DEF Live
<1>7. CASE InFlightTimeout(s)
  BY <1>0, <1>7, InFlightTimeoutGoes, InFlightTask DEF Ignores
<1>8. ASSUME NEW o \in Slot, Leave(o) \/ Connect(o)
      PROVE  FALSE
  BY <1>0, <1>8, LeaveGoes, ConnectGoes, PlaneAssumption DEF SessionGoes
<1>9. ASSUME NEW o \in Slot, Close(o)
      PROVE  Coming(s)'
  <2>1. /\ SessionGoes(o, "free", FALSE, FALSE, NoTask) /\ ses[o].pc = "closing"
        /\ UNCHANGED <<notices, registry, sig, up>>
        /\ tasks' = RequeueIncomplete(tasks, ThisNode)
    BY <1>9, CloseGoes
  <2>2. o # s /\ ses'[s] = ses[s] /\ \A other \in Slot \ {s} : ~Live(other)
    BY <1>0, <2>1 DEF SessionGoes, Others, Live
  <2>3. Idle(s)
    BY <1>0, <2>1, <2>2 DEF Idle
  <2>4. \A id \in DOMAIN tasks : tasks[id].status \notin InProgress
    <3>1. ASSUME NEW id \in DOMAIN tasks, tasks[id].status \in InProgress PROVE FALSE
      <4>1. \E holder \in Slot : Live(holder) /\ Holds(holder, id)
        BY <2>3, <3>1, PlaneAssumption DEF Held, HeldAt, Idle
      <4> QED BY <2>2, <2>3, <4>1 DEF Holds, Idle
    <3> QED BY <3>1
  <2>5. DOMAIN tasks' = DOMAIN tasks /\ \A id \in DOMAIN tasks : tasks'[id] = tasks[id]
    BY <2>1, <2>4 DEF RequeueIncomplete, IsIncomplete
  <2>6. QueuedFor(tasks, ThisNode) # {}
    BY <2>5 DEF QueuedFor
  <2> QED BY <2>1, <2>3, <2>6 DEF Woken, Coming
<1>10. CASE ReceiveAssign \/ \E outcome \in {"success", "failure"} : FinishTask(outcome)
  <2>1. UNCHANGED <<tasks, notices, registry, ses, sig>>
    BY <1>10 DEF ReceiveAssign, FinishTask, serverVars
  <2>2. \A i \in DOMAIN up[s] : i \in DOMAIN up'[s] /\ up'[s][i] = up[s][i]
    BY <1>10, ClientSends DEF Others
  <2> QED BY <2>1, <2>2, WokenUnseen
<1>11. CASE ServerCrash
  BY <1>0, <1>11, ServerCrashGoes, PlaneAssumption
<1>12. CASE (\E o \in Slot : Cut(o)) \/ ReceiveCancel \/ ReceiveClose \/ ClientError
            \/ OrphanExit \/ UNCHANGED vars
  <2>1. UNCHANGED <<tasks, notices, registry, ses, sig, up>>
    BY <1>12 DEF Cut, ReceiveCancel, ReceiveClose, ClientError, Detach, OrphanExit, vars, serverVars
  <2> QED BY <2>1, WokenUnseen
<1> QED BY <1>1, <1>2, <1>5, <1>6, <1>7, <1>8, <1>9, <1>10, <1>11, <1>12, Steps

\* At the start, idle sessions are woken.
LEMMA WokenInit == Init => Woken
BY DEF Init, Woken, QueuedFor

-----------------------------------------------------------------------------
(* What a working connection carries. *)

\* The i-th frame of a queue is of this kind.
IsKind(q, i, kind) == i \in DOMAIN q /\ q[i].kind = kind

\* Queue r has the frames of this kind that q has, each d places further on.
SameKind(q, r, kind, d) ==
    \A i \in Nat : /\ IsKind(r, i, kind) <=> IsKind(q, i + d, kind)
                   /\ IsKind(r, i, kind) => r[i] = q[i + d]
                   /\ IsKind(q, i, kind) => d <= i

\* Without its first frame, a queue has its frames one place earlier.
LEMMA SameKindTail ==
    ASSUME NEW X, NEW q \in Seq(X), q # <<>>, NEW kind, q[1].kind # kind
    PROVE  SameKind(q, Tail(q), kind, 1)
<1>1. /\ Len(q) \in Nat \ {0} /\ DOMAIN q = 1..Len(q) /\ DOMAIN Tail(q) = 1..(Len(q) - 1)
      /\ \A i \in DOMAIN Tail(q) : Tail(q)[i] = q[i + 1]
  BY HeadTail
<1>2. \A i \in Nat : i \in DOMAIN Tail(q) <=> i + 1 \in DOMAIN q /\ i # 0
  BY <1>1
<1>3. \A i \in Nat : IsKind(q, i, kind) => 1 <= i /\ i # 1
  BY <1>1 DEF IsKind
<1> QED BY <1>1, <1>2, <1>3 DEF SameKind, IsKind

\* A frame of another kind at the end changes nothing.
LEMMA SameKindMore ==
    ASSUME NEW X, NEW q \in Seq(X), NEW x \in X, NEW kind, x.kind # kind
    PROVE  SameKind(q, q \o <<x>>, kind, 0)
<1>1. /\ DOMAIN (q \o <<x>>) = DOMAIN q \cup {Len(q) + 1} /\ Len(q) + 1 \notin DOMAIN q
      /\ (q \o <<x>>)[Len(q) + 1] = x
      /\ \A i \in DOMAIN q : (q \o <<x>>)[i] = q[i]
  BY OneMoreFrame
<1> HIDE DEF IsKind
<1>2. \A i \in Nat : IsKind(q \o <<x>>, i, kind) <=> IsKind(q, i, kind)
  BY <1>1 DEF IsKind
<1> QED BY <1>1, <1>2 DEF SameKind, IsKind

\* A queue has the frames that it has.
LEMMA SameKindSame ==
    ASSUME NEW X, NEW q \in Seq(X), NEW kind
    PROVE  SameKind(q, q, kind, 0)
BY DEF SameKind, IsKind

IsAssign(s, i) == IsKind(down[s], i, "assign")
IsResult(s, i) == IsKind(up[s], i, "result")

\* The connection works: the client is on it, and the server reads it.
Works(s) == cslot = s /\ conn[s] = "up" /\ Live(s)

\* One task at one place of a working connection, the one in flight.
OnePlace(s) ==
    /\ \A i \in Nat : IsAssign(s, i) =>
          /\ ses[s].inflight # NoTask /\ down[s][i].id = ses[s].inflight.id /\ running = NoTask
          /\ \A j \in Nat : (IsAssign(s, j) => j = i) /\ ~IsResult(s, j)
    /\ running # NoTask =>
          /\ ses[s].inflight # NoTask /\ running.id = ses[s].inflight.id
          /\ \A j \in Nat : ~IsResult(s, j)
    /\ \A i \in Nat : IsResult(s, i) =>
          /\ ses[s].inflight # NoTask /\ up[s][i].id = ses[s].inflight.id
          /\ \A j \in Nat : IsResult(s, j) => j = i
    /\ ses[s].inflight # NoTask =>
          \/ running # NoTask
          \/ \E i \in Nat : IsAssign(s, i) \/ IsResult(s, i)

CarriesOne == \A s \in Slot : Works(s) => OnePlace(s)

\* The task does not move: what is in flight, what runs, the assignments and the
\* results stay, up to their place in the queues and what is ignored or canceled.
LEMMA OnePlaceStays ==
    ASSUME NEW s \in Slot, OnePlace(s), NEW d \in {0, 1}, NEW e \in {0, 1},
           SameKind(down[s], down'[s], "assign", d), SameKind(up[s], up'[s], "result", e),
           ses[s].inflight = NoTask <=> ses'[s].inflight = NoTask,
           ses[s].inflight # NoTask => ses'[s].inflight.id = ses[s].inflight.id,
           running = NoTask <=> running' = NoTask,
           running # NoTask => running'.id = running.id
    PROVE  OnePlace(s)'
<1>1. \A i \in Nat : /\ IsAssign(s, i)' <=> IsAssign(s, i + d)
                     /\ IsAssign(s, i)' => down'[s][i] = down[s][i + d]
                     /\ IsAssign(s, i) => i - d \in Nat /\ IsAssign(s, i - d)'
  <2>1. ASSUME NEW i \in Nat, IsAssign(s, i) PROVE i - d \in Nat /\ IsAssign(s, i - d)'
    <3>1. i - d \in Nat /\ i = (i - d) + d
      BY <2>1 DEF SameKind, IsAssign
    <3> DEFINE k == i - d
    <3>2. k \in Nat /\ IsKind(down[s], k + d, "assign")
      BY <2>1, <3>1 DEF IsAssign
    <3> HIDE DEF k
    <3>3. IsAssign(s, k)'
      BY <3>2 DEF SameKind, IsAssign
    <3> QED BY <3>1, <3>3 DEF k
  <2> QED BY <2>1 DEF SameKind, IsAssign
<1>2. \A i \in Nat : /\ IsResult(s, i)' <=> IsResult(s, i + e)
                     /\ IsResult(s, i)' => up'[s][i] = up[s][i + e]
                     /\ IsResult(s, i) => i - e \in Nat /\ IsResult(s, i - e)'
  <2>1. ASSUME NEW i \in Nat, IsResult(s, i) PROVE i - e \in Nat /\ IsResult(s, i - e)'
    <3>1. i - e \in Nat /\ i = (i - e) + e
      BY <2>1 DEF SameKind, IsResult
    <3> DEFINE k == i - e
    <3>2. k \in Nat /\ IsKind(up[s], k + e, "result")
      BY <2>1, <3>1 DEF IsResult
    <3> HIDE DEF k
    <3>3. IsResult(s, k)'
      BY <3>2 DEF SameKind, IsResult
    <3> QED BY <3>1, <3>3 DEF k
  <2> QED BY <2>1 DEF SameKind, IsResult
<1> HIDE DEF IsAssign, IsResult
<1>3. ASSUME NEW i \in Nat, IsAssign(s, i)'
      PROVE  /\ ses'[s].inflight # NoTask /\ down'[s][i].id = ses'[s].inflight.id
             /\ running' = NoTask
             /\ \A j \in Nat : (IsAssign(s, j)' => j = i) /\ ~IsResult(s, j)'
  <2>1. i + d \in Nat /\ IsAssign(s, i + d) /\ down'[s][i] = down[s][i + d]
    BY <1>1, <1>3
  <2>2. \A j \in Nat : /\ j + d \in Nat /\ j + e \in Nat
                       /\ IsAssign(s, j)' => IsAssign(s, j + d)
                       /\ IsResult(s, j)' => IsResult(s, j + e)
                       /\ (j + d = i + d => j = i)
    BY <1>1, <1>2
  <2> QED BY <2>1, <2>2 DEF OnePlace
<1>4. ASSUME running' # NoTask
      PROVE  /\ ses'[s].inflight # NoTask /\ running'.id = ses'[s].inflight.id
             /\ \A j \in Nat : ~IsResult(s, j)'
  <2>1. \A j \in Nat : j + e \in Nat /\ (IsResult(s, j)' => IsResult(s, j + e))
    BY <1>2
  <2> QED BY <1>4, <2>1 DEF OnePlace
<1>5. ASSUME NEW i \in Nat, IsResult(s, i)'
      PROVE  /\ ses'[s].inflight # NoTask /\ up'[s][i].id = ses'[s].inflight.id
             /\ \A j \in Nat : IsResult(s, j)' => j = i
  <2>1. i + e \in Nat /\ IsResult(s, i + e) /\ up'[s][i] = up[s][i + e]
    BY <1>2, <1>5
  <2>2. \A j \in Nat : /\ j + e \in Nat
                       /\ IsResult(s, j)' => IsResult(s, j + e)
                       /\ (j + e = i + e => j = i)
    BY <1>2
  <2> QED BY <2>1, <2>2 DEF OnePlace
<1>6. ASSUME ses'[s].inflight # NoTask
      PROVE  running' # NoTask \/ \E i \in Nat : IsAssign(s, i)' \/ IsResult(s, i)'
  BY <1>1, <1>2, <1>6 DEF OnePlace
<1> QED BY <1>3, <1>4, <1>5, <1>6 DEF OnePlace

\* A connection that works after a step which only some other session takes.
LEMMA OnePlaceElsewhere ==
    ASSUME TypeOK, NEW s \in Slot, OnePlace(s), ses'[s] = ses[s], up'[s] = up[s],
           down'[s] = down[s], UNCHANGED running
    PROVE  OnePlace(s)'
<1>1. SameKind(down[s], down'[s], "assign", 0) /\ SameKind(up[s], up'[s], "result", 0)
  BY SameKindSame DEF TypeOK
<1> QED BY <1>1, OnePlaceStays

\* A session that goes on with what it has in flight, or without.
LEMMA OnePlaceWaits ==
    ASSUME TypeOK, NEW s \in Slot, OnePlace(s), Waits(s), UNCHANGED running, NEW e \in {0, 1},
           SameKind(up[s], up'[s], "result", e)
    PROVE  OnePlace(s)'
<1>1. SameKind(down[s], down'[s], "assign", 0)
  BY SameKindSame DEF TypeOK, Waits
<1> QED BY <1>1, OnePlaceStays DEF Waits, SessionGoes

\* An assignment on a connection that carried nothing.
LEMMA OnePlaceHandsOut ==
    ASSUME TypeOK, NEW s \in Slot, OnePlace(s), NEW id \in Id, HandsOut(s, id), conn[s] = "up",
           UNCHANGED running, NEW e \in {0, 1}, SameKind(up[s], up'[s], "result", e)
    PROVE  OnePlace(s)'
<1>1. /\ ses[s].inflight = NoTask /\ ses'[s].inflight = [id |-> id, ignored |-> FALSE]
      /\ down'[s] = down[s] \o <<Assign(id)>> /\ down[s] \in Seq(DownFrame)
  BY DEF HandsOut, SessionGoes, TypeOK
<1>2. ses'[s].inflight # NoTask /\ ses'[s].inflight.id = id
  <2>1. [id |-> id, ignored |-> FALSE] \in InFlight
    BY DEF InFlight
  <2>2. ses'[s].inflight # NoTask
    BY <1>1, <2>1, InFlightTask
  <2>3. ses'[s].inflight.id = id
    BY <1>1
  <2> QED BY <2>2, <2>3
<1>3. running' = NoTask /\ \A i \in Nat : ~IsAssign(s, i) /\ ~IsResult(s, i)
  BY <1>1 DEF OnePlace
<1>4. \A i \in Nat : ~IsResult(s, i)'
  BY <1>3 DEF SameKind, IsResult
<1> DEFINE new == Len(down[s]) + 1
<1>5. /\ DOMAIN down'[s] = DOMAIN down[s] \cup {new} /\ new \notin DOMAIN down[s] /\ new \in Nat
      /\ down'[s][new] = Assign(id) /\ \A i \in DOMAIN down[s] : down'[s][i] = down[s][i]
  BY <1>1, FrameTypes, OneMoreFrame
<1>6. Assign(id).kind = "assign" /\ Assign(id).id = id
  BY DEF Assign
<1> HIDE DEF new
<1>7. \A i \in Nat : IsAssign(s, i)' <=> i = new
  BY <1>3, <1>5, <1>6 DEF IsAssign, IsKind
<1> QED BY <1>2, <1>3, <1>4, <1>5, <1>6, <1>7 DEF OnePlace

\* Every step keeps it: a connection carries one task.
LEMMA CarriesKept ==
    ASSUME TypeOK, Wired, CarriesOne, [Next]_vars
    PROVE  CarriesOne'
<1> SUFFICES ASSUME NEW s \in Slot, Works(s)' PROVE OnePlace(s)'
  BY DEF CarriesOne
<1>0. /\ cslot' = s /\ conn'[s] = "up" /\ ses'[s].pc \in {"open", "dispatch"}
      /\ up[s] \in Seq(UpFrame) /\ down[s] \in Seq(DownFrame)
  BY DEF Works, Live, TypeOK
<1>1. ASSUME UNCHANGED <<conn, cslot>>, ses[s].pc \in {"open", "dispatch"}
      PROVE  Works(s) /\ OnePlace(s) /\ conn[s] = "up" /\ cslot = s
  BY <1>0, <1>1 DEF Works, CarriesOne, Live
<1>2. ASSUME NEW o \in Slot \ {s}, SessionStep(o) \/ InFlightTimeout(o)
      PROVE  OnePlace(s)'
  <2>1. /\ ses'[s] = ses[s] /\ up'[s] = up[s] /\ down'[s] = down[s]
        /\ UNCHANGED <<conn, cslot, running>>
    BY <1>2, SessionLocal DEF Others
  <2> QED BY <1>0, <1>1, <2>1, OnePlaceElsewhere
<1>3. ASSUME SessionStep(s) \/ InFlightTimeout(s)
      PROVE  /\ UNCHANGED <<conn, cslot, running>> /\ OnePlace(s) /\ conn[s] = "up"
  BY <1>1, <1>3, SessionLocal
<1>4. ASSUME NEW kind, kind # "result", Receives(s, kind)
      PROVE  SameKind(up[s], up'[s], "result", 1)
  BY <1>0, <1>4, ReceivesGoes, SameKindTail
<1>5. ASSUME NEW kind, kind # "result", Receives(s, kind), OnePlace(s), UNCHANGED <<running, down>>,
             ses'[s].inflight = ses[s].inflight
      PROVE  OnePlace(s)'
  <2>1. SameKind(down[s], down'[s], "assign", 0)
    BY <1>0, <1>5, SameKindSame
  <2> QED BY <1>4, <1>5, <2>1, OnePlaceStays
<1>6. ASSUME OnePlace(s), UNCHANGED <<running, up>>, Ignores(s),
             \/ down'[s] = down[s]
             \/ down'[s] = down[s] \o <<CancelFrame(ses[s].inflight.id)>>
      PROVE  OnePlace(s)'
  <2>1. SameKind(up[s], up'[s], "result", 0)
    BY <1>0, <1>6, SameKindSame
  <2>2. SameKind(down[s], down'[s], "assign", 0)
    <3>1. CASE down'[s] = down[s]
      BY <1>0, <3>1, SameKindSame
    <3>2. CASE down'[s] = down[s] \o <<CancelFrame(ses[s].inflight.id)>>
      <4>1. CancelFrame(ses[s].inflight.id) \in DownFrame
        BY <1>6, InFlightTask, FrameTypes DEF Ignores
      <4>2. CancelFrame(ses[s].inflight.id).kind # "assign"
        BY DEF CancelFrame
      <4> QED BY <1>0, <3>2, <4>1, <4>2, SameKindMore
    <3> QED BY <1>6, <3>1, <3>2
  <2> QED BY <1>6, <2>1, <2>2, InFlightTask, OnePlaceStays DEF Ignores
<1>7. ASSUME SessionStep(s)
      PROVE  OnePlace(s)'
  <2>1. CASE ReceiveSubscribe(s) \/ ReceiveHello(s)
    BY <1>3, <1>5, <1>7, <2>1, ReceiveSubscribeGoes, ReceiveHelloGoes
       DEF ReceiveSubscribe, ReceiveHello, SessionGoes
  <2>2. CASE ReceiveCatalog(s) \/ ReceiveAck(s)
    BY <1>3, <1>5, <1>7, <2>2 DEF ReceiveCatalog, ReceiveAck
  <2>3. CASE ReceivePull(s)
    <3>1. Receives(s, "pull") /\ (Waits(s) \/ \E id \in Id : HandsOut(s, id))
      BY <2>3, ReceivePullGoes DEF ReceivePull
    <3> QED BY <1>3, <1>4, <1>7, <3>1, OnePlaceWaits, OnePlaceHandsOut
  <2>4. CASE ReceiveResult(s)
    <3>1. /\ up'[s] = Tail(up[s]) /\ up[s] # <<>> /\ IsResult(s, 1)
      BY <2>4, ReceivesGoes DEF ReceiveResult, IsResult, IsKind
    <3>2. /\ ses[s].inflight # NoTask /\ up[s][1].id = ses[s].inflight.id /\ running = NoTask
          /\ \A i \in Nat : ~IsAssign(s, i) /\ (IsResult(s, i) => i = 1)
      BY <1>3, <1>7, <3>1 DEF OnePlace
    <3>3. ses'[s].inflight = NoTask /\ UNCHANGED down
      BY <2>4, <3>2, ReceiveResultGoes DEF Expected, SessionGoes
    <3>4. \A i \in DOMAIN up'[s] : i + 1 \in DOMAIN up[s] /\ up'[s][i] = up[s][i + 1]
                                   /\ i \in Nat /\ i + 1 \in Nat /\ i + 1 # 1
      BY <1>0, <3>1, HeadTail
    <3>5. \A i \in Nat : ~IsAssign(s, i)' /\ ~IsResult(s, i)'
      BY <3>2, <3>3, <3>4 DEF IsAssign, IsResult, IsKind
    <3> QED BY <1>3, <1>7, <3>2, <3>3, <3>5 DEF OnePlace
  <2>5. CASE HandleSignal(s)
    <3>1. UNCHANGED up /\ SameKind(up[s], up'[s], "result", 0)
      BY <1>0, <2>5, HandleSignalGoes, SameKindSame
    <3>2. CASE TryDispatch(s)
      BY <1>3, <1>7, <3>1, <3>2, TryDispatchGoes, OnePlaceWaits, OnePlaceHandsOut
    <3>3. CASE ~TryDispatch(s)
      BY <1>3, <1>6, <1>7, <2>5, <3>1, <3>3, HandleSignalGoes
    <3> QED BY <3>2, <3>3
  <2>6. CASE Dispatch(s)
    <3>1. SameKind(up[s], up'[s], "result", 0) /\ TryDispatch(s)
      BY <1>0, <2>6, SameKindSame DEF Dispatch
    <3> QED BY <1>3, <1>7, <3>1, TryDispatchGoes, OnePlaceWaits, OnePlaceHandsOut
  <2> QED BY <1>7, <2>1, <2>2, <2>3, <2>4, <2>5, <2>6 DEF SessionStep
<1>8. CASE InFlightTimeout(s)
  BY <1>3, <1>6, <1>8, InFlightTimeoutGoes
<1>9. ASSUME NEW o \in Slot, Leave(o) \/ Close(o)
      PROVE  OnePlace(s)'
  <2>1. /\ o # s /\ UNCHANGED <<cslot, running>> /\ ses'[s] = ses[s] /\ conn'[s] = conn[s]
        /\ up'[s] = up[s] /\ down'[s] = down[s]
    BY <1>0, <1>9, LeaveGoes, CloseGoes DEF SessionGoes, Others
  <2> QED BY <1>0, <2>1, OnePlaceElsewhere DEF CarriesOne, Works, Live
<1>10. ASSUME NEW o \in Slot, Connect(o)
       PROVE  OnePlace(s)'
  <2>1. o = s /\ cslot = NoSlot /\ cslot # s
    BY <1>0, <1>10, ConnectGoes, PlaneAssumption
  <2>2. /\ running' = NoTask /\ down'[s] = <<>> /\ ses'[s].inflight = NoTask
        /\ up'[s] = <<Subscribe, Hello, CommandCatalog, Pull>>
    BY <1>10, <2>1, ConnectGoes DEF TypeOK, Wired, SessionGoes
  <2>3. \A i \in Nat : ~IsAssign(s, i)' /\ ~IsResult(s, i)'
    BY <2>2 DEF IsAssign, IsResult, IsKind, Subscribe, Hello, CommandCatalog, Pull
  <2> QED BY <2>2, <2>3 DEF OnePlace
<1>11. ASSUME NEW o \in Slot, Cut(o)
       PROVE  OnePlace(s)'
  <2>1. /\ o # s /\ UNCHANGED <<cslot, running, ses, up, down>> /\ conn'[s] = conn[s]
    BY <1>0, <1>11, CutGoes DEF Others
  <2> QED BY <1>0, <2>1, OnePlaceElsewhere DEF CarriesOne, Works, Live
<1>12. ASSUME UNCHANGED <<ses, conn, cslot>>
       PROVE  Works(s) /\ OnePlace(s) /\ conn[s] = "up" /\ cslot = s /\ Live(cslot)
  BY <1>0, <1>1, <1>12 DEF Live
<1>13. CASE ReceiveAssign
  <2> DEFINE id == down[s][1].id
  <2>1. UNCHANGED <<ses, conn, cslot>>
    BY <1>13, ReceiveAssignGoes
  <2>2. OnePlace(s) /\ conn[s] = "up" /\ cslot = s /\ Live(cslot)
    BY <1>12, <2>1
  <2>3. /\ down[s] # <<>> /\ IsAssign(s, 1) /\ id \in Id /\ down'[s] = Tail(down[s])
    BY <1>13, <2>2, ReceiveAssignGoes DEF IsAssign, IsKind
  <2>4. /\ ses[s].inflight # NoTask /\ id = ses[s].inflight.id /\ running = NoTask
        /\ \A i \in Nat : ~IsResult(s, i) /\ (IsAssign(s, i) => i = 1)
    BY <2>2, <2>3 DEF OnePlace
  <2>5. \A i \in DOMAIN down'[s] : /\ i + 1 \in DOMAIN down[s] /\ down'[s][i] = down[s][i + 1]
                                   /\ i \in Nat /\ i + 1 \in Nat /\ i + 1 # 1
    BY <1>0, <2>3, HeadTail
  <2>6. \A i \in Nat : ~IsAssign(s, i)'
    BY <2>4, <2>5 DEF IsAssign, IsKind
  <2>7. \/ /\ up'[s] = up[s] \o <<Ack(id)>>
           /\ running' \in Process /\ running'.id = id
        \/ up'[s] = up[s] \o <<Ack(id), Result(id, "failure")>> /\ UNCHANGED running
    BY <1>13, <2>2, <2>4, ReceiveAssignGoes
  <2>8. Ack(id) \in UpFrame /\ Result(id, "failure") \in UpFrame /\ Ack(id).kind # "result"
        /\ Result(id, "failure").kind = "result" /\ Result(id, "failure").id = id
    BY <2>3, FrameTypes DEF Ack, Result
  <2> HIDE DEF id
  <2>9. CASE up'[s] = up[s] \o <<Ack(id)>> /\ running' \in Process /\ running'.id = id
    <3>1. SameKind(up[s], up'[s], "result", 0)
      BY <1>0, <2>8, <2>9, SameKindMore
    <3>2. \A i \in Nat : ~IsResult(s, i)'
      BY <2>4, <3>1 DEF SameKind, IsResult
    <3>3. running' # NoTask
      BY <2>9, ProcessTask
    <3>4. ses'[s] = ses[s] /\ running' # NoTask /\ running'.id = ses'[s].inflight.id
          /\ ses'[s].inflight # NoTask
      BY <2>1, <2>4, <2>9, <3>3
    <3> HIDE DEF IsAssign, IsResult
    <3> QED BY <2>6, <3>2, <3>4 DEF OnePlace
  <2>10. CASE up'[s] = up[s] \o <<Ack(id), Result(id, "failure")>> /\ UNCHANGED running
    <3> DEFINE new == Len(up[s]) + 2
               ack == Len(up[s]) + 1
    <3>1. /\ DOMAIN up'[s] = DOMAIN up[s] \cup {ack, new} /\ new \in Nat /\ ack # new
          /\ up'[s][ack] = Ack(id) /\ up'[s][new] = Result(id, "failure")
          /\ \A i \in DOMAIN up[s] : up'[s][i] = up[s][i]
          /\ ack \notin DOMAIN up[s] /\ new \notin DOMAIN up[s]
      BY <1>0, <2>8, <2>10, TwoMoreFrames
    <3> HIDE DEF new, ack
    <3>2. \A i \in Nat : IsResult(s, i)' <=> i = new
      BY <2>4, <2>8, <3>1 DEF IsResult, IsKind
    <3>3. /\ running' = NoTask /\ ses'[s].inflight # NoTask
          /\ up'[s][new].id = ses'[s].inflight.id
      BY <2>1, <2>4, <2>8, <2>10, <3>1
    <3> QED BY <2>6, <3>1, <3>2, <3>3 DEF OnePlace
  <2> QED BY <2>7, <2>9, <2>10
<1>14. CASE ReceiveCancel
  <2>1. UNCHANGED <<ses, conn, cslot, up>> /\ cslot \in Slot
    BY <1>14, ReceiveCancelGoes
  <2>2. OnePlace(s) /\ cslot = s
    BY <1>12, <2>1
  <2>3. down[s] # <<>> /\ down[s][1].kind # "assign" /\ down'[s] = Tail(down[s])
    BY <1>14, <2>2, ReceiveCancelGoes DEF CancelFrame
  <2>4. SameKind(down[s], down'[s], "assign", 1) /\ SameKind(up[s], up'[s], "result", 0)
    BY <1>0, <2>1, <2>3, SameKindTail, SameKindSame
  <2>5. /\ running = NoTask <=> running' = NoTask
        /\ running # NoTask => running'.id = running.id
    BY <1>14, ReceiveCancelGoes, ProcessTask
  <2> QED BY <2>1, <2>2, <2>4, <2>5, OnePlaceStays
<1>15. CASE ReceiveClose \/ ClientError
  BY <1>0, <1>15, ClientLeaves, DetachGoes, PlaneAssumption
<1>16. ASSUME NEW outcome \in {"success", "failure"}, FinishTask(outcome)
       PROVE  OnePlace(s)'
  <2>1. UNCHANGED <<ses, conn, cslot, down>> /\ running \in Process /\ running' = NoTask
    BY <1>16, FinishTaskGoes
  <2>2. OnePlace(s) /\ conn[s] = "up" /\ cslot = s /\ Live(cslot)
    BY <1>12, <2>1
  <2>3. PICK out \in {"success", "failure"} : up'[s] = up[s] \o <<Result(running.id, out), Pull>>
    BY <1>16, <2>2, FinishTaskGoes
  <2> DEFINE id == running.id
  <2>4. /\ running # NoTask /\ id \in Id
    BY <2>1, ProcessTask
  <2>5. /\ ses[s].inflight # NoTask /\ id = ses[s].inflight.id
        /\ \A i \in Nat : ~IsResult(s, i) /\ ~IsAssign(s, i)
    BY <2>2, <2>4 DEF OnePlace
  <2>6. Result(id, out) \in UpFrame /\ Pull \in UpFrame /\ Pull.kind # "result"
        /\ Result(id, out).kind = "result" /\ Result(id, out).id = id
    BY <2>4, FrameTypes DEF Pull, Result
  <2> DEFINE new == Len(up[s]) + 1
             pull == Len(up[s]) + 2
  <2>7. /\ DOMAIN up'[s] = DOMAIN up[s] \cup {new, pull} /\ new \in Nat /\ pull # new
        /\ up'[s][new] = Result(id, out) /\ up'[s][pull] = Pull
        /\ \A i \in DOMAIN up[s] : up'[s][i] = up[s][i]
        /\ pull \notin DOMAIN up[s] /\ new \notin DOMAIN up[s]
    BY <1>0, <2>3, <2>6, TwoMoreFrames
  <2> HIDE DEF new, pull, id
  <2>8. \A i \in Nat : IsResult(s, i)' <=> i = new
    BY <2>5, <2>6, <2>7 DEF IsResult, IsKind
  <2>9. \A i \in Nat : ~IsAssign(s, i)'
    BY <2>1, <2>5 DEF IsAssign
  <2> QED BY <2>1, <2>5, <2>6, <2>7, <2>8, <2>9 DEF OnePlace
<1>17. CASE ServerCrash
  BY <1>0, <1>17, ServerCrashGoes
<1>18. CASE CreateTask \/ (\E id \in DOMAIN tasks : CancelTask(id))
            \/ (\E note \in notices : Notify(note)) \/ OrphanExit \/ UNCHANGED vars
  <2>1. UNCHANGED <<ses, up, down, conn, cslot, running>>
    BY <1>18 DEF CreateTask, CancelTask, Notify, OrphanExit, vars, clientVars
  <2> QED BY <1>12, <2>1, OnePlaceElsewhere
<1> QED BY <1>2, <1>7, <1>8, <1>9, <1>10, <1>11, <1>13, <1>14, <1>15, <1>16, <1>17, <1>18, Steps

\* At the start, a connection carries one task.
LEMMA CarriesInit == Init => CarriesOne
<1>1. ASSUME Init, NEW s \in Slot, Works(s) PROVE FALSE
  BY <1>1 DEF Init, Works
<1> QED BY <1>1 DEF CarriesOne

-----------------------------------------------------------------------------
(* What is known of the task in flight. *)

\* What session s has in flight after a step: what it had, perhaps ignored from
\* now on, or the task that it has just claimed.
LEMMA InFlightGoes ==
    ASSUME TypeOK, [Next]_vars, NEW s \in Slot, ses'[s].inflight # NoTask
    PROVE  \/ ses'[s].inflight = ses[s].inflight /\ (registry' = s => registry = s)
           \/ Ignores(s) /\ (SessionStep(s) \/ InFlightTimeout(s))
           \/ SessionStep(s) /\ \E id \in Id : HandsOut(s, id)
<1> DEFINE Kept == ses'[s].inflight = ses[s].inflight /\ (registry' = s => registry = s)
           Given == Ignores(s) /\ (SessionStep(s) \/ InFlightTimeout(s))
           New  == SessionStep(s) /\ \E id \in Id : HandsOut(s, id)
<1> SUFFICES Kept \/ Given \/ New
  OBVIOUS
<1>1. ASSUME NEW o \in Slot \ {s}, SessionStep(o) \/ InFlightTimeout(o)
      PROVE  Kept
  BY <1>1, SessionLocal DEF Others
<1>2. ASSUME SessionStep(s)
      PROVE  Kept \/ Given \/ New
  <2>0. UNCHANGED registry
    BY <1>2, SessionLocal
  <2>1. CASE ReceiveSubscribe(s) \/ ReceiveHello(s)
    BY <2>0, <2>1, ReceiveSubscribeGoes, ReceiveHelloGoes DEF SessionGoes
  <2>2. CASE ReceiveCatalog(s) \/ ReceiveAck(s)
    BY <2>0, <2>2 DEF ReceiveCatalog, ReceiveAck
  <2>3. CASE ReceivePull(s) \/ Dispatch(s)
    BY <1>2, <2>0, <2>3, ReceivePullGoes, TryDispatchGoes DEF Dispatch, Waits, SessionGoes
  <2>4. CASE ReceiveResult(s)
    BY <2>0, <2>4, ReceiveResultGoes DEF SessionGoes
  <2>5. CASE HandleSignal(s)
    BY <1>2, <2>0, <2>5, HandleSignalGoes, TryDispatchGoes DEF Waits, SessionGoes
  <2> HIDE DEF Kept, Given, New
  <2> QED BY <1>2, <2>1, <2>2, <2>3, <2>4, <2>5 DEF SessionStep
<1>3. CASE InFlightTimeout(s)
  BY <1>3, InFlightTimeoutGoes
<1>4. ASSUME NEW o \in Slot, Leave(o)
      PROVE  Kept
  <2>1. /\ SessionGoes(o, "closing", ses[o].subscribed, ses[o].registered, ses[o].inflight)
        /\ registry' = NoSlot
    BY <1>4, LeaveGoes
  <2> QED BY <2>1, PlaneAssumption DEF SessionGoes, Others
<1>5. ASSUME NEW o \in Slot, Close(o)
      PROVE  Kept
  <2>1. SessionGoes(o, "free", FALSE, FALSE, NoTask) /\ UNCHANGED registry
    BY <1>5, CloseGoes
  <2> QED BY <2>1 DEF SessionGoes, Others
<1>6. ASSUME NEW o \in Slot, Connect(o)
      PROVE  Kept
  <2>1. SessionGoes(o, "open", FALSE, FALSE, NoTask) /\ registry' = o
    BY <1>6, ConnectGoes
  <2> QED BY <2>1 DEF SessionGoes, Others
<1>7. CASE ServerCrash
  BY <1>7, ServerCrashGoes
<1>8. CASE CreateTask \/ (\E id \in DOMAIN tasks : CancelTask(id))
           \/ (\E note \in notices : Notify(note)) \/ (\E o \in Slot : Cut(o))
           \/ ReceiveAssign \/ ReceiveCancel \/ ReceiveClose \/ ClientError \/ OrphanExit
           \/ (\E outcome \in {"success", "failure"} : FinishTask(outcome)) \/ UNCHANGED vars
  <2>1. UNCHANGED <<ses, registry>>
    BY <1>8 DEF CreateTask, CancelTask, Notify, Cut, ReceiveAssign, ReceiveCancel, ReceiveClose,
                ClientError, Detach, OrphanExit, FinishTask, vars, serverVars
  <2> QED BY <2>1
<1> HIDE DEF Kept, Given, New
<1> QED BY <1>1, <1>2, <1>3, <1>4, <1>5, <1>6, <1>7, <1>8, Steps

\* A task in flight is in the table.
Listed == \A s \in Slot : ses[s].inflight # NoTask => ses[s].inflight.id \in DOMAIN tasks

\* Every step keeps it: what is in flight is listed.
LEMMA ListedKept ==
    ASSUME TypeOK, Listed, [Next]_vars
    PROVE  Listed'
<1> SUFFICES ASSUME NEW s \in Slot, ses'[s].inflight # NoTask
             PROVE  ses'[s].inflight.id \in DOMAIN tasks'
  BY DEF Listed
<1>0. DOMAIN tasks \subseteq DOMAIN tasks'
  BY StepKeepsTable
<1>1. CASE ses'[s].inflight = ses[s].inflight
  BY <1>0, <1>1 DEF Listed
<1>2. CASE Ignores(s)
  <2>1. ses[s].inflight # NoTask /\ ses'[s].inflight.id = ses[s].inflight.id
    BY <1>2, InFlightTask DEF Ignores
  <2> QED BY <1>0, <2>1 DEF Listed
<1>3. ASSUME NEW id \in Id, HandsOut(s, id)
      PROVE  ses'[s].inflight.id \in DOMAIN tasks'
  <2>1. ses'[s].inflight.id = id /\ id \in DOMAIN tasks
    BY <1>3 DEF HandsOut, SessionGoes
  <2> QED BY <1>0, <2>1
<1> QED BY <1>1, <1>2, <1>3, InFlightGoes

\* At the start, what is in flight is listed.
LEMMA ListedInit == Init => Listed
BY DEF Init, Listed, Closed

-----------------------------------------------------------------------------
(* A cancel on its way to the session. *)

\* The session is about to be told.
OwedTo(s, id) == Told(id) \in notices \/ \E i \in DOMAIN sig[s] : sig[s][i] = Told(id)

\* The registered session is about to be told of the cancel of the task that it
\* waits for.
Owed == \A s \in Slot : \A id \in Id :
           registry = s /\ Holds(s, id) /\ IsCanceled(id) => OwedTo(s, id)

\* A task is canceled by cancel_task alone, which notifies.
LEMMA CanceledIsNoted ==
    ASSUME TypeOK, [Next]_vars, NEW id \in Id, IsCanceled(id)'
    PROVE  IsCanceled(id) \/ Told(id) \in notices'
<1>0. /\ tasks \in Table /\ ThisNode \in Node /\ id \in DOMAIN tasks'
      /\ tasks'[id].status = "canceled"
  BY PlaneAssumption DEF TypeOK, IsCanceled
<1>1. CASE CreateTask
  <2>1. tasks' = Append(tasks, NewRow(ThisNode)) /\ NewRow(ThisNode) \in Task
        /\ NewRow(ThisNode).status = "queued"
    BY <1>0, <1>1, NewRowFacts DEF CreateTask, Insert
  <2> QED BY <1>0, <2>1, OneMore DEF IsCanceled
<1>2. ASSUME NEW other \in DOMAIN tasks, CancelTask(other)
      PROVE  IsCanceled(id) \/ Told(id) \in notices'
  <2>1. tasks' = [tasks EXCEPT ![other] = CanceledRow(tasks[other])] /\ Told(other) \in notices'
    BY <1>2 DEF CancelTask, Cancel, Told
  <2> QED BY <1>0, <2>1 DEF IsCanceled
<1>3. ASSUME UNCHANGED tasks
      PROVE  IsCanceled(id)
  BY <1>0, <1>3 DEF IsCanceled
<1>4. ASSUME NEW other \in DOMAIN tasks, NEW row, tasks' = [tasks EXCEPT ![other] = row],
             row.status # "canceled"
      PROVE  IsCanceled(id)
  BY <1>0, <1>4 DEF IsCanceled
<1>5. ASSUME tasks' = RequeueIncomplete(tasks, ThisNode)
      PROVE  IsCanceled(id)
  <2>1. /\ DOMAIN tasks' = DOMAIN tasks
        /\ tasks'[id] = tasks[id] \/ tasks'[id] = RequeuedRow(tasks[id])
    BY <1>0, <1>5, RequeueRows
  <2>2. tasks[id] \in Task
    BY <1>0, <2>1, RowOfTable
  <2> QED BY <1>0, <2>1, <2>2, StatusOfRow DEF IsCanceled
<1>6. ASSUME NEW other, NEW outcome \in {"success", "failure"},
             \/ tasks' = Acknowledge(tasks, other, ThisNode)
             \/ tasks' = Retry(tasks, other, ThisNode)
             \/ tasks' = SubmitResult(tasks, other, ThisNode, outcome)
      PROVE  IsCanceled(id)
  <2>1. CASE InProgressOf(tasks, other, ThisNode)
    <3>1. other \in DOMAIN tasks /\ tasks[other] \in Task
      BY <1>0, <2>1, RowOfTable DEF InProgressOf
    <3>2. /\ AckedRow(tasks[other]).status # "canceled"
          /\ RetriedRow(tasks[other]).status # "canceled"
          /\ FinishedRow(tasks[other], outcome).status # "canceled"
      BY <3>1, StatusOfRow
    <3>3. UNCHANGED tasks \/ \E row : tasks' = [tasks EXCEPT ![other] = row]
                                      /\ row.status # "canceled"
      BY <1>6, <2>1, <3>2 DEF Acknowledge, Retry, SubmitResult
    <3> QED BY <1>3, <1>4, <3>1, <3>3
  <2>2. CASE ~InProgressOf(tasks, other, ThisNode)
    BY <1>3, <1>6, <2>2 DEF Acknowledge, Retry, SubmitResult
  <2> QED BY <2>1, <2>2
<1>7. ASSUME NEW s \in Slot, NEW new \in Id, HandsOut(s, new)
      PROVE  IsCanceled(id)
  <2>1. /\ new \in DOMAIN tasks /\ tasks' = [tasks EXCEPT ![new] = ClaimedRow(tasks[new])]
    BY <1>7 DEF HandsOut
  <2>2. ClaimedRow(tasks[new]).status # "canceled"
    BY <1>0, <2>1, RowOfTable, StatusOfRow
  <2> QED BY <1>4, <2>1, <2>2
<1>8. ASSUME NEW s \in Slot, SessionStep(s)
      PROVE  IsCanceled(id)
  <2>1. CASE ReceiveSubscribe(s) \/ ReceiveHello(s) \/ ReceiveCatalog(s)
    BY <1>3, <1>5, <2>1, ReceiveHelloGoes DEF ReceiveSubscribe, ReceiveCatalog
  <2>2. CASE ReceivePull(s) \/ Dispatch(s)
    BY <1>3, <1>7, <2>2, ReceivePullGoes, TryDispatchGoes DEF Dispatch, Waits
  <2>3. CASE HandleSignal(s)
    BY <1>3, <1>7, <2>3, HandleSignalGoes, TryDispatchGoes DEF Waits
  <2>4. CASE ReceiveAck(s)
    <3>1. UNCHANGED tasks \/ \E other : tasks' = Acknowledge(tasks, other, ThisNode)
      BY <2>4 DEF ReceiveAck
    <3> QED BY <1>3, <1>6, <3>1
  <2>5. CASE ReceiveResult(s)
    <3>1. /\ up[s][1].outcome \in {"success", "failure"}
          /\ \/ tasks' = SubmitResult(tasks, up[s][1].id, ThisNode, up[s][1].outcome)
             \/ UNCHANGED tasks
      BY <2>5, ReceiveResultGoes
    <3> QED BY <1>3, <1>6, <3>1
  <2> QED BY <1>8, <2>1, <2>2, <2>3, <2>4, <2>5 DEF SessionStep
<1>9. ASSUME NEW s \in Slot, InFlightTimeout(s) \/ Close(s)
      PROVE  IsCanceled(id)
  BY <1>5, <1>6, <1>9, InFlightTimeoutGoes, CloseGoes
<1>10. CASE (\E s \in Slot : Leave(s) \/ Connect(s) \/ Cut(s))
            \/ (\E note \in notices : Notify(note)) \/ ServerCrash
            \/ ReceiveAssign \/ ReceiveCancel \/ ReceiveClose \/ ClientError \/ OrphanExit
            \/ (\E outcome \in {"success", "failure"} : FinishTask(outcome)) \/ UNCHANGED vars
  <2>1. UNCHANGED tasks
    BY <1>10 DEF Leave, Connect, Cut, Notify, ServerCrash, ReceiveAssign, ReceiveCancel,
                 ReceiveClose, ClientError, Detach, OrphanExit, FinishTask, vars
  <2> QED BY <1>3, <2>1
<1> QED BY <1>1, <1>2, <1>8, <1>9, <1>10, Steps

\* Every step keeps it: an owed cancel stays owed.
LEMMA OwedKept ==
    ASSUME TypeOK, Owed, [Next]_vars
    PROVE  Owed'
<1> SUFFICES ASSUME NEW s \in Slot, NEW id \in Id, registry' = s, Holds(s, id)', IsCanceled(id)'
             PROVE  OwedTo(s, id)'
  BY DEF Owed
<1>0. ses'[s].inflight # NoTask /\ ses'[s].inflight.id = id /\ ~ses'[s].inflight.ignored
  BY DEF Holds
<1>1. CASE Told(id) \in notices'
  BY <1>1 DEF OwedTo
<1>2. ASSUME NEW new \in Id, HandsOut(s, new), ~(Told(id) \in notices')
      PROVE  FALSE
  <2>1. /\ new = id /\ new \in DOMAIN tasks /\ tasks[new].status = "queued"
    BY <1>0, <1>2 DEF HandsOut, SessionGoes, QueuedFor
  <2> QED BY <1>2, <2>1, CanceledIsNoted DEF IsCanceled
<1>3. ASSUME ~(Told(id) \in notices'), ses'[s].inflight = ses[s].inflight, registry = s
      PROVE  OwedTo(s, id)'
  <2>1. OwedTo(s, id)
    BY <1>0, <1>3, CanceledIsNoted DEF Owed, Holds
  <2>2. ASSUME NEW note \in notices, Notify(note)
        PROVE  OwedTo(s, id)'
    <3>1. /\ sig'[s] = sig[s] \o <<note>> /\ sig[s] \in Seq(Signal) /\ note \in Signal
          /\ notices' = notices \ {note}
      BY <1>3, <2>2, NotifyGoes, PlaneAssumption DEF TypeOK
    <3> QED BY <1>3, <2>1, <3>1, OneMoreFrame DEF OwedTo
  <2>3. CASE HandleSignal(s)
    <3>1. /\ sig[s][1] # Told(id) /\ UNCHANGED notices /\ sig'[s] = Tail(sig[s]) /\ sig[s] # <<>>
          /\ sig[s] \in Seq(Signal)
      BY <1>0, <1>3, <2>3, HandleSignalGoes DEF Ignores, TypeOK
    <3>2. \A i \in DOMAIN sig[s] \ {1} : i - 1 \in DOMAIN sig'[s] /\ sig'[s][i - 1] = sig[s][i]
      BY <3>1, HeadTail
    <3> QED BY <2>1, <3>1, <3>2 DEF OwedTo
  <2>4. ASSUME notices \subseteq notices', sig'[s] = sig[s]
        PROVE  OwedTo(s, id)'
    BY <2>1, <2>4 DEF OwedTo
  <2>5. CASE CreateTask \/ \E other \in DOMAIN tasks : CancelTask(other)
    BY <2>4, <2>5 DEF CreateTask, CancelTask
  <2>6. ASSUME NEW o \in Slot, SessionStep(o) \/ InFlightTimeout(o), ~HandleSignal(s)
        PROVE  OwedTo(s, id)'
    <3>1. UNCHANGED notices
      BY <2>6, SessionLocal
    <3>2. sig'[s] = sig[s]
      BY <2>6, HandleSignalGoes
         DEF SessionStep, ReceiveSubscribe, ReceiveHello, ReceiveCatalog, ReceivePull, ReceiveAck,
             ReceiveResult, Dispatch, InFlightTimeout, Receives, serverVars, Others
    <3> QED BY <2>4, <3>1, <3>2
  <2>7. CASE (\E o \in Slot : Leave(o)) \/ ServerCrash
    BY <2>7, LeaveGoes, ServerCrashGoes, PlaneAssumption
  <2>8. CASE (\E o \in Slot : Close(o) \/ Connect(o) \/ Cut(o))
             \/ ReceiveAssign \/ ReceiveCancel \/ ReceiveClose \/ ClientError \/ OrphanExit
             \/ (\E outcome \in {"success", "failure"} : FinishTask(outcome)) \/ UNCHANGED vars
    <3>1. UNCHANGED <<notices, sig>>
      BY <2>8 DEF Close, Connect, Cut, ReceiveAssign, ReceiveCancel, ReceiveClose, ClientError,
                  Detach, OrphanExit, FinishTask, vars, serverVars
    <3> QED BY <2>4, <3>1
  <2> QED BY <2>2, <2>3, <2>5, <2>6, <2>7, <2>8, Steps
<1> QED BY <1>0, <1>1, <1>2, <1>3, InFlightGoes DEF Ignores

\* At the start, an owed cancel stays owed.
LEMMA OwedInit == Init => Owed
BY DEF Init, Owed, Holds, Closed

-----------------------------------------------------------------------------
(* A cancel on its way to the client. *)

\* Whatever the client may still run of task id, the frame that cancels it is
\* behind it on the connection.
Behind(s, id) ==
    /\ running # NoTask /\ ~running.canceled =>
          \E j \in DOMAIN down[s] : down[s][j] = CancelFrame(id)
    /\ \A i \in Nat : IsAssign(s, i) => \E j \in DOMAIN down[s] : i < j /\ down[s][j] = CancelFrame(id)

\* A session that ignores its task has told the client.
Sent == \A s \in Slot :
           Works(s) /\ ses[s].inflight # NoTask /\ ses[s].inflight.ignored =>
              Behind(s, ses[s].inflight.id)

\* The frame has just been sent.
LEMMA SentNow ==
    ASSUME TypeOK, NEW s \in Slot, NEW id \in Id, down'[s] = down[s] \o <<CancelFrame(id)>>
    PROVE  Behind(s, id)'
<1> DEFINE new == Len(down[s]) + 1
<1>1. down[s] \in Seq(DownFrame) /\ CancelFrame(id) \in DownFrame
      /\ CancelFrame(id).kind # "assign"
  BY FrameTypes DEF TypeOK, CancelFrame
<1>2. /\ DOMAIN down'[s] = DOMAIN down[s] \cup {new} /\ down'[s][new] = CancelFrame(id)
      /\ \A i \in DOMAIN down[s] : i < new
  BY <1>1, OneMoreFrame
<1> HIDE DEF new
<1>3. \A i \in Nat : IsAssign(s, i)' => i < new
  BY <1>1, <1>2 DEF IsAssign, IsKind
<1> QED BY <1>2, <1>3 DEF Behind

\* A frame is read that does not cancel the task, and nothing new runs unless
\* that frame assigned it.
LEMMA SentReads ==
    ASSUME TypeOK, NEW s \in Slot, NEW id \in Id, Behind(s, id), down[s] # <<>>,
           down'[s] = Tail(down[s]), down[s][1] # CancelFrame(id),
           \/ UNCHANGED running
           \/ IsAssign(s, 1)
    PROVE  Behind(s, id)'
<1>0. down[s] \in Seq(DownFrame)
  BY DEF TypeOK
<1>1. /\ \A i \in DOMAIN down[s] \ {1} : /\ i - 1 \in DOMAIN down'[s]
                                         /\ down'[s][i - 1] = down[s][i]
      /\ \A i \in DOMAIN down'[s] : i + 1 \in DOMAIN down[s] /\ down'[s][i] = down[s][i + 1]
  BY <1>0, HeadTail
<1>2. ASSUME running' # NoTask, ~running'.canceled
      PROVE  \E j \in DOMAIN down'[s] : down'[s][j] = CancelFrame(id)
  <2>1. PICK j \in DOMAIN down[s] : down[s][j] = CancelFrame(id)
    BY <1>2 DEF Behind
  <2> QED BY <1>1, <2>1
<1>3. ASSUME NEW i \in Nat, IsAssign(s, i)'
      PROVE  \E j \in DOMAIN down'[s] : i < j /\ down'[s][j] = CancelFrame(id)
  <2>1. i + 1 \in Nat /\ IsAssign(s, i + 1)
    BY <1>1, <1>3 DEF IsAssign, IsKind
  <2>2. PICK j \in DOMAIN down[s] : i + 1 < j /\ down[s][j] = CancelFrame(id)
    BY <2>1 DEF Behind
  <2>3. j \in Nat /\ j # 1
    BY <1>0, <2>2
  <2> QED BY SMTT(30), <1>1, <2>2, <2>3
<1> QED BY <1>2, <1>3 DEF Behind

\* Every step keeps it: what is ignored was told.
LEMMA SentKept ==
    ASSUME TypeOK, CarriesOne, Sent, [Next]_vars
    PROVE  Sent'
<1> SUFFICES ASSUME NEW s \in Slot, Works(s)', ses'[s].inflight # NoTask,
                    ses'[s].inflight.ignored, NEW id, id = ses'[s].inflight.id
             PROVE  Behind(s, id)'
  BY DEF Sent
<1>0. /\ cslot' = s /\ conn'[s] = "up" /\ Live(s)'
      /\ ses'[s].pc \in {"open", "dispatch"}
  BY DEF Works, Live
<1>1. CASE Ignores(s) /\ (SessionStep(s) \/ InFlightTimeout(s))
  <2>1. /\ id \in Id /\ ses[s].inflight # NoTask /\ ses[s].inflight.id = id
        /\ cslot = s /\ conn[s] = "up" /\ ses[s].pc = "open" /\ UNCHANGED running
    BY <1>0, <1>1, SessionLocal, InFlightTask DEF Ignores
  <2>2. CASE down'[s] = down[s] \o <<CancelFrame(id)>>
    BY <2>1, <2>2, SentNow
  <2>3. CASE ses[s].inflight.ignored /\ down'[s] = down[s]
    <3>1. Behind(s, id)
      BY <2>1, <2>3 DEF Sent, Works, Live
    <3> QED BY <2>1, <2>3, <3>1 DEF Behind, IsAssign
  <2>4. ASSUME SessionStep(s), ~HandleSignal(s)
        PROVE  ses[s].inflight.ignored /\ down'[s] = down[s]
    <3>1. ~Waits(s) => ~(\E new \in Id : HandsOut(s, new))
      BY <2>1 DEF HandsOut
    <3>2. CASE ReceiveSubscribe(s) \/ ReceiveHello(s) \/ ReceiveCatalog(s) \/ ReceiveAck(s)
      BY <1>1, <3>2, ReceiveSubscribeGoes, ReceiveHelloGoes
         DEF ReceiveCatalog, ReceiveAck, SessionGoes, Ignores
    <3>3. CASE ReceivePull(s) \/ Dispatch(s)
      BY <1>1, <3>1, <3>3, ReceivePullGoes, TryDispatchGoes DEF Dispatch, Waits, SessionGoes, Ignores
    <3>4. CASE ReceiveResult(s)
      BY <3>4, ReceiveResultGoes DEF SessionGoes, ReceiveResult
    <3> QED BY <2>4, <3>2, <3>3, <3>4 DEF SessionStep
  <2>5. CASE HandleSignal(s)
    <3>1. CASE TryDispatch(s)
      <4>1. Waits(s)
        BY <2>1, <3>1, TryDispatchGoes DEF HandsOut
      <4> QED BY <2>3, <4>1 DEF Waits, SessionGoes
    <3>2. CASE ~TryDispatch(s)
      BY <2>1, <2>2, <2>3, <2>5, <3>2, HandleSignalGoes
    <3> QED BY <3>1, <3>2
  <2>6. CASE InFlightTimeout(s)
    BY <2>1, <2>2, <2>6, InFlightTimeoutGoes
  <2> QED BY <1>1, <2>3, <2>4, <2>5, <2>6
<1>2. ASSUME NEW new \in Id, HandsOut(s, new)
      PROVE  FALSE
  <2>1. ~ses'[s].inflight.ignored
    BY <1>2 DEF HandsOut, SessionGoes
  <2> QED BY <2>1
<1>3. ASSUME ses'[s].inflight = ses[s].inflight
      PROVE  Behind(s, id)'
  <2>0. /\ ses[s].inflight # NoTask /\ ses[s].inflight.ignored /\ id = ses[s].inflight.id
        /\ id \in Id
    BY <1>3, InFlightTask, Values
  <2>1. ASSUME UNCHANGED <<conn, cslot>>, ses[s].pc \in {"open", "dispatch"}
        PROVE  Behind(s, id) /\ OnePlace(s) /\ cslot = s
    BY <1>0, <2>0, <2>1 DEF Sent, CarriesOne, Works, Live
  <2>2. ASSUME UNCHANGED <<conn, cslot>>, ses[s].pc \in {"open", "dispatch"}, down'[s] = down[s],
               UNCHANGED running \/ running' = NoTask
        PROVE  Behind(s, id)'
    BY <2>1, <2>2 DEF Behind, IsAssign
  <2>3. ASSUME NEW o \in Slot \ {s}, SessionStep(o) \/ InFlightTimeout(o)
        PROVE  Behind(s, id)'
    <3>1. ses'[s] = ses[s] /\ down'[s] = down[s] /\ UNCHANGED <<conn, cslot, running>>
      BY <2>3, SessionLocal DEF Others
    <3> QED BY <1>0, <2>2, <3>1
  <2>4. CASE SessionStep(s) \/ InFlightTimeout(s)
    <3>1. /\ UNCHANGED <<conn, cslot, running>> /\ ses[s].pc \in {"open", "dispatch"}
      BY <2>4, SessionLocal
    <3>2. ASSUME Waits(s) PROVE down'[s] = down[s]
      BY <3>2 DEF Waits
    <3>3. CASE ReceiveSubscribe(s) \/ ReceiveHello(s) \/ ReceiveCatalog(s) \/ ReceiveAck(s)
               \/ ReceiveResult(s)
      BY <2>2, <3>1, <3>3
         DEF ReceiveSubscribe, ReceiveHello, ReceiveCatalog, ReceiveAck, ReceiveResult
    <3>4. CASE ReceivePull(s) \/ Dispatch(s)
      BY <1>2, <2>2, <3>1, <3>2, <3>4, ReceivePullGoes, TryDispatchGoes DEF Dispatch
    <3>5. CASE HandleSignal(s)
      BY <1>1, <1>2, <2>2, <2>4, <3>1, <3>2, <3>5, HandleSignalGoes, TryDispatchGoes
    <3>6. CASE InFlightTimeout(s)
      BY <1>1, <3>6, InFlightTimeoutGoes
    <3> QED BY <2>4, <3>3, <3>4, <3>5, <3>6 DEF SessionStep
  <2>5. ASSUME NEW o \in Slot, Leave(o) \/ Close(o)
        PROVE  Behind(s, id)'
    <3>1. /\ o # s /\ UNCHANGED <<cslot, running>> /\ ses'[s] = ses[s] /\ conn'[s] = conn[s]
          /\ down'[s] = down[s]
      BY <1>0, <2>5, LeaveGoes, CloseGoes DEF SessionGoes, Others
    <3>2. Behind(s, id)
      BY <1>0, <2>0, <3>1 DEF Sent, Works, Live
    <3> QED BY <3>1, <3>2 DEF Behind, IsAssign
  <2>6. ASSUME NEW o \in Slot, Connect(o)
        PROVE  FALSE
    <3>1. o = s
      BY <1>0, <2>6, ConnectGoes
    <3> QED BY <2>6, <3>1, ConnectGoes DEF SessionGoes
  <2>7. ASSUME NEW o \in Slot, Cut(o)
        PROVE  Behind(s, id)'
    <3>1. /\ UNCHANGED <<cslot, running, ses, down>> /\ conn'[s] = conn[s]
      BY <1>0, <2>7, CutGoes DEF Others
    <3>2. Behind(s, id)
      BY <1>0, <2>0, <3>1 DEF Sent, Works, Live
    <3> QED BY <3>1, <3>2 DEF Behind, IsAssign
  <2>8. CASE ReceiveAssign
    <3>1. UNCHANGED <<conn, cslot, ses>>
      BY <2>8, ReceiveAssignGoes
    <3>2. Behind(s, id) /\ cslot = s
      BY <1>0, <2>1, <3>1
    <3>3. /\ down[s] # <<>> /\ down'[s] = Tail(down[s]) /\ IsAssign(s, 1)
      BY <2>8, <3>2, ReceiveAssignGoes DEF IsAssign, IsKind
    <3>4. down[s][1] # CancelFrame(id)
      BY <3>3 DEF IsAssign, IsKind, CancelFrame
    <3> QED BY <2>0, <3>2, <3>3, <3>4, SentReads
  <2>9. CASE ReceiveCancel
    <3>1. UNCHANGED <<conn, cslot, ses>>
      BY <2>9, ReceiveCancelGoes
    <3>2. Behind(s, id) /\ OnePlace(s) /\ cslot = s
      BY <1>0, <2>1, <3>1
    <3>3. /\ down[s] # <<>> /\ down'[s] = Tail(down[s])
          /\ down[s][1] = CancelFrame(down[s][1].id)
      BY <2>9, <3>2, ReceiveCancelGoes
    <3>4. CASE down[s][1] # CancelFrame(id)
      <4>1. UNCHANGED running
        <5>1. running # NoTask => running.id = id
          BY <2>0, <3>2 DEF OnePlace
        <5> QED BY <2>9, <3>2, <3>3, <3>4, <5>1, ReceiveCancelGoes
      <4> QED BY <2>0, <3>2, <3>3, <3>4, <4>1, SentReads
    <3>5. CASE down[s][1] = CancelFrame(id)
      <4>1. down[s][1].id = id
        BY <3>5 DEF CancelFrame
      <4>2. ~(running' # NoTask /\ ~running'.canceled)
        <5>1. running # NoTask => running.id = id
          BY <2>0, <3>2 DEF OnePlace
        <5> QED BY <2>9, <3>2, <4>1, <5>1, ReceiveCancelGoes
      <4>3. down[s] \in Seq(DownFrame)
        BY DEF TypeOK
      <4>4. /\ \A i \in DOMAIN down[s] \ {1} : /\ i - 1 \in DOMAIN down'[s]
                                               /\ down'[s][i - 1] = down[s][i]
            /\ \A i \in DOMAIN down'[s] : /\ i + 1 \in DOMAIN down[s]
                                          /\ down'[s][i] = down[s][i + 1]
        BY <3>3, <4>3, HeadTail
      <4>5. ASSUME NEW i \in Nat, IsAssign(s, i)'
            PROVE  \E j \in DOMAIN down'[s] : i < j /\ down'[s][j] = CancelFrame(id)
        <5>1. i + 1 \in Nat /\ IsAssign(s, i + 1)
          BY <4>4, <4>5 DEF IsAssign, IsKind
        <5>2. PICK j \in DOMAIN down[s] : i + 1 < j /\ down[s][j] = CancelFrame(id)
          BY <3>2, <5>1 DEF Behind
        <5>3. j \in Nat /\ j # 1
          BY <4>3, <5>2
        <5> QED BY <4>4, <5>2, <5>3
      <4> QED BY <4>2, <4>5 DEF Behind
    <3> QED BY <3>4, <3>5
  <2>10. CASE ReceiveClose \/ ClientError
    BY <1>0, <2>10, ClientLeaves, DetachGoes, PlaneAssumption
  <2>11. ASSUME NEW outcome \in {"success", "failure"}, FinishTask(outcome)
         PROVE  Behind(s, id)'
    <3>1. UNCHANGED <<conn, cslot, ses, down>> /\ running' = NoTask
      BY <2>11, FinishTaskGoes
    <3> QED BY <1>0, <2>2, <3>1
  <2>12. CASE ServerCrash
    BY <1>0, <2>12, ServerCrashGoes
  <2>13. CASE CreateTask \/ (\E other \in DOMAIN tasks : CancelTask(other))
              \/ (\E note \in notices : Notify(note)) \/ OrphanExit \/ UNCHANGED vars
    <3>1. UNCHANGED <<ses, down, conn, cslot, running>>
      BY <2>13 DEF CreateTask, CancelTask, Notify, OrphanExit, vars, clientVars
    <3> QED BY <1>0, <2>2, <3>1
  <2> QED BY <2>3, <2>4, <2>5, <2>6, <2>7, <2>8, <2>9, <2>10, <2>11, <2>12, <2>13, Steps
<1> QED BY <1>1, <1>2, <1>3, InFlightGoes

\* At the start, what is ignored was told.
LEMMA SentInit == Init => Sent
BY DEF Init, Sent, Closed

-----------------------------------------------------------------------------
(* How often a task was started. *)

\* The places of a frame in a queue, and their number.
PlacesOf(frame, frames) == {i \in DOMAIN frames : frames[i] = frame}
Count(frame, frames) == Cardinality(PlacesOf(frame, frames))

\* The number of places is a natural number.
LEMMA CountIsNumber ==
    ASSUME NEW X, NEW q \in Seq(X), NEW f
    PROVE  IsFiniteSet(PlacesOf(f, q)) /\ Count(f, q) \in Nat
<1>1. IsFiniteSet(DOMAIN q)
  <2>1. DOMAIN q = 1..Len(q) /\ Len(q) \in Nat
    OBVIOUS
  <2> QED BY <2>1, FS_Interval
<1>2. IsFiniteSet(PlacesOf(f, q))
  BY <1>1, FS_Subset DEF PlacesOf
<1> QED BY <1>2, FS_CardinalityType DEF Count

\* No frame has a place in the empty queue.
LEMMA CountEmpty == \A f : Count(f, <<>>) = 0
<1>1. \A f : PlacesOf(f, <<>>) = {}
  BY DEF PlacesOf
<1> QED BY <1>1, FS_EmptySet DEF Count

\* One frame more at the end counts once.
LEMMA CountMore ==
    ASSUME NEW X, NEW q \in Seq(X), NEW x \in X, NEW f
    PROVE  Count(f, q \o <<x>>) = IF x = f THEN Count(f, q) + 1 ELSE Count(f, q)
<1> DEFINE r == q \o <<x>>
           new == Len(q) + 1
<1>1. /\ DOMAIN r = DOMAIN q \cup {new} /\ new \notin DOMAIN q /\ r[new] = x
      /\ \A i \in DOMAIN q : r[i] = q[i]
  BY OneMoreFrame
<1>2. IsFiniteSet(PlacesOf(f, q))
  BY CountIsNumber
<1> HIDE DEF r, new
<1>3. CASE x = f
  <2>1. PlacesOf(f, r) = PlacesOf(f, q) \cup {new} /\ new \notin PlacesOf(f, q)
    BY <1>1, <1>3 DEF PlacesOf
  <2> QED BY <1>2, <1>3, <2>1, FS_AddElement DEF Count, r
<1>4. CASE x # f
  <2>1. PlacesOf(f, r) = PlacesOf(f, q)
    BY <1>1, <1>4 DEF PlacesOf
  <2> QED BY <1>4, <2>1 DEF Count, r
<1> QED BY <1>3, <1>4

\* The first frame is gone, and counts no more.
LEMMA CountTail ==
    ASSUME NEW X, NEW q \in Seq(X), q # <<>>, NEW f
    PROVE  Count(f, Tail(q)) <= IF q[1] = f THEN Count(f, q) - 1 ELSE Count(f, q)
<1> DEFINE S == PlacesOf(f, Tail(q))
           T == PlacesOf(f, q) \ {1}
           next == [i \in S |-> i + 1]
<1>1. /\ \A i \in DOMAIN Tail(q) : i + 1 \in DOMAIN q /\ Tail(q)[i] = q[i + 1] /\ i \in Nat
      /\ 1 \in DOMAIN q /\ 0 \notin DOMAIN Tail(q)
  BY HeadTail
<1>2. IsFiniteSet(T) /\ IsFiniteSet(PlacesOf(f, q))
  BY CountIsNumber, FS_RemoveElement
<1>3. next \in Injection(S, T)
  <2>1. \A i \in S : i \in Nat /\ i + 1 \in T
    BY <1>1 DEF PlacesOf
  <2>2. next \in [S -> T]
    BY <2>1
  <2>3. \A i, j \in S : next[i] = next[j] => i = j
    BY <2>1
  <2> HIDE DEF S, T, next
  <2> QED BY <2>2, <2>3 DEF Injection, IsInjective
<1>4. Cardinality(S) <= Cardinality(T)
  <2> HIDE DEF S, T, next
  <2> QED BY <1>2, <1>3, FS_Injection
<1>5. Cardinality(T) = IF 1 \in PlacesOf(f, q) THEN Count(f, q) - 1 ELSE Count(f, q)
  BY <1>2, FS_RemoveElement DEF Count
<1>6. 1 \in PlacesOf(f, q) <=> q[1] = f
  BY <1>1 DEF PlacesOf
<1> QED BY <1>4, <1>5, <1>6 DEF Count

\* How often claim_task handed the task out.
HandedOut(id) == IF id \in DOMAIN tasks THEN Attempts(tasks[id]) ELSE 0

\* A delivery is started, or its assignment is still on the way, or it was lost.
StartsExact ==
    \A id \in Id :
        /\ starts[id] <= HandedOut(id)
        /\ \A s \in Slot : starts[id] + Count(Assign(id), down[s]) <= HandedOut(id)

\* A statement never takes a delivery back.
LEMMA HandedOutGrows ==
    ASSUME TypeOK, Rows, [Next]_vars, NEW id \in Id
    PROVE  HandedOut(id) \in Nat /\ HandedOut(id)' \in Nat /\ HandedOut(id) <= HandedOut(id)'
<1>0. /\ tasks \in Table /\ tasks' \in Table /\ ThisNode \in Node /\ Consistent(tasks)
      /\ DOMAIN tasks \subseteq DOMAIN tasks'
  BY PlaneAssumption, StepKeepsTable DEF TypeOK, Rows
<1>1. Rows'
  BY RowsKept
<1>2. UNCHANGED tasks \/ TableStep(tasks, tasks')
  BY <1>0, StepIsStatement DEF TableStep, CreateTask
<1>3. ASSUME NEW t \in Table, Consistent(t), NEW i \in DOMAIN t
      PROVE  Attempts(t[i]) \in Nat
  BY <1>3, RowOfTable, AttemptsOfRow DEF Consistent
<1>4. HandedOut(id) \in Nat
  BY <1>0, <1>3 DEF HandedOut
<1>5. HandedOut(id)' \in Nat
  BY <1>0, <1>1, <1>3 DEF HandedOut, Rows
<1>6. CASE id \in DOMAIN tasks
  BY <1>0, <1>2, <1>4, <1>5, <1>6, StepAttempts DEF HandedOut
<1>7. CASE id \notin DOMAIN tasks
  BY <1>4, <1>5, <1>7 DEF HandedOut
<1> QED BY <1>4, <1>5, <1>6, <1>7

\* What a claim hands out is one more.
LEMMA HandedOutOnce ==
    ASSUME TypeOK, Rows, NEW s \in Slot, NEW id \in Id, HandsOut(s, id)
    PROVE  HandedOut(id) \in Nat /\ HandedOut(id)' = HandedOut(id) + 1
<1>1. /\ id \in DOMAIN tasks /\ tasks[id].status = "queued" /\ tasks[id] \in Task
      /\ RowConsistent(tasks[id])
      /\ tasks' = [tasks EXCEPT ![id] = ClaimedRow(tasks[id])]
  BY RowOfTable DEF HandsOut, QueuedFor, TypeOK, Rows, Consistent
<1>2. id \in DOMAIN tasks' /\ tasks'[id] = ClaimedRow(tasks[id])
  BY <1>1
<1> QED BY <1>1, <1>2, AttemptsOfRow DEF HandedOut

\* A connection on which no more assignments of id are than before.
LEMMA StartsStay ==
    ASSUME TypeOK, Rows, StartsExact, [Next]_vars, NEW id \in Id, starts'[id] = starts[id],
           NEW s \in Slot, TypeOK', Count(Assign(id), down'[s]) <= Count(Assign(id), down[s])
    PROVE  /\ starts'[id] <= HandedOut(id)'
           /\ starts'[id] + Count(Assign(id), down'[s]) <= HandedOut(id)'
<1>1. starts[id] \in Nat /\ Count(Assign(id), down[s]) \in Nat /\ Count(Assign(id), down'[s]) \in Nat
  BY CountIsNumber DEF TypeOK
<1>2. starts[id] <= HandedOut(id) /\ starts[id] + Count(Assign(id), down[s]) <= HandedOut(id)
  BY DEF StartsExact
<1>3. HandedOut(id) \in Nat /\ HandedOut(id)' \in Nat /\ HandedOut(id) <= HandedOut(id)'
  BY HandedOutGrows
<1> HIDE DEF HandedOut
<1> QED BY <1>1, <1>2, <1>3

\* The queue of one connection gets a frame that assigns nothing, if any.
LEMMA CountOther ==
    ASSUME TypeOK, NEW s \in Slot, NEW frame \in DownFrame, frame.kind # "assign", NEW id \in Id,
           down'[s] = IF conn[s] = "up" THEN down[s] \o <<frame>> ELSE down[s]
    PROVE  Count(Assign(id), down'[s]) = Count(Assign(id), down[s])
<1>1. frame # Assign(id) /\ down[s] \in Seq(DownFrame)
  BY DEF Assign, TypeOK
<1>2. CASE conn[s] = "up"
  BY <1>1, <1>2, CountMore
<1>3. CASE conn[s] # "up"
  BY <1>3
<1> QED BY <1>2, <1>3

\* Every step keeps it: the starts are counted.
LEMMA StartsKept ==
    ASSUME TypeOK, Wired, Rows, StartsExact, [Next]_vars
    PROVE  StartsExact'
<1>0. TypeOK' /\ Wired' /\ down \in [Slot -> Seq(DownFrame)] /\ starts \in [Id -> Nat]
  BY TypesKept, WiredKept DEF TypeOK
<1> DEFINE Bounded(id) == /\ starts'[id] <= HandedOut(id)'
                          /\ \A s \in Slot :
                                starts'[id] + Count(Assign(id), down'[s]) <= HandedOut(id)'
<1> SUFFICES ASSUME NEW id \in Id PROVE Bounded(id)
  BY DEF StartsExact
<1>1. \A s \in Slot : Count(Assign(id), down[s]) \in Nat /\ Count(Assign(id), down'[s]) \in Nat
  BY <1>0, CountIsNumber DEF TypeOK
<1>2. /\ HandedOut(id) \in Nat /\ HandedOut(id)' \in Nat /\ HandedOut(id) <= HandedOut(id)'
      /\ starts[id] \in Nat /\ starts'[id] \in Nat
  BY <1>0, HandedOutGrows DEF TypeOK
<1>3. /\ starts[id] <= HandedOut(id)
      /\ \A s \in Slot : starts[id] + Count(Assign(id), down[s]) <= HandedOut(id)
  BY DEF StartsExact
<1>4. ASSUME starts'[id] = starts[id],
             \A s \in Slot : Count(Assign(id), down'[s]) <= Count(Assign(id), down[s])
      PROVE  Bounded(id)
  <2> HIDE DEF HandedOut
  <2> QED BY <1>1, <1>2, <1>3, <1>4
<1>5. ASSUME NEW s \in Slot, Others(down, down', s), UNCHANGED starts,
             Count(Assign(id), down'[s]) <= Count(Assign(id), down[s])
      PROVE  Bounded(id)
  <2>1. \A o \in Slot : Count(Assign(id), down'[o]) <= Count(Assign(id), down[o])
    BY <1>1, <1>5 DEF Others
  <2> HIDE DEF Bounded
  <2> QED BY <1>4, <1>5, <2>1
<1>6. ASSUME UNCHANGED <<starts, down>>
      PROVE  Bounded(id)
  <2>1. \A o \in Slot : Count(Assign(id), down'[o]) <= Count(Assign(id), down[o])
    BY <1>1, <1>6
  <2> HIDE DEF Bounded
  <2> QED BY <1>4, <1>6, <2>1
<1> HIDE DEF Bounded
<1>7. ASSUME NEW s \in Slot, NEW new \in Id, HandsOut(s, new), UNCHANGED starts
      PROVE  Bounded(id)
  <2>1. /\ Others(down, down', s) /\ down[s] \in Seq(DownFrame) /\ Assign(new) \in DownFrame
        /\ down'[s] = IF conn[s] = "up" THEN down[s] \o <<Assign(new)>> ELSE down[s]
    BY <1>0, <1>7, FrameTypes DEF HandsOut
  <2>2. CASE new = id
    <3>1. HandedOut(id)' = HandedOut(id) + 1
      BY <1>7, <2>2, HandedOutOnce
    <3>2. Count(Assign(id), down'[s]) <= Count(Assign(id), down[s]) + 1
      <4>1. CASE conn[s] = "up"
        BY <1>1, <2>1, <2>2, <4>1, CountMore
      <4>2. CASE conn[s] # "up"
        BY <1>1, <2>1, <4>2
      <4> QED BY <4>1, <4>2
    <3>3. \A o \in Slot : Count(Assign(id), down'[o]) <= Count(Assign(id), down[o]) + 1
      BY <1>1, <2>1, <3>2 DEF Others
    <3> HIDE DEF HandedOut
    <3> QED BY <1>1, <1>2, <1>3, <1>7, <3>1, <3>3 DEF Bounded
  <2>3. CASE new # id
    <3>1. Assign(new) # Assign(id)
      BY <2>3 DEF Assign
    <3>2. Count(Assign(id), down'[s]) = Count(Assign(id), down[s])
      BY <2>1, <3>1, CountMore
    <3> QED BY <1>1, <1>5, <1>7, <2>1, <3>2
  <2> QED BY <2>2, <2>3
<1>8. ASSUME NEW s \in Slot, SessionStep(s)
      PROVE  Bounded(id)
  <2>1. UNCHANGED starts
    BY <1>8, SessionLocal
  <2>2. CASE ReceiveSubscribe(s) \/ ReceiveHello(s) \/ ReceiveCatalog(s) \/ ReceiveAck(s)
             \/ ReceiveResult(s)
    BY <1>6, <2>1, <2>2
       DEF ReceiveSubscribe, ReceiveHello, ReceiveCatalog, ReceiveAck, ReceiveResult
  <2>3. CASE ReceivePull(s) \/ Dispatch(s)
    BY <1>6, <1>7, <2>1, <2>3, ReceivePullGoes, TryDispatchGoes DEF Dispatch, Waits
  <2>4. CASE HandleSignal(s)
    <3>1. CASE TryDispatch(s)
      BY <1>6, <1>7, <2>1, <3>1, TryDispatchGoes DEF Waits
    <3>2. CASE ~TryDispatch(s)
      <4>1. /\ Ignores(s) /\ Others(down, down', s)
            /\ \/ down'[s] = down[s]
               \/ down'[s] = down[s] \o <<CancelFrame(ses[s].inflight.id)>>
        BY <2>4, <3>2, HandleSignalGoes
      <4>2. CancelFrame(ses[s].inflight.id) \in DownFrame
            /\ CancelFrame(ses[s].inflight.id) # Assign(id) /\ down[s] \in Seq(DownFrame)
        BY <1>0, <4>1, InFlightTask, FrameTypes DEF Ignores, CancelFrame, Assign
      <4> DEFINE frame == CancelFrame(ses[s].inflight.id)
      <4> HIDE DEF frame
      <4>3. Count(Assign(id), down'[s]) = Count(Assign(id), down[s])
        <5>1. CASE down'[s] = down[s] \o <<frame>>
          <6>1. frame \in DownFrame /\ frame # Assign(id)
            BY <4>2 DEF frame
          <6> QED BY <4>2, <5>1, <6>1, CountMore
        <5>2. CASE down'[s] = down[s]
          BY <5>2
        <5> QED BY <4>1, <5>1, <5>2 DEF frame
      <4> QED BY <1>1, <1>5, <2>1, <4>1, <4>3
    <3> QED BY <3>1, <3>2
  <2> QED BY <1>8, <2>2, <2>3, <2>4 DEF SessionStep
<1>9. ASSUME NEW s \in Slot, InFlightTimeout(s) \/ Close(s)
      PROVE  Bounded(id)
  <2>1. PICK frame \in DownFrame :
           /\ frame.kind # "assign"
           /\ down'[s] = IF conn[s] = "up" THEN down[s] \o <<frame>> ELSE down[s]
    <3>1. CASE InFlightTimeout(s)
      <4>1. /\ CancelFrame(ses[s].inflight.id) \in DownFrame
            /\ CancelFrame(ses[s].inflight.id).kind # "assign"
        BY <3>1, InFlightTimeoutGoes, FrameTypes DEF CancelFrame
      <4> QED BY <3>1, <4>1, InFlightTimeoutGoes
    <3>2. CASE Close(s)
      <4>1. CloseFrame \in DownFrame /\ CloseFrame.kind # "assign"
        BY FrameTypes DEF CloseFrame
      <4> QED BY <3>2, <4>1, CloseGoes
    <3> QED BY <1>9, <3>1, <3>2
  <2>2. UNCHANGED starts /\ Others(down, down', s)
    BY <1>9, InFlightTimeoutGoes, CloseGoes
  <2>3. Count(Assign(id), down'[s]) = Count(Assign(id), down[s])
    BY <2>1, CountOther
  <2> QED BY <1>1, <1>5, <2>2, <2>3
<1>10. CASE ReceiveAssign
  <2>0. PICK s \in Slot : s = cslot
    BY <1>10, ReceiveAssignGoes
  <2> DEFINE new == down[s][1].id
  <2>1. /\ Others(down, down', s) /\ down'[s] = Tail(down[s]) /\ down[s] # <<>>
        /\ down[s] \in Seq(DownFrame) /\ down[s][1] = Assign(new)
        /\ UNCHANGED starts \/ starts' = [starts EXCEPT ![new] = @ + 1]
    BY <1>0, <1>10, <2>0, ReceiveAssignGoes
  <2> HIDE DEF new
  <2>2. Count(Assign(id), down'[s]) <=
           IF down[s][1] = Assign(id) THEN Count(Assign(id), down[s]) - 1
           ELSE Count(Assign(id), down[s])
    BY <2>1, CountTail
  <2>3. CASE new # id \/ UNCHANGED starts
    <3>1. starts'[id] = starts[id]
      BY <1>0, <2>1, <2>3
    <3>2. Count(Assign(id), down'[s]) <= Count(Assign(id), down[s])
      BY <1>1, <2>2
    <3>3. \A o \in Slot : Count(Assign(id), down'[o]) <= Count(Assign(id), down[o])
      BY <1>1, <2>1, <3>2 DEF Others
    <3> QED BY <1>4, <3>1, <3>3
  <2>4. CASE new = id /\ ~UNCHANGED starts
    <3>1. starts'[id] = starts[id] + 1
      BY <1>0, <2>1, <2>4
    <3>2. Count(Assign(id), down'[s]) <= Count(Assign(id), down[s]) - 1
      BY <2>1, <2>2, <2>4
    <3>3. Count(Assign(id), down[s]) >= 1
      BY <1>1, <3>2
    <3>4. \A o \in Slot : o # s => Count(Assign(id), down'[o]) = 0
      <4>1. \A o \in Slot : o # s => down'[o] = <<>>
        BY <2>0, <2>1 DEF Wired, Others
      <4> QED BY <4>1, CountEmpty
    <3>5. starts'[id] <= HandedOut(id)
      <4> HIDE DEF HandedOut
      <4> QED BY <1>1, <1>2, <1>3, <3>1, <3>3
    <3>6. \A o \in Slot : starts'[id] + Count(Assign(id), down'[o]) <= HandedOut(id)
      <4>1. starts'[id] + Count(Assign(id), down'[s]) <= HandedOut(id)
        <5> HIDE DEF HandedOut
        <5> QED BY <1>1, <1>2, <1>3, <3>1, <3>2
      <4> HIDE DEF HandedOut
      <4> QED BY <1>1, <1>2, <3>4, <3>5, <4>1
    <3> HIDE DEF HandedOut
    <3> QED BY <1>1, <1>2, <3>5, <3>6 DEF Bounded
  <2> QED BY <2>3, <2>4
<1>11. CASE ReceiveCancel
  <2>0. PICK s \in Slot : s = cslot
    BY <1>11, ReceiveCancelGoes
  <2>1. /\ Others(down, down', s) /\ down'[s] = Tail(down[s]) /\ down[s] # <<>>
        /\ down[s] \in Seq(DownFrame) /\ UNCHANGED starts
    BY <1>0, <1>11, <2>0, ReceiveCancelGoes
  <2>2. Count(Assign(id), down'[s]) <=
           IF down[s][1] = Assign(id) THEN Count(Assign(id), down[s]) - 1
           ELSE Count(Assign(id), down[s])
    BY <2>1, CountTail
  <2>3. Count(Assign(id), down'[s]) <= Count(Assign(id), down[s])
    BY <1>1, <2>2
  <2> QED BY <1>5, <2>1, <2>3
<1>12. CASE ReceiveClose \/ ClientError
  <2>1. cslot \in Slot /\ Others(down, down', cslot) /\ down'[cslot] = <<>> /\ UNCHANGED starts
    BY <1>12, ClientLeaves, DetachGoes
  <2>2. Count(Assign(id), down'[cslot]) <= Count(Assign(id), down[cslot])
    BY <1>1, <2>1, CountEmpty
  <2> QED BY <1>5, <2>1, <2>2
<1>13. CASE CreateTask \/ (\E other \in DOMAIN tasks : CancelTask(other))
            \/ (\E note \in notices : Notify(note))
            \/ (\E s \in Slot : Leave(s) \/ Connect(s) \/ Cut(s)) \/ ServerCrash \/ OrphanExit
            \/ (\E outcome \in {"success", "failure"} : FinishTask(outcome)) \/ UNCHANGED vars
  <2>1. UNCHANGED <<starts, down>>
    BY <1>13 DEF CreateTask, CancelTask, Notify, Leave, Connect, Cut, ServerCrash, OrphanExit,
                 FinishTask, vars, clientVars
  <2> QED BY <1>6, <2>1
<1> QED BY <1>8, <1>9, <1>10, <1>11, <1>12, <1>13, Steps

\* At the start, the starts are counted.
LEMMA StartsInit == Init => StartsExact
<1>1. ASSUME Init, NEW id \in Id
      PROVE  starts[id] = 0 /\ HandedOut(id) = 0
             /\ \A s \in Slot : Count(Assign(id), down[s]) = 0
  BY <1>1, CountEmpty DEF Init, HandedOut
<1> QED BY <1>1 DEF StartsExact

-----------------------------------------------------------------------------
(* The inductive invariant, and what follows from it. *)

IInv ==
    /\ TypeOK
    /\ Wired /\ Greeted
    /\ Rows /\ Listed
    /\ ToldRightly /\ Held
    /\ Woken
    /\ CarriesOne
    /\ Owed /\ Sent
    /\ StartsExact

\* Each part is kept by every step, given the parts that it rests on.
THEOREM Invariance == Spec => []IInv
<1>1. Init => IInv
  BY TypesInit, WiredInit, GreetedInit, TableInit, ListedInit, HeldInit, WokenInit, CarriesInit,
     OwedInit, SentInit, StartsInit DEF IInv
<1>2. IInv /\ [Next]_vars => IInv'
  <2> SUFFICES ASSUME IInv, [Next]_vars PROVE IInv'
    OBVIOUS
  <2>1. TypeOK' /\ Wired' /\ Greeted'
    BY TypesKept, WiredKept, GreetedKept DEF IInv
  <2>2. Rows' /\ Listed' /\ ToldRightly' /\ Held'
    BY RowsKept, ListedKept, ToldKept, HeldKept DEF IInv
  <2>3. Woken' /\ CarriesOne'
    BY WokenKept, CarriesKept DEF IInv
  <2>4. Owed' /\ Sent' /\ StartsExact'
    BY OwedKept, SentKept, StartsKept DEF IInv
  <2> QED BY <2>1, <2>2, <2>3, <2>4 DEF IInv
<1> QED BY <1>1, <1>2, PTL DEF Spec

\* Every variable keeps its type, and the client runs something only on a
\* connection.
THEOREM TypeCorrect == Spec => []TypeOK
<1>1. IInv => TypeOK
  BY DEF IInv
<1> QED BY <1>1, Invariance, PTL

\* The rows are consistent when sessions, signals and crashes run the statements.
THEOREM PlaneRowsConsistent == Spec => []Consistent(tasks)
<1>1. IInv => Consistent(tasks)
  BY DEF IInv, Rows
<1> QED BY <1>1, Invariance, PTL

\* No row is left in dispatched or running with nobody responsible for it.
THEOREM NothingIsStuck == Spec => []NothingStuck
<1>1. IInv => NothingStuck
  BY DEF IInv, Held, HeldAt, Holds, NothingStuck, Expected
<1> QED BY <1>1, Invariance, PTL

\* An idle session that is alone always has a reason to claim what is queued.
THEOREM WakeupsNotLost == Spec => []NoLostWakeup
<1>1. IInv => NoLostWakeup
  <2> SUFFICES ASSUME IInv, NEW s \in Slot, registry = s, ses[s].pc = "open",
                      ses[s].registered, ses[s].inflight = NoTask,
                      \A other \in Slot \ {s} : ses[other].pc = "free",
                      QueuedFor(tasks, ThisNode) # {}
               PROVE  notices # {} \/ sig[s] # <<>> \/ Pull \in {up[s][i] : i \in DOMAIN up[s]}
    BY DEF NoLostWakeup
  <2>1. Coming(s)
    BY DEF IInv, Woken, Idle, Live
  <2>2. \A i \in DOMAIN up[s] : up[s][i].kind = "pull" => up[s][i] = Pull
    <3>1. up[s] \in Seq(UpFrame)
      BY DEF IInv, TypeOK
    <3> QED BY <3>1, UpFrameKinds
  <2> QED BY <2>1, <2>2 DEF Coming
<1> QED BY <1>1, Invariance, PTL

\* What a working connection carries is what its session has in flight.
THEOREM ConnectionCarriesOne == Spec => []OneTaskPerConnection
<1>1. ASSUME IInv, NEW s \in Slot, Attached(s), conn[s] = "up", Live(s)
      PROVE  IF ses[s].inflight = NoTask THEN Carried(s) = {}
             ELSE \E task \in Carried(s) : task.id = ses[s].inflight.id /\ Carried(s) = {task}
  <2>1. OnePlace(s) /\ up[s] \in Seq(UpFrame) /\ down[s] \in Seq(DownFrame)
    BY <1>1 DEF IInv, CarriesOne, Works, Attached, TypeOK
  <2> DEFINE A == {[at |-> "down", nr |-> i, id |-> down[s][i].id] :
                      i \in {i \in DOMAIN down[s] : down[s][i].kind = "assign"}}
             R == {[at |-> "client", nr |-> 1, id |-> task.id] : task \in {running} \ {NoTask}}
             U == {[at |-> "up", nr |-> i, id |-> up[s][i].id] :
                      i \in {i \in DOMAIN up[s] : up[s][i].kind = "result"}}
             id == ses[s].inflight.id
  <2>2. Carried(s) = A \cup R \cup U
    BY DEF Carried
  <2>3. /\ \A i \in DOMAIN down[s] : i \in Nat /\ (down[s][i].kind = "assign" <=> IsAssign(s, i))
        /\ \A i \in DOMAIN up[s] : i \in Nat /\ (up[s][i].kind = "result" <=> IsResult(s, i))
    BY <2>1 DEF IsAssign, IsResult, IsKind
  <2>4. CASE ses[s].inflight = NoTask
    <3>1. /\ running = NoTask
          /\ \A i \in Nat : ~IsAssign(s, i) /\ ~IsResult(s, i)
      BY <2>1, <2>4 DEF OnePlace
    <3>2. A = {} /\ R = {} /\ U = {}
      BY <2>3, <3>1
    <3> QED BY <2>2, <2>4, <3>2
  <2>5. CASE ses[s].inflight # NoTask
    <3>1. CASE running # NoTask
      <4>1. /\ running.id = id
            /\ \A i \in Nat : ~IsAssign(s, i) /\ ~IsResult(s, i)
        BY <2>1, <3>1 DEF OnePlace
      <4>2. A = {} /\ U = {}
        BY <2>3, <4>1
      <4>3. R = {[at |-> "client", nr |-> 1, id |-> id]}
        BY <3>1, <4>1
      <4> QED BY <2>2, <2>5, <4>2, <4>3
    <3>2. ASSUME NEW i \in Nat, IsAssign(s, i)
          PROVE  \E task \in Carried(s) : task.id = id /\ Carried(s) = {task}
      <4>1. /\ running = NoTask /\ down[s][i].id = id
            /\ \A j \in Nat : (IsAssign(s, j) => j = i) /\ ~IsResult(s, j)
        BY <2>1, <3>2 DEF OnePlace
      <4>2. R = {} /\ U = {}
        BY <2>3, <4>1
      <4>3. {j \in DOMAIN down[s] : down[s][j].kind = "assign"} = {i}
        BY <2>3, <3>2, <4>1 DEF IsAssign, IsKind
      <4>4. A = {[at |-> "down", nr |-> i, id |-> id]}
        BY <4>1, <4>3
      <4> QED BY <2>2, <4>2, <4>4
    <3>3. ASSUME NEW i \in Nat, IsResult(s, i)
          PROVE  \E task \in Carried(s) : task.id = id /\ Carried(s) = {task}
      <4>1. /\ running = NoTask /\ up[s][i].id = id
            /\ \A j \in Nat : (IsResult(s, j) => j = i) /\ ~IsAssign(s, j)
        BY <2>1, <3>3 DEF OnePlace
      <4>2. R = {} /\ A = {}
        BY <2>3, <4>1
      <4>3. {j \in DOMAIN up[s] : up[s][j].kind = "result"} = {i}
        BY <2>3, <3>3, <4>1 DEF IsResult, IsKind
      <4>4. U = {[at |-> "up", nr |-> i, id |-> id]}
        BY <4>1, <4>3
      <4> QED BY <2>2, <4>2, <4>4
    <3>4. running # NoTask \/ \E i \in Nat : IsAssign(s, i) \/ IsResult(s, i)
      BY <2>1, <2>5 DEF OnePlace
    <3> QED BY <2>5, <3>1, <3>2, <3>3, <3>4
  <2> QED BY <2>4, <2>5
<1>2. IInv => OneTaskPerConnection
  BY <1>1 DEF OneTaskPerConnection
<1> QED BY <1>2, Invariance, PTL

\* The client has started a task at most once for each time it was handed out.
THEOREM StartsAreCounted == Spec => []StartsCounted
<1>1. IInv => StartsCounted
  <2> SUFFICES ASSUME IInv, NEW id \in DOMAIN tasks
               PROVE  starts[id] <= tasks[id].retry_count + (IF tasks[id].dispatched THEN 1 ELSE 0)
    BY DEF StartsCounted
  <2>1. id \in Id
    BY TaskIds DEF IInv
  <2> QED BY <2>1 DEF IInv, StartsExact, HandedOut, Attempts
<1> QED BY <1>1, Invariance, PTL

\* Until the process of a canceled task has been told, the cancel is on its way.
THEOREM CancelReachesProcess == Spec => []CancelOnItsWay
<1>1. IInv => CancelOnItsWay
  <2> SUFFICES ASSUME IInv, running # NoTask, ~running.canceled,
                      tasks[running.id].status = "canceled",
                      conn[cslot] = "up", Live(cslot), registry = cslot
               PROVE  \/ Told(running.id) \in notices
                      \/ \E i \in DOMAIN sig[cslot] : sig[cslot][i] = Told(running.id)
                      \/ \E i \in DOMAIN down[cslot] : down[cslot][i] = Told(running.id)
    BY DEF CancelOnItsWay, Told
  <2>1. PICK s \in Slot : s = cslot
    BY DEF IInv, TypeOK
  <2> DEFINE id == running.id
  <2>2. Works(s) /\ OnePlace(s)
    BY <2>1 DEF IInv, CarriesOne, Works
  <2>3. ses[s].inflight # NoTask /\ ses[s].inflight.id = id
    BY <2>2 DEF OnePlace
  <2>4. id \in DOMAIN tasks /\ id \in Id /\ IsCanceled(id)
    BY <2>3, TaskIds DEF IInv, Listed, IsCanceled
  <2>5. CASE ses[s].inflight.ignored
    <3>1. Behind(s, id)
      BY <2>2, <2>3, <2>5 DEF IInv, Sent
    <3>2. CancelFrame(id) = Told(id)
      BY DEF CancelFrame, Told
    <3> QED BY <2>1, <3>1, <3>2 DEF Behind
  <2>6. CASE ~ses[s].inflight.ignored
    <3>1. Holds(s, id)
      BY <2>3, <2>6 DEF Holds
    <3>2. OwedTo(s, id)
      BY <2>1, <2>4, <3>1 DEF IInv, Owed
    <3> QED BY <2>1, <3>2 DEF OwedTo
  <2> QED BY <2>5, <2>6
<1> QED BY <1>1, Invariance, PTL

-----------------------------------------------------------------------------
(* The refinement. *)

\* A move of the owners and phases is a step of TaskLifecycle.
LEMMA MoveIsStep ==
    ASSUME PhaseStep(OwnersOf(tasks), PhasesOf(tasks), OwnersOf(tasks'), PhasesOf(tasks'))
    PROVE  Lifecycle!Next
<1> DEFINE o == OwnersOf(tasks)
           p == PhasesOf(tasks)
           q == OwnersOf(tasks')
           r == PhasesOf(tasks')
<1>0. OwnersOf(tasks)' = q /\ PhasesOf(tasks)' = r
  BY DEF OwnersOf, PhasesOf
<1>1. ASSUME NEW n \in Node, q = Append(o, n), r = Append(p, "pending")
      PROVE  Lifecycle!Submit(n)
  BY <1>0, <1>1 DEF Lifecycle!Submit
<1>2. ASSUME NEW i \in DOMAIN p, q = o, p[i] = "pending", r = [p EXCEPT ![i] = "active"],
             \A j \in DOMAIN p : o[j] = o[i] /\ p[j] = "pending" => i <= j
      PROVE  Lifecycle!HandOut(i)
  BY <1>0, <1>2 DEF Lifecycle!HandOut, Lifecycle!Pending
<1>3. ASSUME NEW i \in DOMAIN p, q = o, p[i] \in {"pending", "active"},
             r = [p EXCEPT ![i] = "canceled"]
      PROVE  Lifecycle!Cancel(i)
  BY <1>0, <1>3 DEF Lifecycle!Cancel
<1>4. ASSUME NEW i \in DOMAIN p, NEW outcome \in {"succeeded", "failed"}, q = o,
             p[i] = "active", r = [p EXCEPT ![i] = outcome]
      PROVE  Lifecycle!Finish(i, outcome)
  BY <1>0, <1>4 DEF Lifecycle!Finish
<1>5. ASSUME NEW ids \in SUBSET DOMAIN p, q = o, \A i \in ids : p[i] = "active",
             r = [i \in DOMAIN p |-> IF i \in ids THEN "pending" ELSE p[i]]
      PROVE  Lifecycle!TakeBack(ids)
  BY <1>0, <1>5 DEF Lifecycle!TakeBack
<1> HIDE DEF o, p, q, r
<1>6. PhaseStep(o, p, q, r)
  BY DEF o, p, q, r
<1>7. Lifecycle!Next
  BY <1>1, <1>2, <1>3, <1>4, <1>5, <1>6 DEF PhaseStep, Lifecycle!Next, o, p, q, r
<1> QED BY <1>7

\* Whatever sessions, signals, pulls, timeouts and crashes do, they move the
\* tasks only as TaskLifecycle allows.
THEOREM Refinement == Spec => ImplementsLifecycle
<1>1. Init => Lifecycle!Init
  BY DEF Init, Lifecycle!Init, OwnersOf, PhasesOf
<1>2. IInv /\ [Next]_vars => [Lifecycle!Next]_(Lifecycle!vars)
  <2> SUFFICES ASSUME IInv, [Next]_vars PROVE [Lifecycle!Next]_(Lifecycle!vars)
    OBVIOUS
  <2>0. tasks \in Table /\ ThisNode \in Node
    BY PlaneAssumption DEF IInv, TypeOK
  <2>1. UNCHANGED tasks \/ TableStep(tasks, tasks')
    BY <2>0, StepIsStatement DEF TableStep, CreateTask, IInv
  <2>2. CASE UNCHANGED tasks
    BY <2>2 DEF Lifecycle!vars, OwnersOf, PhasesOf
  <2>3. CASE TableStep(tasks, tasks')
    <3>1. \/ OwnersOf(tasks') = OwnersOf(tasks) /\ PhasesOf(tasks') = PhasesOf(tasks)
          \/ PhaseStep(OwnersOf(tasks), PhasesOf(tasks), OwnersOf(tasks'), PhasesOf(tasks'))
      BY <2>0, <2>3, StepPhases
    <3>2. OwnersOf(tasks)' = OwnersOf(tasks') /\ PhasesOf(tasks)' = PhasesOf(tasks')
      BY DEF OwnersOf, PhasesOf
    <3> QED BY <3>1, <3>2, MoveIsStep DEF Lifecycle!vars
  <2> QED BY <2>1, <2>2, <2>3
<1> QED BY <1>1, <1>2, Invariance, PTL DEF Spec, ImplementsLifecycle, Lifecycle!Spec

-----------------------------------------------------------------------------
(* One session at a time. *)

\* A session in its loop is the registered one.
Alone == \A s \in Slot : Live(s) => registry = s

\* The task that a session waits for is in progress, or was canceled.
Agreed == \A s \in Slot : \A id \in Id :
             Live(s) /\ Holds(s, id) => tasks[id].status \in InProgress \/ IsCanceled(id)

\* As long as there is one slot, a session in its loop stays the registered one.
LEMMA AloneKept ==
    ASSUME NEW only, Slot = {only}, TypeOK, Alone, [Next]_vars
    PROVE  Alone'
<1> SUFFICES ASSUME Live(only)' PROVE registry' = only
  BY DEF Alone
<1>0. NoSlot # only /\ only \in Slot
  BY PlaneAssumption
<1>1. ASSUME UNCHANGED registry, Live(only)
      PROVE  registry' = only
  BY <1>0, <1>1 DEF Alone
<1>2. ASSUME NEW s \in Slot, SessionStep(s) \/ InFlightTimeout(s)
      PROVE  registry' = only
  BY <1>1, <1>2, SessionLocal DEF Live
<1>3. ASSUME NEW s \in Slot, Leave(s) \/ Close(s) \/ Connect(s)
      PROVE  registry' = only
  BY <1>0, <1>3, LeaveGoes, CloseGoes, ConnectGoes DEF SessionGoes, Live
<1>4. CASE ServerCrash
  BY <1>0, <1>4, ServerCrashGoes DEF Live
<1>5. CASE CreateTask \/ (\E other \in DOMAIN tasks : CancelTask(other))
           \/ (\E note \in notices : Notify(note)) \/ (\E s \in Slot : Cut(s))
           \/ ReceiveAssign \/ ReceiveCancel \/ ReceiveClose \/ ClientError \/ OrphanExit
           \/ (\E outcome \in {"success", "failure"} : FinishTask(outcome)) \/ UNCHANGED vars
  <2>1. UNCHANGED <<ses, registry>>
    BY <1>5 DEF CreateTask, CancelTask, Notify, Cut, ReceiveAssign, ReceiveCancel, ReceiveClose,
                ClientError, Detach, OrphanExit, FinishTask, vars, serverVars
  <2> QED BY <1>1, <2>1 DEF Live
<1> QED BY <1>2, <1>3, <1>4, <1>5, Steps

\* Every step keeps the two views agreed.
LEMMA AgreedKept ==
    ASSUME NEW only, Slot = {only}, IInv, Agreed, [Next]_vars
    PROVE  Agreed'
<1> SUFFICES ASSUME NEW id \in Id, Live(only)', Holds(only, id)'
             PROVE  tasks'[id].status \in InProgress \/ IsCanceled(id)'
  BY DEF Agreed
<1>0. /\ TypeOK /\ tasks \in Table /\ only \in Slot
      /\ ses'[only].inflight # NoTask /\ ses'[only].inflight.id = id
      /\ ~ses'[only].inflight.ignored /\ ses'[only].pc \in {"open", "dispatch"}
  BY DEF IInv, TypeOK, Holds, Live
<1>1. ASSUME NEW new \in Id, HandsOut(only, new)
      PROVE  tasks'[id].status \in InProgress
  <2>1. /\ new = id /\ id \in DOMAIN tasks /\ tasks' = [tasks EXCEPT ![id] = ClaimedRow(tasks[id])]
    BY <1>0, <1>1 DEF HandsOut, SessionGoes
  <2> QED BY <1>0, <2>1, RowOfTable, StatusOfRow DEF InProgress
<1>2. ASSUME ses'[only].inflight = ses[only].inflight
      PROVE  tasks'[id].status \in InProgress \/ IsCanceled(id)'
  <2>0. /\ Holds(only, id) /\ ses[only].inflight # NoTask /\ id \in DOMAIN tasks
        /\ ses[only].registered
    BY <1>0, <1>2 DEF Holds, IInv, Listed, Greeted, GreetedAt
  <2>1. ASSUME Live(only), tasks[id].status \in InProgress => tasks'[id].status \in InProgress
        PROVE  tasks'[id].status \in InProgress \/ IsCanceled(id)'
    <3>1. tasks[id].status \in InProgress \/ IsCanceled(id)
      BY <1>0, <2>0, <2>1 DEF Agreed
    <3> QED BY <1>0, <2>1, <3>1, CanceledStays
  <2>2. ASSUME Live(only), UNCHANGED tasks
        PROVE  tasks'[id].status \in InProgress \/ IsCanceled(id)'
    BY <2>1, <2>2
  <2>3. ASSUME SessionStep(only)
        PROVE  tasks'[id].status \in InProgress \/ IsCanceled(id)'
    <3>0. Live(only)
      BY <1>0, <2>3, SessionLocal DEF Live
    <3>1. CASE ReceiveHello(only)
      <4>1. up[only][1].kind = "hello" /\ 1 \in DOMAIN up[only]
        BY <1>0, <3>1, ReceivesGoes DEF ReceiveHello
      <4> QED BY <1>0, <2>0, <4>1 DEF IInv, Greeted, GreetedAt
    <3>2. CASE ReceiveResult(only)
      BY <1>0, <2>2, <3>0, <3>2, ReceiveResultGoes DEF SessionGoes
    <3>3. CASE ReceiveAck(only)
      <4>1. UNCHANGED tasks \/ \E other \in DOMAIN tasks : /\ tasks[other] \in Task
                                  /\ tasks' = [tasks EXCEPT ![other] = AckedRow(tasks[other])]
        BY <1>0, <3>3, RowOfTable DEF ReceiveAck, Acknowledge, InProgressOf
      <4> QED BY <2>0, <2>1, <2>2, <3>0, <4>1, StatusOfRow DEF InProgress
    <3>4. CASE ReceivePull(only) \/ Dispatch(only) \/ HandleSignal(only)
      <4>1. Waits(only) \/ Ignores(only)
        BY <1>0, <2>0, <3>4, ReceivePullGoes, TryDispatchGoes, HandleSignalGoes DEF Dispatch, HandsOut
      <4>2. UNCHANGED tasks
        BY <1>0, <4>1 DEF Waits, Ignores
      <4> QED BY <2>2, <3>0, <4>2
    <3>5. CASE ReceiveSubscribe(only) \/ ReceiveCatalog(only)
      BY <2>2, <3>0, <3>5 DEF ReceiveSubscribe, ReceiveCatalog
    <3> QED BY <2>3, <3>1, <3>2, <3>3, <3>4, <3>5 DEF SessionStep
  <2>4. CASE InFlightTimeout(only)
    BY <1>0, <2>4, InFlightTimeoutGoes DEF Ignores
  <2>5. CASE Leave(only) \/ Close(only) \/ Connect(only) \/ ServerCrash
    BY <1>0, <2>5, LeaveGoes, CloseGoes, ConnectGoes, ServerCrashGoes DEF SessionGoes
  <2>6. ASSUME UNCHANGED ses
        PROVE  Live(only)
    BY <1>0, <2>6 DEF Live
  <2>7. CASE CreateTask
    <3>1. tasks'[id] = tasks[id] /\ UNCHANGED ses
      BY <1>0, <2>0, <2>7, OneMore, NewRowFacts, PlaneAssumption DEF CreateTask, Insert
    <3> QED BY <2>1, <2>6, <3>1
  <2>8. ASSUME NEW other \in DOMAIN tasks, CancelTask(other)
        PROVE  tasks'[id].status \in InProgress \/ IsCanceled(id)'
    <3>1. /\ tasks[other] \in Task /\ UNCHANGED ses
          /\ tasks' = [tasks EXCEPT ![other] = CanceledRow(tasks[other])]
      BY <1>0, <2>8, RowOfTable DEF CancelTask, Cancel
    <3>2. CASE other = id
      BY <2>0, <3>1, <3>2, StatusOfRow DEF IsCanceled
    <3>3. CASE other # id
      BY <2>0, <2>1, <2>6, <3>1, <3>3
    <3> QED BY <3>2, <3>3
  <2>9. CASE (\E note \in notices : Notify(note)) \/ Cut(only)
             \/ ReceiveAssign \/ ReceiveCancel \/ ReceiveClose \/ ClientError \/ OrphanExit
             \/ (\E outcome \in {"success", "failure"} : FinishTask(outcome)) \/ UNCHANGED vars
    <3>1. UNCHANGED <<tasks, ses>>
      BY <2>9 DEF Notify, Cut, ReceiveAssign, ReceiveCancel, ReceiveClose,
                  ClientError, Detach, OrphanExit, FinishTask, vars
    <3> QED BY <2>2, <2>6, <3>1
  <2> QED BY <2>3, <2>4, <2>5, <2>7, <2>8, <2>9, Steps
<1> QED BY <1>0, <1>1, <1>2, InFlightGoes DEF Ignores

\* When there is one slot, so that no session takes over from another, the two
\* views of the server agree on every task that a session waits for.
THEOREM ViewsAgree ==
    ASSUME NEW CONSTANT only, Slot = {only}
    PROVE  Spec => []InFlightInProgress
<1> DEFINE Inv == IInv /\ Alone /\ Agreed
<1>1. Init /\ IInv => Inv
  BY DEF Init, Alone, Agreed, Live, Closed
<1>2. Inv /\ [Next]_vars /\ IInv' => Inv'
  BY AloneKept, AgreedKept DEF IInv
<1>3. Inv => InFlightInProgress
  <2> SUFFICES ASSUME Inv, NEW s \in Slot, Live(s), ses[s].inflight # NoTask,
                      ~ses[s].inflight.ignored, NEW id, id = ses[s].inflight.id
               PROVE  \/ tasks[id].status \in InProgress
                      \/ /\ tasks[id].status = "canceled"
                         /\ Told(id) \in notices \/ \E i \in DOMAIN sig[s] : sig[s][i] = Told(id)
    BY DEF InFlightInProgress, Told
  <2>1. Holds(s, id) /\ id \in Id /\ registry = s
    BY TaskIds DEF Holds, IInv, Listed, Alone
  <2>2. tasks[id].status \in InProgress \/ IsCanceled(id)
    BY <2>1 DEF Agreed
  <2>3. IsCanceled(id) => OwedTo(s, id)
    BY <2>1 DEF IInv, Owed
  <2> QED BY <2>2, <2>3 DEF OwedTo, IsCanceled
<1> HIDE DEF Inv
<1> QED BY <1>1, <1>2, <1>3, Invariance, PTL DEF Spec
====================================================================================
