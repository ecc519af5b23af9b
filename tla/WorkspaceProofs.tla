--------------------------- MODULE WorkspaceProofs ---------------------------
(* The node workspace, for all nodes, slots and limits: types, the log and the       *)
(* dialogue that agree, failures that stay visible, and acceptances that stand.      *)
EXTENDS Workspace, DataProofs

-----------------------------------------------------------------------------
(* The invariant. *)

\* A refresh: where it is, and the answers it has.
Got  == [Part -> BOOLEAN \cup Seq(Snapshot) \cup Seq(Event) \cup {NoAnswer, NotOk}]
Call == [pc : {"idle", "fetching", "events", "tasks"}, got : Got]

\* The answer for each part is of its kind, and those a refresh still has to apply are
\* there.
CallOK(call) ==
    /\ call \in Call
    /\ call.got["node"] \in BOOLEAN \cup {NoAnswer, NotOk}
    /\ call.got["tasks"] \in Seq(Snapshot) \cup {NoAnswer, NotOk}
    /\ call.got["events"] \in Seq(Event) \cup {NoAnswer, NotOk}
    /\ call.pc = "events" => call.got["events"] # NoAnswer
    /\ call.pc \in {"events", "tasks"} => call.got["tasks"] # NoAnswer

Calls == refresh = [r \in Slot |-> refresh[r]] /\ \A r \in Slot : CallOK(refresh[r])

\* The types that TypeOK leaves open, and the bound of conns.
Types ==
    /\ feed \in [confirmed : Seq(Snapshot), pending : Seq(Pending)]
    /\ summary \in [node : BOOLEAN, command : BOOLEAN, events : Seq(Event)]
    /\ conns + steps <= MaxSteps

\* The script has no state before it starts and none is left when the page is.
Closed ==
    page # "open" =>
        /\ latestTasks = <<>> /\ pendingMessages = <<>> /\ feed.pending = <<>>
        /\ dialogStatus = "none" /\ sending.pc = "idle" /\ reply = "none"
        /\ \A r \in Slot : refresh[r] = Idle

\* The log and the dialogue are drawn from latestTasks once it holds tasks.
Drawn == latestTasks # <<>> => log = latestTasks /\ feed.confirmed = ScriptFeed(latestTasks, FeedShown)

\* The message that is on its way has not failed, and what the dialogue shows as
\* failed is still in the script's list.
Bubbles ==
    /\ sending.pc = "posting" =>
          /\ dialogStatus = "muted"
          /\ \A message \in ToSet(pendingMessages) : message.id = sending.id => message.kind = "pending"
    /\ \A message \in ToSet(pendingMessages) : message.id <= sending.id
    /\ Errors(feed.pending) \subseteq Errors(pendingMessages)

\* A page without a command sends nothing, so it has nothing to report either.
Options == ~summary.command => dialogStatus \in {"none", "unseen"} /\ sending.pc = "idle"

IInv == TypeOK /\ Types /\ Calls /\ Closed /\ Drawn /\ Bubbles /\ Options

-----------------------------------------------------------------------------
(* The lists that are read and drawn. *)

\* list_tasks_for_node answers with the newest tasks of the node and with no others, the
\* newest first, and leaves out none that is newer than one that it shows.
THEOREM NewestTasks ==
    ASSUME NEW t \in Table, NEW n, NEW limit \in Nat
    PROVE  /\ ListTasksForNode(t, n, limit) \in Seq(Snapshot)
           /\ Latest(ListTasksForNode(t, n, limit), Len(t), {id \in DOMAIN t : t[id].node = n},
                     ListTasks(t), limit)
<1> DEFINE good  == {id \in DOMAIN t : t[id].node = n}
           value == ListTasks(t)
           list  == ListTasksForNode(t, n, limit)
<1>1. Len(t) \in Nat /\ DOMAIN t = 1..Len(t) /\ \A i \in 1..Len(t) : Len(t) + 1 - i \in 1..Len(t)
  BY DEF Table
<1>2. \A id \in DOMAIN t : value[id] = SnapshotOf(t, id) /\ value[id] \in Snapshot
  BY RowOfTable DEF ListTasks, SnapshotOf, Snapshot, Task
<1>3. [i \in 1..Len(t) |-> IF t[Len(t) + 1 - i].node = n
                           THEN <<SnapshotOf(t, Len(t) + 1 - i)>> ELSE <<>>]
         = [i \in 1..Len(t) |-> IF Len(t) + 1 - i \in good
                                THEN <<value[Len(t) + 1 - i]>> ELSE <<>>]
  BY <1>1, <1>2
<1>4. list = FirstOf(Joined(Len(t), [i \in 1..Len(t) |-> IF Len(t) + 1 - i \in good
                                     THEN <<value[Len(t) + 1 - i]>> ELSE <<>>]), limit)
  BY <1>3 DEF ListTasksForNode, Newest
<1> HIDE DEF good, value, list
<1>5. list \in Seq(Snapshot) /\ Latest(list, Len(t), good, value, limit)
  BY <1>1, <1>2, <1>4, LatestOfNewest
<1> QED
  BY <1>5 DEF good, value, list

\* Likewise list_session_events_for_node, with the events of the node.
THEOREM NewestEvents ==
    ASSUME NEW log_ \in Seq(Event), NEW n, NEW limit \in Nat
    PROVE  /\ ListSessionEventsForNode(log_, n, limit) \in Seq(Event)
           /\ Latest(ListSessionEventsForNode(log_, n, limit), Len(log_),
                     {id \in DOMAIN log_ : log_[id].node = n}, log_, limit)
<1> DEFINE good == {id \in DOMAIN log_ : log_[id].node = n}
           list == ListSessionEventsForNode(log_, n, limit)
<1>1. /\ Len(log_) \in Nat /\ DOMAIN log_ = 1..Len(log_)
      /\ \A i \in 1..Len(log_) : Len(log_) + 1 - i \in 1..Len(log_) /\ log_[i] \in Event
  OBVIOUS
<1>3. [i \in 1..Len(log_) |-> IF log_[Len(log_) + 1 - i].node = n
                              THEN <<log_[Len(log_) + 1 - i]>> ELSE <<>>]
         = [i \in 1..Len(log_) |-> IF Len(log_) + 1 - i \in good
                                   THEN <<log_[Len(log_) + 1 - i]>> ELSE <<>>]
  BY <1>1
<1>4. list = FirstOf(Joined(Len(log_), [i \in 1..Len(log_) |-> IF Len(log_) + 1 - i \in good
                                        THEN <<log_[Len(log_) + 1 - i]>> ELSE <<>>]), limit)
  BY <1>3 DEF ListSessionEventsForNode, Newest
<1> HIDE DEF good, list
<1>5. list \in Seq(Event) /\ Latest(list, Len(log_), good, log_, limit)
  BY <1>1, <1>4, LatestOfNewest
<1> QED
  BY <1>5 DEF good, list

\* A clamped limit is a number.
LEMMA LimitRead ==
    ASSUME NEW limit \in Nat
    PROVE  PageLimit(limit) \in Nat
<1>1. MaxLimit \in Nat /\ DefaultLimit \in Nat
  BY ReadsAssumption
<1>2. Min({limit, MaxLimit}) \in Nat
  BY <1>1, MinMax
<1>3. Max({1, Min({limit, MaxLimit})}) \in Nat
  <2> DEFINE m == Min({limit, MaxLimit})
  <2> HIDE DEF m
  <2>1. m \in Nat
    BY <1>2 DEF m
  <2>2. Max({1, m}) = IF 1 <= m THEN m ELSE 1
    BY MinMax, <2>1
  <2>3. Max({1, m}) \in Nat
    BY <2>1, <2>2
  <2> QED
    BY <2>3 DEF m
<1> QED
  BY <1>1, <1>3 DEF PageLimit

\* The feed that the script draws, the newest last.
LEMMA FeedDrawn ==
    ASSUME NEW list \in Seq(Snapshot)
    PROVE  /\ ScriptFeed(list, FeedShown) \in Seq(Snapshot)
           /\ Len(ScriptFeed(list, FeedShown)) = Min({FeedShown, Len(list)})
           /\ ScriptFeed(list, FeedShown) =
                 [i \in 1..Len(ScriptFeed(list, FeedShown)) |->
                     list[Len(ScriptFeed(list, FeedShown)) + 1 - i]]
<1> DEFINE back == Reverse(list)
           feed_ == LastOf(back, FeedShown)
           m == IF FeedShown <= Len(list) THEN FeedShown ELSE Len(list)
<1>0. FeedShown \in Nat /\ Len(list) \in Nat
  BY WorkspaceAssumption
<1>1. /\ back \in Seq(Snapshot) /\ Len(back) = Len(list)
      /\ \A i \in 1..Len(list) : back[i] = list[Len(list) - i + 1]
  BY ReverseOfList
<1>2. m \in Nat /\ m <= Len(list) /\ Min({FeedShown, Len(list)}) = m
  BY <1>0, MinMax
<1> HIDE DEF back
<1>3. /\ feed_ \in Seq(Snapshot) /\ Len(feed_) = m
      /\ \A i \in 1..Len(feed_) : feed_[i] = back[Len(back) - Len(feed_) + i]
  BY <1>0, <1>1, LastOfList
<1> HIDE DEF feed_, m
<1>4. \A i \in 1..m : /\ Len(list) - m + i \in 1..Len(list)
                      /\ Len(list) - (Len(list) - m + i) + 1 = m + 1 - i
  BY <1>0, <1>2
<1>5. ASSUME NEW i \in 1..m
      PROVE  feed_[i] = list[m + 1 - i]
  <2>1. /\ Len(list) - m + i \in 1..Len(list)
        /\ Len(list) - (Len(list) - m + i) + 1 = m + 1 - i
    BY <1>4
  <2>2. feed_[i] = back[Len(list) - m + i]
    BY <1>1, <1>3
  <2>3. back[Len(list) - m + i] = list[Len(list) - (Len(list) - m + i) + 1]
    BY <1>1, <2>1, Zenon
  <2> QED BY <2>1, <2>2, <2>3, Zenon
<1>6. feed_ = [i \in 1..m |-> feed_[i]]
  BY <1>2, <1>3
<1>7. feed_ = [i \in 1..m |-> list[m + 1 - i]]
  BY <1>5, <1>6
<1>8. ScriptFeed(list, FeedShown) = feed_
  BY DEF ScriptFeed, feed_, back
<1> QED
  BY <1>2, <1>3, <1>7, <1>8

\* The feed of the rendered page.
LEMMA FeedRendered ==
    ASSUME NEW list \in Seq(Snapshot)
    PROVE  RenderedFeed(list, FeedShown) \in Seq(Snapshot)
<1>1. FeedShown \in Nat
  BY WorkspaceAssumption
<1>2. Reverse(list) \in Seq(Snapshot)
  BY ReverseOfList
<1> QED
  BY <1>1, <1>2, FirstOfList DEF RenderedFeed

\* The messages that Without leaves are messages of the list.
LEMMA WithoutLeaves ==
    ASSUME NEW id, pendingMessages \in Seq(Pending)
    PROVE  Without(id) \in Seq(Pending) /\ ToSet(Without(id)) \subseteq ToSet(pendingMessages)
                /\ \A message \in ToSet(pendingMessages) : message.id # id => message \in ToSet(Without(id))
<1> DEFINE n == Len(pendingMessages)
           pieces == [i \in DOMAIN pendingMessages |-> IF pendingMessages[i].id # id
                                                       THEN <<pendingMessages[i]>> ELSE <<>>]
           left == Joined(n, pieces)
<1>1. n \in Nat /\ DOMAIN pendingMessages = 1..n /\ \A i \in 1..n : pendingMessages[i] \in Pending
  OBVIOUS
<1>2. Pieces(n, pieces, Pending)
  BY <1>1 DEF Pieces
<1>3. Without(id) = left
  BY DEF Without, Where
<1>4. PICK place \in [1..Len(left) -> 1..n] :
         /\ left \in Seq(Pending)
         /\ \A k \in 1..Len(left) : pieces[place[k]] = <<left[k]>>
         /\ \A i \in 1..n : pieces[i] # <<>> => \E k \in 1..Len(left) : place[k] = i
  <2>1. Assembled(left, n, pieces, Pending)
    BY <1>1, <1>2, JoinedAssembled
  <2> HIDE DEF left, pieces, n
  <2> QED
    BY <2>1, Zenon DEF Assembled
<1>5. \A k \in 1..Len(left) : left[k] = pendingMessages[place[k]]
  <2> TAKE k \in 1..Len(left)
  <2>1. place[k] \in 1..n /\ pieces[place[k]] = <<left[k]>>
    BY <1>4
  <2>2. pieces[place[k]] = <<>> \/ pieces[place[k]] = <<pendingMessages[place[k]]>>
    BY <1>1, <2>1
  <2> HIDE DEF pieces, left
  <2> QED
    BY <2>1, <2>2
<1>6. \A i \in 1..n : pendingMessages[i].id # id => pieces[i] # <<>>
  BY <1>1
<1> HIDE DEF pieces, left
<1>a. DOMAIN left = 1..Len(left)
  BY <1>4
<1>7. ToSet(left) \subseteq ToSet(pendingMessages)
  <2>1. \A k \in DOMAIN left : \E i \in DOMAIN pendingMessages : left[k] = pendingMessages[i]
    BY <1>a, <1>1, <1>4, <1>5
  <2> QED
    BY <2>1, Zenon DEF ToSet
<1>8. ASSUME NEW message \in ToSet(pendingMessages), message.id # id
      PROVE  message \in ToSet(left)
  <2>1. PICK i \in 1..n : pendingMessages[i] = message
    BY <1>1 DEF ToSet
  <2>2. PICK k \in 1..Len(left) : place[k] = i
    BY <1>4, <1>6, <1>8, <2>1
  <2>3. left[k] = message
    BY <1>5, <2>1, <2>2
  <2> QED
    BY <1>4, <2>3 DEF ToSet
<1> QED
  BY <1>3, <1>4, <1>7, <1>8

-----------------------------------------------------------------------------
(* Steps. *)

\* The steps of Next, one by one.
LEMMA Steps ==
    ASSUME [Next]_vars
    PROVE  \/ TaskMoves \/ SessionChanges \/ CatalogShrinks
           \/ OpenPage \/ PageReadsNode \/ PageReadsTasks \/ PageOpens
           \/ FormSubmit \/ CancelSubmit \/ SubmitComposer \/ SubmitNothing
           \/ \E id \in inbox : CreateTask(id)
           \/ Accepted \/ Rejected \/ SubmitFails
           \/ \E r \in Slot : \/ Tick(r) \/ ApplyNode(r) \/ ApplyEvents(r) \/ ApplyTasks(r)
                              \/ Abandon(r)
                              \/ \E part \in Part : Serve(r, part) \/ ServeNotOk(r, part)
           \/ UNCHANGED vars
BY DEF Next, ServerStep, Load, Handle, Settle, Run, Fails

\* A call that is over.
LEMMA IdleCall == CallOK(Idle)
BY DEF CallOK, Idle, Call, Got, Part

\* A call that starts.
LEMMA CallStarts ==
    ASSUME NEW call, CallOK(call)
    PROVE  CallOK([call EXCEPT !.pc = "fetching"])
BY DEF CallOK, Call

\* What an answer for each part may be.
AnswerOK(part, answer) ==
    \/ answer \in {NoAnswer, NotOk}
    \/ part = "node" /\ answer \in BOOLEAN
    \/ part = "tasks" /\ answer \in Seq(Snapshot)
    \/ part = "events" /\ answer \in Seq(Event)

\* A call whose answer for a part is set.
Answered(call, part, answer) == [call EXCEPT !.got[part] = answer]

\* What changes when an answer is set.
LEMMA GotChanges ==
    ASSUME NEW call, CallOK(call), NEW part \in Part, NEW answer, AnswerOK(part, answer)
    PROVE  LET next == Answered(call, part, answer) IN
           /\ next \in Call /\ next.pc = call.pc /\ next.got[part] = answer
           /\ \A other \in Part \ {part} : next.got[other] = call.got[other]
<1> DEFINE next == Answered(call, part, answer)
<1>1. call \in Call /\ DOMAIN call.got = Part /\ call.got \in Got
  BY DEF CallOK, Call, Got
<1> DEFINE got == [call.got EXCEPT ![part] = answer]
<1>2. next = [call EXCEPT !.got = got]
  BY <1>1 DEF Answered
<1>3. answer \in BOOLEAN \cup Seq(Snapshot) \cup Seq(Event) \cup {NoAnswer, NotOk}
  BY Zenon DEF AnswerOK
<1>4. got \in Got /\ got[part] = answer /\ \A other \in Part \ {part} : got[other] = call.got[other]
  BY <1>1, <1>3 DEF Got
<1> HIDE DEF got, next
<1>5. next \in Call /\ next.pc = call.pc /\ next.got = got
  BY <1>1, <1>2, <1>4 DEF Call
<1> QED
  BY <1>4, <1>5 DEF next

\* An answer arrives.
LEMMA AnswerArrives ==
    ASSUME NEW call, CallOK(call), call.pc = "fetching", NEW part \in Part, NEW answer,
           AnswerOK(part, answer)
    PROVE  CallOK([call EXCEPT !.got[part] = answer])
<1> DEFINE next == Answered(call, part, answer)
<1>1. /\ next \in Call /\ next.pc = call.pc /\ next.got[part] = answer
      /\ \A other \in Part \ {part} : next.got[other] = call.got[other]
  <2>1. next \in Call
    BY GotChanges
  <2>2. next.pc = call.pc
    BY GotChanges
  <2>3. next.got[part] = answer
    BY GotChanges
  <2>4. \A other \in Part \ {part} : next.got[other] = call.got[other]
    BY GotChanges
  <2> QED
    BY <2>1, <2>2, <2>3, <2>4
<1> HIDE DEF next
<1>2. /\ next.got["node"] \in BOOLEAN \cup {NoAnswer, NotOk}
      /\ next.got["tasks"] \in Seq(Snapshot) \cup {NoAnswer, NotOk}
      /\ next.got["events"] \in Seq(Event) \cup {NoAnswer, NotOk}
  <2>1. CASE part = "node"
    BY <1>1, <2>1, Zenon DEF Part, AnswerOK, CallOK
  <2>2. CASE part = "tasks"
    BY <1>1, <2>2, Zenon DEF Part, AnswerOK, CallOK
  <2>3. CASE part = "events"
    BY <1>1, <2>3, Zenon DEF Part, AnswerOK, CallOK
  <2> QED
    BY <2>1, <2>2, <2>3 DEF Part
<1>3. CallOK(next)
  BY <1>1, <1>2, Zenon DEF CallOK
<1> QED
  BY <1>3 DEF Answered, next

\* A part is applied: the call goes on to the next, and its answer is spent.
LEMMA PartApplied ==
    ASSUME NEW call, CallOK(call), NEW part \in {"node", "events"},
           part = "node" => call.got["events"] # NoAnswer,
           call.got["tasks"] # NoAnswer
    PROVE  CallOK([call EXCEPT !.pc = IF part = "node" THEN "events" ELSE "tasks",
                               !.got[part] = NoAnswer])
<1> DEFINE pc   == IF part = "node" THEN "events" ELSE "tasks"
           step == Answered(call, part, NoAnswer)
           next == [step EXCEPT !.pc = pc]
<1>0. AnswerOK(part, NoAnswer) /\ part \in Part
  BY DEF AnswerOK, Part
<1>1. /\ step \in Call /\ step.got[part] = NoAnswer
      /\ \A other \in Part \ {part} : step.got[other] = call.got[other]
  <2>1. step \in Call
    BY <1>0, GotChanges
  <2>2. step.got[part] = NoAnswer
    BY <1>0, GotChanges
  <2>3. \A other \in Part \ {part} : step.got[other] = call.got[other]
    BY <1>0, GotChanges
  <2> QED
    BY <2>1, <2>2, <2>3
<1>2. next = [call EXCEPT !.pc = pc, !.got[part] = NoAnswer]
  BY DEF CallOK, Call, Answered
<1> HIDE DEF step
<1>3. next \in Call /\ next.pc = pc /\ next.got = step.got /\ pc \in {"events", "tasks"}
  BY <1>1 DEF Call
<1>a. pc = "events" => part = "node"
  OBVIOUS
<1> HIDE DEF next, pc
<1>4. /\ next.got["node"] \in BOOLEAN \cup {NoAnswer, NotOk}
      /\ next.got["tasks"] \in Seq(Snapshot) \cup {NoAnswer, NotOk}
      /\ next.got["events"] \in Seq(Event) \cup {NoAnswer, NotOk}
      /\ next.got["tasks"] # NoAnswer
      /\ part = "node" => next.got["events"] # NoAnswer
  <2>1. CASE part = "node"
    BY <1>1, <1>3, <2>1, Zenon DEF Part, CallOK
  <2>2. CASE part = "events"
    BY <1>1, <1>3, <2>2, Zenon DEF Part, CallOK
  <2> QED
    BY <2>1, <2>2
<1>5. CallOK(next)
  BY <1>3, <1>a, <1>4, Zenon DEF CallOK
<1> QED
  BY <1>2, <1>5 DEF next, pc

\* One call changes.
LEMMA CallsChange ==
    ASSUME Calls, NEW r \in Slot, NEW call, CallOK(call), refresh' = [refresh EXCEPT ![r] = call]
    PROVE  Calls' /\ refresh'[r] = call /\ \A s \in Slot \ {r} : refresh'[s] = refresh[s]
<1>1. refresh = [s \in Slot |-> refresh[s]] /\ \A s \in Slot : CallOK(refresh[s])
  BY DEF Calls
<1>2. refresh' = [s \in Slot |-> IF s = r THEN call ELSE refresh[s]]
  BY <1>1
<1>3. refresh'[r] = call /\ \A s \in Slot \ {r} : refresh'[s] = refresh[s]
  BY <1>2
<1>4. \A s \in Slot : CallOK(refresh'[s])
  BY <1>1, <1>3
<1>5. refresh' = [s \in Slot |-> refresh'[s]]
  BY <1>2
<1> QED
  BY <1>3, <1>4, <1>5 DEF Calls

\* The tables that the server's steps leave are tables.
LEMMA ServerTables ==
    ASSUME tasks \in Table
    PROVE  /\ Insert(tasks, ThisNode) \in Table
           /\ QueuedFor(tasks, ThisNode) # {} => Claim(tasks, ThisNode) \in Table
           /\ \A id \in DOMAIN tasks : /\ Cancel(tasks, id) \in Table
                                      /\ SubmitResult(tasks, id, ThisNode, "success") \in Table
<1>0. ThisNode \in Node
  BY WorkspaceAssumption
<1>1. ASSUME NEW u, TableStep(tasks, u) PROVE u \in Table
  BY <1>1, StepTable
<1>2. TableStep(tasks, Insert(tasks, ThisNode))
  BY <1>0 DEF TableStep
<1>3. QueuedFor(tasks, ThisNode) # {} => TableStep(tasks, Claim(tasks, ThisNode))
  BY <1>0 DEF TableStep, RowStep
<1>4. ASSUME NEW id \in DOMAIN tasks
      PROVE  /\ TableStep(tasks, Cancel(tasks, id))
             /\ TableStep(tasks, SubmitResult(tasks, id, ThisNode, "success"))
  BY <1>0 DEF TableStep, RowStep, NamedStep
<1> QED
  BY <1>1, <1>2, <1>3, <1>4

\* The server's own variables and the bounds.
LEMMA ServerNext ==
    ASSUME TypeOK, Types, [Next]_vars
    PROVE  /\ tasks' \in Table /\ conns' \in 0..MaxSteps /\ offered' \in BOOLEAN
           /\ steps' \in 0..MaxSteps /\ failures' \in 0..MaxFailures
           /\ conns' + steps' <= MaxSteps
<1> DEFINE OK == /\ tasks' \in Table /\ conns' \in 0..MaxSteps /\ offered' \in BOOLEAN
                 /\ steps' \in 0..MaxSteps /\ failures' \in 0..MaxFailures
                 /\ conns' + steps' <= MaxSteps
<1>0. /\ tasks \in Table /\ conns \in 0..MaxSteps /\ offered \in BOOLEAN
      /\ steps \in 0..MaxSteps /\ failures \in 0..MaxFailures
      /\ conns + steps <= MaxSteps /\ MaxSteps \in Nat /\ MaxFailures \in Nat
  BY WorkspaceAssumption DEF TypeOK, Types, Table
<1>1. CASE TaskMoves
  BY <1>0, <1>1, ServerTables DEF TaskMoves
<1>2. CASE SessionChanges
  BY <1>0, <1>2 DEF SessionChanges
<1>3. CASE CatalogShrinks
  <2>1. offered' \in BOOLEAN
    BY <1>3, Zenon DEF CatalogShrinks
  <2>2. /\ tasks' = tasks /\ conns' = conns /\ failures' = failures
        /\ steps > 0 /\ steps' = steps - 1
    BY <1>3, Zenon DEF CatalogShrinks
  <2> QED
    BY <1>0, <2>1, <2>2
<1>4. CASE FormSubmit
  BY <1>0, <1>4, ServerTables DEF FormSubmit
<1>5. CASE CancelSubmit
  <2>1. tasks' \in Table
    <3>1. PICK i \in DOMAIN log : tasks' = Cancel(tasks, log[i].id)
      BY <1>5 DEF CancelSubmit
    <3>2. CASE log[i].id \in DOMAIN tasks
      BY <1>0, <3>1, <3>2, ServerTables
    <3>3. CASE log[i].id \notin DOMAIN tasks
      BY <1>0, <3>1, <3>3 DEF Cancel
    <3> QED
      BY <3>2, <3>3
  <2> QED
    BY <1>0, <1>5, <2>1 DEF CancelSubmit
<1>6. ASSUME NEW id \in inbox, CreateTask(id) PROVE OK
  BY <1>0, <1>6, ServerTables DEF CreateTask, budget
<1>7. CASE SubmitFails
  BY <1>0, <1>7 DEF SubmitFails, serverVars
<1>8. ASSUME NEW r \in Slot, NEW part \in Part, ServeNotOk(r, part) PROVE OK
  BY <1>0, <1>8 DEF ServeNotOk, serverVars
<1>9. ASSUME NEW r \in Slot, Abandon(r) PROVE OK
  BY <1>0, <1>9 DEF Abandon, serverVars
<1>10. CASE UNCHANGED <<serverVars, budget>>
  BY <1>0, <1>10 DEF serverVars, budget
<1>11. \/ TaskMoves \/ SessionChanges \/ CatalogShrinks \/ FormSubmit \/ CancelSubmit
       \/ \E id \in inbox : CreateTask(id)
       \/ SubmitFails \/ (\E r \in Slot, part \in Part : ServeNotOk(r, part))
       \/ (\E r \in Slot : Abandon(r)) \/ UNCHANGED <<serverVars, budget>>
  <2>1. OpenPage \/ PageReadsNode \/ PageReadsTasks \/ PageOpens \/ SubmitComposer
        \/ SubmitNothing \/ Accepted \/ Rejected \/ UNCHANGED vars => UNCHANGED <<serverVars, budget>>
    BY DEF OpenPage, PageReadsNode, PageReadsTasks, PageOpens, SubmitComposer, SubmitNothing,
           Accepted, Rejected, vars
  <2>2. \A r \in Slot : Tick(r) \/ ApplyNode(r) \/ ApplyEvents(r) \/ ApplyTasks(r)
           \/ (\E part \in Part : Serve(r, part)) => UNCHANGED <<serverVars, budget>>
    BY DEF Tick, ApplyNode, ApplyEvents, ApplyTasks, Serve
  <2> QED
    BY <2>1, <2>2, Steps, Zenon
<1> QED
  BY <1>1, <1>2, <1>3, <1>4, <1>5, <1>6, <1>7, <1>8, <1>9, <1>10, <1>11, Zenon

\* The node's events are a list of events.
LEMMA EventsTyped ==
    ASSUME TypeOK
    PROVE  Events \in Seq(Event)
<1>1. conns \in Nat /\ ThisNode \in Node
  BY WorkspaceAssumption DEF TypeOK
<1>2. \A i \in 1..conns : [node |-> ThisNode, kind |-> IF i % 2 = 1 THEN "session_opened"
                                                       ELSE "session_closed"] \in Event
  BY <1>1 DEF Event, EventKind
<1>3. Events \in [1..conns -> Event]
  BY <1>2 DEF Events
<1>4. \A n \in Nat : \A f \in [1..n -> Event] : f \in Seq(Event)
  OBVIOUS
<1> QED
  BY <1>1, <1>3, <1>4

\* What the GET handlers answer is of the kind that was asked for.
LEMMA AnswerFits ==
    ASSUME TypeOK, NEW part \in Part
    PROVE  AnswerOK(part, Answer(part))
<1>0. /\ tasks \in Table /\ conns \in Nat
      /\ TasksShown \in Nat /\ EventsShown \in Nat /\ ThisNode \in Node
  BY WorkspaceAssumption DEF TypeOK, Table
<1>1. Events \in Seq(Event)
  BY EventsTyped
<1>2. CASE part = "node"
  BY <1>2 DEF AnswerOK, Answer, Online
<1>3. CASE part = "tasks"
  <2>1. NodeTasksAnswer(tasks, ThisNode, TasksShown) \in Seq(Snapshot)
    BY <1>0, LimitRead, NewestTasks DEF NodeTasksAnswer
  <2> QED
    BY <1>3, <2>1 DEF AnswerOK, Answer
<1>4. CASE part = "events"
  <2>1. NodeEventsAnswer(Events, ThisNode, EventsShown) \in Seq(Event)
    BY <1>0, <1>1, LimitRead, NewestEvents DEF NodeEventsAnswer
  <2> QED
    BY <1>4, <2>1 DEF AnswerOK, Answer
<1> QED
  BY <1>2, <1>3, <1>4 DEF Part

\* The refreshes, and the one that submitComposer awaits.
LEMMA CallsNext ==
    ASSUME TypeOK, Calls, Closed, [Next]_vars
    PROVE  Calls' /\ (sending'.pc = "refreshing" <=> refresh'[Own].pc # "idle")
<1> DEFINE OK == Calls' /\ (sending'.pc = "refreshing" <=> refresh'[Own].pc # "idle")
<1>0. /\ Own \in Slot
      /\ sending \in [pc : {"idle", "posting", "refreshing"}, id : 0..MaxSubmits]
      /\ sending.pc = "refreshing" <=> refresh[Own].pc # "idle"
      /\ \A r \in Slot : CallOK(refresh[r])
  BY WorkspaceAssumption DEF TypeOK, Calls
<1>1. CASE UNCHANGED <<sending, refresh>>
  BY <1>0, <1>1 DEF Calls
<1>2. CASE CancelSubmit
  <2>1. refresh' = [r \in Slot |-> Idle] /\ sending' = Settled
    BY <1>2 DEF CancelSubmit
  <2>2. Calls'
    BY <2>1, IdleCall DEF Calls
  <2>3. refresh'[Own].pc = "idle" /\ sending'.pc = "idle"
    BY <1>0, <2>1 DEF Settled, Idle
  <2> QED
    BY <2>2, <2>3
<1>3. ASSUME NEW r \in Slot, NEW call, CallOK(call), refresh' = [refresh EXCEPT ![r] = call],
             \/ r # Own /\ sending' = sending
             \/ call.pc # "idle" /\ refresh[r].pc # "idle" /\ sending' = sending
             \/ call.pc = "idle" /\ sending' = Returned(r)
      PROVE  OK
  <2>1. Calls' /\ refresh'[r] = call /\ \A s \in Slot \ {r} : refresh'[s] = refresh[s]
    BY <1>3, CallsChange
  <2>2. CASE r # Own
    BY <1>0, <1>3, <2>1, <2>2 DEF Returned
  <2>3. CASE r = Own /\ sending' = sending /\ call.pc # "idle" /\ refresh[r].pc # "idle"
    BY <1>0, <2>1, <2>3
  <2>4. CASE r = Own /\ call.pc = "idle" /\ sending' = Returned(r)
    BY <1>0, <2>1, <2>4 DEF Returned, Settled
  <2> QED
    BY <1>3, <2>2, <2>3, <2>4
<1>4. CASE PageOpens
  <2>1. PICK r \in Slot \ {Own} :
           refresh' = [refresh EXCEPT ![r] = [refresh[r] EXCEPT !.pc = "fetching"]]
    BY <1>4 DEF PageOpens
  <2>2. CallOK([refresh[r] EXCEPT !.pc = "fetching"]) /\ sending' = sending
    BY <1>0, <1>4, CallStarts DEF PageOpens
  <2> QED
    BY <1>3, <2>1, <2>2
<1>5. ASSUME NEW r \in Slot, Tick(r) PROVE OK
  <2>1. /\ refresh' = [refresh EXCEPT ![r] = [refresh[r] EXCEPT !.pc = "fetching"]]
        /\ r # Own /\ sending' = sending
    BY <1>5 DEF Tick
  <2>2. CallOK([refresh[r] EXCEPT !.pc = "fetching"])
    BY <1>0, CallStarts
  <2> QED
    BY <1>3, <2>1, <2>2
<1>6. ASSUME NEW r \in Slot, NEW part \in Part, NEW answer, AnswerOK(part, answer),
             refresh[r].pc = "fetching", sending' = sending,
             refresh' = [refresh EXCEPT ![r] = [refresh[r] EXCEPT !.got[part] = answer]]
      PROVE  OK
  <2>1. CallOK([refresh[r] EXCEPT !.got[part] = answer])
    BY <1>0, <1>6, AnswerArrives
  <2>2. [refresh[r] EXCEPT !.got[part] = answer].pc = "fetching"
    BY <1>0, <1>6 DEF CallOK, Call
  <2>3. [refresh[r] EXCEPT !.got[part] = answer].pc # "idle" /\ refresh[r].pc # "idle"
    BY <1>6, <2>2
  <2> DEFINE call == [refresh[r] EXCEPT !.got[part] = answer]
  <2>4. CallOK(call) /\ call.pc # "idle" /\ refresh' = [refresh EXCEPT ![r] = call]
    BY <1>6, <2>1, <2>3
  <2> HIDE DEF call
  <2> QED
    BY <1>3, <1>6, <2>3, <2>4
<1>7. ASSUME NEW r \in Slot, NEW part \in Part, Serve(r, part) PROVE OK
  <2>1. AnswerOK(part, Answer(part))
    BY AnswerFits
  <2> QED
    BY <1>6, <1>7, <2>1 DEF Serve
<1>8. ASSUME NEW r \in Slot, NEW part \in Part, ServeNotOk(r, part) PROVE OK
  <2>1. AnswerOK(part, NotOk)
    BY DEF AnswerOK
  <2> QED
    BY <1>6, <1>8, <2>1 DEF ServeNotOk
<1>9. ASSUME NEW r \in Slot, Abandon(r) \/ ApplyTasks(r) PROVE OK
  <2>1. refresh' = [refresh EXCEPT ![r] = Idle] /\ sending' = Returned(r)
    BY <1>9 DEF Abandon, ApplyTasks
  <2>2. CallOK(Idle) /\ Idle.pc = "idle"
    BY IdleCall DEF Idle
  <2> QED
    BY <1>3, <2>1, <2>2
<1>10. ASSUME NEW r \in Slot, NEW call, CallOK(call), call.pc # "idle", refresh[r].pc # "idle",
              refresh' = [refresh EXCEPT ![r] = call], sending' = sending
       PROVE  OK
  BY <1>3, <1>10
<1>11. ASSUME NEW r \in Slot, ApplyNode(r) PROVE OK
  <2> DEFINE call == [refresh[r] EXCEPT !.pc = "events", !.got["node"] = NoAnswer]
  <2>1. CallOK(call)
    <3>1. refresh[r].got["events"] # NoAnswer /\ refresh[r].got["tasks"] # NoAnswer
      BY <1>11 DEF ApplyNode, Part
    <3> QED
      BY <1>0, <3>1, PartApplied
  <2>2. call.pc = "events" /\ refresh[r].pc = "fetching"
    BY <1>0, <1>11 DEF CallOK, Call, ApplyNode
  <2>3. refresh' = [refresh EXCEPT ![r] = call] /\ sending' = sending
    BY <1>11 DEF ApplyNode
  <2> HIDE DEF call
  <2> QED
    BY <1>10, <2>1, <2>2, <2>3
<1>12. ASSUME NEW r \in Slot, ApplyEvents(r) PROVE OK
  <2> DEFINE call == [refresh[r] EXCEPT !.pc = "tasks", !.got["events"] = NoAnswer]
  <2>1. CallOK(call)
    <3>1. refresh[r].got["tasks"] # NoAnswer
      BY <1>0, <1>12 DEF ApplyEvents, CallOK
    <3> QED
      BY <1>0, <3>1, PartApplied
  <2>2. call.pc = "tasks" /\ refresh[r].pc = "events"
    BY <1>0, <1>12 DEF CallOK, Call, ApplyEvents
  <2>3. refresh' = [refresh EXCEPT ![r] = call] /\ sending' = sending
    BY <1>12 DEF ApplyEvents
  <2> HIDE DEF call
  <2> QED
    BY <1>10, <2>1, <2>2, <2>3
<1>13. CASE Accepted
  <2>1. /\ refresh' = [refresh EXCEPT ![Own] = [refresh[Own] EXCEPT !.pc = "fetching"]]
        /\ sending' = [sending EXCEPT !.pc = "refreshing"]
    BY <1>13 DEF Accepted
  <2>2. CallOK([refresh[Own] EXCEPT !.pc = "fetching"])
        /\ [refresh[Own] EXCEPT !.pc = "fetching"].pc = "fetching"
    BY <1>0, CallStarts DEF CallOK, Call
  <2>3. Calls' /\ refresh'[Own].pc = "fetching"
    BY <1>0, <2>1, <2>2, CallsChange
  <2> QED
    BY <1>0, <2>1, <2>3
<1>14. ASSUME refresh' = refresh,
              \/ sending.pc = "idle" /\ sending' = [pc |-> "posting", id |-> sending.id + 1]
              \/ sending.pc = "posting" /\ sending' = Settled
       PROVE  OK
  BY <1>0, <1>14 DEF Calls, Settled
<1>15. CASE SubmitComposer
  BY <1>14, <1>15 DEF SubmitComposer
<1>16. CASE Rejected \/ SubmitFails
  BY <1>14, <1>16 DEF Rejected, SubmitFails, AfterRejection
<1>17. \/ TaskMoves \/ SessionChanges \/ CatalogShrinks \/ OpenPage \/ PageReadsNode
       \/ PageReadsTasks \/ FormSubmit \/ SubmitNothing
       \/ (\E id \in inbox : CreateTask(id)) \/ UNCHANGED vars
       => UNCHANGED <<sending, refresh>>
  BY DEF TaskMoves, SessionChanges, CatalogShrinks, OpenPage, PageReadsNode, PageReadsTasks,
         FormSubmit, SubmitNothing, CreateTask, vars
<1> QED
  BY <1>1, <1>2, <1>4, <1>5, <1>7, <1>8, <1>9, <1>11, <1>12, <1>13, <1>15, <1>16, <1>17, Steps,
     Zenon

\* The types of what the browser has.
Shown ==
    /\ page \in {"closed", "node", "tasks", "events", "open"}
    /\ log \in Seq(Snapshot) /\ latestTasks \in Seq(Snapshot)
    /\ feed \in [confirmed : Seq(Snapshot), pending : Seq(Pending)]
    /\ summary \in [node : BOOLEAN, command : BOOLEAN, events : Seq(Event)]
    /\ pendingMessages \in Seq(Pending)
    /\ dialogStatus \in {"none", "unseen", "muted", "success", "error"}
    /\ sending \in [pc : {"idle", "posting", "refreshing"}, id : 0..MaxSubmits]
    /\ inbox \subseteq 1..MaxSubmits
    /\ reply \in {"none", "created", "rejected"}

\* Nothing is shown by a page that was left.
LEMMA NothingShown ==
    /\ <<>> \in Seq(Snapshot) /\ <<>> \in Seq(Pending) /\ <<>> \in Seq(Event)
    /\ EmptyFeed \in [confirmed : Seq(Snapshot), pending : Seq(Pending)]
    /\ NoSummary \in [node : BOOLEAN, command : BOOLEAN, events : Seq(Event)]
<1>1. <<>> \in Seq(Snapshot) /\ <<>> \in Seq(Pending) /\ <<>> \in Seq(Event)
  OBVIOUS
<1> QED
  BY <1>1 DEF EmptyFeed, NoSummary

\* A message with another kind is a message, and its list a list of messages with the
\* same numbers; no failure is taken back, and only this message changes.
LEMMA KindChanges ==
    ASSUME pendingMessages \in Seq(Pending), NEW id
    PROVE  /\ WithKind("error", id) \in Seq(Pending)
           /\ Errors(pendingMessages) \subseteq Errors(WithKind("error", id))
           /\ \A message \in ToSet(WithKind("error", id)) :
                 \E old \in ToSet(pendingMessages) : old.id = message.id
<1> DEFINE m == WithKind("error", id)
           n == Len(pendingMessages)
<1>1. n \in Nat /\ DOMAIN pendingMessages = 1..n /\ \A i \in 1..n : pendingMessages[i] \in Pending
  OBVIOUS
<1>2. \A i \in 1..n : m[i] = IF pendingMessages[i].id = id
                             THEN [pendingMessages[i] EXCEPT !.kind = "error"]
                             ELSE pendingMessages[i]
  BY <1>1 DEF WithKind
<1>3. \A message \in Pending : /\ [message EXCEPT !.kind = "error"] \in Pending
                               /\ [message EXCEPT !.kind = "error"].id = message.id
                               /\ [message EXCEPT !.kind = "error"].kind = "error"
                               /\ message.kind = "error" =>
                                     [message EXCEPT !.kind = "error"] = message
  BY DEF Pending
<1>4. m = [i \in 1..n |-> m[i]]
  BY <1>1 DEF WithKind
<1> HIDE DEF m
<1>5. \A i \in 1..n : m[i] \in Pending /\ m[i].id = pendingMessages[i].id
  BY <1>1, <1>2, <1>3
<1>6. m \in Seq(Pending) /\ DOMAIN m = 1..n
  <2>1. m \in [1..n -> Pending]
    BY <1>4, <1>5
  <2>2. \A k \in Nat : \A f \in [1..k -> Pending] : f \in Seq(Pending)
    OBVIOUS
  <2> QED
    BY <1>1, <2>1, <2>2
<1>7. Errors(pendingMessages) \subseteq Errors(m)
  <2> SUFFICES ASSUME NEW i \in 1..n, pendingMessages[i].kind = "error"
               PROVE  pendingMessages[i] \in Errors(m)
    BY <1>1 DEF Errors, ToSet
  <2>1. m[i] = pendingMessages[i]
    BY <1>1, <1>2, <1>3
  <2> QED
    BY <1>6, <2>1 DEF Errors, ToSet
<1>8. \A message \in ToSet(m) : \E old \in ToSet(pendingMessages) : old.id = message.id
  BY <1>1, <1>5, <1>6 DEF ToSet
<1> QED
  BY <1>6, <1>7, <1>8 DEF m

\* What one more message adds.
LEMMA MessageAdded ==
    ASSUME pendingMessages \in Seq(Pending), NEW message \in Pending
    PROVE  /\ Append(pendingMessages, message) \in Seq(Pending)
           /\ ToSet(Append(pendingMessages, message)) = ToSet(pendingMessages) \cup {message}
<1> DEFINE m == Append(pendingMessages, message)
           n == Len(pendingMessages)
<1>1. /\ n \in Nat /\ DOMAIN pendingMessages = 1..n /\ DOMAIN m = 1..(n + 1)
      /\ m[n + 1] = message /\ \A i \in 1..n : m[i] = pendingMessages[i]
      /\ m \in Seq(Pending)
  OBVIOUS
<1> HIDE DEF m, n
<1>2. \A i \in 1..(n + 1) : i \in 1..n \/ i = n + 1
  BY <1>1
<1>3. n + 1 \in 1..(n + 1) /\ \A i \in 1..n : i \in 1..(n + 1)
  BY <1>1
<1>4. ToSet(m) \subseteq ToSet(pendingMessages) \cup {message}
  BY <1>1, <1>2, Zenon DEF ToSet
<1>5. ToSet(pendingMessages) \subseteq ToSet(m) /\ message \in ToSet(m)
  BY <1>1, <1>3 DEF ToSet
<1> QED
  BY <1>1, <1>4, <1>5 DEF m

\* What the browser has keeps its types.
LEMMA ShownNext ==
    ASSUME TypeOK, Types, Calls, [Next]_vars
    PROVE  Shown'
<1>0. Shown /\ \A r \in Slot : CallOK(refresh[r])
  BY DEF Shown, TypeOK, Types, Calls
<1>1. CASE OpenPage
  BY <1>0, <1>1 DEF OpenPage, Shown, domVars, scriptVars, netVars
<1>2. CASE PageReadsNode
  <2>1. offered \in BOOLEAN
    BY DEF TypeOK
  <2> QED
    BY <1>0, <1>2, <2>1 DEF PageReadsNode, Shown, scriptVars, netVars, Online
<1>3. CASE PageReadsTasks
  <2>1. ListTasksForNode(tasks, ThisNode, TasksShown) \in Seq(Snapshot)
    BY NewestTasks, WorkspaceAssumption DEF TypeOK, Table
  <2>2. RenderedFeed(ListTasksForNode(tasks, ThisNode, TasksShown), FeedShown) \in Seq(Snapshot)
    BY <2>1, FeedRendered
  <2>3. log' \in Seq(Snapshot) /\ feed' \in [confirmed : Seq(Snapshot), pending : Seq(Pending)]
    BY <1>3, <2>1, <2>2, NothingShown DEF PageReadsTasks
  <2> QED
    BY <1>0, <1>3, <2>3 DEF PageReadsTasks, Shown, scriptVars, netVars
<1>4. CASE PageOpens
  <2>1. ListSessionEventsForNode(Events, ThisNode, EventsShown) \in Seq(Event)
    BY EventsTyped, NewestEvents, WorkspaceAssumption
  <2> QED
    BY <1>0, <1>4, <2>1 DEF PageOpens, Shown, scriptVars, netVars
<1>5. CASE FormSubmit
  BY <1>0, <1>5, NothingShown DEF FormSubmit, Shown, scriptVars, netVars
<1>6. CASE CancelSubmit
  BY <1>0, <1>6, NothingShown DEF CancelSubmit, Shown, Settled
<1>7. CASE SubmitComposer
  <2>0. /\ sending.id + 1 \in 1..MaxSubmits /\ sending.pc = "idle"
    BY SMTT(30), <1>0, <1>7, WorkspaceAssumption DEF SubmitComposer, Shown
  <2>1. [id |-> sending.id + 1, kind |-> "pending"] \in Pending
    BY <2>0 DEF Pending
  <2>2. pendingMessages' \in Seq(Pending)
    BY <1>0, <1>7, <2>1, MessageAdded DEF SubmitComposer, Shown
  <2>3. feed' \in [confirmed : Seq(Snapshot), pending : Seq(Pending)]
    BY <1>0, <1>7, <2>2, FeedDrawn DEF SubmitComposer, Shown, Redrawn
  <2>4. sending' \in [pc : {"idle", "posting", "refreshing"}, id : 0..MaxSubmits]
    BY <1>7, <2>0 DEF SubmitComposer
  <2> QED
    BY <1>0, <1>7, <2>0, <2>2, <2>3, <2>4 DEF SubmitComposer, Shown
<1>8. ASSUME NEW id \in inbox, CreateTask(id) PROVE Shown'
  BY <1>0, <1>8 DEF CreateTask, Shown, domVars, scriptVars
<1>9. CASE Accepted
  <2>1. pendingMessages' \in Seq(Pending)
    BY <1>0, <1>9, WithoutLeaves DEF Accepted, Shown
  <2> QED
    BY <1>0, <1>9, <2>1 DEF Accepted, Shown, domVars
<1>10. CASE Rejected \/ SubmitFails
  <2>1. pendingMessages' \in Seq(Pending)
    BY <1>0, <1>10, KindChanges DEF Rejected, SubmitFails, Shown
  <2>2. feed' \in [confirmed : Seq(Snapshot), pending : Seq(Pending)]
    <3>1. feed' = Redrawn(latestTasks, pendingMessages') /\ latestTasks \in Seq(Snapshot)
      BY <1>0, <1>10 DEF Rejected, SubmitFails, Shown
    <3> QED
      BY <2>1, <3>1, FeedDrawn DEF Redrawn
  <2> QED
    BY <1>0, <1>10, <2>1, <2>2 DEF Rejected, SubmitFails, Shown, Settled, AfterRejection
<1>11. ASSUME NEW r \in Slot, ApplyNode(r) PROVE Shown'
  <2>1. summary' \in [node : BOOLEAN, command : BOOLEAN, events : Seq(Event)]
    <3>1. CASE refresh[r].got["node"] = NotOk
      BY <1>0, <1>11, <3>1 DEF ApplyNode, Shown
    <3>2. CASE refresh[r].got["node"] # NotOk
      <4>1. refresh[r].got["node"] \in BOOLEAN
        BY <1>0, <1>11, <3>2 DEF ApplyNode, CallOK, Part
      <4>2. summary' = [summary EXCEPT !.node = refresh[r].got["node"]]
        BY <1>11, <3>2 DEF ApplyNode
      <4> QED
        BY <1>0, <4>1, <4>2 DEF Shown
    <3> QED
      BY <3>1, <3>2
  <2> QED
    BY <1>0, <1>11, <2>1 DEF ApplyNode, Shown, scriptVars, netVars
<1>12. ASSUME NEW r \in Slot, ApplyEvents(r) PROVE Shown'
  <2>1. summary' \in [node : BOOLEAN, command : BOOLEAN, events : Seq(Event)]
    <3>1. CASE refresh[r].got["events"] = NotOk
      BY <1>0, <1>12, <3>1 DEF ApplyEvents, Shown
    <3>2. CASE refresh[r].got["events"] # NotOk
      <4>1. refresh[r].got["events"] \in Seq(Event)
        BY <1>0, <1>12, <3>2 DEF ApplyEvents, CallOK
      <4>2. summary' = [summary EXCEPT !.events = refresh[r].got["events"]]
        BY <1>12, <3>2 DEF ApplyEvents
      <4> QED
        BY <1>0, <4>1, <4>2 DEF Shown
    <3> QED
      BY <3>1, <3>2
  <2> QED
    BY <1>0, <1>12, <2>1 DEF ApplyEvents, Shown, scriptVars, netVars
<1>13. ASSUME NEW r \in Slot, ApplyTasks(r) PROVE Shown'
  <2> DEFINE list == refresh[r].got["tasks"]
  <2>1. /\ log' \in Seq(Snapshot) /\ latestTasks' \in Seq(Snapshot)
        /\ feed' \in [confirmed : Seq(Snapshot), pending : Seq(Pending)]
    <3>1. CASE list = NotOk
      BY <1>0, <1>13, <3>1 DEF ApplyTasks, Shown
    <3>2. CASE list # NotOk
      <4>1. list \in Seq(Snapshot)
        BY <1>0, <1>13, <3>2 DEF ApplyTasks, CallOK
      <4>2. log' = list /\ latestTasks' = list /\ feed' = Redrawn(list, pendingMessages)
        BY <1>13, <3>2 DEF ApplyTasks, Remembered
      <4> HIDE DEF list
      <4> QED
        BY <1>0, <4>1, <4>2, FeedDrawn DEF Shown, Redrawn
    <3> QED
      BY <3>1, <3>2
  <2>2. sending' \in [pc : {"idle", "posting", "refreshing"}, id : 0..MaxSubmits]
    BY <1>0, <1>13 DEF ApplyTasks, Shown, Returned, Settled
  <2> QED
    BY <1>0, <1>13, <2>1, <2>2 DEF ApplyTasks, Shown, netVars
<1>14. ASSUME NEW r \in Slot, Abandon(r) PROVE Shown'
  BY <1>0, <1>14 DEF Abandon, Abandoned, Shown, Returned, Settled, domVars, scriptVars, netVars
<1>15. CASE UNCHANGED <<page, domVars, scriptVars, sending, netVars>>
  BY <1>0, <1>15 DEF Shown, domVars, scriptVars, netVars
<1>16. TaskMoves \/ SessionChanges \/ CatalogShrinks \/ UNCHANGED vars
          => UNCHANGED <<page, domVars, scriptVars, sending, netVars>>
  BY DEF TaskMoves, SessionChanges, CatalogShrinks, vars
<1>17. \A r \in Slot : Tick(r) \/ (\E part \in Part : Serve(r, part) \/ ServeNotOk(r, part))
          => UNCHANGED <<page, domVars, scriptVars, sending, netVars>>
  BY DEF Tick, Serve, ServeNotOk
<1>18. CASE SubmitNothing
  BY <1>0, <1>18 DEF SubmitNothing, Shown, domVars, netVars
<1> QED
  BY <1>1, <1>2, <1>3, <1>4, <1>5, <1>6, <1>7, <1>8, <1>9, <1>10, <1>11, <1>12, <1>13, <1>14,
     <1>15, <1>16, <1>17, <1>18, Steps, Zenon

\* A page that is not open has no script.
LEMMA ClosedNext ==
    ASSUME TypeOK, Closed, [Next]_vars
    PROVE  Closed'
<1>0. SUFFICES ASSUME page' # "open"
               PROVE  /\ latestTasks' = <<>> /\ pendingMessages' = <<>> /\ feed'.pending = <<>>
                      /\ dialogStatus' = "none" /\ sending'.pc = "idle" /\ reply' = "none"
                      /\ \A r \in Slot : refresh'[r] = Idle
  BY DEF Closed
<1> DEFINE OK == /\ latestTasks' = <<>> /\ pendingMessages' = <<>> /\ feed'.pending = <<>>
                 /\ dialogStatus' = "none" /\ sending'.pc = "idle" /\ reply' = "none"
                 /\ \A r \in Slot : refresh'[r] = Idle
<1>1. CASE CancelSubmit
  BY <1>1 DEF CancelSubmit, EmptyFeed, Settled, TypeOK
<1>2. CASE page = "open"
  <2>1. TaskMoves \/ SessionChanges \/ CatalogShrinks \/ SubmitComposer \/ SubmitNothing
           \/ (\E id \in inbox : CreateTask(id)) \/ Accepted \/ Rejected \/ SubmitFails
           \/ UNCHANGED vars
        => page' = page
    BY DEF TaskMoves, SessionChanges, CatalogShrinks, SubmitComposer, SubmitNothing, CreateTask,
           Accepted, Rejected, SubmitFails, vars
  <2>2. \A r \in Slot : Tick(r) \/ ApplyNode(r) \/ ApplyEvents(r) \/ ApplyTasks(r) \/ Abandon(r)
           \/ (\E part \in Part : Serve(r, part) \/ ServeNotOk(r, part))
        => page' = page
    BY DEF Tick, ApplyNode, ApplyEvents, ApplyTasks, Abandon, Serve, ServeNotOk
  <2>3. ~(OpenPage \/ PageReadsNode \/ PageReadsTasks \/ PageOpens \/ FormSubmit)
    BY <1>2 DEF OpenPage, PageReadsNode, PageReadsTasks, PageOpens, FormSubmit
  <2> QED
    BY <1>0, <1>1, <1>2, <2>1, <2>2, <2>3, Steps, Zenon
<1>3. CASE page # "open"
  <2>0. /\ latestTasks = <<>> /\ pendingMessages = <<>> /\ feed.pending = <<>>
        /\ dialogStatus = "none" /\ sending.pc = "idle" /\ reply = "none"
        /\ \A r \in Slot : refresh[r] = Idle /\ refresh[r].pc = "idle"
    BY <1>3 DEF Closed, Idle
  <2>1. ~(SubmitComposer \/ SubmitNothing \/ Accepted \/ Rejected \/ SubmitFails)
    BY <1>3, <2>0 DEF SubmitComposer, SubmitNothing, Accepted, Rejected, SubmitFails
  <2>2. \A r \in Slot :
           ~(Tick(r) \/ ApplyNode(r) \/ ApplyEvents(r) \/ ApplyTasks(r) \/ Abandon(r)
             \/ (\E part \in Part : Serve(r, part) \/ ServeNotOk(r, part)))
    BY <1>3, <2>0 DEF Tick, ApplyNode, ApplyEvents, ApplyTasks, Abandon, Serve, ServeNotOk
  <2>3. CASE UNCHANGED <<domVars, scriptVars, sending, refresh, reply>>
    BY <2>0, <2>3 DEF domVars, scriptVars
  <2>4. TaskMoves \/ SessionChanges \/ CatalogShrinks \/ OpenPage \/ UNCHANGED vars
        => UNCHANGED <<domVars, scriptVars, sending, refresh, reply>>
    BY DEF TaskMoves, SessionChanges, CatalogShrinks, OpenPage, netVars, vars
  <2>5. CASE PageReadsNode
    BY <2>0, <2>5 DEF PageReadsNode, scriptVars, netVars
  <2>6. CASE PageReadsTasks
    BY <2>0, <2>6 DEF PageReadsTasks, scriptVars, netVars
  <2>7. CASE FormSubmit
    BY <2>0, <2>7 DEF FormSubmit, EmptyFeed, scriptVars, netVars
  <2>8. ASSUME NEW id \in inbox, CreateTask(id) PROVE OK
    BY <2>0, <2>8 DEF CreateTask, domVars, scriptVars
  <2>9. ~PageOpens
    BY <1>0 DEF PageOpens
  <2> QED
    BY <1>1, <2>1, <2>2, <2>3, <2>4, <2>5, <2>6, <2>7, <2>8, <2>9, Steps, Zenon
<1> QED
  BY <1>2, <1>3

\* The log and the dialogue are drawn from the same list.
LEMMA DrawnNext ==
    ASSUME TypeOK, Types, Calls, Closed, Drawn, [Next]_vars
    PROVE  Drawn'
<1>1. CASE UNCHANGED <<log, feed.confirmed, latestTasks>>
  BY <1>1 DEF Drawn
<1>2. CASE latestTasks' = <<>>
  BY <1>2 DEF Drawn
<1>3. CASE PageReadsTasks \/ FormSubmit \/ CancelSubmit
  <2>1. latestTasks' = <<>>
    BY <1>3 DEF PageReadsTasks, FormSubmit, CancelSubmit, Closed, scriptVars
  <2> QED
    BY <1>2, <2>1
<1>4. CASE SubmitComposer \/ Rejected \/ SubmitFails
  <2>1. feed'.confirmed = ScriptFeed(latestTasks, FeedShown) /\ log' = log /\ latestTasks' = latestTasks
    BY <1>4 DEF SubmitComposer, Rejected, SubmitFails, Redrawn
  <2> QED
    BY <2>1 DEF Drawn
<1>5. ASSUME NEW r \in Slot, ApplyTasks(r) PROVE Drawn'
  <2> DEFINE list == refresh[r].got["tasks"]
  <2>1. CASE list = NotOk
    BY <1>1, <1>5, <2>1 DEF ApplyTasks
  <2>2. CASE list # NotOk
    <3>1. /\ log' = list /\ latestTasks' = list
          /\ feed'.confirmed = ScriptFeed(list, FeedShown)
      BY <1>5, <2>2 DEF ApplyTasks, Remembered, Redrawn
    <3> HIDE DEF list
    <3> QED
      BY <3>1 DEF Drawn
  <2> QED
    BY <2>1, <2>2
<1>6. TaskMoves \/ SessionChanges \/ CatalogShrinks \/ OpenPage \/ PageReadsNode \/ PageOpens
         \/ (\E id \in inbox : CreateTask(id)) \/ SubmitNothing \/ Accepted \/ UNCHANGED vars
      => UNCHANGED <<log, feed, latestTasks>>
  BY DEF TaskMoves, SessionChanges, CatalogShrinks, OpenPage, PageReadsNode, PageOpens, CreateTask,
         SubmitNothing, Accepted, domVars, scriptVars, vars
<1>7. \A r \in Slot : Tick(r) \/ ApplyNode(r) \/ ApplyEvents(r) \/ Abandon(r)
         \/ (\E part \in Part : Serve(r, part) \/ ServeNotOk(r, part))
      => UNCHANGED <<log, feed, latestTasks>>
  BY DEF Tick, ApplyNode, ApplyEvents, Abandon, Abandoned, Serve, ServeNotOk, domVars, scriptVars
<1>8. UNCHANGED <<log, feed, latestTasks>> => Drawn'
  BY <1>1
<1> QED
  BY <1>3, <1>4, <1>5, <1>6, <1>7, <1>8, Steps, Zenon

\* The messages of submissions that are on their way, or have failed.
LEMMA BubblesNext ==
    ASSUME TypeOK, Types, Calls, Closed, Bubbles, [Next]_vars
    PROVE  Bubbles'
<1>0. /\ pendingMessages \in Seq(Pending) /\ sending.id \in 0..MaxSubmits
      /\ sending \in [pc : {"idle", "posting", "refreshing"}, id : 0..MaxSubmits]
      /\ sending.pc = "posting" => dialogStatus = "muted"
      /\ \A message \in ToSet(pendingMessages) : message.id <= sending.id
      /\ Errors(feed.pending) \subseteq Errors(pendingMessages)
      /\ MaxSubmits \in Nat
  BY WorkspaceAssumption DEF TypeOK, Bubbles
<1>1. ASSUME UNCHANGED <<feed.pending, pendingMessages, dialogStatus, sending>> PROVE Bubbles'
  BY <1>1 DEF Bubbles, Errors
<1>2. ToSet(<<>>) = {} /\ Errors(<<>>) = {}
  BY DEF Errors, ToSet
<1>3. CASE PageReadsTasks \/ FormSubmit
  <2>1. /\ pendingMessages' = <<>> /\ feed'.pending = <<>> /\ sending'.pc = "idle"
    BY <1>3 DEF PageReadsTasks, FormSubmit, Closed, EmptyFeed, scriptVars
  <2> QED
    BY <1>2, <2>1 DEF Bubbles
<1>4. CASE CancelSubmit
  <2>1. /\ pendingMessages' = <<>> /\ feed'.pending = <<>> /\ sending'.pc = "idle"
    BY <1>0, <1>4 DEF CancelSubmit, EmptyFeed, Settled
  <2> QED
    BY <1>2, <2>1 DEF Bubbles
<1>5. CASE SubmitComposer
  <2> DEFINE id == sending.id + 1
             new == [id |-> id, kind |-> "pending"]
  <2>1. id \in 1..MaxSubmits /\ new \in Pending
    BY <1>0, <1>5 DEF SubmitComposer, Pending
  <2>2. ToSet(pendingMessages') = ToSet(pendingMessages) \cup {new}
    BY <1>0, <1>5, <2>1, MessageAdded DEF SubmitComposer
  <2>3. /\ sending'.pc = "posting" /\ sending'.id = id /\ dialogStatus' = "muted"
        /\ feed'.pending = pendingMessages' /\ new.id = id /\ new.kind = "pending"
    BY <1>5 DEF SubmitComposer, Redrawn
  <2>4. \A message \in ToSet(pendingMessages) : message.id <= id /\ message.id # id
    <3>1. ToSet(pendingMessages) \subseteq Pending
      BY <1>0 DEF ToSet
    <3>2. \A message \in ToSet(pendingMessages) : message.id \in Int
      BY <3>1 DEF Pending
    <3> QED
      BY <1>0, <3>2
  <2> HIDE DEF new
  <2>5. id <= id
    BY <2>1
  <2> HIDE DEF id
  <2>6. \A message \in ToSet(pendingMessages') : message.id <= id
                /\ (message.id = id => message.kind = "pending")
    BY <2>2, <2>3, <2>4, <2>5
  <2> QED
    BY <2>3, <2>6 DEF Bubbles
<1>6. CASE Accepted
  <2>1. /\ ToSet(pendingMessages') \subseteq ToSet(pendingMessages)
        /\ \A message \in ToSet(pendingMessages) :
              message.id # sending.id => message \in ToSet(pendingMessages')
    BY <1>0, <1>6, WithoutLeaves DEF Accepted
  <2>2. /\ sending.pc = "posting" /\ sending'.pc = "refreshing" /\ sending'.id = sending.id
        /\ feed' = feed
    BY <1>0, <1>6 DEF Accepted, domVars
  <2>3. \A message \in ToSet(pendingMessages) : message.kind = "error" => message.id # sending.id
    BY <2>2 DEF Bubbles
  <2>4. Errors(pendingMessages) \subseteq Errors(pendingMessages')
    BY <2>1, <2>3 DEF Errors
  <2> QED
    BY <1>0, <2>1, <2>2, <2>4 DEF Bubbles
<1>7. CASE Rejected \/ SubmitFails
  <2>1. /\ sending'.pc = "idle" /\ sending'.id = sending.id
        /\ feed'.pending = pendingMessages' /\ pendingMessages' = WithKind("error", sending.id)
    BY <1>0, <1>7 DEF Rejected, SubmitFails, Redrawn, AfterRejection, Settled
  <2>2. \A message \in ToSet(pendingMessages') :
           \E old \in ToSet(pendingMessages) : old.id = message.id
    BY <1>0, <2>1, KindChanges
  <2> QED
    BY <1>0, <2>1, <2>2 DEF Bubbles
<1>8. ASSUME NEW r \in Slot, ApplyTasks(r) PROVE Bubbles'
  <2>1. /\ pendingMessages' = pendingMessages /\ dialogStatus' = dialogStatus
        /\ feed'.pending \in {feed.pending, pendingMessages}
        /\ sending' \in {sending, Settled}
    BY <1>8 DEF ApplyTasks, Returned, Redrawn
  <2>2. /\ sending'.id = sending.id /\ sending'.pc \in {sending.pc, "idle"}
    BY <1>0, <2>1 DEF Settled
  <2>3. Errors(feed'.pending) \subseteq Errors(pendingMessages)
    BY <1>0, <2>1
  <2> QED
    BY <2>1, <2>2, <2>3 DEF Bubbles
<1>9. ASSUME NEW r \in Slot, Abandon(r) PROVE Bubbles'
  <2>1. /\ pendingMessages' = pendingMessages /\ dialogStatus' = dialogStatus
        /\ feed' = feed /\ sending' \in {sending, Settled}
    BY <1>9 DEF Abandon, Abandoned, Returned, domVars, scriptVars
  <2>2. /\ sending'.id = sending.id /\ sending'.pc \in {sending.pc, "idle"}
    BY <1>0, <2>1 DEF Settled
  <2> QED
    BY <2>1, <2>2 DEF Bubbles
<1>10. TaskMoves \/ SessionChanges \/ CatalogShrinks \/ OpenPage \/ PageReadsNode \/ PageOpens
          \/ (\E id \in inbox : CreateTask(id)) \/ UNCHANGED vars
       => UNCHANGED <<feed, pendingMessages, dialogStatus, sending>>
  BY DEF TaskMoves, SessionChanges, CatalogShrinks, OpenPage, PageReadsNode, PageOpens, CreateTask,
         domVars, scriptVars, vars
<1>11. \A r \in Slot : Tick(r) \/ ApplyNode(r) \/ ApplyEvents(r)
          \/ (\E part \in Part : Serve(r, part) \/ ServeNotOk(r, part))
       => UNCHANGED <<feed, pendingMessages, dialogStatus, sending>>
  BY DEF Tick, ApplyNode, ApplyEvents, Serve, ServeNotOk, domVars, scriptVars
<1>12. UNCHANGED <<feed, pendingMessages, dialogStatus, sending>> => Bubbles'
  BY <1>1
<1>13. CASE SubmitNothing
  <2>1. /\ feed' = feed /\ pendingMessages' = pendingMessages /\ sending' = sending
        /\ sending.pc # "posting"
    BY <1>13 DEF SubmitNothing, domVars
  <2> QED
    BY <1>0, <2>1 DEF Bubbles, Errors
<1> QED
  BY <1>3, <1>4, <1>5, <1>6, <1>7, <1>8, <1>9, <1>10, <1>11, <1>12, <1>13, Steps, Zenon

\* The options of the composer do not change while the page is open, and without any
\* nothing is sent.
LEMMA OptionsNext ==
    ASSUME TypeOK, Types, Closed, Options, [Next]_vars
    PROVE  Options'
<1>0. /\ summary \in [node : BOOLEAN, command : BOOLEAN, events : Seq(Event)]
      /\ sending \in [pc : {"idle", "posting", "refreshing"}, id : 0..MaxSubmits]
  BY DEF TypeOK, Types
<1>1. CASE page' # "open"
  BY <1>1, ClosedNext DEF Closed, Options
<1> SUFFICES ASSUME page' = "open", ~summary'.command
             PROVE  dialogStatus' \in {"none", "unseen"} /\ sending'.pc = "idle"
  BY <1>1 DEF Options
<1>2. ~PageReadsNode /\ ~PageReadsTasks /\ ~OpenPage /\ ~FormSubmit /\ ~CancelSubmit
  BY DEF PageReadsNode, PageReadsTasks, OpenPage, FormSubmit, CancelSubmit
<1>3. TaskMoves \/ SessionChanges \/ CatalogShrinks \/ UNCHANGED vars
         \/ (\E id \in inbox : CreateTask(id))
      => UNCHANGED <<summary, dialogStatus, sending>>
  BY DEF TaskMoves, SessionChanges, CatalogShrinks, CreateTask, domVars, scriptVars, vars
<1>4. \A r \in Slot : Tick(r) \/ (\E part \in Part : Serve(r, part) \/ ServeNotOk(r, part))
      => UNCHANGED <<summary, dialogStatus, sending>>
  BY DEF Tick, Serve, ServeNotOk, domVars, scriptVars
<1>5. PageOpens \/ (\E r \in Slot : ApplyNode(r) \/ ApplyEvents(r))
      => /\ summary'.command = summary.command
         /\ UNCHANGED <<dialogStatus, sending>>
  <2>1. ASSUME NEW value, summary' = [summary EXCEPT !.node = value]
        PROVE  summary'.command = summary.command
    BY <1>0, <2>1
  <2>2. ASSUME NEW value, summary' = [summary EXCEPT !.events = value]
        PROVE  summary'.command = summary.command
    BY <1>0, <2>2
  <2> QED
    BY <2>1, <2>2 DEF PageOpens, ApplyNode, ApplyEvents, scriptVars
<1>6. \A r \in Slot : ApplyTasks(r) \/ Abandon(r)
      => /\ UNCHANGED <<summary, dialogStatus>>
         /\ sending' \in {sending, Settled}
  BY DEF ApplyTasks, Abandon, Abandoned, Returned, domVars, scriptVars
<1>7. Settled.pc = "idle"
  BY <1>0 DEF Settled
<1>8. SubmitComposer \/ SubmitNothing \/ Accepted \/ Rejected \/ SubmitFails
      => UNCHANGED summary
  BY DEF SubmitComposer, SubmitNothing, Accepted, Rejected, SubmitFails, domVars
<1>9. CASE ~summary.command
  <2>1. dialogStatus \in {"none", "unseen"} /\ sending.pc = "idle"
    BY <1>9 DEF Options
  <2>2. ~SubmitComposer /\ ~Accepted /\ ~Rejected /\ ~SubmitFails
    BY <1>9, <2>1 DEF SubmitComposer, Accepted, Rejected, SubmitFails
  <2>3. SubmitNothing => dialogStatus' = "unseen" /\ sending' = sending
    BY <2>1 DEF SubmitNothing
  <2>4. (UNCHANGED <<dialogStatus, sending>>) =>
           dialogStatus' \in {"none", "unseen"} /\ sending'.pc = "idle"
    BY <2>1
  <2>5. dialogStatus' = dialogStatus /\ sending' \in {sending, Settled} =>
           dialogStatus' \in {"none", "unseen"} /\ sending'.pc = "idle"
    BY <1>7, <2>1
  <2>6. dialogStatus' = "unseen" /\ sending' = sending =>
           dialogStatus' \in {"none", "unseen"} /\ sending'.pc = "idle"
    BY <2>1
  <2> QED
    BY <1>2, <1>3, <1>4, <1>5, <1>6, <2>2, <2>3, <2>4, <2>5, <2>6, Steps, Zenon
<1>10. summary'.command = summary.command
  BY <1>2, <1>3, <1>4, <1>5, <1>6, <1>8, Steps, Zenon
<1> QED
  BY <1>9, <1>10

-----------------------------------------------------------------------------
(* Theorems. *)

\* The invariant holds before the page is opened.
LEMMA Starts == Init => IInv
<1> SUFFICES ASSUME Init PROVE IInv
  OBVIOUS
<1>0. /\ ThisNode \in Node /\ Own \in Slot
      /\ {InitialTasks, MaxSubmits, MaxSteps, MaxFailures} \subseteq Nat
  BY WorkspaceAssumption
<1>1. tasks \in Seq(Task)
  <2>1. NewRow(ThisNode) \in Task /\ ClaimedRow(NewRow(ThisNode)) \in Task
    BY <1>0, NewRowFacts, RowTypes
  <2>2. tasks \in [1..InitialTasks -> Task]
    BY <2>1 DEF Init
  <2>3. \A k \in Nat : \A f \in [1..k -> Task] : f \in Seq(Task)
    OBVIOUS
  <2> QED
    BY <1>0, <2>2, <2>3
<1>2. refresh = [r \in Slot |-> Idle] /\ refresh[Own].pc = "idle"
  BY <1>0 DEF Init, Idle
<1>3. Calls
  BY <1>2, IdleCall DEF Calls
<1>4. \A r \in Slot : refresh[r].pc \in {"idle", "fetching", "events", "tasks"}
  BY <1>2 DEF Idle
<1>5. sending = [pc |-> "idle", id |-> 0] /\ sending.pc = "idle"
  BY DEF Init
<1>6. sending \in [pc : {"idle", "posting", "refreshing"}, id : 0..MaxSubmits]
  BY <1>0, <1>5
<1>7. TypeOK /\ Types
  <2>1. /\ log = <<>> /\ feed = EmptyFeed /\ summary = NoSummary
        /\ latestTasks = <<>> /\ pendingMessages = <<>>
    BY DEF Init
  <2>2. /\ feed.confirmed \in Seq(Snapshot) /\ feed.pending \in Seq(Pending)
        /\ summary.node \in BOOLEAN /\ summary.command \in BOOLEAN /\ summary.events \in Seq(Event)
    BY <2>1, NothingShown DEF EmptyFeed, NoSummary
  <2>3. /\ conns \in 0..MaxSteps /\ conns + steps <= MaxSteps
        /\ steps \in 0..MaxSteps /\ failures \in 0..MaxFailures
    BY <1>0 DEF Init
  <2>4. TypeOK
    BY <1>0, <1>1, <1>2, <1>4, <1>5, <1>6, <2>1, <2>2, <2>3, NothingShown DEF Init, TypeOK
  <2> QED
    BY <2>1, <2>3, <2>4, NothingShown DEF Types
<1>8. Closed
  BY <1>2, <1>5 DEF Init, Closed, EmptyFeed
<1>9. Drawn
  BY DEF Init, Drawn
<1>10. Bubbles
  BY <1>5 DEF Init, Bubbles, EmptyFeed, Errors, ToSet
<1>11. Options
  BY <1>5 DEF Init, Options
<1> QED
  BY <1>3, <1>7, <1>8, <1>9, <1>10, <1>11 DEF IInv

\* Every step keeps it.
LEMMA Inductive ==
    ASSUME IInv, [Next]_vars
    PROVE  IInv'
<1>1. TypeOK /\ Types /\ Calls /\ Closed /\ Drawn /\ Bubbles /\ Options
  BY DEF IInv
<1>2. Shown'
  BY <1>1, ShownNext
<1>3. /\ tasks' \in Table /\ conns' \in 0..MaxSteps /\ offered' \in BOOLEAN
      /\ steps' \in 0..MaxSteps /\ failures' \in 0..MaxFailures
      /\ conns' + steps' <= MaxSteps
  BY <1>1, ServerNext
<1>4. Calls' /\ (sending'.pc = "refreshing" <=> refresh'[Own].pc # "idle")
  BY <1>1, CallsNext
<1>5. \A r \in Slot : refresh'[r].pc \in {"idle", "fetching", "events", "tasks"}
  BY <1>4 DEF Calls, CallOK, Call
<1>6. TypeOK'
  BY <1>2, <1>3, <1>4, <1>5 DEF TypeOK, Shown, Table
<1>7. Types'
  BY <1>2, <1>3 DEF Types, Shown
<1>8. Closed' /\ Drawn' /\ Bubbles' /\ Options'
  BY <1>1, ClosedNext, DrawnNext, BubblesNext, OptionsNext
<1> QED
  BY <1>4, <1>6, <1>7, <1>8 DEF IInv

\* The invariant holds in every state.
THEOREM Invariance == Spec => []IInv
<1>1. IInv /\ [Next]_vars => IInv'
  BY Inductive
<1> QED
  BY <1>1, Starts, PTL DEF Spec

\* Rows, answers, what the page shows and what the script remembers have their types,
\* and submitComposer awaits its refresh exactly as long as that call runs.
THEOREM TypeCorrect == Spec => []TypeOK
<1>1. IInv => TypeOK
  BY DEF IInv
<1> QED
  BY <1>1, Invariance, PTL

\* The log and the dialogue show the same list, the dialogue its newest tasks in the
\* order in which they were created, whichever of refreshes and submissions drew last.
THEOREM LogAndDialogueAgree == Spec => []FeedFollowsLog
<1>1. IInv => FeedFollowsLog
  <2> SUFFICES ASSUME IInv, page = "open", latestTasks # <<>>
               PROVE  /\ log = latestTasks
                      /\ feed.confirmed = [i \in 1..Len(feed.confirmed) |->
                                              latestTasks[Len(feed.confirmed) + 1 - i]]
                      /\ Len(feed.confirmed) = Min({FeedShown, Len(latestTasks)})
    BY DEF FeedFollowsLog
  <2>1. log = latestTasks /\ feed.confirmed = ScriptFeed(latestTasks, FeedShown)
    BY DEF IInv, Drawn
  <2>2. latestTasks \in Seq(Snapshot)
    BY DEF IInv, TypeOK
  <2> QED
    BY <2>1, <2>2, FeedDrawn
<1> QED
  BY <1>1, Invariance, PTL

\* What the dialogue shows as failed it goes on showing while the page stays open,
\* whatever refreshes and later submissions draw.
THEOREM FailuresStay == Spec => FailureStaysVisible
<1>1. IInv /\ [Next]_vars
         => [page = "open" /\ page' = "open" => Errors(feed.pending) \subseteq Errors(feed.pending')]_vars
  <2> SUFFICES ASSUME IInv, [Next]_vars, page = "open", page' = "open"
               PROVE  Errors(feed.pending) \subseteq Errors(feed.pending')
    OBVIOUS
  <2>0. /\ pendingMessages \in Seq(Pending) /\ sending.id \in 0..MaxSubmits
        /\ Errors(feed.pending) \subseteq Errors(pendingMessages)
        /\ MaxSubmits \in Nat
    BY WorkspaceAssumption DEF IInv, TypeOK, Bubbles
  <2>1. CASE feed' = feed
    BY <2>1
  <2>2. CASE SubmitComposer
    <3> DEFINE new == [id |-> sending.id + 1, kind |-> "pending"]
    <3>1. new \in Pending
      BY <2>0, <2>2 DEF SubmitComposer, Pending
    <3>2. feed'.pending = Append(pendingMessages, new)
      BY <2>2 DEF SubmitComposer, Redrawn
    <3>3. ToSet(Append(pendingMessages, new)) = ToSet(pendingMessages) \cup {new}
      BY <2>0, <3>1, MessageAdded
    <3> HIDE DEF new
    <3> QED
      BY <2>0, <3>2, <3>3 DEF Errors
  <2>3. CASE Rejected \/ SubmitFails
    <3>1. feed'.pending = WithKind("error", sending.id)
      BY <2>3 DEF Rejected, SubmitFails, Redrawn
    <3>2. Errors(pendingMessages) \subseteq Errors(WithKind("error", sending.id))
      BY <2>0, KindChanges
    <3> QED
      BY <2>0, <3>1, <3>2
  <2>4. ASSUME NEW r \in Slot, ApplyTasks(r)
        PROVE  Errors(feed.pending) \subseteq Errors(feed.pending')
    <3>1. feed'.pending \in {feed.pending, pendingMessages}
      BY <2>4 DEF ApplyTasks, Redrawn
    <3> QED
      BY <2>0, <3>1
  <2>5. ~PageReadsTasks /\ ~FormSubmit /\ ~CancelSubmit
    BY DEF PageReadsTasks, FormSubmit, CancelSubmit
  <2>6. TaskMoves \/ SessionChanges \/ CatalogShrinks \/ OpenPage \/ PageReadsNode \/ PageOpens
           \/ (\E id \in inbox : CreateTask(id)) \/ SubmitNothing \/ Accepted \/ UNCHANGED vars
        => feed' = feed
    BY DEF TaskMoves, SessionChanges, CatalogShrinks, OpenPage, PageReadsNode, PageOpens, CreateTask,
           SubmitNothing, Accepted, domVars, vars
  <2>7. \A r \in Slot : Tick(r) \/ ApplyNode(r) \/ ApplyEvents(r) \/ Abandon(r)
           \/ (\E part \in Part : Serve(r, part) \/ ServeNotOk(r, part))
        => feed' = feed
    BY DEF Tick, ApplyNode, ApplyEvents, Abandon, Serve, ServeNotOk, domVars
  <2> QED
    BY <2>1, <2>2, <2>3, <2>4, <2>5, <2>6, <2>7, Steps, Zenon
<1> QED
  BY <1>1, Invariance, PTL DEF Spec, FailureStaysVisible

\* A submission that was accepted is not reported as failed afterwards.
THEOREM AcceptedStays == Spec => AcceptanceStands
<1>1. IInv /\ [Next]_vars
         => [dialogStatus = "success" => dialogStatus' \in {"success", "muted", "none"}]_vars
  <2> SUFFICES ASSUME IInv, [Next]_vars, dialogStatus = "success"
               PROVE  dialogStatus' \in {"success", "muted", "none"}
    OBVIOUS
  <2>1. sending.pc # "posting"
    BY DEF IInv, Bubbles
  <2>2. ~Rejected /\ ~SubmitFails /\ ~SubmitNothing
    BY <2>1 DEF IInv, Options, Rejected, SubmitFails, SubmitNothing
  <2>3. SubmitComposer \/ CancelSubmit \/ Accepted => dialogStatus' \in {"success", "muted", "none"}
    BY DEF SubmitComposer, CancelSubmit, Accepted
  <2>4. TaskMoves \/ SessionChanges \/ CatalogShrinks \/ OpenPage \/ PageReadsNode
           \/ PageReadsTasks \/ PageOpens \/ FormSubmit
           \/ (\E id \in inbox : CreateTask(id)) \/ UNCHANGED vars
        => dialogStatus' = dialogStatus
    BY DEF TaskMoves, SessionChanges, CatalogShrinks, OpenPage, PageReadsNode, PageReadsTasks,
           PageOpens, FormSubmit, CreateTask, scriptVars, vars
  <2>5. \A r \in Slot : Tick(r) \/ ApplyNode(r) \/ ApplyEvents(r) \/ ApplyTasks(r) \/ Abandon(r)
           \/ (\E part \in Part : Serve(r, part) \/ ServeNotOk(r, part))
        => dialogStatus' = dialogStatus
    BY DEF Tick, ApplyNode, ApplyEvents, ApplyTasks, Abandon, Abandoned, Serve, ServeNotOk, scriptVars
  <2>6. dialogStatus' = dialogStatus => dialogStatus' \in {"success", "muted", "none"}
    OBVIOUS
  <2> QED
    BY <2>2, <2>3, <2>4, <2>5, <2>6, Steps, Zenon
<1> QED
  BY <1>1, Invariance, PTL DEF Spec, AcceptanceStands
=============================================================================
